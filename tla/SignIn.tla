------------------------------- MODULE SignIn -------------------------------
(***************************************************************************)
(* Accounts, SMS one-time codes and refresh tokens: app/api/v1/auth.py and *)
(* users.py over app/services/auth_service.py and otp.py.                  *)
(*                                                                         *)
(* Requests are transactions as in module Devices.  get_db commits when    *)
(* the request's exit stack unwinds, and FastAPI does that after it has    *)
(* sent the response: a client holds its tokens before their COMMIT        *)
(* (Answer, then Commit), and the COMMIT follows even if the response never*)
(* arrived.  Statements that wait are steps of their own: a request keeps  *)
(* the locks it has while it waits for the next.  The codes live in Redis, *)
(* where every command is a step and nothing is rolled back.               *)
(*                                                                         *)
(* The module follows one phone number, which any account may claim, and   *)
(* codes that differ from each other, as those of a production deployment  *)
(* practically do.  Passwords, access tokens and push tokens are left out, *)
(* and so is is_active, which no code changes.                             *)
(***************************************************************************)
EXTENDS Integers, FiniteSets

CONSTANTS Accounts,     \* accounts, by email address
          Founders,     \* those that are registered from the start
          Tokens,       \* refresh tokens: create_refresh_token
          Codes,        \* one-time codes: _generate_code
          Requests,     \* slots for requests in flight (bounds concurrency)
          MaxAttempts,  \* settings.OTP_MAX_ATTEMPTS
          Scenarios,    \* sets of handlers: the clients of a behaviour call one set
          Crowds,       \* those where all slots are used at once (bounds concurrency)
          None          \* no account, no token, no code

Issuers == {"register", "login", "verify", "refresh"}
Handlers == Issuers \cup {"logout", "patch", "ask"}

ASSUME ScenariosAssumption == Scenarios \subseteq SUBSET Handlers
ASSUME FoundersAssumption == Founders \subseteq Accounts
ASSUME AttemptsAssumption == MaxAttempts \in Nat \ {0}
ASSUME FiniteAssumption == IsFiniteSet(Tokens) /\ IsFiniteSet(Codes) /\ IsFiniteSet(Requests)
ASSUME CodesAssumption == Codes # {}
ASSUME NoneAssumption == None \notin Accounts \cup Tokens \cup Codes

VARIABLES
  users,      \* accounts with a committed users row
  holder,     \* the account whose committed row has the phone number
  tokens,     \* the committed refresh_tokens rows
  code,       \* Redis otp:code:{phone}
  attempts,   \* Redis otp:attempts:{phone}: its value and its time to live
  cooldown,   \* whether Redis has otp:cooldown:{phone}
  req,        \* the requests in flight
  clients,    \* the handlers the clients of this behaviour call
  answered,   \* history: tokens that have reached their clients
  lost,       \* history: tokens whose response was sent, and did not arrive
  root,       \* history: the token each token descends from by refreshes
  closed,     \* history: families whose unrevoked token a logout has revoked
  raced,      \* history: families of which a refresh found its token revoked
  drawn,      \* history: codes generated so far
  wrong,      \* history: wrong numbers counted against the present code
  clean,      \* history: whether the count began at zero, undisturbed
  accepted    \* history: codes a verification has accepted

accountVars == <<users, holder>>
tokenVars == <<tokens, answered, lost, root, closed, raced>>
otpVars == <<code, attempts, cooldown, drawn, wrong, clean, accepted>>
vars == <<accountVars, tokenVars, otpVars, req, clients>>

(* The time to live of the attempts key: it was set after the present code and
   outlives it (new), or before (old), or INCR has made it without one (never). *)
Count == [n : Nat, ttl : {"new", "old", "never"}]
NoCount == [n |-> 0, ttl |-> "absent"]

Row == [user : Accounts, revoked : BOOLEAN, expired : BOOLEAN]
ASSUME NoRowAssumption == None \notin Row

(* Where a request of a handler can stand: its awaits *)
Issuing == {"issue", "answer", "commit"}
PCsOf == [none     |-> {"idle"},
          register |-> {"insert", "entry"} \cup Issuing,
          login    |-> Issuing,
          verify   |-> {"tries", "count", "drop", "burn", "holder"} \cup Issuing,
          refresh  |-> {"revoke"} \cup Issuing,
          logout   |-> {"commit"},
          patch    |-> {"clash", "write", "entry", "commit"},
          ask      |-> {"cooldown", "code", "attempts", "cool", "sms"}]
PCs == UNION {PCsOf[h] : h \in Handlers \cup {"none"}}

(***************************************************************************)
(* A request: its handler, where it stands, its account, whether it claims *)
(* the phone number, the token it presents and the one it issues, the      *)
(* number typed and the code read from Redis (for an ask: the code made).  *)
(* As history, overlap: another verification has deleted that code since.  *)
(***************************************************************************)
RequestRecord ==
  [op : Handlers \cup {"none"}, pc : PCs, account : Accounts \cup {None},
   claims : BOOLEAN, token : Tokens \cup {None}, fresh : Tokens \cup {None},
   typed : Codes \cup {None}, read : Codes \cup {None}, overlap : BOOLEAN]

Idle == [op |-> "none", pc |-> "idle", account |-> None, claims |-> FALSE,
         token |-> None, fresh |-> None, typed |-> None, read |-> None,
         overlap |-> FALSE]

TypeOK ==
  /\ users \in SUBSET Accounts
  /\ holder \in users \cup {None}
  /\ tokens \in [Tokens -> Row \cup {None}]
  /\ code \in Codes \cup {None}
  /\ attempts \in Count \cup {NoCount}
  /\ cooldown \in BOOLEAN
  /\ req \in [Requests -> RequestRecord]
  /\ \A r \in Requests : req[r].pc \in PCsOf[req[r].op]
  /\ clients \in Scenarios
  /\ answered \in SUBSET Tokens /\ lost \in SUBSET Tokens
  /\ root \in [Tokens -> Tokens \cup {None}]
  /\ closed \in SUBSET Tokens /\ raced \in SUBSET Tokens
  /\ drawn \in SUBSET Codes /\ accepted \in SUBSET Codes
  /\ wrong \in Nat
  /\ clean \in BOOLEAN

(* The founders registered so long ago that their tokens are gone; a code may
   have been sent to one of them. *)
Init ==
  /\ clients \in Scenarios
  /\ users = Founders
  /\ holder \in Founders \cup {None}
  /\ tokens = [t \in Tokens |-> None]
  /\ \/ code = None /\ drawn = {} /\ attempts = NoCount
     \/ /\ "verify" \in clients
        /\ code = (CHOOSE c \in Codes : TRUE) /\ drawn = {code}
        /\ attempts = [n |-> 0, ttl |-> "new"]
  /\ cooldown = FALSE
  /\ req = [r \in Requests |-> Idle]
  /\ answered = {} /\ lost = {}
  /\ root = [t \in Tokens |-> None]
  /\ closed = {} /\ raced = {}
  /\ accepted = {}
  /\ wrong = 0
  /\ clean = (code # None)

----------------------------------------------------------------------------
(* Requests and transactions *)

Goto(r, pc) == req' = [req EXCEPT ![r].pc = pc]

(* The handler has returned or raised, and there is nothing to commit. *)
End(r) == req' = [req EXCEPT ![r] = Idle]

Busy == {q \in Requests : req[q].pc # "idle"}

(* Slots are alike: which idle one a request takes, makes no difference.  (Bound of
   the model: two at a time, but in crowds.) *)
Arrive(r, handler) ==
  /\ handler \in clients
  /\ clients \in Crowds \/ Cardinality(Busy) < 2
  /\ req[r].pc = "idle" /\ r = CHOOSE q \in Requests : req[q].pc = "idle"

Unused(t) == root[t] = None

(* Values that have not been used: which ones, makes no difference. *)
NewToken == CHOOSE t \in Tokens : Unused(t)
NewCode == CHOOSE c \in Codes : c \notin drawn

(* Bound of the model: the code never runs out of tokens or codes.  Those who sign in
   leave a token for a refresh. *)
TokensLeft(n) ==
  Cardinality({q \in Requests : req[q].op \in Issuers /\ req[q].fresh = None}) + n
    <= Cardinality({t \in Tokens : Unused(t)})

CodeLeft == Cardinality({q \in Requests : req[q].pc \in {"cooldown", "code"}})
              < Cardinality(Codes \ drawn)

(* r holds the row lock of the token it presents: an UPDATE flushed. *)
LocksToken(r, t) == req[r].op = "refresh" /\ req[r].pc \in Issuing /\ req[r].token = t

(* r has inserted or changed the users row of an account.  An indexed column has
   changed: the row is locked against foreign keys, too. *)
WritesRow(r, a) ==
  /\ req[r].account = a
  /\ \/ req[r].op = "register" /\ req[r].pc \in {"entry"} \cup Issuing
     \/ req[r].op = "patch" /\ req[r].pc \in {"entry", "commit"}

(* r has inserted a refresh token of an account: its foreign key shares the row. *)
SharesRow(r, a) ==
  req[r].account = a /\ req[r].op \in Issuers /\ req[r].pc \in {"answer", "commit"}

(* r has entered the phone number in the unique index. *)
Claims(r) ==
  /\ req[r].claims
  /\ \/ req[r].op = "register" /\ req[r].pc \in Issuing
     \/ req[r].op = "patch" /\ req[r].pc = "commit"

(* r has entered it, or changed the row that has it: whoever claims it, waits. *)
WritesPhone(r) ==
  Claims(r) \/ (holder # None /\ req[r].op = "patch" /\ WritesRow(r, holder))

----------------------------------------------------------------------------
(* Accounts: POST /auth/register, PATCH /users/me *)

(* 409 when the email address or the phone number is taken *)
ReceiveRegister(r) ==
  /\ Arrive(r, "register") /\ TokensLeft(2)
  /\ \E a \in Accounts \ users, claims \in BOOLEAN :
       /\ claims => holder = None
       /\ req' = [req EXCEPT ![r] = [Idle EXCEPT !.op = "register", !.pc = "insert",
                                       !.account = a, !.claims = claims]]
  /\ UNCHANGED <<accountVars, tokenVars, otpVars, clients>>

(* Nobody has written the row that r inserts, changes or refers to. *)
RowUnwritten(r) == \A q \in Requests \ {r} : ~WritesRow(q, req[r].account)

(* INSERT: the unique index on email comes first, and is held while the INSERT waits
   for the one on phone.  A committed row with the address is an IntegrityError. *)
InsertUser(r) ==
  /\ req[r].pc = "insert"
  /\ RowUnwritten(r)
  /\ IF req[r].account \in users THEN End(r)
     ELSE Goto(r, IF req[r].claims THEN "entry" ELSE "issue")
  /\ UNCHANGED <<accountVars, tokenVars, otpVars, clients>>

AfterEntry(r) == IF req[r].op = "register" THEN "issue" ELSE "commit"

(* Fault: the clash is checked, and the index on phone is not unique. *)
EnterUnchecked(r) ==
  /\ req[r].pc = "entry"
  /\ Goto(r, AfterEntry(r))
  /\ UNCHANGED <<accountVars, tokenVars, otpVars, clients>>

(* The unique index on phone: the INSERT or UPDATE has written its row, and waits for
   every transaction that has written the number.  A committed one is an error. *)
EnterPhone(r) ==
  /\ req[r].pc = "entry"
  /\ \A q \in Requests \ {r} : ~WritesPhone(q)
  /\ IF holder \notin {None, req[r].account} THEN End(r) ELSE Goto(r, AfterEntry(r))
  /\ UNCHANGED <<accountVars, tokenVars, otpVars, clients>>

(* get_current_user: whoever has an access token and still has a row *)
CurrentUsers == users

(* The number claimed, or given up for another one, differs from that of the row
   loaded.  Only a claim can clash. *)
ReceivePatch(r) ==
  /\ Arrive(r, "patch")
  /\ \E a \in CurrentUsers :
       req' = [req EXCEPT ![r] =
                 [Idle EXCEPT !.op = "patch", !.account = a, !.claims = (holder # a),
                              !.pc = IF holder # a THEN "clash" ELSE "write"]]
  /\ UNCHANGED <<accountVars, tokenVars, otpVars, clients>>

CheckClash(r) ==
  /\ req[r].pc = "clash"
  /\ IF holder \in {None, req[r].account} THEN Goto(r, "write") ELSE End(r)
  /\ UNCHANGED <<accountVars, tokenVars, otpVars, clients>>

(* UPDATE users: the row lock, against other changes and the foreign keys of refresh
   tokens that are being inserted *)
WritePhone(r) ==
  /\ req[r].pc = "write"
  /\ RowUnwritten(r)
  /\ \A q \in Requests \ {r} : ~SharesRow(q, req[r].account)
  /\ Goto(r, IF req[r].claims THEN "entry" ELSE "commit")
  /\ UNCHANGED <<accountVars, tokenVars, otpVars, clients>>

(* The row may have lost the number by now, to an earlier patch. *)
CommitPatch(r) ==
  /\ req[r].op = "patch" /\ req[r].pc = "commit"
  /\ holder' = IF req[r].claims THEN req[r].account
               ELSE IF holder = req[r].account THEN None ELSE holder
  /\ End(r)
  /\ UNCHANGED <<users, tokenVars, otpVars, clients>>

----------------------------------------------------------------------------
(* Tokens: issue_token_pair, for POST /auth/register, /login, /otp/verify and
   /refresh, and POST /auth/logout *)

ReceiveLogin(r) ==
  /\ Arrive(r, "login") /\ TokensLeft(2)
  /\ \E a \in users :
       req' = [req EXCEPT ![r] = [Idle EXCEPT !.op = "login", !.pc = "issue",
                                               !.account = a]]
  /\ UNCHANGED <<accountVars, tokenVars, otpVars, clients>>

IsValid(row) == row # None /\ ~row.revoked /\ ~row.expired

(* The row is read once; a client presents a token it has been sent. *)
ReceiveRefresh(r) ==
  /\ Arrive(r, "refresh") /\ TokensLeft(1)
  /\ \E t \in answered :
       /\ IsValid(tokens[t])
       /\ req' = [req EXCEPT ![r] = [Idle EXCEPT !.op = "refresh", !.pc = "revoke",
                                       !.account = tokens[t].user, !.token = t]]
  /\ UNCHANGED <<accountVars, tokenVars, otpVars, clients>>

ReceiveLogout(r) ==
  /\ Arrive(r, "logout")
  /\ \E t \in answered :
       /\ tokens[t] # None /\ ~tokens[t].revoked
       /\ req' = [req EXCEPT ![r] = [Idle EXCEPT !.op = "logout", !.pc = "commit",
                                       !.token = t]]
  /\ UNCHANGED <<accountVars, tokenVars, otpVars, clients>>

(* Fault: the SELECT of a refresh locks the row FOR SHARE, and its UPDATE waits for
   whoever else has read the row. *)
TokenFreeOfReaders(r) ==
  \A q \in Requests \ {r} : req[q].token # None => req[q].token # req[r].token

(* No refresh in flight has revoked the token that r is about to revoke. *)
TokenFree(r) == \A q \in Requests \ {r} : ~LocksToken(q, req[r].token)

(* Fault: the revocation is committed on its own. *)
RevokeCommitted(r) ==
  /\ req[r].pc = "revoke"
  /\ TokenFree(r)
  /\ tokens' = [tokens EXCEPT ![req[r].token].revoked = TRUE]
  /\ Goto(r, "issue")
  /\ UNCHANGED <<accountVars, otpVars, answered, lost, root, closed, raced, clients>>

(* store_refresh_token's flush sends the UPDATE first, that revokes the token
   presented, whether or not it has been revoked meanwhile.  Its row lock is held. *)
Revoke(r) ==
  /\ req[r].pc = "revoke"
  /\ TokenFree(r)
  /\ Goto(r, "issue")
  /\ UNCHANGED <<accountVars, tokenVars, otpVars, clients>>

(* The family of the token that r issues *)
RootOf(r) == IF req[r].token = None THEN NewToken ELSE root[req[r].token]

(* The flush's INSERT: its foreign key waits for a change of the users row. *)
Issue(r) ==
  /\ req[r].pc = "issue"
  /\ RowUnwritten(r)
  /\ req' = [req EXCEPT ![r].pc = "answer", ![r].fresh = NewToken]
  /\ root' = [root EXCEPT ![NewToken] = RootOf(r)]
  /\ UNCHANGED <<accountVars, otpVars, tokens, answered, lost, closed, raced, clients>>

(* The response leaves while the transaction is still open.  It reaches the client or
   not: the exit stack unwinds all the same.  (Bound of the model: answers are lost
   only where clients log out, too.) *)
Answer(r) ==
  /\ req[r].pc = "answer"
  /\ \/ answered' = answered \cup {req[r].fresh} /\ UNCHANGED lost
     \/ /\ "logout" \in clients
        /\ lost' = lost \cup {req[r].fresh} /\ UNCHANGED answered
  /\ Goto(r, "commit")
  /\ UNCHANGED <<accountVars, otpVars, tokens, root, closed, raced, clients>>

NewRow(r) == [user |-> req[r].account, revoked |-> FALSE, expired |-> FALSE]

(* Fault: a refresh that keeps the token presented *)
StoredUnrotated(r) == [tokens EXCEPT ![req[r].fresh] = NewRow(r)]

(* The token rows as r leaves them *)
Stored(r) == [t \in Tokens |-> IF t = req[r].fresh THEN NewRow(r)
                              ELSE IF t = req[r].token
                                   THEN [tokens[t] EXCEPT !.revoked = TRUE]
                                   ELSE tokens[t]]

CommitIssue(r) ==
  /\ req[r].op \in Issuers /\ req[r].pc = "commit"
  /\ tokens' = Stored(r)
  /\ IF req[r].op = "register"
     THEN /\ users' = users \cup {req[r].account}
          /\ holder' = IF req[r].claims THEN req[r].account ELSE holder
     ELSE UNCHANGED accountVars
  /\ raced' = IF req[r].op = "refresh" /\ tokens[req[r].token].revoked
              THEN raced \cup {root[req[r].token]} ELSE raced
  /\ End(r)
  /\ UNCHANGED <<otpVars, answered, lost, root, closed, clients>>

(* UPDATE ... SET revoked, and COMMIT *)
CommitLogout(r) ==
  /\ req[r].op = "logout" /\ req[r].pc = "commit"
  /\ TokenFree(r)
  /\ tokens' = [tokens EXCEPT ![req[r].token].revoked = TRUE]
  /\ closed' = IF tokens[req[r].token].revoked THEN closed
               ELSE closed \cup {root[req[r].token]}
  /\ End(r)
  /\ UNCHANGED <<accountVars, otpVars, answered, lost, root, raced, clients>>

(* expires_at has passed.  (Bound of the model: only where clients log out, too.) *)
ExpireToken(t) ==
  /\ "logout" \in clients
  /\ IsValid(tokens[t])
  /\ tokens' = [tokens EXCEPT ![t].expired = TRUE]
  /\ UNCHANGED <<accountVars, otpVars, answered, lost, root, closed, raced, req, clients>>

----------------------------------------------------------------------------
(* One-time codes: POST /auth/otp/request, over issue_code and send_sms *)

(* The SELECT by phone: an unknown number is accepted, and nothing happens. *)
ReceiveAsk(r) ==
  /\ Arrive(r, "ask") /\ CodeLeft
  /\ holder # None
  /\ req' = [req EXCEPT ![r] = [Idle EXCEPT !.op = "ask", !.pc = "cooldown"]]
  /\ UNCHANGED <<accountVars, tokenVars, otpVars, clients>>

(* OTPCooldownError is swallowed. *)
CheckCooldown(r) ==
  /\ req[r].pc = "cooldown"
  /\ IF cooldown THEN End(r) ELSE Goto(r, "code")
  /\ UNCHANGED <<accountVars, tokenVars, otpVars, clients>>

(* It replaces a code that is pending, whose attempts key was set before. *)
SetCode(r) ==
  /\ req[r].pc = "code"
  /\ code' = NewCode
  /\ drawn' = drawn \cup {NewCode}
  /\ req' = [req EXCEPT ![r].pc = "attempts", ![r].read = NewCode]
  /\ attempts' = IF attempts.ttl = "new" THEN [attempts EXCEPT !.ttl = "old"] ELSE attempts
  /\ wrong' = 0 /\ clean' = FALSE
  /\ UNCHANGED <<accountVars, tokenVars, cooldown, accepted, clients>>

(* r is inside verify_code. *)
Checking(r) == req[r].pc \in {"tries", "count", "drop", "burn"}

(* No verification is about to disturb the count of the code that r has set. *)
Undisturbed(r) ==
  /\ code = req[r].read /\ wrong = 0
  /\ \A q \in Requests : ~Checking(q)

SetAttempts(r) ==
  /\ req[r].pc = "attempts"
  /\ attempts' = [n |-> 0, ttl |-> "new"]
  /\ clean' = Undisturbed(r)
  /\ Goto(r, "cool")
  /\ UNCHANGED <<accountVars, tokenVars, code, cooldown, drawn, wrong, accepted, clients>>

SetCooldown(r) ==
  /\ req[r].pc = "cool"
  /\ cooldown' = TRUE
  /\ Goto(r, "sms")
  /\ UNCHANGED <<accountVars, tokenVars, code, attempts, drawn, wrong, clean, accepted,
                 clients>>

(* Delivered or not (502), nothing is undone. *)
SendSms(r) ==
  /\ req[r].pc = "sms"
  /\ End(r)
  /\ UNCHANGED <<accountVars, tokenVars, otpVars, clients>>

----------------------------------------------------------------------------
(* POST /auth/otp/verify, over verify_code *)

(* GET code: the client types any number, and without a code it is False. *)
ReceiveVerify(r) ==
  /\ Arrive(r, "verify") /\ TokensLeft(2)
  /\ code # None
  /\ \E c \in Codes :
       req' = [req EXCEPT ![r] = [Idle EXCEPT !.op = "verify", !.pc = "tries",
                                               !.typed = c, !.read = code]]
  /\ UNCHANGED <<accountVars, tokenVars, otpVars, clients>>

(* Faults: a limit that is one too low, and a limit that only a counted try meets *)
ReadTriesEarly(r) ==
  /\ req[r].pc = "tries"
  /\ Goto(r, IF attempts.n >= MaxAttempts - 1 THEN "drop"
             ELSE IF req[r].typed = req[r].read THEN "burn" ELSE "count")
  /\ UNCHANGED <<accountVars, tokenVars, otpVars, clients>>

ReadTriesUnlimited(r) ==
  /\ req[r].pc = "tries"
  /\ Goto(r, IF req[r].typed = req[r].read THEN "burn" ELSE "count")
  /\ UNCHANGED <<accountVars, tokenVars, otpVars, clients>>

(* GET attempts (0 without the key), then the comparison with the code read *)
ReadTries(r) ==
  /\ req[r].pc = "tries"
  /\ Goto(r, IF attempts.n >= MaxAttempts THEN "drop"
             ELSE IF req[r].typed = req[r].read THEN "burn" ELSE "count")
  /\ UNCHANGED <<accountVars, tokenVars, otpVars, clients>>

(* INCR makes the key when it is missing, without a time to live. *)
CountTry(r) ==
  /\ req[r].pc = "count"
  /\ attempts' = [n |-> attempts.n + 1,
                  ttl |-> IF attempts.ttl = "absent" THEN "never" ELSE attempts.ttl]
  /\ wrong' = IF code = req[r].read THEN wrong + 1 ELSE wrong
  /\ IF attempts'.n >= MaxAttempts THEN Goto(r, "drop") ELSE End(r)
  /\ UNCHANGED <<accountVars, tokenVars, code, cooldown, drawn, clean, accepted, clients>>

(* DEL of both keys, whatever code they belong to by now *)
Delete == code' = None /\ attempts' = NoCount

DropCode(r) ==
  /\ req[r].pc = "drop"
  /\ Delete
  /\ End(r)
  /\ UNCHANGED <<accountVars, tokenVars, cooldown, drawn, wrong, clean, accepted, clients>>

(* As history, the other verifications of the code note that r was first. *)
Accept(r) ==
  req' = [q \in Requests |->
            IF q = r THEN [req[q] EXCEPT !.pc = "holder"]
            ELSE IF Checking(q) /\ req[q].read = req[r].read
                 THEN [req[q] EXCEPT !.overlap = TRUE]
                 ELSE req[q]]

(* Fault: an accepted code is not deleted. *)
KeepCode(r) ==
  /\ req[r].pc = "burn"
  /\ accepted' = accepted \cup {req[r].read}
  /\ Accept(r)
  /\ UNCHANGED <<accountVars, tokenVars, code, attempts, cooldown, drawn, wrong, clean,
                 clients>>

BurnCode(r) ==
  /\ req[r].pc = "burn"
  /\ Delete
  /\ accepted' = accepted \cup {req[r].read}
  /\ Accept(r)
  /\ UNCHANGED <<accountVars, tokenVars, cooldown, drawn, wrong, clean, clients>>

(* Fault: nobody may have the number any more. *)
FindHolderUnchecked(r) ==
  /\ req[r].pc = "holder"
  /\ req' = [req EXCEPT ![r].pc = "issue", ![r].account = holder]
  /\ UNCHANGED <<accountVars, tokenVars, otpVars, clients>>

(* The SELECT by phone: 401 if nobody has the number any more *)
FindHolder(r) ==
  /\ req[r].pc = "holder"
  /\ IF holder = None
     THEN End(r)
     ELSE req' = [req EXCEPT ![r].pc = "issue", ![r].account = holder]
  /\ UNCHANGED <<accountVars, tokenVars, otpVars, clients>>

(* Redis drops keys whose time is over.  The attempts key that is set after its
   code outlives it.  (Bound of the model: of interest to verifications only.) *)
ExpireCode ==
  /\ "verify" \in clients
  /\ code # None
  /\ code' = None
  /\ UNCHANGED <<accountVars, tokenVars, attempts, cooldown, drawn, wrong, clean, accepted,
                 req, clients>>

ExpireAttempts ==
  /\ "verify" \in clients
  /\ attempts.ttl = "old" \/ (attempts.ttl = "new" /\ code = None)
  /\ attempts' = NoCount
  /\ UNCHANGED <<accountVars, tokenVars, code, cooldown, drawn, wrong, clean, accepted,
                 req, clients>>

ExpireCooldown ==
  /\ cooldown
  /\ cooldown' = FALSE
  /\ UNCHANGED <<accountVars, tokenVars, code, attempts, drawn, wrong, clean, accepted,
                 req, clients>>

----------------------------------------------------------------------------
(* Specification *)

Receive(r) == \/ ReceiveRegister(r)
              \/ ReceivePatch(r)
              \/ ReceiveLogin(r)
              \/ ReceiveRefresh(r)
              \/ ReceiveLogout(r)
              \/ ReceiveAsk(r)
              \/ ReceiveVerify(r)

Continue(r) ==
  /\ req[r].pc # "idle"
  /\ \/ InsertUser(r)
     \/ CheckClash(r)
     \/ WritePhone(r)
     \/ EnterPhone(r)
     \/ CommitPatch(r)
     \/ Revoke(r)
     \/ Issue(r)
     \/ Answer(r)
     \/ CommitIssue(r)
     \/ CommitLogout(r)
     \/ CheckCooldown(r)
     \/ SetCode(r)
     \/ SetAttempts(r)
     \/ SetCooldown(r)
     \/ SendSms(r)
     \/ ReadTries(r)
     \/ CountTry(r)
     \/ DropCode(r)
     \/ BurnCode(r)
     \/ FindHolder(r)

(* The process dies, or PostgreSQL, Redis or the SMS provider fails: the transaction
   is rolled back, even if the client has been answered, and Redis keeps what was
   written. *)
Abort(r) ==
  /\ req[r].pc # "idle"
  /\ End(r)
  /\ UNCHANGED <<accountVars, tokenVars, otpVars, clients>>

Next ==
  \/ \E t \in Tokens : ExpireToken(t)
  \/ ExpireCode \/ ExpireAttempts \/ ExpireCooldown
  \/ \E r \in Requests : Receive(r) \/ Continue(r) \/ Abort(r)

Spec == Init /\ [][Next]_vars

(* As in module Devices: a coroutine whose await is over is resumed, and a
   statement that waits for a lock is not overtaken by new rivals for ever. *)
FairSpec == Spec /\ \A r \in Requests : SF_vars(Continue(r))

----------------------------------------------------------------------------
(* Properties *)

Family(f) == {t \in Tokens : tokens[t] # None /\ root[t] = f}

(* Rotation neither forks a session nor loses it: one token of a family that a
   client has kept refreshing is unrevoked, and none once a logout has revoked
   it, unless a refresh committed after its token had been revoked (auth.py,
   refresh: the validity is checked before the row is locked). *)
SessionKeepsOneToken ==
  \A f \in Tokens \ raced :
    Family(f) # {} =>
      Cardinality({t \in Family(f) : ~tokens[t].revoked}) = IF f \in closed THEN 0 ELSE 1

(* Whose session goes on?  A client that has not logged out, and has not raced itself,
   has been sent the unrevoked token of its session, whatever crashes between two
   statements, between the answer and the COMMIT, or before: it is locked out exactly
   when an answer of that session was lost, as the COMMIT does not wait for the client
   (auth.py, refresh; db/session.py, get_db). *)
LockedOutOnlyByLostAnswer ==
  \A f \in Tokens \ (raced \cup closed) :
    Family(f) # {} =>
      ((\E t \in Family(f) \cap answered : ~tokens[t].revoked) <=> Family(f) \cap lost = {})

(* A code signs in once; twice only when two verifications of it overlap
   (otp.py, verify_code: GET, comparison and DEL are separate commands). *)
AcceptedTwiceOnlyByRace ==
  \A r \in Requests :
    (req[r].pc = "burn" /\ req[r].read \in accepted) => req[r].overlap

(* Wrong numbers are counted: a code that was set undisturbed is never tried
   more often than the limit and the verifications in flight allow. *)
TriesBounded ==
  clean /\ code # None =>
    /\ attempts.n = wrong
    /\ wrong < MaxAttempts + Cardinality(Requests)

(* Nobody burns the code of another by fewer wrong numbers: a code that was set
   undisturbed goes when it is accepted, tried too often or too old. *)
BurnedOnlyWhenTried ==
  [][ code # None /\ code' = None /\ clean =>
        code \in accepted' \/ wrong >= MaxAttempts \/ ExpireCode ]_vars

(* A phone number passes from one account to another only through its holder's
   giving it up, although the clash is checked before the UPDATE (users.py). *)
PhoneNeverTakenOver ==
  [][ holder # None /\ holder' # holder => holder' = None ]_vars

(* Every request ends, whichever row locks and index entries it waits for. *)
RequestsEnd ==
  \A r \in Requests : req[r].pc # "idle" ~> req[r].pc = "idle"

=============================================================================
