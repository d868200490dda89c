---------------------------- MODULE SignInProofs ----------------------------
(* Proofs about SignIn, for any accounts, tokens, codes, limits and request *)
(* slots, and any handlers.                                                  *)
EXTENDS SignIn, FiniteSetTheorems, TLAPS

(***************************************************************************)
(* The inductive invariant                                                 *)
(***************************************************************************)

(* The account of a request has a row when it is patched, and is known to those who
   register or issue tokens. *)
AccountsKnown ==
  \A r \in Requests :
    /\ req[r].op = "patch" => req[r].account \in users
    /\ req[r].op \in Issuers /\ req[r].pc \in {"insert", "entry", "revoke"} \cup Issuing =>
         req[r].account \in Accounts

(* Nobody else has the number, or can take it, when a claim has been entered. *)
ClaimsExclude ==
  /\ \A r \in Requests : Claims(r) => holder \in {None, req[r].account}
  /\ \A q, r \in Requests : Claims(q) /\ Claims(r) => q = r

(* r has inserted or changed the users row of its account. *)
Registers(r) == req[r].op = "register" /\ req[r].pc \in {"entry"} \cup Issuing
Writes(r) == Registers(r) \/ (req[r].op = "patch" /\ req[r].pc \in {"entry", "commit"})

(* One request at a time writes a row, and the row it inserts is new. *)
RowsExclude ==
  /\ \A r \in Requests : Registers(r) => req[r].account \notin users
  /\ \A q, r \in Requests :
       Writes(q) /\ Writes(r) /\ req[q].account = req[r].account => q = r

(* The token a request presents is stored, and its client has it.  The one it issues is
   not stored until its COMMIT, is nobody else's, descends from the one presented, and
   has been sent when the COMMIT comes, not before its answer. *)
TokensInHand ==
  /\ \A r \in Requests :
       /\ IF req[r].op \in {"refresh", "logout"}
          THEN req[r].token \in answered /\ tokens[req[r].token] # None
          ELSE req[r].token = None
       /\ req[r].fresh # None <=> req[r].op \in Issuers /\ req[r].pc \in {"answer", "commit"}
       /\ req[r].fresh # None =>
            /\ tokens[req[r].fresh] = None
            /\ root[req[r].fresh] = IF req[r].token = None THEN req[r].fresh
                                    ELSE root[req[r].token]
            /\ req[r].fresh \in answered \cup lost <=> req[r].pc = "commit"
  /\ \A q, r \in Requests : req[q].fresh = req[r].fresh /\ req[r].fresh # None => q = r

(* A family is founded by a token that is stored. *)
Rooted ==
  /\ \A t \in Tokens : tokens[t] # None =>
       root[t] \in Tokens /\ tokens[root[t]] # None /\ root[root[t]] = root[t]
  /\ \A t \in answered \cup lost : root[t] # None
  /\ \A f \in closed : tokens[f] # None

Unrevoked(f) == {t \in Family(f) : ~tokens[t].revoked}

(* A token that is stored has been sent; one that did not arrive is never presented. *)
Sent ==
  /\ \A t \in Tokens : tokens[t] # None => t \in answered \cup lost
  /\ \A t \in lost : t \notin answered /\ (tokens[t] # None => ~tokens[t].revoked)

(* SessionKeepsOneToken, without counting *)
OneUnrevoked ==
  \A f \in Tokens \ raced :
    Family(f) # {} => IF f \in closed THEN Unrevoked(f) = {}
                      ELSE \E t \in Tokens : Unrevoked(f) = {t}

(* A code is in Redis until it is accepted; verifications that read it before know
   of each other. *)
CodesAccepted ==
  /\ code # None => code \in drawn \ accepted
  /\ accepted \subseteq drawn
  /\ \A r \in Requests :
       Checking(r) => req[r].read \in drawn /\ (req[r].read \in accepted => req[r].overlap)

Counting == {r \in Requests : req[r].pc = "count"}

(* The count of a code that was set undisturbed: all who check a code check this
   one, and those who have found less than the limit may still count. *)
CountIsRight ==
  clean /\ code # None =>
    /\ attempts.n = wrong /\ attempts.ttl = "new"
    /\ \A r \in Requests : Checking(r) => req[r].read = code
    /\ \A r \in Requests : req[r].pc = "drop" => wrong >= MaxAttempts
    /\ wrong + Cardinality(Counting) < MaxAttempts + Cardinality(Requests)

(* Requests that will draw a token or a code find one. *)
Drawing == {r \in Requests : req[r].op \in Issuers /\ req[r].fresh = None}
Asking == {r \in Requests : req[r].pc \in {"cooldown", "code"}}
TokensSuffice == Cardinality(Drawing) <= Cardinality({t \in Tokens : Unused(t)})
CodesSuffice == Cardinality(Asking) <= Cardinality(Codes \ drawn)

Inv == /\ TypeOK
       /\ AccountsKnown /\ ClaimsExclude /\ RowsExclude
       /\ TokensInHand /\ Rooted /\ Sent /\ OneUnrevoked
       /\ CodesAccepted /\ CountIsRight
       /\ TokensSuffice /\ CodesSuffice

----------------------------------------------------------------------------
(* Requests *)

RequestsOK == /\ req \in [Requests -> RequestRecord]
              /\ \A r \in Requests : req[r].pc \in PCsOf[req[r].op]

LEMMA InvRequests == Inv => RequestsOK
BY DEF Inv, TypeOK, RequestsOK

(* What the place of a request says of its handler *)
LEMMA Places ==
  ASSUME RequestsOK, NEW r \in Requests
  PROVE  /\ req[r].pc = "idle" <=> req[r].op = "none"
         /\ req[r].pc = "insert" => req[r].op = "register"
         /\ req[r].pc = "entry" => req[r].op \in {"register", "patch"}
         /\ req[r].pc \in {"clash", "write"} => req[r].op = "patch"
         /\ req[r].pc = "revoke" => req[r].op = "refresh"
         /\ req[r].pc \in {"issue", "answer"} => req[r].op \in Issuers
         /\ req[r].pc = "commit" => req[r].op \in Issuers \cup {"logout", "patch"}
         /\ req[r].op = "logout" => req[r].pc = "commit"
         /\ req[r].pc \in {"cooldown", "code", "attempts", "cool", "sms"} => req[r].op = "ask"
         /\ req[r].pc \in {"tries", "count", "drop", "burn", "holder"} => req[r].op = "verify"
<1>1. req[r].op \in Handlers \cup {"none"} /\ req[r].pc \in PCsOf[req[r].op]
  BY DEF RequestsOK, RequestRecord
<1>2. CASE req[r].op = "none"
  BY <1>1, <1>2 DEF PCsOf, Issuers
<1>3. CASE req[r].op = "register"
  BY <1>1, <1>3 DEF PCsOf, Issuing, Issuers
<1>4. CASE req[r].op \in {"login", "refresh"}
  BY <1>1, <1>4 DEF PCsOf, Issuing, Issuers
<1>5. CASE req[r].op = "verify"
  BY <1>1, <1>5 DEF PCsOf, Issuing, Issuers
<1>6. CASE req[r].op \in {"logout", "patch"}
  BY <1>1, <1>6 DEF PCsOf, Issuers
<1>7. CASE req[r].op = "ask"
  BY <1>1, <1>7 DEF PCsOf, Issuers
<1> QED BY <1>1, <1>2, <1>3, <1>4, <1>5, <1>6, <1>7 DEF Handlers, Issuers

LEMMA PlacesOf ==
  /\ "idle" \in PCsOf["none"]
  /\ "insert" \in PCsOf["register"] /\ "entry" \in PCsOf["register"]
  /\ "revoke" \in PCsOf["refresh"]
  /\ \A h \in Issuers : Issuing \subseteq PCsOf[h]
  /\ {"tries", "count", "drop", "burn", "holder"} \subseteq PCsOf["verify"]
  /\ "commit" \in PCsOf["logout"]
  /\ {"clash", "write", "entry", "commit"} \subseteq PCsOf["patch"]
  /\ {"cooldown", "code", "attempts", "cool", "sms"} \subseteq PCsOf["ask"]
BY DEF PCsOf, Issuing, Issuers

LEMMA PlacesAreKnown ==
  ASSUME NEW h \in Handlers \cup {"none"}, NEW pc \in PCsOf[h]
  PROVE  pc \in PCs
BY DEF PCs

LEMMA IdleOK ==
  /\ Idle \in RequestRecord /\ Idle.op = "none" /\ Idle.pc = "idle" /\ Idle.fresh = None
  /\ Idle.token = None /\ Idle.pc \in PCsOf[Idle.op]
<1>1. "idle" \in PCs
  BY PlacesOf, PlacesAreKnown
<1> QED BY <1>1, PlacesOf DEF Idle, RequestRecord

(* What a step leaves of another request: everything but its history *)
Kept(q) == /\ req'[q].op = req[q].op /\ req'[q].pc = req[q].pc
           /\ req'[q].account = req[q].account /\ req'[q].claims = req[q].claims
           /\ req'[q].token = req[q].token /\ req'[q].fresh = req[q].fresh
           /\ req'[q].typed = req[q].typed /\ req'[q].read = req[q].read

(* A step that gives r a new record, and leaves the others theirs *)
Replaces(r, x) ==
  /\ RequestsOK'
  /\ req'[r] = x
  /\ \A q \in Requests \ {r} : req'[q] = req[q]

LEMMA ReplaceOK ==
  ASSUME RequestsOK, NEW r \in Requests, NEW x \in RequestRecord, x.pc \in PCsOf[x.op],
         req' = [req EXCEPT ![r] = x]
  PROVE  Replaces(r, x)
BY DEF RequestsOK, Replaces

LEMMA EndOK ==
  ASSUME RequestsOK, NEW r \in Requests, End(r)
  PROVE  Replaces(r, Idle)
BY IdleOK, ReplaceOK DEF End

LEMMA GotoOK ==
  ASSUME RequestsOK, NEW r \in Requests, NEW pc \in PCsOf[req[r].op], Goto(r, pc)
  PROVE  /\ Replaces(r, [req[r] EXCEPT !.pc = pc])
         /\ req'[r].op = req[r].op /\ req'[r].pc = pc
         /\ req'[r].account = req[r].account /\ req'[r].claims = req[r].claims
         /\ req'[r].token = req[r].token /\ req'[r].fresh = req[r].fresh
         /\ req'[r].typed = req[r].typed /\ req'[r].read = req[r].read
         /\ req'[r].overlap = req[r].overlap
<1> DEFINE x == [req[r] EXCEPT !.pc = pc]
<1>1. req[r] \in RequestRecord
  BY DEF RequestsOK
<1>2. pc \in PCs
  BY <1>1, PlacesAreKnown DEF RequestRecord
<1>3. /\ x \in RequestRecord /\ x.pc = pc /\ x.op = req[r].op
      /\ x.account = req[r].account /\ x.claims = req[r].claims
      /\ x.token = req[r].token /\ x.fresh = req[r].fresh
      /\ x.typed = req[r].typed /\ x.read = req[r].read
      /\ x.overlap = req[r].overlap
  BY <1>1, <1>2 DEF RequestRecord
<1>4. req' = [req EXCEPT ![r] = x]
  BY DEF Goto
<1> HIDE DEF x
<1>5. Replaces(r, x)
  BY <1>3, <1>4, ReplaceOK
<1>6. req'[r] = x
  BY <1>5 DEF Replaces
<1> QED BY <1>3, <1>5, <1>6 DEF x

----------------------------------------------------------------------------
(* What a step may make of one request, when it writes nothing else: the part *)
(* of the invariant about accounts, the part about tokens, that about codes   *)

FitsA(r) ==
  /\ req'[r].op = "patch" => req'[r].account \in users
  /\ req'[r].op \in Issuers /\ req'[r].pc \in {"insert", "entry", "revoke"} \cup Issuing =>
       req'[r].account \in Accounts
  /\ Claims(r)' => /\ holder \in {None, req'[r].account}
                   /\ \A q \in Requests \ {r} : ~Claims(q)
  /\ Registers(r)' => req'[r].account \notin users
  /\ Writes(r)' => \A q \in Requests \ {r} : Writes(q) => req[q].account # req'[r].account

FitsT(r) ==
  /\ IF req'[r].op \in {"refresh", "logout"}
     THEN req'[r].token \in answered /\ tokens[req'[r].token] # None
     ELSE req'[r].token = None
  /\ req'[r].fresh # None <=> req'[r].op \in Issuers /\ req'[r].pc \in {"answer", "commit"}
  /\ req'[r].fresh # None => /\ req'[r].fresh = req[r].fresh /\ req'[r].token = req[r].token
                             /\ req'[r].fresh \in answered \cup lost <=> req'[r].pc = "commit"
  /\ req'[r].op \in Issuers /\ req'[r].fresh = None => r \in Drawing \/ TokensLeft(1)

FitsC(r) ==
  /\ Checking(r)' => /\ req'[r].read \in drawn
                     /\ req'[r].read \in accepted => req'[r].overlap
  /\ clean /\ code # None =>
       /\ Checking(r)' => req'[r].read = code
       /\ req'[r].pc = "drop" => wrong >= MaxAttempts
       /\ req'[r].pc = "count" => r \in Counting \/ wrong < MaxAttempts
  /\ req'[r].pc \in {"cooldown", "code"} => r \in Asking \/ CodeLeft

LEMMA AccountsKept ==
  ASSUME AccountsKnown, ClaimsExclude, RowsExclude, NEW r \in Requests,
         \A q \in Requests \ {r} : Kept(q), FitsA(r), UNCHANGED accountVars
  PROVE  AccountsKnown' /\ ClaimsExclude' /\ RowsExclude'
<1>1. \A q \in Requests \ {r} : /\ Claims(q)' <=> Claims(q)
                                /\ Registers(q)' <=> Registers(q)
                                /\ Writes(q)' <=> Writes(q)
                                /\ req'[q].account = req[q].account
  BY DEF Kept, Claims, Registers, Writes
<1>2. AccountsKnown'
  <2> SUFFICES ASSUME NEW q \in Requests
               PROVE  /\ req'[q].op = "patch" => req'[q].account \in users'
                      /\ /\ req'[q].op \in Issuers
                         /\ req'[q].pc \in {"insert", "entry", "revoke"} \cup Issuing
                         => req'[q].account \in Accounts
    BY DEF AccountsKnown
  <2>1. CASE q = r
    BY <2>1 DEF FitsA, accountVars
  <2>2. CASE q # r
    BY <2>2 DEF AccountsKnown, Kept, accountVars
  <2> QED BY <2>1, <2>2
<1>3. \A q \in Requests : Claims(q)' => holder' \in {None, req'[q].account}
  BY <1>1 DEF ClaimsExclude, FitsA, Kept, accountVars
<1>4. \A p, q \in Requests : Claims(p)' /\ Claims(q)' => p = q
  BY <1>1 DEF ClaimsExclude, FitsA
<1>5. RowsExclude'
  <2>1. \A q \in Requests : Registers(q)' => req'[q].account \notin users'
    BY <1>1 DEF RowsExclude, FitsA, accountVars
  <2>2. \A p, q \in Requests :
          Writes(p)' /\ Writes(q)' /\ req'[p].account = req'[q].account => p = q
    BY <1>1 DEF RowsExclude, FitsA
  <2> QED BY <2>1, <2>2 DEF RowsExclude
<1> QED BY <1>2, <1>3, <1>4, <1>5 DEF ClaimsExclude

(* A request that leaves gives its row up, be it a new one or not. *)
LEMMA RowsLeft ==
  ASSUME RowsExclude, NEW r \in Requests, \A q \in Requests \ {r} : Kept(q), ~Writes(r)',
         users' = users \/ (Writes(r) /\ users' = users \cup {req[r].account})
  PROVE  RowsExclude'
<1>1. \A q \in Requests : (Registers(q)' => q # r /\ Registers(q) /\ Writes(q))
                         /\ (Writes(q)' => q # r /\ Writes(q))
  BY DEF Kept, Registers, Writes
<1>2. \A q \in Requests \ {r} : req'[q].account = req[q].account
  BY DEF Kept
<1>3. \A q \in Requests : Registers(q)' => req'[q].account \notin users'
  BY <1>1, <1>2 DEF RowsExclude
<1>4. \A p, q \in Requests :
        Writes(p)' /\ Writes(q)' /\ req'[p].account = req'[q].account => p = q
  BY <1>1, <1>2 DEF RowsExclude
<1> QED BY <1>3, <1>4 DEF RowsExclude

LEMMA Finite ==
  ASSUME RequestsOK
  PROVE  /\ IsFiniteSet(Drawing) /\ IsFiniteSet(Asking) /\ IsFiniteSet(Counting)
         /\ Cardinality(Drawing) \in Nat /\ Cardinality(Asking) \in Nat
         /\ Cardinality(Counting) \in Nat /\ Cardinality(Requests) \in Nat
         /\ Cardinality(Counting) <= Cardinality(Requests)
         /\ IsFiniteSet({t \in Tokens : Unused(t)}) /\ IsFiniteSet(Codes \ drawn)
         /\ Cardinality({t \in Tokens : Unused(t)}) \in Nat
         /\ Cardinality(Codes \ drawn) \in Nat
<1>1. Drawing \subseteq Requests /\ Asking \subseteq Requests /\ Counting \subseteq Requests
  BY DEF Drawing, Asking, Counting
<1>2. {t \in Tokens : Unused(t)} \subseteq Tokens /\ Codes \ drawn \subseteq Codes
  OBVIOUS
<1>3. IsFiniteSet(Tokens) /\ IsFiniteSet(Codes) /\ IsFiniteSet(Requests)
  BY FiniteAssumption
<1>4. IsFiniteSet(Drawing) /\ IsFiniteSet(Asking) /\ IsFiniteSet(Counting)
      /\ Cardinality(Counting) <= Cardinality(Requests)
  BY <1>1, <1>3, FS_Subset
<1>5. IsFiniteSet({t \in Tokens : Unused(t)}) /\ IsFiniteSet(Codes \ drawn)
  BY <1>2, <1>3, FS_Subset
<1> QED BY <1>3, <1>4, <1>5, FS_CardinalityType

(* One request more that will draw, or none *)
LEMMA DrawingKept ==
  ASSUME RequestsOK, RequestsOK', TokensSuffice, NEW r \in Requests,
         \A q \in Requests \ {r} : Kept(q), UNCHANGED root,
         req'[r].op \in Issuers /\ req'[r].fresh = None => r \in Drawing \/ TokensLeft(1)
  PROVE  TokensSuffice'
<1> DEFINE D == Cardinality(Drawing)
           U == Cardinality({t \in Tokens : Unused(t)})
<1>1. D \in Nat /\ U \in Nat /\ D <= U /\ IsFiniteSet(Drawing)
  BY Finite DEF TokensSuffice
<1>2. Cardinality({t \in Tokens : Unused(t)})' = U
  BY DEF Unused
<1>3. Drawing' \subseteq Drawing \cup {r}
  BY DEF Drawing, Kept
<1>4. r \in Drawing' => r \in Drawing \/ D < U
  BY <1>1 DEF Drawing, TokensLeft
<1>5. CASE Drawing' \subseteq Drawing
  <2>1. Cardinality(Drawing') <= D
    BY <1>1, <1>5, FS_Subset
  <2>2. Cardinality(Drawing') \in Nat
    BY <1>1, <1>5, FS_Subset, FS_CardinalityType
  <2> QED BY <1>1, <1>2, <2>1, <2>2 DEF TokensSuffice
<1>6. CASE ~(Drawing' \subseteq Drawing)
  <2>1. r \in Drawing' /\ r \notin Drawing /\ D < U
    BY <1>3, <1>4, <1>6
  <2>2. IsFiniteSet(Drawing \cup {r}) /\ Cardinality(Drawing \cup {r}) = D + 1
    BY <1>1, <2>1, FS_AddElement
  <2>3. IsFiniteSet(Drawing') /\ Cardinality(Drawing') <= D + 1
    BY <1>3, <2>2, FS_Subset
  <2>4. Cardinality(Drawing') \in Nat
    BY <2>3, FS_CardinalityType
  <2> QED BY <1>1, <1>2, <2>1, <2>3, <2>4 DEF TokensSuffice
<1> QED BY <1>5, <1>6

LEMMA AskingKept ==
  ASSUME RequestsOK, RequestsOK', CodesSuffice, NEW r \in Requests,
         \A q \in Requests \ {r} : Kept(q), UNCHANGED drawn,
         req'[r].pc \in {"cooldown", "code"} => r \in Asking \/ CodeLeft
  PROVE  CodesSuffice'
<1> DEFINE A == Cardinality(Asking)
           U == Cardinality(Codes \ drawn)
<1>1. A \in Nat /\ U \in Nat /\ A <= U /\ IsFiniteSet(Asking)
  BY Finite DEF CodesSuffice
<1>2. Cardinality(Codes \ drawn)' = U
  OBVIOUS
<1>3. Asking' \subseteq Asking \cup {r}
  BY DEF Asking, Kept
<1>4. r \in Asking' => r \in Asking \/ A < U
  BY DEF Asking, CodeLeft
<1>5. CASE Asking' \subseteq Asking
  <2>1. Cardinality(Asking') <= A
    BY <1>1, <1>5, FS_Subset
  <2>2. Cardinality(Asking') \in Nat
    BY <1>1, <1>5, FS_Subset, FS_CardinalityType
  <2> QED BY <1>1, <1>2, <2>1, <2>2 DEF CodesSuffice
<1>6. CASE ~(Asking' \subseteq Asking)
  <2>1. r \in Asking' /\ r \notin Asking /\ A < U
    BY <1>3, <1>4, <1>6
  <2>2. IsFiniteSet(Asking \cup {r}) /\ Cardinality(Asking \cup {r}) = A + 1
    BY <1>1, <2>1, FS_AddElement
  <2>3. IsFiniteSet(Asking') /\ Cardinality(Asking') <= A + 1
    BY <1>3, <2>2, FS_Subset
  <2>4. Cardinality(Asking') \in Nat
    BY <2>3, FS_CardinalityType
  <2> QED BY <1>1, <1>2, <2>1, <2>3, <2>4 DEF CodesSuffice
<1> QED BY <1>5, <1>6

LEMMA TokensKept ==
  ASSUME RequestsOK, RequestsOK', TokensInHand, Rooted, Sent, OneUnrevoked,
         TokensSuffice, NEW r \in Requests, \A q \in Requests \ {r} : Kept(q), FitsT(r),
         UNCHANGED tokenVars
  PROVE  (TokensInHand /\ Rooted /\ Sent /\ OneUnrevoked /\ TokensSuffice)'
<1>1. UNCHANGED <<tokens, answered, lost, root, closed, raced>>
  BY DEF tokenVars
<1>2. (Rooted /\ Sent /\ OneUnrevoked)'
  BY <1>1 DEF Rooted, Sent, OneUnrevoked, Family, Unrevoked
<1>3. TokensSuffice'
  BY <1>1, DrawingKept DEF FitsT
<1>4. \A q \in Requests : req'[q].fresh # None =>
        req'[q].fresh = req[q].fresh /\ req'[q].token = req[q].token
  BY DEF FitsT, Kept
<1>5. TokensInHand'
  <2>1. ASSUME NEW q \in Requests
        PROVE  /\ IF req'[q].op \in {"refresh", "logout"}
                  THEN req'[q].token \in answered' /\ tokens'[req'[q].token] # None
                  ELSE req'[q].token = None
               /\ req'[q].fresh # None <=>
                    req'[q].op \in Issuers /\ req'[q].pc \in {"answer", "commit"}
               /\ req'[q].fresh # None => (req'[q].fresh \in (answered \cup lost)' <=> req'[q].pc = "commit")
    <3>1. CASE q = r
      BY <1>1, <3>1 DEF FitsT
    <3>2. CASE q # r
      BY <1>1, <3>2 DEF TokensInHand, Kept
    <3> QED BY <3>1, <3>2
  <2>2. ASSUME NEW q \in Requests, req'[q].fresh # None
        PROVE  /\ tokens'[req'[q].fresh] = None
               /\ root'[req'[q].fresh] = IF req'[q].token = None THEN req'[q].fresh
                                         ELSE root'[req'[q].token]
    BY <1>1, <1>4, <2>2 DEF TokensInHand
  <2>3. \A p, q \in Requests : req'[p].fresh = req'[q].fresh /\ req'[q].fresh # None => p = q
    BY <1>4 DEF TokensInHand
  <2> QED BY <2>1, <2>2, <2>3 DEF TokensInHand
<1> QED BY <1>2, <1>3, <1>5

(* The count holds where requests that still count have found less than the limit. *)
LEMMA CountingKept ==
  ASSUME RequestsOK, RequestsOK', wrong \in Nat, NEW r \in Requests,
         \A q \in Requests \ {r} : Kept(q),
         wrong + Cardinality(Counting) < MaxAttempts + Cardinality(Requests),
         req'[r].pc = "count" => r \in Counting \/ wrong < MaxAttempts
  PROVE  wrong + Cardinality(Counting)' < MaxAttempts + Cardinality(Requests)
<1>1. /\ Cardinality(Counting) \in Nat /\ IsFiniteSet(Counting)
      /\ Cardinality(Requests) \in Nat /\ MaxAttempts \in Nat
  BY Finite, AttemptsAssumption
<1>2. Cardinality(Counting)' \in Nat /\ Cardinality(Counting)' <= Cardinality(Requests)
  <2>1. Counting' \subseteq Requests
    BY DEF Counting
  <2>2. IsFiniteSet(Counting') /\ Cardinality(Counting') <= Cardinality(Requests)
    BY <2>1, FiniteAssumption, FS_Subset
  <2> QED BY <2>2, FS_CardinalityType
<1>3. CASE wrong < MaxAttempts
  BY <1>1, <1>2, <1>3
<1>4. CASE ~(wrong < MaxAttempts)
  <2>1. Counting' \subseteq Counting
    BY <1>4 DEF Counting, Kept
  <2>2. Cardinality(Counting') <= Cardinality(Counting)
    BY <1>1, <2>1, FS_Subset
  <2> QED BY <1>1, <1>2, <2>2
<1> QED BY <1>3, <1>4

LEMMA CodesKept ==
  ASSUME RequestsOK, RequestsOK', wrong \in Nat, CodesAccepted, CountIsRight, CodesSuffice,
         NEW r \in Requests, \A q \in Requests \ {r} : req'[q] = req[q], FitsC(r),
         UNCHANGED <<code, attempts, drawn, wrong, clean, accepted>>
  PROVE  (CodesAccepted /\ CountIsRight /\ CodesSuffice)'
<1>1. UNCHANGED <<code, attempts, drawn, wrong, clean, accepted>>
  OBVIOUS
<1>2. \A q \in Requests \ {r} : Kept(q)
  BY DEF Kept
<1>3. CodesSuffice'
  BY <1>1, <1>2, AskingKept DEF FitsC
<1>4. CodesAccepted'
  BY <1>1 DEF CodesAccepted, FitsC, Checking
<1>5. CountIsRight'
  <2> SUFFICES ASSUME clean, code # None
               PROVE  /\ attempts.n = wrong /\ attempts.ttl = "new"
                      /\ \A q \in Requests : Checking(q)' => req'[q].read = code
                      /\ \A q \in Requests : req'[q].pc = "drop" => wrong >= MaxAttempts
                      /\ wrong + Cardinality(Counting)' < MaxAttempts + Cardinality(Requests)
    BY <1>1 DEF CountIsRight
  <2>1. wrong + Cardinality(Counting)' < MaxAttempts + Cardinality(Requests)
    BY <1>2, CountingKept DEF CountIsRight, FitsC
  <2> QED BY <2>1 DEF CountIsRight, FitsC, Checking
<1> QED BY <1>3, <1>4, <1>5

(* A step that moves one request, and writes nothing else *)
LEMMA OneRequest ==
  ASSUME Inv, NEW r \in Requests, NEW x, Replaces(r, x),
         FitsA(r), FitsT(r), FitsC(r),
         UNCHANGED <<accountVars, tokenVars, otpVars, clients>>
  PROVE  Inv'
<1>1. RequestsOK /\ RequestsOK'
  BY InvRequests DEF Replaces
<1>2. \A q \in Requests \ {r} : Kept(q)
  BY DEF Replaces, Kept
<1>3. AccountsKnown' /\ ClaimsExclude' /\ RowsExclude'
  BY <1>2, AccountsKept DEF Inv
<1>4. (TokensInHand /\ Rooted /\ Sent /\ OneUnrevoked /\ TokensSuffice)'
  BY <1>1, <1>2, TokensKept DEF Inv
<1>5. (CodesAccepted /\ CountIsRight /\ CodesSuffice)'
  <2>1. wrong \in Nat
    BY DEF Inv, TypeOK
  <2> QED BY <1>1, <2>1, CodesKept DEF otpVars, Inv, Replaces
<1>6. TypeOK'
  BY <1>1 DEF Inv, TypeOK, RequestsOK, accountVars, tokenVars, otpVars
<1> QED BY <1>3, <1>4, <1>5, <1>6 DEF Inv

(* A request that ends gives everything up. *)
LEMMA EndFits ==
  ASSUME RequestsOK, NEW r \in Requests, End(r)
  PROVE  /\ Replaces(r, Idle) /\ \A q \in Requests \ {r} : Kept(q)
         /\ FitsA(r) /\ FitsT(r) /\ FitsC(r)
<1>1. Replaces(r, Idle)
  BY EndOK
<1>2. /\ req'[r].op = "none" /\ req'[r].pc = "idle" /\ req'[r].fresh = None
      /\ req'[r].token = None
  BY <1>1, IdleOK DEF Replaces
<1>3. ~Claims(r)' /\ ~Registers(r)' /\ ~Writes(r)' /\ ~Checking(r)'
  BY <1>2 DEF Claims, Registers, Writes, Checking
<1>4. FitsA(r)
  BY <1>2, <1>3 DEF FitsA, Issuers
<1>5. FitsT(r)
  BY <1>2 DEF FitsT, Issuers
<1>6. FitsC(r)
  BY <1>2, <1>3 DEF FitsC
<1> QED BY <1>1, <1>4, <1>5, <1>6 DEF Replaces, Kept

LEMMA EndInv ==
  ASSUME Inv, NEW r \in Requests, End(r),
         UNCHANGED <<accountVars, tokenVars, otpVars, clients>>
  PROVE  Inv'
BY InvRequests, EndFits, OneRequest

(* Nothing at all changes. *)
LEMMA Stutter ==
  ASSUME Inv, UNCHANGED vars
  PROVE  Inv'
<1>1. UNCHANGED <<users, holder, tokens, answered, lost, root, closed, raced, code, attempts,
                  cooldown, drawn, wrong, clean, accepted, req, clients>>
  BY DEF vars, accountVars, tokenVars, otpVars
<1>2. TypeOK' /\ AccountsKnown' /\ ClaimsExclude' /\ RowsExclude'
  BY <1>1 DEF Inv, TypeOK, AccountsKnown, ClaimsExclude, RowsExclude, Claims, Registers, Writes
<1>3. TokensInHand' /\ Rooted' /\ Sent' /\ OneUnrevoked'
  BY <1>1 DEF Inv, TokensInHand, Rooted, Sent, OneUnrevoked, Family, Unrevoked
<1>4. CodesAccepted' /\ CountIsRight'
  BY <1>1 DEF Inv, CodesAccepted, CountIsRight, Checking, Counting
<1>5. TokensSuffice' /\ CodesSuffice'
  BY <1>1 DEF Inv, TokensSuffice, CodesSuffice, Drawing, Asking, Unused
<1> QED BY <1>2, <1>3, <1>4, <1>5 DEF Inv

----------------------------------------------------------------------------
(* Requests that arrive *)

LEMMA TwoTokensAreOne ==
  ASSUME RequestsOK, TokensLeft(2)
  PROVE  TokensLeft(1)
<1>1. Cardinality(Drawing) \in Nat /\ Cardinality({t \in Tokens : Unused(t)}) \in Nat
  BY Finite
<1> QED BY <1>1 DEF TokensLeft, Drawing

LEMMA ReceiveRegisterInv ==
  ASSUME Inv, NEW r \in Requests, ReceiveRegister(r)
  PROVE  Inv'
<1>1. RequestsOK
  BY InvRequests
<1>2. PICK a \in Accounts \ users, claims \in BOOLEAN :
        req' = [req EXCEPT ![r] = [Idle EXCEPT !.op = "register", !.pc = "insert",
                                     !.account = a, !.claims = claims]]
  BY DEF ReceiveRegister
<1> DEFINE x == [Idle EXCEPT !.op = "register", !.pc = "insert",
                             !.account = a, !.claims = claims]
<1>3. "insert" \in PCs /\ "insert" \in PCsOf["register"]
  BY PlacesOf, PlacesAreKnown DEF Handlers, Issuers
<1>4. /\ x \in RequestRecord /\ x.op = "register" /\ x.pc = "insert" /\ x.account = a
      /\ x.token = None /\ x.fresh = None
  BY <1>3 DEF Idle, RequestRecord, Handlers, Issuers
<1>5. req' = [req EXCEPT ![r] = x]
  BY <1>2
<1> HIDE DEF x
<1>6. Replaces(r, x)
  BY <1>1, <1>3, <1>4, <1>5, ReplaceOK
<1>7. req'[r] = x
  BY <1>6 DEF Replaces
<1>8. FitsA(r)
  BY <1>4, <1>7 DEF FitsA, Claims, Registers, Writes, Issuing
<1>9. FitsT(r)
  BY <1>4, <1>7, <1>1, TwoTokensAreOne DEF FitsT, ReceiveRegister
<1>10. FitsC(r)
  BY <1>4, <1>7 DEF FitsC, Checking
<1> QED BY <1>6, <1>8, <1>9, <1>10, OneRequest DEF ReceiveRegister

LEMMA ReceivePatchInv ==
  ASSUME Inv, NEW r \in Requests, ReceivePatch(r)
  PROVE  Inv'
<1>1. RequestsOK
  BY InvRequests
<1>2. PICK a \in users :
        req' = [req EXCEPT ![r] =
                 [Idle EXCEPT !.op = "patch", !.account = a, !.claims = (holder # a),
                              !.pc = IF holder # a THEN "clash" ELSE "write"]]
  BY DEF ReceivePatch, CurrentUsers
<1> DEFINE claims == (holder # a)
           pc == IF holder # a THEN "clash" ELSE "write"
           x == [Idle EXCEPT !.op = "patch", !.account = a, !.claims = claims, !.pc = pc]
<1>3. /\ pc \in {"clash", "write"} /\ pc \in PCs /\ pc \in PCsOf["patch"]
      /\ claims \in BOOLEAN /\ a \in Accounts
  <2>1. pc \in {"clash", "write"} /\ claims \in BOOLEAN
    OBVIOUS
  <2>2. a \in Accounts
    BY DEF Inv, TypeOK
  <2> QED BY <2>1, <2>2, PlacesOf, PlacesAreKnown DEF Handlers
<1>4. req' = [req EXCEPT ![r] = x]
  BY <1>2
<1> HIDE DEF claims, pc
<1>5. /\ x \in RequestRecord /\ x.op = "patch" /\ x.pc = pc /\ x.account = a
      /\ x.token = None /\ x.fresh = None
  BY <1>3 DEF Idle, RequestRecord, Handlers
<1> HIDE DEF x
<1>6. Replaces(r, x)
  BY <1>1, <1>3, <1>4, <1>5, ReplaceOK
<1>7. req'[r] = x
  BY <1>6 DEF Replaces
<1>8. FitsA(r)
  BY <1>3, <1>5, <1>7 DEF FitsA, Claims, Registers, Writes, Issuing, Issuers
<1>9. FitsT(r)
  BY <1>5, <1>7 DEF FitsT, Issuers
<1>10. FitsC(r)
  BY <1>3, <1>5, <1>7 DEF FitsC, Checking
<1> QED BY <1>6, <1>8, <1>9, <1>10, OneRequest DEF ReceivePatch

LEMMA ReceiveLoginInv ==
  ASSUME Inv, NEW r \in Requests, ReceiveLogin(r)
  PROVE  Inv'
<1>1. RequestsOK
  BY InvRequests
<1>2. PICK a \in users :
        req' = [req EXCEPT ![r] = [Idle EXCEPT !.op = "login", !.pc = "issue", !.account = a]]
  BY DEF ReceiveLogin
<1> DEFINE x == [Idle EXCEPT !.op = "login", !.pc = "issue", !.account = a]
<1>3. "issue" \in PCs /\ "issue" \in PCsOf["login"] /\ a \in Accounts
  BY PlacesOf, PlacesAreKnown DEF Handlers, Issuers, Issuing, Inv, TypeOK
<1>4. /\ x \in RequestRecord /\ x.op = "login" /\ x.pc = "issue" /\ x.account = a
      /\ x.token = None /\ x.fresh = None
  BY <1>3 DEF Idle, RequestRecord, Handlers, Issuers
<1>5. req' = [req EXCEPT ![r] = x]
  BY <1>2
<1> HIDE DEF x
<1>6. Replaces(r, x)
  BY <1>1, <1>3, <1>4, <1>5, ReplaceOK
<1>7. req'[r] = x
  BY <1>6 DEF Replaces
<1>8. FitsA(r)
  BY <1>3, <1>4, <1>7 DEF FitsA, Claims, Registers, Writes, Issuing
<1>9. FitsT(r)
  BY <1>4, <1>7, <1>1, TwoTokensAreOne DEF FitsT, ReceiveLogin
<1>10. FitsC(r)
  BY <1>4, <1>7 DEF FitsC, Checking
<1> QED BY <1>6, <1>8, <1>9, <1>10, OneRequest DEF ReceiveLogin

LEMMA ReceiveRefreshInv ==
  ASSUME Inv, NEW r \in Requests, ReceiveRefresh(r)
  PROVE  Inv'
<1>1. RequestsOK
  BY InvRequests
<1>2. PICK t \in answered :
        /\ IsValid(tokens[t])
        /\ req' = [req EXCEPT ![r] = [Idle EXCEPT !.op = "refresh", !.pc = "revoke",
                                        !.account = tokens[t].user, !.token = t]]
  BY DEF ReceiveRefresh
<1> DEFINE x == [Idle EXCEPT !.op = "refresh", !.pc = "revoke",
                             !.account = tokens[t].user, !.token = t]
<1>3. /\ "revoke" \in PCs /\ "revoke" \in PCsOf["refresh"]
      /\ t \in Tokens /\ tokens[t] # None /\ tokens[t].user \in Accounts
  BY <1>2, PlacesOf, PlacesAreKnown
     DEF Handlers, Issuers, Issuing, Inv, TypeOK, IsValid, Row
<1>4. /\ x \in RequestRecord /\ x.op = "refresh" /\ x.pc = "revoke"
      /\ x.account = tokens[t].user /\ x.token = t /\ x.fresh = None
  BY <1>3 DEF Idle, RequestRecord, Handlers, Issuers
<1>5. req' = [req EXCEPT ![r] = x]
  BY <1>2
<1> HIDE DEF x
<1>6. Replaces(r, x)
  BY <1>1, <1>3, <1>4, <1>5, ReplaceOK
<1>7. req'[r] = x
  BY <1>6 DEF Replaces
<1>8. FitsA(r)
  BY <1>3, <1>4, <1>7 DEF FitsA, Claims, Registers, Writes, Issuing
<1>9. FitsT(r)
  BY <1>3, <1>4, <1>7 DEF FitsT, ReceiveRefresh
<1>10. FitsC(r)
  BY <1>4, <1>7 DEF FitsC, Checking
<1> QED BY <1>6, <1>8, <1>9, <1>10, OneRequest DEF ReceiveRefresh

LEMMA ReceiveLogoutInv ==
  ASSUME Inv, NEW r \in Requests, ReceiveLogout(r)
  PROVE  Inv'
<1>1. RequestsOK
  BY InvRequests
<1>2. PICK t \in answered :
        /\ tokens[t] # None
        /\ req' = [req EXCEPT ![r] = [Idle EXCEPT !.op = "logout", !.pc = "commit",
                                        !.token = t]]
  BY DEF ReceiveLogout
<1> DEFINE x == [Idle EXCEPT !.op = "logout", !.pc = "commit", !.token = t]
<1>3. "commit" \in PCs /\ "commit" \in PCsOf["logout"] /\ t \in Tokens
  BY <1>2, PlacesOf, PlacesAreKnown DEF Handlers, Inv, TypeOK
<1>4. /\ x \in RequestRecord /\ x.op = "logout" /\ x.pc = "commit"
      /\ x.token = t /\ x.fresh = None
  BY <1>3 DEF Idle, RequestRecord, Handlers
<1>5. req' = [req EXCEPT ![r] = x]
  BY <1>2
<1> HIDE DEF x
<1>6. Replaces(r, x)
  BY <1>1, <1>3, <1>4, <1>5, ReplaceOK
<1>7. req'[r] = x
  BY <1>6 DEF Replaces
<1>8. FitsA(r)
  BY <1>4, <1>7 DEF FitsA, Claims, Registers, Writes, Issuing, Issuers
<1>9. FitsT(r)
  BY <1>2, <1>3, <1>4, <1>7 DEF FitsT, Issuers
<1>10. FitsC(r)
  BY <1>4, <1>7 DEF FitsC, Checking
<1> QED BY <1>6, <1>8, <1>9, <1>10, OneRequest DEF ReceiveLogout

LEMMA ReceiveAskInv ==
  ASSUME Inv, NEW r \in Requests, ReceiveAsk(r)
  PROVE  Inv'
<1>1. RequestsOK
  BY InvRequests
<1> DEFINE x == [Idle EXCEPT !.op = "ask", !.pc = "cooldown"]
<1>3. "cooldown" \in PCs /\ "cooldown" \in PCsOf["ask"]
  BY PlacesOf, PlacesAreKnown DEF Handlers
<1>4. /\ x \in RequestRecord /\ x.op = "ask" /\ x.pc = "cooldown"
      /\ x.token = None /\ x.fresh = None
  BY <1>3 DEF Idle, RequestRecord, Handlers
<1>5. req' = [req EXCEPT ![r] = x]
  BY DEF ReceiveAsk
<1> HIDE DEF x
<1>6. Replaces(r, x)
  BY <1>1, <1>3, <1>4, <1>5, ReplaceOK
<1>7. req'[r] = x
  BY <1>6 DEF Replaces
<1>8. FitsA(r)
  BY <1>4, <1>7 DEF FitsA, Claims, Registers, Writes, Issuing, Issuers
<1>9. FitsT(r)
  BY <1>4, <1>7 DEF FitsT, Issuers
<1>10. FitsC(r)
  BY <1>4, <1>7 DEF FitsC, Checking, ReceiveAsk
<1> QED BY <1>6, <1>8, <1>9, <1>10, OneRequest DEF ReceiveAsk

LEMMA ReceiveVerifyInv ==
  ASSUME Inv, NEW r \in Requests, ReceiveVerify(r)
  PROVE  Inv'
<1>1. RequestsOK
  BY InvRequests
<1>2. PICK c \in Codes :
        req' = [req EXCEPT ![r] = [Idle EXCEPT !.op = "verify", !.pc = "tries",
                                                !.typed = c, !.read = code]]
  BY DEF ReceiveVerify
<1> DEFINE x == [Idle EXCEPT !.op = "verify", !.pc = "tries", !.typed = c, !.read = code]
<1>3. /\ "tries" \in PCs /\ "tries" \in PCsOf["verify"]
      /\ code \in Codes /\ code \in drawn \ accepted
  BY PlacesOf, PlacesAreKnown
     DEF Handlers, Issuers, ReceiveVerify, Inv, TypeOK, CodesAccepted
<1>4. /\ x \in RequestRecord /\ x.op = "verify" /\ x.pc = "tries" /\ x.read = code
      /\ x.token = None /\ x.fresh = None
  BY <1>3 DEF Idle, RequestRecord, Handlers, Issuers
<1>5. req' = [req EXCEPT ![r] = x]
  BY <1>2
<1> HIDE DEF x
<1>6. Replaces(r, x)
  BY <1>1, <1>3, <1>4, <1>5, ReplaceOK
<1>7. req'[r] = x
  BY <1>6 DEF Replaces
<1>8. FitsA(r)
  BY <1>4, <1>7 DEF FitsA, Claims, Registers, Writes, Issuing, Issuing
<1>9. FitsT(r)
  BY <1>4, <1>7, <1>1, TwoTokensAreOne DEF FitsT, ReceiveVerify
<1>10. FitsC(r)
  BY <1>3, <1>4, <1>7 DEF FitsC, Checking
<1> QED BY <1>6, <1>8, <1>9, <1>10, OneRequest DEF ReceiveVerify

----------------------------------------------------------------------------
(* Requests that go on, and write nothing *)

LEMMA GotoFitsT ==
  ASSUME Inv, NEW r \in Requests, NEW pc \in PCsOf[req[r].op], Goto(r, pc),
         req[r].op \notin Issuers \/ {pc, req[r].pc} \cap {"answer", "commit"} = {}
  PROVE  FitsT(r)
<1>1. /\ req'[r].op = req[r].op /\ req'[r].pc = pc /\ req'[r].token = req[r].token
      /\ req'[r].fresh = req[r].fresh
  BY InvRequests, GotoOK
<1>2. /\ IF req[r].op \in {"refresh", "logout"}
         THEN req[r].token \in answered /\ tokens[req[r].token] # None
         ELSE req[r].token = None
      /\ req[r].fresh # None <=> req[r].op \in Issuers /\ req[r].pc \in {"answer", "commit"}
  BY DEF Inv, TokensInHand
<1>3. req'[r].fresh = None
  BY <1>1, <1>2
<1> QED BY <1>1, <1>2, <1>3 DEF FitsT, Drawing

LEMMA GotoFitsC ==
  ASSUME Inv, NEW r \in Requests, NEW pc \in PCsOf[req[r].op], Goto(r, pc),
         pc \notin {"tries", "count", "drop", "burn", "cooldown", "code"}
  PROVE  FitsC(r)
<1>1. req'[r].pc = pc
  BY InvRequests, GotoOK
<1> QED BY <1>1 DEF FitsC, Checking

(* The row is new, and nobody else writes it. *)
LEMMA InsertUserInv ==
  ASSUME Inv, NEW r \in Requests, InsertUser(r)
  PROVE  Inv'
<1>1. RequestsOK
  BY InvRequests
<1>2. req[r].pc = "insert" /\ req[r].op = "register"
  BY <1>1, Places DEF InsertUser
<1>3. CASE End(r)
  BY <1>3, EndInv DEF InsertUser
<1>4. CASE ~End(r)
  <2> DEFINE pc == IF req[r].claims THEN "entry" ELSE "issue"
  <2>1. Goto(r, pc) /\ req[r].account \notin users /\ RowUnwritten(r)
    BY <1>4 DEF InsertUser
  <2>2. pc \in PCsOf[req[r].op] /\ pc \in {"entry", "issue"} /\ (pc = "issue" => ~req[r].claims)
    BY <1>2, PlacesOf DEF Issuers, Issuing
  <2> HIDE DEF pc
  <2>3. /\ Replaces(r, [req[r] EXCEPT !.pc = pc])
        /\ req'[r].op = "register" /\ req'[r].account = req[r].account
        /\ req'[r].claims = req[r].claims /\ req'[r].pc = pc
    BY <1>1, <1>2, <2>1, <2>2, GotoOK
  <2>4. FitsA(r)
    <3>1. req[r].account \in Accounts
      BY <1>2 DEF Inv, AccountsKnown, Issuers
    <3>2. ~Claims(r)'
      BY <2>2, <2>3 DEF Claims, Issuing
    <3>3. \A q \in Requests \ {r} : Writes(q) => req[q].account # req[r].account
      BY <2>1 DEF RowUnwritten, WritesRow, Writes, Registers
    <3> QED BY <2>1, <2>3, <3>1, <3>2, <3>3 DEF FitsA
  <2>5. FitsT(r)
    BY <1>2, <2>1, <2>2, GotoFitsT
  <2>6. FitsC(r)
    BY <2>1, <2>2, GotoFitsC
  <2> QED BY <2>3, <2>4, <2>5, <2>6, OneRequest DEF InsertUser
<1> QED BY <1>3, <1>4

(* The number is nobody's, or that of the row written, and nobody else claims it. *)
LEMMA EnterPhoneInv ==
  ASSUME Inv, NEW r \in Requests, EnterPhone(r)
  PROVE  Inv'
<1>1. RequestsOK
  BY InvRequests
<1>2. req[r].pc = "entry" /\ req[r].op \in {"register", "patch"}
  BY <1>1, Places DEF EnterPhone
<1>3. CASE End(r)
  BY <1>3, EndInv DEF EnterPhone
<1>4. CASE ~End(r)
  <2> DEFINE pc == AfterEntry(r)
  <2>1. Goto(r, pc) /\ holder \in {None, req[r].account}
    BY <1>4 DEF EnterPhone
  <2>2. /\ pc \in PCsOf[req[r].op] /\ pc \in {"issue", "commit"}
        /\ req[r].op = "register" => pc = "issue"
    BY <1>2, PlacesOf DEF AfterEntry, Issuers, Issuing
  <2> HIDE DEF pc
  <2>3. /\ Replaces(r, [req[r] EXCEPT !.pc = pc])
        /\ req'[r].op = req[r].op /\ req'[r].account = req[r].account
        /\ req'[r].claims = req[r].claims /\ req'[r].pc = pc
    BY <1>1, <2>1, <2>2, GotoOK
  <2>4. FitsA(r)
    <3>1. /\ req[r].op = "patch" => req[r].account \in users
          /\ req[r].op \in Issuers => req[r].account \in Accounts
      BY <1>2 DEF Inv, AccountsKnown
    <3>2. \A q \in Requests \ {r} : ~Claims(q)
      BY DEF EnterPhone, WritesPhone
    <3>3. /\ Writes(r)
          /\ Registers(r)' => Registers(r)
      BY <1>2, <2>3 DEF Writes, Registers
    <3>4. /\ Registers(r) => req[r].account \notin users
          /\ \A q \in Requests \ {r} : Writes(q) => req[q].account # req[r].account
      BY <3>3 DEF Inv, RowsExclude
    <3>5. req'[r].op = "patch" => req'[r].account \in users
      BY <2>3, <3>1
    <3>6. req'[r].op \in Issuers => req'[r].account \in Accounts
      BY <2>3, <3>1
    <3>7. Registers(r)' => req'[r].account \notin users
      BY <2>3, <3>3, <3>4
    <3> QED BY <2>1, <2>3, <3>2, <3>4, <3>5, <3>6, <3>7 DEF FitsA
  <2>5. FitsT(r)
    BY <1>2, <2>1, <2>2, GotoFitsT DEF Issuers
  <2>6. FitsC(r)
    BY <2>1, <2>2, GotoFitsC
  <2> QED BY <2>3, <2>4, <2>5, <2>6, OneRequest DEF EnterPhone
<1> QED BY <1>3, <1>4

LEMMA CheckClashInv ==
  ASSUME Inv, NEW r \in Requests, CheckClash(r)
  PROVE  Inv'
<1>1. RequestsOK
  BY InvRequests
<1>2. req[r].pc = "clash" /\ req[r].op = "patch"
  BY <1>1, Places DEF CheckClash
<1>3. CASE End(r)
  BY <1>3, EndInv DEF CheckClash
<1>4. CASE ~End(r)
  <2>1. Goto(r, "write")
    BY <1>4 DEF CheckClash
  <2>2. "write" \in PCsOf[req[r].op]
    BY <1>2, PlacesOf
  <2>3. /\ Replaces(r, [req[r] EXCEPT !.pc = "write"])
        /\ req'[r].op = "patch" /\ req'[r].account = req[r].account /\ req'[r].pc = "write"
    BY <1>1, <1>2, <2>1, <2>2, GotoOK
  <2>4. FitsA(r)
    BY <1>2, <2>3
       DEF FitsA, Inv, AccountsKnown, Issuers, Claims, Registers, Writes, Issuing
  <2>5. FitsT(r)
    BY <1>2, <2>1, <2>2, GotoFitsT
  <2>6. FitsC(r)
    BY <2>1, <2>2, GotoFitsC
  <2> QED BY <2>3, <2>4, <2>5, <2>6, OneRequest DEF CheckClash
<1> QED BY <1>3, <1>4

(* Nobody else writes the row. *)
LEMMA WritePhoneInv ==
  ASSUME Inv, NEW r \in Requests, WritePhone(r)
  PROVE  Inv'
<1>1. RequestsOK
  BY InvRequests
<1>2. req[r].pc = "write" /\ req[r].op = "patch"
  BY <1>1, Places DEF WritePhone
<1> DEFINE pc == IF req[r].claims THEN "entry" ELSE "commit"
<1>3. Goto(r, pc) /\ RowUnwritten(r)
  BY DEF WritePhone
<1>4. pc \in PCsOf[req[r].op] /\ pc \in {"entry", "commit"} /\ (pc = "commit" => ~req[r].claims)
  BY <1>2, PlacesOf
<1> HIDE DEF pc
<1>5. /\ Replaces(r, [req[r] EXCEPT !.pc = pc])
      /\ req'[r].op = "patch" /\ req'[r].account = req[r].account
      /\ req'[r].claims = req[r].claims /\ req'[r].pc = pc
  BY <1>1, <1>2, <1>3, <1>4, GotoOK
<1>6. FitsA(r)
  <2>1. req[r].account \in users
    BY <1>2 DEF Inv, AccountsKnown
  <2>2. ~Claims(r)' /\ ~Registers(r)'
    BY <1>4, <1>5 DEF Claims, Registers
  <2>3. \A q \in Requests \ {r} : Writes(q) => req[q].account # req[r].account
    BY <1>3 DEF RowUnwritten, WritesRow, Writes, Registers
  <2> QED BY <1>5, <2>1, <2>2, <2>3 DEF FitsA, Issuers
<1>7. FitsT(r)
  BY <1>2, <1>3, <1>4, GotoFitsT DEF Issuers
<1>8. FitsC(r)
  BY <1>3, <1>4, GotoFitsC
<1> QED BY <1>5, <1>6, <1>7, <1>8, OneRequest DEF WritePhone

LEMMA RevokeInv ==
  ASSUME Inv, NEW r \in Requests, Revoke(r)
  PROVE  Inv'
<1>1. RequestsOK
  BY InvRequests
<1>2. req[r].pc = "revoke" /\ req[r].op = "refresh" /\ Goto(r, "issue")
  BY <1>1, Places DEF Revoke
<1>3. "issue" \in PCsOf[req[r].op]
  BY <1>2, PlacesOf DEF Issuers, Issuing
<1>4. /\ Replaces(r, [req[r] EXCEPT !.pc = "issue"])
      /\ req'[r].op = "refresh" /\ req'[r].account = req[r].account
  BY <1>1, <1>2, <1>3, GotoOK
<1>5. FitsA(r)
  <2>1. req[r].account \in Accounts
    BY <1>2 DEF Inv, AccountsKnown, Issuers
  <2> QED BY <1>4, <2>1 DEF FitsA, Claims, Registers, Writes
<1>6. FitsT(r)
  BY <1>2, <1>3, GotoFitsT
<1>7. FitsC(r)
  BY <1>2, <1>3, GotoFitsC
<1> QED BY <1>4, <1>5, <1>6, <1>7, OneRequest DEF Revoke

LEMMA CheckCooldownInv ==
  ASSUME Inv, NEW r \in Requests, CheckCooldown(r)
  PROVE  Inv'
<1>1. RequestsOK
  BY InvRequests
<1>2. req[r].pc = "cooldown" /\ req[r].op = "ask"
  BY <1>1, Places DEF CheckCooldown
<1>3. CASE End(r)
  BY <1>3, EndInv DEF CheckCooldown
<1>4. CASE ~End(r)
  <2>1. Goto(r, "code")
    BY <1>4 DEF CheckCooldown
  <2>2. "code" \in PCsOf[req[r].op]
    BY <1>2, PlacesOf
  <2>3. /\ Replaces(r, [req[r] EXCEPT !.pc = "code"])
        /\ req'[r].op = "ask" /\ req'[r].pc = "code"
    BY <1>1, <1>2, <2>1, <2>2, GotoOK
  <2>4. FitsA(r)
    BY <2>3 DEF FitsA, Issuers, Claims, Registers, Writes, Issuing
  <2>5. FitsT(r)
    BY <1>2, <2>1, <2>2, GotoFitsT DEF Issuers
  <2>6. FitsC(r)
    BY <1>2, <2>3 DEF FitsC, Checking, Asking
  <2> QED BY <2>3, <2>4, <2>5, <2>6, OneRequest DEF CheckCooldown
<1> QED BY <1>3, <1>4

LEMMA SendSmsInv ==
  ASSUME Inv, NEW r \in Requests, SendSms(r)
  PROVE  Inv'
BY EndInv DEF SendSms

LEMMA AbortInv ==
  ASSUME Inv, NEW r \in Requests, Abort(r)
  PROVE  Inv'
BY EndInv DEF Abort

(* The number counted is that of the code everybody has read, while it is clean. *)
LEMMA ReadTriesInv ==
  ASSUME Inv, NEW r \in Requests, ReadTries(r)
  PROVE  Inv'
<1>1. RequestsOK
  BY InvRequests
<1>2. req[r].pc = "tries" /\ req[r].op = "verify"
  BY <1>1, Places DEF ReadTries
<1> DEFINE pc == IF attempts.n >= MaxAttempts THEN "drop"
                 ELSE IF req[r].typed = req[r].read THEN "burn" ELSE "count"
<1>3. pc \in {"drop", "burn", "count"} /\ pc \in PCsOf[req[r].op]
  BY <1>2, PlacesOf
<1>4. (pc = "drop" <=> attempts.n >= MaxAttempts) /\ Goto(r, pc)
  BY DEF ReadTries
<1> HIDE DEF pc
<1>5. /\ Replaces(r, [req[r] EXCEPT !.pc = pc])
      /\ req'[r].op = "verify" /\ req'[r].pc = pc
      /\ req'[r].read = req[r].read /\ req'[r].overlap = req[r].overlap
  BY <1>1, <1>2, <1>3, <1>4, GotoOK
<1>6. FitsA(r)
  BY <1>3, <1>5 DEF FitsA, Issuing, Claims, Registers, Writes, Issuing
<1>7. FitsT(r)
  BY <1>2, <1>3, <1>4, GotoFitsT
<1>8. Checking(r)
  BY <1>2 DEF Checking
<1>9. FitsC(r)
  <2>1. req[r].read \in drawn /\ (req[r].read \in accepted => req[r].overlap)
    BY <1>8 DEF Inv, CodesAccepted
  <2>2. ASSUME clean, code # None
        PROVE  /\ req[r].read = code
               /\ pc = "drop" => wrong >= MaxAttempts
               /\ pc = "count" => wrong < MaxAttempts
    <3>1. attempts.n = wrong /\ req[r].read = code
      BY <1>8, <2>2 DEF Inv, CountIsRight
    <3>2. wrong \in Nat /\ MaxAttempts \in Nat
      BY AttemptsAssumption DEF Inv, TypeOK
    <3> QED BY <1>3, <1>4, <3>1, <3>2
  <2> QED BY <1>3, <1>5, <2>1, <2>2 DEF FitsC
<1> QED BY <1>5, <1>6, <1>7, <1>9, OneRequest DEF ReadTries

----------------------------------------------------------------------------
(* Requests that write accounts, or issue and revoke tokens *)

LEMMA FindHolderInv ==
  ASSUME Inv, NEW r \in Requests, FindHolder(r)
  PROVE  Inv'
<1>1. RequestsOK
  BY InvRequests
<1>2. req[r].pc = "holder" /\ req[r].op = "verify"
  BY <1>1, Places DEF FindHolder
<1>3. CASE holder = None
  BY <1>3, EndInv DEF FindHolder
<1>4. CASE holder # None
  <2> DEFINE x == [req[r] EXCEPT !.pc = "issue", !.account = holder]
  <2>1. "issue" \in PCs /\ "issue" \in PCsOf["verify"] /\ holder \in Accounts
    BY <1>4, PlacesOf, PlacesAreKnown DEF Handlers, Issuers, Issuing, Inv, TypeOK
  <2>2. req[r] \in RequestRecord
    BY <1>1 DEF RequestsOK
  <2>3. /\ x \in RequestRecord /\ x.op = "verify" /\ x.pc = "issue" /\ x.account = holder
        /\ x.token = req[r].token /\ x.fresh = req[r].fresh
    BY <1>2, <2>1, <2>2 DEF RequestRecord
  <2>4. req' = [req EXCEPT ![r] = x]
    BY <1>4 DEF FindHolder
  <2> HIDE DEF x
  <2>5. Replaces(r, x)
    BY <1>1, <2>1, <2>3, <2>4, ReplaceOK
  <2>6. req'[r] = x
    BY <2>5 DEF Replaces
  <2>7. FitsA(r)
    BY <2>1, <2>3, <2>6 DEF FitsA, Claims, Registers, Writes, Issuing
  <2>8. FitsT(r)
    <3>1. req[r].token = None /\ req[r].fresh = None
      BY <1>2 DEF Inv, TokensInHand
    <3> QED BY <1>2, <2>3, <2>6, <3>1 DEF FitsT, Drawing, Issuers
  <2>9. FitsC(r)
    BY <2>3, <2>6 DEF FitsC, Checking
  <2> QED BY <1>4, <2>5, <2>7, <2>8, <2>9, OneRequest DEF FindHolder
<1> QED BY <1>3, <1>4

(* The claim that has been flushed was the only one. *)
LEMMA CommitPatchInv ==
  ASSUME Inv, NEW r \in Requests, CommitPatch(r)
  PROVE  Inv' /\ (holder # None /\ holder' # holder => holder' = None)
<1>1. RequestsOK /\ RequestsOK'
  BY InvRequests, EndFits DEF CommitPatch, Replaces
<1>2. /\ Replaces(r, Idle) /\ \A q \in Requests \ {r} : Kept(q)
      /\ FitsA(r) /\ FitsT(r) /\ FitsC(r)
  BY <1>1, EndFits DEF CommitPatch
<1>3. /\ req[r].op = "patch" /\ req[r].pc = "commit" /\ users' = users
      /\ holder' = IF req[r].claims THEN req[r].account
                   ELSE IF holder = req[r].account THEN None ELSE holder
      /\ UNCHANGED <<tokenVars, otpVars, clients>>
  BY DEF CommitPatch
<1>4. req[r].account \in users
  BY <1>3 DEF Inv, AccountsKnown
<1>5. req[r].claims => Claims(r)
  BY <1>3 DEF Claims, Registers, Writes, Issuing
<1>6. \A q \in Requests : Claims(q)' => q # r /\ Claims(q) /\ req'[q].account = req[q].account
  <2> SUFFICES ASSUME NEW q \in Requests, Claims(q)'
               PROVE  q # r /\ Claims(q) /\ req'[q].account = req[q].account
    OBVIOUS
  <2>1. q # r
    BY <1>2, IdleOK DEF Replaces, Claims, Registers, Writes, Issuing
  <2> QED BY <1>2, <2>1 DEF Kept, Claims, Registers, Writes, Issuing
<1>7. AccountsKnown'
  <2>1. \A q \in Requests \ {r} :
          /\ req'[q].op = "patch" => req'[q].account \in users'
          /\ req'[q].op \in Issuers /\ req'[q].pc \in {"insert", "entry", "revoke"} \cup Issuing =>
               req'[q].account \in Accounts
    BY <1>2, <1>3 DEF Inv, AccountsKnown, Kept
  <2> QED BY <1>2, <1>3, <2>1 DEF AccountsKnown, FitsA
<1>8. ClaimsExclude'
  BY <1>3, <1>5, <1>6 DEF Inv, ClaimsExclude
<1>9. (TokensInHand /\ Rooted /\ Sent /\ OneUnrevoked /\ TokensSuffice)'
  BY <1>1, <1>2, <1>3, TokensKept DEF Inv
<1>10. (CodesAccepted /\ CountIsRight /\ CodesSuffice)'
  <2>1. wrong \in Nat
    BY DEF Inv, TypeOK
  <2> QED BY <1>1, <1>2, <1>3, <2>1, CodesKept DEF otpVars, Inv, Replaces
<1>11. TypeOK'
  <2>1. holder' \in users' \cup {None}
    BY <1>3, <1>4 DEF Inv, TypeOK
  <2> QED BY <1>1, <1>3, <2>1 DEF Inv, TypeOK, RequestsOK, tokenVars, otpVars
<1>12. holder # None /\ holder' # holder => holder' = None
  BY <1>3, <1>5 DEF Inv, ClaimsExclude
<1>13. RowsExclude'
  <2>1. ~Writes(r)'
    BY <1>2, IdleOK DEF Replaces, Writes, Registers
  <2> QED BY <1>2, <1>3, <2>1, RowsLeft DEF Inv
<1> QED BY <1>7, <1>8, <1>9, <1>10, <1>11, <1>12, <1>13 DEF Inv

(* There is a token left for every request that will issue one. *)
LEMMA NewTokenExists ==
  ASSUME Inv, NEW r \in Drawing
  PROVE  NewToken \in Tokens /\ root[NewToken] = None
<1> DEFINE U == {t \in Tokens : Unused(t)}
<1>1. RequestsOK
  BY InvRequests
<1>2. /\ IsFiniteSet(Drawing) /\ Cardinality(Drawing) \in Nat
      /\ Cardinality(U) \in Nat /\ Cardinality(Drawing) <= Cardinality(U)
  BY <1>1, Finite DEF Inv, TokensSuffice
<1>3. Cardinality(Drawing) # 0
  BY <1>2, FS_EmptySet
<1>4. U # {}
  BY <1>2, <1>3, FS_EmptySet
<1>5. \E t \in Tokens : Unused(t)
  BY <1>4
<1> QED BY <1>5 DEF NewToken, Unused

(* The token that a refresh or a logout presents *)
LEMMA TokenPresented ==
  ASSUME Inv, NEW r \in Requests
  PROVE  /\ req[r].token # None <=> req[r].op \in {"refresh", "logout"}
         /\ req[r].token # None =>
              /\ req[r].token \in Tokens /\ req[r].token \in answered
              /\ tokens[req[r].token] # None
<1>1. /\ req[r].op \in {"refresh", "logout"} =>
           req[r].token \in answered /\ tokens[req[r].token] # None
      /\ req[r].op \notin {"refresh", "logout"} => req[r].token = None
  BY DEF Inv, TokensInHand
<1>2. answered \subseteq Tokens /\ None \notin Tokens
  BY NoneAssumption DEF Inv, TypeOK
<1> QED BY <1>1, <1>2

(* A token that has been drawn is not None, nor is what it descends from. *)
LEMMA RootsAreTokens ==
  ASSUME Inv
  PROVE  /\ \A t \in Tokens : tokens[t] # None => root[t] # None
         /\ \A q \in Requests : req[q].fresh # None => root[req[q].fresh] \in Tokens
<1>1. \A t \in Tokens : tokens[t] # None => root[t] \in Tokens
  BY DEF Inv, Rooted
<1>2. None \notin Tokens
  BY NoneAssumption
<1>3. ASSUME NEW q \in Requests, req[q].fresh # None
      PROVE  root[req[q].fresh] \in Tokens
  <2>1. req[q] \in RequestRecord
    BY DEF Inv, TypeOK
  <2>2. req[q].fresh \in Tokens
    BY <1>3, <2>1 DEF RequestRecord
  <2>3. root[req[q].fresh] = IF req[q].token = None THEN req[q].fresh ELSE root[req[q].token]
    BY <1>3 DEF Inv, TokensInHand
  <2>4. req[q].token # None => req[q].token \in Tokens /\ tokens[req[q].token] # None
    BY TokenPresented
  <2> QED BY <1>1, <2>2, <2>3, <2>4
<1> QED BY <1>1, <1>2, <1>3

(* A token is drawn: it is in no family yet. *)
LEMMA IssueInv ==
  ASSUME Inv, NEW r \in Requests, Issue(r)
  PROVE  Inv'
<1> DEFINE n == NewToken
           x == [req[r] EXCEPT !.pc = "answer", !.fresh = n]
<1>1. RequestsOK
  BY InvRequests
<1>2. req[r].pc = "issue" /\ req[r].op \in Issuers /\ req[r].fresh = None
  <2>1. req[r].pc = "issue" /\ req[r].op \in Issuers
    BY <1>1, Places DEF Issue
  <2> QED BY <2>1 DEF Inv, TokensInHand
<1>3. r \in Drawing
  BY <1>2 DEF Drawing
<1>4. n \in Tokens /\ root[n] = None /\ n # None
  BY <1>3, NewTokenExists, NoneAssumption
<1>5. "answer" \in PCs /\ "answer" \in PCsOf[req[r].op]
  BY <1>2, PlacesOf, PlacesAreKnown DEF Handlers, Issuing
<1>6. req[r] \in RequestRecord
  BY <1>1 DEF RequestsOK
<1>7. /\ x \in RequestRecord /\ x.op = req[r].op /\ x.pc = "answer" /\ x.fresh = n
      /\ x.account = req[r].account /\ x.claims = req[r].claims /\ x.token = req[r].token
  BY <1>4, <1>5, <1>6 DEF RequestRecord
<1>8. /\ req' = [req EXCEPT ![r] = x] /\ root' = [root EXCEPT ![n] = RootOf(r)]
      /\ UNCHANGED <<accountVars, otpVars, tokens, answered, lost, closed, raced, clients>>
  BY DEF Issue
<1> HIDE DEF n, x
<1>9. Replaces(r, x)
  BY <1>1, <1>5, <1>7, <1>8, ReplaceOK
<1>10. /\ RequestsOK' /\ req'[r] = x /\ \A q \in Requests \ {r} : Kept(q)
       /\ \A q \in Requests \ {r} : req'[q] = req[q]
  BY <1>9 DEF Replaces, Kept
<1>11. AccountsKnown' /\ ClaimsExclude' /\ RowsExclude'
  <2>1. Claims(r)' => Claims(r)
    BY <1>2, <1>7, <1>10 DEF Claims, Registers, Writes, Issuing, Issuers
  <2>2. Registers(r)' => Registers(r) /\ Writes(r)
    BY <1>2, <1>7, <1>10 DEF Writes, Registers, Issuing, Issuers
  <2>3. Writes(r)' => Writes(r)
    BY <1>2, <1>7, <1>10 DEF Writes, Registers, Issuing, Issuers
  <2>4. Claims(r)' => holder \in {None, req[r].account} /\ \A q \in Requests \ {r} : ~Claims(q)
    BY <2>1 DEF Inv, ClaimsExclude
  <2>5. /\ Registers(r)' => req[r].account \notin users
        /\ Writes(r)' => \A q \in Requests \ {r} : Writes(q) => req[q].account # req[r].account
    BY <2>2, <2>3 DEF Inv, RowsExclude
  <2>6. /\ req'[r].op \in Issuers /\ req'[r].op # "patch" /\ req'[r].account = req[r].account
        /\ req[r].account \in Accounts
    BY <1>2, <1>7, <1>10 DEF Inv, AccountsKnown, Issuers, Issuing
  <2>7. FitsA(r)
    BY <2>4, <2>5, <2>6 DEF FitsA
  <2> QED BY <1>8, <1>10, <2>7, AccountsKept DEF Inv
<1>12. (CodesAccepted /\ CountIsRight /\ CodesSuffice)'
  <2>1. wrong \in Nat
    BY DEF Inv, TypeOK
  <2>2. FitsC(r)
    BY <1>7, <1>10 DEF FitsC, Checking
  <2> QED BY <1>1, <1>8, <1>10, <2>1, <2>2, CodesKept DEF otpVars, Inv
<1>13. /\ \A t \in Tokens : tokens[t] # None => t # n /\ root[t] # n
       /\ n \notin answered \cup lost
       /\ \A q \in Requests : req[q].fresh # n
  <2>1. \A t \in Tokens : tokens[t] # None => t # n /\ tokens[root[t]] # None /\ root[t] \in Tokens
    BY <1>4, RootsAreTokens DEF Inv, Rooted
  <2>2. \A t \in Tokens : tokens[t] # None => t # n /\ root[t] # n
    BY <2>1
  <2>3. n \notin answered \cup lost
    BY <1>4 DEF Inv, Rooted
  <2>4. \A q \in Requests : req[q].fresh # n
    BY <1>4, RootsAreTokens, NoneAssumption
  <2> QED BY <2>2, <2>3, <2>4
<1>14. /\ root \in [Tokens -> Tokens \cup {None}]
       /\ \A t \in Tokens : t # n => root'[t] = root[t]
       /\ root'[n] = RootOf(r)
       /\ UNCHANGED <<tokens, answered, lost, closed, raced>>
  BY <1>4, <1>8 DEF Inv, TypeOK
<1>15. RootOf(r) \in Tokens /\ RootOf(r) = IF req[r].token = None THEN n ELSE root[req[r].token]
  <2>1. RootOf(r) = IF req[r].token = None THEN n ELSE root[req[r].token]
    BY DEF RootOf, n
  <2>2. req[r].token # None => req[r].token \in Tokens /\ tokens[req[r].token] # None
    BY TokenPresented
  <2> QED BY <1>4, <2>1, <2>2 DEF Inv, Rooted
<1>16. \A q \in Requests : req[q].token # None =>
         /\ req[q].token \in Tokens /\ tokens[req[q].token] # None
         /\ root'[req[q].token] = root[req[q].token]
  BY <1>13, <1>14, TokenPresented
<1>17. TokensInHand'
  <2>1. ASSUME NEW q \in Requests
        PROVE  /\ IF req'[q].op \in {"refresh", "logout"}
                  THEN req'[q].token \in answered' /\ tokens'[req'[q].token] # None
                  ELSE req'[q].token = None
               /\ req'[q].fresh # None <=>
                    req'[q].op \in Issuers /\ req'[q].pc \in {"answer", "commit"}
               /\ req'[q].fresh # None => (req'[q].fresh \in (answered \cup lost)' <=> req'[q].pc = "commit")
    <3>1. CASE q = r
      <4>1. IF req[r].op \in {"refresh", "logout"}
            THEN req[r].token \in answered /\ tokens[req[r].token] # None
            ELSE req[r].token = None
        BY DEF Inv, TokensInHand
      <4> QED BY <1>2, <1>4, <1>7, <1>10, <1>13, <1>14, <3>1, <4>1
    <3>2. CASE q # r
      <4>1. req'[q] = req[q]
        BY <1>10, <3>2
      <4>2. /\ IF req[q].op \in {"refresh", "logout"}
               THEN req[q].token \in answered /\ tokens[req[q].token] # None
               ELSE req[q].token = None
            /\ req[q].fresh # None <=> req[q].op \in Issuers /\ req[q].pc \in {"answer", "commit"}
            /\ req[q].fresh # None => (req[q].fresh \in answered \cup lost <=> req[q].pc = "commit")
        BY DEF Inv, TokensInHand
      <4> QED BY <1>14, <4>1, <4>2
    <3> QED BY <3>1, <3>2
  <2>2. ASSUME NEW q \in Requests, req'[q].fresh # None
        PROVE  /\ tokens'[req'[q].fresh] = None
               /\ root'[req'[q].fresh] = IF req'[q].token = None THEN req'[q].fresh
                                         ELSE root'[req'[q].token]
    <3>1. CASE q = r
      <4>1. tokens[n] = None
        BY <1>4, <1>13
      <4>2. req'[q].fresh = n /\ req'[q].token = req[r].token
        BY <1>7, <1>10, <3>1
      <4> QED BY <1>14, <1>15, <1>16, <4>1, <4>2
    <3>2. CASE q # r
      <4>1. req'[q] = req[q]
        BY <1>10, <3>2
      <4>2. /\ tokens[req[q].fresh] = None
            /\ root[req[q].fresh] = IF req[q].token = None THEN req[q].fresh
                                    ELSE root[req[q].token]
        BY <2>2, <4>1 DEF Inv, TokensInHand
      <4>3. req[q].fresh \in Tokens /\ req[q].fresh # n
        BY <1>1, <1>13, <2>2, <4>1 DEF RequestsOK, RequestRecord
      <4> QED BY <1>14, <1>16, <4>1, <4>2, <4>3
    <3> QED BY <3>1, <3>2
  <2>3. ASSUME NEW p \in Requests, NEW q \in Requests,
               req'[p].fresh = req'[q].fresh, req'[q].fresh # None
        PROVE  p = q
    <3>1. CASE p = r \/ q = r
      BY <1>7, <1>10, <1>13, <2>3, <3>1
    <3>2. CASE p # r /\ q # r
      BY <1>10, <2>3, <3>2 DEF Inv, TokensInHand
    <3> QED BY <3>1, <3>2
  <2> QED BY <2>1, <2>2, <2>3 DEF TokensInHand
<1>18. Rooted'
  <2>1. ASSUME NEW t \in Tokens, tokens'[t] # None
        PROVE  root'[t] \in Tokens /\ tokens'[root'[t]] # None /\ root'[root'[t]] = root'[t]
    <3>1. root[t] \in Tokens /\ tokens[root[t]] # None /\ root[root[t]] = root[t]
      BY <1>14, <2>1 DEF Inv, Rooted
    <3> QED BY <1>13, <1>14, <2>1, <3>1
  <2>2. \A t \in (answered \cup lost)' : root'[t] # None
    <3>1. answered \cup lost \subseteq Tokens
      BY DEF Inv, TypeOK
    <3> QED BY <1>13, <1>14, <3>1 DEF Inv, Rooted
  <2>3. \A f \in closed' : tokens'[f] # None
    BY <1>14 DEF Inv, Rooted
  <2> QED BY <2>1, <2>2, <2>3 DEF Rooted
<1>19. Sent'
  BY <1>14 DEF Inv, Sent
<1>20. OneUnrevoked'
  <2>1. \A f \in Tokens : Family(f)' = Family(f)
    BY <1>13, <1>14 DEF Family
  <2>2. \A f \in Tokens : Unrevoked(f)' = Unrevoked(f)
    BY <1>14, <2>1 DEF Unrevoked
  <2> QED BY <1>14, <2>1, <2>2 DEF Inv, OneUnrevoked
<1>21. TokensSuffice'
  <2> DEFINE U == {t \in Tokens : Unused(t)}
  <2>1. /\ IsFiniteSet(Drawing) /\ Cardinality(Drawing) \in Nat
        /\ IsFiniteSet(U) /\ Cardinality(U) \in Nat /\ Cardinality(Drawing) <= Cardinality(U)
    BY <1>1, Finite DEF Inv, TokensSuffice
  <2>2. U' = U \ {n} /\ n \in U
    <3>1. RootOf(r) # None
      BY <1>15, NoneAssumption
    <3>2. \A t \in Tokens : Unused(t)' <=> Unused(t) /\ t # n
      BY <1>4, <1>14, <3>1 DEF Unused
    <3> QED BY <1>4, <3>2 DEF Unused
  <2>3. Drawing' = Drawing \ {r}
    BY <1>4, <1>7, <1>10 DEF Drawing
  <2>4. Cardinality(U') = Cardinality(U) - 1
    BY <2>1, <2>2, FS_RemoveElement
  <2>5. Cardinality(Drawing') = Cardinality(Drawing) - 1
    BY <1>3, <2>1, <2>3, FS_RemoveElement
  <2> QED BY <2>1, <2>4, <2>5 DEF TokensSuffice
<1>22. TypeOK'
  <2>1. root' \in [Tokens -> Tokens \cup {None}]
    BY <1>8, <1>14, <1>15
  <2> QED BY <1>8, <1>10, <2>1 DEF Inv, TypeOK, RequestsOK, accountVars, otpVars
<1> QED BY <1>11, <1>12, <1>17, <1>18, <1>19, <1>20, <1>21, <1>22 DEF Inv

LEMMA AnswerInv ==
  ASSUME Inv, NEW r \in Requests, Answer(r)
  PROVE  Inv'
<1>1. RequestsOK
  BY InvRequests
<1>2. req[r].pc = "answer" /\ req[r].op \in Issuers /\ req[r].fresh # None
  <2>1. req[r].pc = "answer" /\ req[r].op \in Issuers
    BY <1>1, Places DEF Answer
  <2> QED BY <2>1 DEF Inv, TokensInHand
<1>3. req[r].fresh \in Tokens
  BY <1>1, <1>2 DEF RequestsOK, RequestRecord
<1>4. /\ \/ answered' = answered \cup {req[r].fresh} /\ lost' = lost
         \/ lost' = lost \cup {req[r].fresh} /\ answered' = answered
      /\ Goto(r, "commit")
      /\ UNCHANGED <<accountVars, otpVars, tokens, root, closed, raced, clients>>
  BY DEF Answer
<1>5. "commit" \in PCsOf[req[r].op]
  BY <1>2, PlacesOf DEF Issuing
<1>6. /\ Replaces(r, [req[r] EXCEPT !.pc = "commit"])
      /\ req'[r].op = req[r].op /\ req'[r].pc = "commit"
      /\ req'[r].account = req[r].account /\ req'[r].claims = req[r].claims
      /\ req'[r].token = req[r].token /\ req'[r].fresh = req[r].fresh
  BY <1>1, <1>4, <1>5, GotoOK
<1>7. /\ RequestsOK' /\ \A q \in Requests \ {r} : Kept(q)
      /\ \A q \in Requests \ {r} : req'[q] = req[q]
  BY <1>6 DEF Replaces, Kept
<1>8. AccountsKnown' /\ ClaimsExclude' /\ RowsExclude'
  <2>1. Claims(r)' => Claims(r)
    BY <1>2, <1>6 DEF Claims, Registers, Writes, Issuing, Issuers
  <2>2. Registers(r)' => Registers(r) /\ Writes(r)
    BY <1>2, <1>6 DEF Writes, Registers, Issuing, Issuers
  <2>3. Writes(r)' => Writes(r)
    BY <1>2, <1>6 DEF Writes, Registers, Issuing, Issuers
  <2>4. Claims(r)' => holder \in {None, req[r].account} /\ \A q \in Requests \ {r} : ~Claims(q)
    BY <2>1 DEF Inv, ClaimsExclude
  <2>5. /\ Registers(r)' => req[r].account \notin users
        /\ Writes(r)' => \A q \in Requests \ {r} : Writes(q) => req[q].account # req[r].account
    BY <2>2, <2>3 DEF Inv, RowsExclude
  <2>6. /\ req'[r].op \in Issuers /\ req'[r].op # "patch" /\ req'[r].account = req[r].account
        /\ req[r].account \in Accounts
    BY <1>2, <1>6 DEF Inv, AccountsKnown, Issuers, Issuing
  <2>7. FitsA(r)
    BY <2>4, <2>5, <2>6 DEF FitsA
  <2> QED BY <1>4, <1>7, <2>7, AccountsKept DEF Inv
<1>9. (CodesAccepted /\ CountIsRight /\ CodesSuffice)'
  <2>1. wrong \in Nat
    BY DEF Inv, TypeOK
  <2>2. FitsC(r)
    BY <1>6 DEF FitsC, Checking
  <2> QED BY <1>1, <1>4, <1>7, <2>1, <2>2, CodesKept DEF otpVars, Inv
<1>10. TokensInHand'
  <2>1. \A q \in Requests : /\ req'[q].op = req[q].op /\ req'[q].token = req[q].token
                            /\ req'[q].fresh = req[q].fresh
    BY <1>6, <1>7
  <2>2. \A q \in Requests : req'[q].fresh # None <=>
          req'[q].op \in Issuers /\ req'[q].pc \in {"answer", "commit"}
    BY <1>2, <1>6, <1>7 DEF Inv, TokensInHand
  <2>3. (answered \cup lost)' = answered \cup lost \cup {req[r].fresh}
    BY <1>4
  <2>4. ASSUME NEW q \in Requests, req'[q].fresh # None
        PROVE  req'[q].fresh \in (answered \cup lost)' <=> req'[q].pc = "commit"
    <3>1. CASE q = r
      BY <1>6, <2>3, <3>1
    <3>2. CASE q # r
      <4>1. req[q].fresh # req[r].fresh /\ req'[q].pc = req[q].pc
        BY <1>7, <2>1, <2>4, <3>2 DEF Inv, TokensInHand
      <4>2. req[q].fresh \in answered \cup lost <=> req[q].pc = "commit"
        BY <2>1, <2>4 DEF Inv, TokensInHand
      <4> QED BY <2>1, <2>3, <4>1, <4>2
    <3> QED BY <3>1, <3>2
  <2>5. \A q \in Requests : IF req[q].op \in {"refresh", "logout"}
                            THEN req[q].token \in answered' /\ tokens[req[q].token] # None
                            ELSE req[q].token = None
    BY <1>4 DEF Inv, TokensInHand
  <2>6. ASSUME NEW q \in Requests, req[q].fresh # None
        PROVE  /\ tokens[req[q].fresh] = None
               /\ root[req[q].fresh] = IF req[q].token = None THEN req[q].fresh
                                       ELSE root[req[q].token]
               /\ \A p \in Requests : req[p].fresh = req[q].fresh => p = q
    BY <2>6 DEF Inv, TokensInHand
  <2> QED BY <1>4, <2>1, <2>2, <2>4, <2>5, <2>6 DEF TokensInHand
<1>11. Rooted'
  <2>1. root[req[r].fresh] # None
    BY <1>2, RootsAreTokens, NoneAssumption
  <2>2. \A t \in (answered \cup lost)' : t \in answered \cup lost \/ t = req[r].fresh
    BY <1>4
  <2> QED BY <1>4, <2>1, <2>2 DEF Inv, Rooted
<1>12. Sent' /\ OneUnrevoked'
  <2>1. req[r].fresh \notin answered \cup lost /\ tokens[req[r].fresh] = None
    BY <1>2 DEF Inv, TokensInHand
  <2>2. Sent'
    BY <1>4, <2>1 DEF Inv, Sent
  <2> QED BY <1>4, <2>2 DEF Inv, OneUnrevoked, Family, Unrevoked
<1>13. TokensSuffice'
  BY <1>1, <1>2, <1>4, <1>6, <1>7, DrawingKept DEF Inv
<1>14. TypeOK'
  <2>1. answered' \in SUBSET Tokens /\ lost' \in SUBSET Tokens
    BY <1>3, <1>4 DEF Inv, TypeOK
  <2> QED BY <1>4, <1>7, <2>1 DEF Inv, TypeOK, RequestsOK, accountVars, otpVars
<1> QED BY <1>8, <1>9, <1>10, <1>11, <1>12, <1>13, <1>14 DEF Inv

(* Rotation: the token issued takes the place of the one presented, as the one
   unrevoked token of the family, unless that one had been revoked. *)
LEMMA CommitIssueTokens ==
  ASSUME Inv, NEW r \in Requests, CommitIssue(r)
  PROVE  (TokensInHand /\ Rooted /\ Sent /\ OneUnrevoked)' /\ tokens' \in [Tokens -> Row \cup {None}]
<1> DEFINE n == req[r].fresh
           t0 == req[r].token
<1>1. RequestsOK /\ RequestsOK' /\ (\A q \in Requests \ {r} : Kept(q)) /\ FitsT(r)
  BY InvRequests, EndFits DEF CommitIssue, Replaces
<1>2. /\ req'[r].op = "none" /\ req'[r].pc = "idle" /\ req'[r].token = None
      /\ req'[r].fresh = None
  BY <1>1, EndOK, IdleOK DEF CommitIssue, Replaces
<1>3. /\ req[r].op \in Issuers /\ req[r].pc = "commit" /\ tokens' = Stored(r)
      /\ UNCHANGED <<answered, lost, root, closed>>
      /\ raced' = IF req[r].op = "refresh" /\ tokens[t0].revoked
                  THEN raced \cup {root[t0]} ELSE raced
  BY DEF CommitIssue
<1>4. n # None /\ n \in Tokens /\ n \in answered \cup lost /\ tokens[n] = None
  <2>1. n # None
    BY <1>3 DEF Inv, TokensInHand
  <2>2. n \in Tokens
    BY <1>1, <2>1 DEF RequestsOK, RequestRecord
  <2>3. n # None => tokens[n] = None /\ (n \in answered \cup lost <=> req[r].pc = "commit")
    BY DEF Inv, TokensInHand
  <2> QED BY <1>3, <2>1, <2>2, <2>3
<1>5. root[n] \in Tokens /\ root[n] = IF t0 = None THEN n ELSE root[t0]
  BY <1>4, RootsAreTokens DEF Inv, TokensInHand
<1>6. t0 # None => /\ t0 \in Tokens /\ tokens[t0] # None /\ t0 # n
                   /\ t0 \in answered /\ req[r].op = "refresh"
  BY <1>3, <1>4, TokenPresented DEF Issuers
<1>7. req[r].op = "refresh" => t0 # None
  BY TokenPresented
<1>8. tokens \in [Tokens -> Row \cup {None}] /\ NewRow(r) \in Row /\ NewRow(r) # None
      /\ ~NewRow(r).revoked
  <2>1. req[r].account \in Accounts
    BY <1>3 DEF Inv, AccountsKnown, Issuing
  <2>2. NewRow(r) \in Row /\ ~NewRow(r).revoked
    BY <2>1 DEF NewRow, Row
  <2> QED BY <2>2, NoRowAssumption DEF Inv, TypeOK
<1>9. t0 # None => /\ tokens[t0] \in Row
                   /\ [tokens[t0] EXCEPT !.revoked = TRUE] \in Row
                   /\ [tokens[t0] EXCEPT !.revoked = TRUE].revoked
  <2> SUFFICES ASSUME t0 # None
               PROVE  /\ tokens[t0] \in Row
                      /\ [tokens[t0] EXCEPT !.revoked = TRUE] \in Row
                      /\ [tokens[t0] EXCEPT !.revoked = TRUE].revoked
    OBVIOUS
  <2>1. tokens[t0] \in Row
    BY <1>6, <1>8
  <2> QED BY <2>1 DEF Row
<1>10. /\ tokens'[n] = NewRow(r)
       /\ t0 # None => tokens'[t0] = [tokens[t0] EXCEPT !.revoked = TRUE]
       /\ \A t \in Tokens : t # n /\ t # t0 => tokens'[t] = tokens[t]
       /\ tokens' \in [Tokens -> Row \cup {None}]
  <2>1. tokens' = [t \in Tokens |-> IF t = n THEN NewRow(r)
                                    ELSE IF t = t0 THEN [tokens[t] EXCEPT !.revoked = TRUE]
                                         ELSE tokens[t]]
    BY <1>3 DEF Stored
  <2>2. \A t \in Tokens : t = t0 => t0 # None
    BY NoneAssumption
  <2>3. \A t \in Tokens : (IF t = n THEN NewRow(r)
                           ELSE IF t = t0 THEN [tokens[t] EXCEPT !.revoked = TRUE]
                                ELSE tokens[t]) \in Row \cup {None}
    BY <1>8, <1>9, <2>2
  <2>4. tokens' \in [Tokens -> Row \cup {None}]
    BY <2>1, <2>3
  <2> QED BY <1>4, <1>6, <2>1, <2>4
<1> HIDE DEF n, t0
<1>11. \A t \in Tokens : tokens'[t] # None <=> tokens[t] # None \/ t = n
  <2> SUFFICES ASSUME NEW t \in Tokens PROVE tokens'[t] # None <=> tokens[t] # None \/ t = n
    OBVIOUS
  <2>1. CASE t = n
    BY <1>8, <1>10, <2>1
  <2>2. CASE t = t0
    <3>1. t0 # None
      BY <2>2, NoneAssumption
    <3>2. tokens'[t] \in Row
      BY <1>9, <1>10, <2>2, <3>1
    <3> QED BY <1>6, <2>2, <3>1, <3>2, NoRowAssumption
  <2>3. CASE t # n /\ t # t0
    BY <1>10, <2>3
  <2> QED BY <2>1, <2>2, <2>3
<1>12. TokensInHand'
  <2>1. ASSUME NEW q \in Requests \ {r}, req[q].fresh # None
        PROVE  req[q].fresh \in Tokens /\ tokens'[req[q].fresh] = None
    <3>1. req[q].fresh \in Tokens
      BY <1>1, <2>1 DEF RequestsOK, RequestRecord
    <3>2. tokens[req[q].fresh] = None /\ req[q].fresh # n
      BY <1>4, <2>1 DEF Inv, TokensInHand, n
    <3> QED BY <1>11, <3>1, <3>2
  <2>2. ASSUME NEW q \in Requests
        PROVE  /\ IF req'[q].op \in {"refresh", "logout"}
                  THEN req'[q].token \in answered' /\ tokens'[req'[q].token] # None
                  ELSE req'[q].token = None
               /\ req'[q].fresh # None <=>
                    req'[q].op \in Issuers /\ req'[q].pc \in {"answer", "commit"}
               /\ req'[q].fresh # None =>
                    /\ tokens'[req'[q].fresh] = None
                    /\ root'[req'[q].fresh] = IF req'[q].token = None THEN req'[q].fresh
                                              ELSE root'[req'[q].token]
                    /\ req'[q].fresh \in (answered \cup lost)' <=> req'[q].pc = "commit"
    <3>1. CASE q = r
      BY <1>2, <3>1 DEF Issuers
    <3>2. CASE q # r
      <4>1. /\ req'[q].op = req[q].op /\ req'[q].token = req[q].token
            /\ req'[q].fresh = req[q].fresh /\ req'[q].pc = req[q].pc
        BY <1>1, <3>2 DEF Kept
      <4>2. /\ IF req[q].op \in {"refresh", "logout"}
               THEN req[q].token \in answered /\ tokens[req[q].token] # None
               ELSE req[q].token = None
            /\ req[q].fresh # None <=>
                 req[q].op \in Issuers /\ req[q].pc \in {"answer", "commit"}
            /\ req[q].fresh # None =>
                 root[req[q].fresh] = IF req[q].token = None THEN req[q].fresh
                                      ELSE root[req[q].token]
            /\ req[q].fresh # None => (req[q].fresh \in answered \cup lost <=> req[q].pc = "commit")
        BY DEF Inv, TokensInHand
      <4>3. req[q].token # None => req[q].token \in Tokens
        BY TokenPresented
      <4>4. req[q].op \in {"refresh", "logout"} => tokens'[req[q].token] # None
        BY <1>11, <4>2, <4>3, TokenPresented
      <4>5. req[q].fresh # None => tokens'[req[q].fresh] = None
        BY <2>1, <3>2
      <4> QED BY <1>3, <4>1, <4>2, <4>4, <4>5
    <3> QED BY <3>1, <3>2
  <2>3. \A p, q \in Requests : req'[p].fresh = req'[q].fresh /\ req'[q].fresh # None => p = q
    BY <1>1, <1>2 DEF Inv, TokensInHand, Kept
  <2> QED BY <2>2, <2>3 DEF TokensInHand
<1>13. Rooted'
  <2>1. ASSUME NEW t \in Tokens, tokens'[t] # None
        PROVE  root[t] \in Tokens /\ tokens'[root[t]] # None /\ root[root[t]] = root[t]
    <3>1. CASE tokens[t] # None
      BY <1>11, <3>1 DEF Inv, Rooted
    <3>2. CASE t = n /\ t0 = None
      BY <1>5, <1>11, <2>1, <3>2
    <3>3. CASE t = n /\ t0 # None
      <4>1. root[n] = root[t0] /\ tokens[t0] # None /\ t0 \in Tokens
        BY <1>5, <1>6, <3>3
      <4> QED BY <1>11, <3>3, <4>1 DEF Inv, Rooted
    <3> QED BY <1>11, <2>1, <3>1, <3>2, <3>3
  <2>2. \A f \in closed : tokens'[f] # None
    <3>1. closed \subseteq Tokens
      BY DEF Inv, TypeOK
    <3> QED BY <1>11, <3>1 DEF Inv, Rooted
  <2> QED BY <1>3, <2>1, <2>2 DEF Inv, Rooted
<1>14. Sent'
  <2>1. \A t \in Tokens : tokens'[t] # None => t \in answered \cup lost
    BY <1>4, <1>11 DEF Inv, Sent
  <2>2. ASSUME NEW t \in lost
        PROVE  t \notin answered /\ (tokens'[t] # None => ~tokens'[t].revoked)
    <3>1. t \in Tokens /\ t \notin answered /\ (tokens[t] # None => ~tokens[t].revoked)
      BY DEF Inv, TypeOK, Sent
    <3>2. t # t0
      BY <1>6, <3>1, NoneAssumption
    <3> QED BY <1>8, <1>10, <3>1, <3>2
  <2> QED BY <1>3, <2>1, <2>2 DEF Sent
<1>15. OneUnrevoked'
  <2> SUFFICES ASSUME NEW f \in Tokens \ raced', Family(f)' # {}
               PROVE  IF f \in closed THEN Unrevoked(f)' = {}
                      ELSE \E t \in Tokens : Unrevoked(f)' = {t}
    BY <1>3 DEF OneUnrevoked
  <2>1. f \notin raced
    BY <1>3
  <2>2. CASE f # root[n]
    <3>1. Family(f)' = Family(f)
      BY <1>3, <1>11, <2>2 DEF Family
    <3>2. \A t \in Family(f) : tokens'[t] = tokens[t]
      BY <1>5, <1>10, <2>2, NoneAssumption DEF Family
    <3>3. Unrevoked(f)' = Unrevoked(f)
      BY <3>1, <3>2 DEF Unrevoked
    <3> QED BY <2>1, <3>1, <3>3 DEF Inv, OneUnrevoked
  <2>3. CASE f = root[n] /\ t0 = None
    <3>1. f = n
      BY <1>5, <2>3
    <3>2. \A t \in Tokens : tokens[t] # None => root[t] # n
      BY <1>4 DEF Inv, Rooted
    <3>3. Family(f)' = {n}
      BY <1>3, <1>4, <1>11, <2>3, <3>1, <3>2 DEF Family
    <3>4. Unrevoked(f)' = {n}
      BY <1>8, <1>10, <3>3 DEF Unrevoked
    <3>5. f \notin closed
      BY <1>4, <3>1 DEF Inv, Rooted
    <3> QED BY <1>4, <3>4, <3>5
  <2>4. CASE f = root[n] /\ t0 # None
    <3>1. f = root[t0] /\ t0 \in Tokens /\ tokens[t0] # None /\ t0 # n
      BY <1>5, <1>6, <2>4
    <3>2. ~tokens[t0].revoked
      BY <1>3, <1>6, <2>4, <3>1
    <3>3. t0 \in Family(f) /\ t0 \in Unrevoked(f)
      BY <3>1, <3>2 DEF Family, Unrevoked
    <3>4. f \notin closed /\ Unrevoked(f) = {t0}
      BY <2>1, <3>3 DEF Inv, OneUnrevoked
    <3>5. Family(f)' = Family(f) \cup {n}
      BY <1>3, <1>4, <1>11, <2>4 DEF Family
    <3>6. Unrevoked(f)' = {n}
      <4>1. n \in Unrevoked(f)'
        BY <1>8, <1>10, <3>5 DEF Unrevoked
      <4>2. ASSUME NEW t \in Unrevoked(f)' PROVE t = n
        <5>1. t \in Family(f)' /\ ~tokens'[t].revoked
          BY <4>2 DEF Unrevoked
        <5>2. t # t0
          BY <1>9, <1>10, <2>4, <5>1
        <5>3. t # n => t \in Family(f) /\ tokens'[t] = tokens[t]
          BY <1>10, <3>5, <5>1, <5>2 DEF Family
        <5>4. t # n => t \in Unrevoked(f)
          BY <5>1, <5>3 DEF Unrevoked
        <5> QED BY <3>4, <5>2, <5>4
      <4> QED BY <4>1, <4>2
    <3> QED BY <1>4, <3>4, <3>6
  <2> QED BY <2>2, <2>3, <2>4
<1> QED BY <1>10, <1>12, <1>13, <1>14, <1>15

LEMMA CommitIssueInv ==
  ASSUME Inv, NEW r \in Requests, CommitIssue(r)
  PROVE  Inv' /\ (holder # None /\ holder' # holder => holder' = None)
<1>1. RequestsOK /\ RequestsOK'
  BY InvRequests, EndFits DEF CommitIssue, Replaces
<1>2. /\ Replaces(r, Idle) /\ \A q \in Requests \ {r} : Kept(q)
      /\ FitsA(r) /\ FitsT(r) /\ FitsC(r)
  BY <1>1, EndFits DEF CommitIssue
<1>3. /\ req[r].op \in Issuers /\ req[r].pc = "commit"
      /\ IF req[r].op = "register"
         THEN /\ users' = users \cup {req[r].account}
              /\ holder' = IF req[r].claims THEN req[r].account ELSE holder
         ELSE UNCHANGED accountVars
      /\ UNCHANGED <<otpVars, answered, lost, root, closed, clients>>
      /\ raced' = IF req[r].op = "refresh" /\ tokens[req[r].token].revoked
                  THEN raced \cup {root[req[r].token]} ELSE raced
  BY DEF CommitIssue
<1>4. req[r].account \in Accounts
  BY <1>3 DEF Inv, AccountsKnown, Issuing
<1>5. req[r].op = "register" /\ req[r].claims => Claims(r)
  BY <1>3 DEF Claims, Registers, Writes, Issuing
<1>6. AccountsKnown' /\ ClaimsExclude' /\ RowsExclude'
  <2>1. CASE req[r].op # "register"
    BY <1>2, <1>3, <2>1, AccountsKept DEF Inv
  <2>2. CASE req[r].op = "register"
    <3>1. AccountsKnown'
      <4>1. \A q \in Requests \ {r} :
              /\ req'[q].op = "patch" => req'[q].account \in users'
              /\ req'[q].op \in Issuers /\ req'[q].pc \in {"insert", "entry", "revoke"} \cup Issuing =>
                   req'[q].account \in Accounts
        BY <1>2, <1>3, <2>2 DEF Inv, AccountsKnown, Kept
      <4>2. req'[r].op = "none"
        BY <1>2, IdleOK DEF Replaces
      <4> QED BY <4>1, <4>2 DEF AccountsKnown, Issuers
    <3>2. \A q \in Requests : Claims(q)' => q # r /\ Claims(q) /\ req'[q].account = req[q].account
      <4> SUFFICES ASSUME NEW q \in Requests, Claims(q)'
                   PROVE  q # r /\ Claims(q) /\ req'[q].account = req[q].account
        OBVIOUS
      <4>1. q # r
        BY <1>2, IdleOK DEF Replaces, Claims, Registers, Writes, Issuing
      <4> QED BY <1>2, <4>1 DEF Kept, Claims, Registers, Writes, Issuing
    <3>3. ClaimsExclude'
      BY <1>3, <1>5, <2>2, <3>2 DEF Inv, ClaimsExclude
    <3>4. ~Writes(r)' /\ Writes(r)
      BY <1>2, <1>3, <2>2, IdleOK DEF Replaces, Writes, Registers, Issuing
    <3>5. RowsExclude'
      BY <1>2, <1>3, <2>2, <3>4, RowsLeft DEF Inv
    <3> QED BY <3>1, <3>3, <3>5
  <2> QED BY <2>1, <2>2
<1>7. (TokensInHand /\ Rooted /\ Sent /\ OneUnrevoked)'
      /\ tokens' \in [Tokens -> Row \cup {None}]
  BY CommitIssueTokens
<1>8. TokensSuffice'
  BY <1>1, <1>2, <1>3, DrawingKept DEF Inv, FitsT
<1>9. (CodesAccepted /\ CountIsRight /\ CodesSuffice)'
  <2>1. wrong \in Nat
    BY DEF Inv, TypeOK
  <2> QED BY <1>1, <1>2, <1>3, <2>1, CodesKept DEF otpVars, Inv, Replaces
<1>10. TypeOK'
  <2>1. users' \in SUBSET Accounts /\ holder' \in users' \cup {None}
    <3>1. users \in SUBSET Accounts /\ holder \in users \cup {None}
      BY DEF Inv, TypeOK
    <3> QED BY <1>3, <1>4, <3>1 DEF accountVars
  <2>2. raced' \in SUBSET Tokens
    <3>1. CASE req[r].op = "refresh"
      <4>1. req[r].token \in Tokens /\ tokens[req[r].token] # None
        BY <3>1, TokenPresented
      <4>2. root[req[r].token] \in Tokens
        BY <4>1 DEF Inv, Rooted
      <4> QED BY <1>3, <4>2 DEF Inv, TypeOK
    <3>2. CASE req[r].op # "refresh"
      BY <1>3, <3>2 DEF Inv, TypeOK
    <3> QED BY <3>1, <3>2
  <2>3. UNCHANGED <<code, attempts, cooldown, drawn, wrong, clean, accepted, answered, lost,
                    root, closed, clients>>
    BY <1>3 DEF otpVars
  <2> QED BY <1>1, <1>7, <2>1, <2>2, <2>3 DEF Inv, TypeOK, RequestsOK
<1>11. holder # None /\ holder' # holder => holder' = None
  BY <1>3, <1>5 DEF Inv, ClaimsExclude, accountVars
<1> QED BY <1>6, <1>7, <1>8, <1>9, <1>10, <1>11 DEF Inv

(* What a change of token rows that are stored leaves as it is, while it stores no
   token, drops none, and touches none that its client does not know *)
LEMMA RowsKept ==
  ASSUME Inv, NEW r \in Requests, RequestsOK', \A q \in Requests \ {r} : Kept(q), FitsT(r),
         \A t \in Tokens : tokens'[t] # None <=> tokens[t] # None,
         \A t \in lost : tokens[t] # None => tokens'[t].revoked = tokens[t].revoked,
         UNCHANGED <<answered, lost, root, raced>>,
         \A f \in closed' : f \in Tokens /\ tokens[f] # None
  PROVE  /\ (TokensInHand /\ Rooted /\ Sent /\ TokensSuffice)'
         /\ \A f \in Tokens : Family(f)' = Family(f)
<1>1. RequestsOK
  BY InvRequests
<1>2. \A q \in Requests : req'[q].fresh # None =>
        /\ req'[q].fresh = req[q].fresh /\ req'[q].token = req[q].token
        /\ req[q].fresh \in Tokens
  BY <1>1 DEF FitsT, Kept, RequestsOK, RequestRecord
<1>3. answered \subseteq Tokens /\ lost \subseteq Tokens
  BY DEF Inv, TypeOK
<1>4. TokensInHand'
  <2>1. ASSUME NEW q \in Requests
        PROVE  /\ IF req'[q].op \in {"refresh", "logout"}
                  THEN req'[q].token \in answered' /\ tokens'[req'[q].token] # None
                  ELSE req'[q].token = None
               /\ req'[q].fresh # None <=>
                    req'[q].op \in Issuers /\ req'[q].pc \in {"answer", "commit"}
               /\ req'[q].fresh # None => (req'[q].fresh \in (answered \cup lost)' <=> req'[q].pc = "commit")
    <3>1. CASE q = r
      <4>1. req'[q].op \in {"refresh", "logout"} =>
              req'[q].token \in Tokens /\ tokens'[req'[q].token] # None
        BY <1>3, <3>1 DEF FitsT
      <4> QED BY <3>1, <4>1 DEF FitsT
    <3>2. CASE q # r
      <4>1. /\ req'[q].op = req[q].op /\ req'[q].token = req[q].token
            /\ req'[q].fresh = req[q].fresh /\ req'[q].pc = req[q].pc
        BY <3>2 DEF Kept
      <4>2. /\ IF req[q].op \in {"refresh", "logout"}
               THEN req[q].token \in answered /\ tokens[req[q].token] # None
               ELSE req[q].token = None
            /\ req[q].fresh # None <=>
                 req[q].op \in Issuers /\ req[q].pc \in {"answer", "commit"}
            /\ req[q].fresh # None => (req[q].fresh \in answered \cup lost <=> req[q].pc = "commit")
        BY DEF Inv, TokensInHand
      <4>3. req[q].op \in {"refresh", "logout"} => tokens'[req[q].token] # None
        BY <1>3, <4>2
      <4> QED BY <4>1, <4>2, <4>3
    <3> QED BY <3>1, <3>2
  <2>2. ASSUME NEW q \in Requests, req'[q].fresh # None
        PROVE  /\ tokens'[req'[q].fresh] = None
               /\ root'[req'[q].fresh] = IF req'[q].token = None THEN req'[q].fresh
                                         ELSE root'[req'[q].token]
    BY <1>2, <2>2 DEF Inv, TokensInHand
  <2>3. \A p, q \in Requests : req'[p].fresh = req'[q].fresh /\ req'[q].fresh # None => p = q
    BY <1>2 DEF Inv, TokensInHand
  <2> QED BY <2>1, <2>2, <2>3 DEF TokensInHand
<1>5. Rooted'
  BY DEF Inv, Rooted
<1>6. Sent' /\ \A f \in Tokens : Family(f)' = Family(f)
  BY <1>3 DEF Inv, Sent, Family
<1>7. TokensSuffice'
  BY <1>1, DrawingKept DEF Inv, FitsT
<1> QED BY <1>4, <1>5, <1>6, <1>7

(* A logout that revokes the one unrevoked token of a family closes it. *)
LEMMA CommitLogoutInv ==
  ASSUME Inv, NEW r \in Requests, CommitLogout(r)
  PROVE  Inv'
<1> DEFINE t0 == req[r].token
<1>1. RequestsOK /\ RequestsOK'
  BY InvRequests, EndFits DEF CommitLogout, Replaces
<1>2. /\ Replaces(r, Idle) /\ \A q \in Requests \ {r} : Kept(q)
      /\ FitsA(r) /\ FitsT(r) /\ FitsC(r)
  BY <1>1, EndFits DEF CommitLogout
<1>3. /\ req[r].op = "logout"
      /\ tokens' = [tokens EXCEPT ![t0].revoked = TRUE]
      /\ closed' = IF tokens[t0].revoked THEN closed ELSE closed \cup {root[t0]}
      /\ UNCHANGED <<accountVars, otpVars, answered, lost, root, raced, clients>>
  BY DEF CommitLogout
<1>4. /\ t0 \in Tokens /\ tokens[t0] # None /\ tokens[t0] \in Row
      /\ root[t0] \in Tokens /\ tokens[root[t0]] # None
      /\ tokens \in [Tokens -> Row \cup {None}]
  <2>1. t0 \in Tokens /\ tokens[t0] # None
    BY <1>3, TokenPresented
  <2> QED BY <2>1 DEF Inv, TypeOK, Rooted
<1>5. /\ [tokens[t0] EXCEPT !.revoked = TRUE] \in Row
      /\ [tokens[t0] EXCEPT !.revoked = TRUE].revoked
  BY <1>4 DEF Row
<1>6. /\ tokens'[t0] = [tokens[t0] EXCEPT !.revoked = TRUE]
      /\ \A t \in Tokens : t # t0 => tokens'[t] = tokens[t]
      /\ tokens' \in [Tokens -> Row \cup {None}]
  BY <1>3, <1>4, <1>5
<1> HIDE DEF t0
<1>7. \A t \in Tokens : tokens'[t] # None <=> tokens[t] # None
  BY <1>4, <1>5, <1>6, NoRowAssumption
<1>8. \A f \in closed' : f \in Tokens /\ tokens[f] # None
  <2>1. \A f \in closed : f \in Tokens /\ tokens[f] # None
    BY DEF Inv, TypeOK, Rooted
  <2> QED BY <1>3, <1>4, <2>1
<1>9. /\ (TokensInHand /\ Rooted /\ Sent /\ TokensSuffice)'
      /\ \A f \in Tokens : Family(f)' = Family(f)
  <2>1. \A t \in lost : tokens[t] # None => tokens'[t].revoked = tokens[t].revoked
    <3>1. t0 \in answered
      BY <1>3, TokenPresented DEF t0
    <3>2. \A t \in lost : t \in Tokens /\ t # t0
      BY <3>1 DEF Inv, TypeOK, Sent
    <3> QED BY <1>6, <3>2
  <2> QED BY <1>1, <1>2, <1>3, <1>7, <1>8, <2>1, RowsKept
<1>10. OneUnrevoked'
  <2> SUFFICES ASSUME NEW f \in Tokens \ raced, Family(f) # {}
               PROVE  IF f \in closed' THEN Unrevoked(f)' = {}
                      ELSE \E t \in Tokens : Unrevoked(f)' = {t}
    BY <1>3, <1>9 DEF OneUnrevoked
  <2>1. Unrevoked(f)' = Unrevoked(f) \ {t0}
    <3>1. \A t \in Family(f) : t \in Tokens
      BY DEF Family
    <3> QED BY <1>5, <1>6, <1>9, <3>1 DEF Unrevoked
  <2>2. IF f \in closed THEN Unrevoked(f) = {} ELSE \E t \in Tokens : Unrevoked(f) = {t}
    BY DEF Inv, OneUnrevoked
  <2>3. CASE f = root[t0] /\ ~tokens[t0].revoked
    <3>1. t0 \in Unrevoked(f)
      BY <1>4, <2>3 DEF Family, Unrevoked
    <3>2. Unrevoked(f) = {t0}
      BY <2>2, <3>1
    <3> QED BY <1>3, <2>1, <2>3, <3>2
  <2>4. CASE ~(f = root[t0] /\ ~tokens[t0].revoked)
    <3>1. t0 \notin Unrevoked(f)
      BY <2>4 DEF Family, Unrevoked
    <3>2. f \in closed' <=> f \in closed
      BY <1>3, <2>4
    <3> QED BY <2>1, <2>2, <3>1, <3>2
  <2> QED BY <2>3, <2>4
<1>11. AccountsKnown' /\ ClaimsExclude' /\ RowsExclude'
  BY <1>2, <1>3, AccountsKept DEF Inv
<1>12. (CodesAccepted /\ CountIsRight /\ CodesSuffice)'
  <2>1. wrong \in Nat
    BY DEF Inv, TypeOK
  <2> QED BY <1>1, <1>2, <1>3, <2>1, CodesKept DEF otpVars, Inv, Replaces
<1>13. TypeOK'
  <2>1. closed' \in SUBSET Tokens
    BY <1>8
  <2> QED BY <1>1, <1>3, <1>6, <2>1 DEF Inv, TypeOK, RequestsOK, accountVars, otpVars
<1> QED BY <1>9, <1>10, <1>11, <1>12, <1>13 DEF Inv

(* Without a request that moves *)
LEMMA RequestsStay ==
  ASSUME Inv, UNCHANGED req
  PROVE  /\ RequestsOK /\ RequestsOK' /\ \A q \in Requests : Kept(q)
BY InvRequests DEF RequestsOK, Kept

LEMMA ExpireTokenInv ==
  ASSUME Inv, NEW t0 \in Tokens, ExpireToken(t0)
  PROVE  Inv'
<1>1. /\ IsValid(tokens[t0]) /\ tokens' = [tokens EXCEPT ![t0].expired = TRUE]
      /\ UNCHANGED <<users, holder, code, attempts, cooldown, drawn, wrong, clean, accepted,
                     answered, lost, root, closed, raced, req, clients>>
  BY DEF ExpireToken, accountVars, otpVars
<1>2. tokens[t0] \in Row /\ tokens \in [Tokens -> Row \cup {None}]
  BY <1>1 DEF IsValid, Inv, TypeOK
<1>3. /\ [tokens[t0] EXCEPT !.expired = TRUE] \in Row
      /\ [tokens[t0] EXCEPT !.expired = TRUE].revoked = tokens[t0].revoked
  BY <1>2 DEF Row
<1>4. /\ tokens'[t0] = [tokens[t0] EXCEPT !.expired = TRUE]
      /\ \A t \in Tokens : t # t0 => tokens'[t] = tokens[t]
      /\ tokens' \in [Tokens -> Row \cup {None}]
  BY <1>1, <1>2, <1>3
<1>5. \A t \in Tokens : /\ tokens'[t] # None <=> tokens[t] # None
                        /\ tokens'[t].revoked = tokens[t].revoked
  BY <1>2, <1>3, <1>4, NoRowAssumption
<1>6. \A f \in Tokens : Family(f)' = Family(f) /\ Unrevoked(f)' = Unrevoked(f)
  BY <1>1, <1>5 DEF Family, Unrevoked
<1>7. OneUnrevoked'
  BY <1>1, <1>6 DEF Inv, OneUnrevoked
<1>8. Sent'
  BY <1>1, <1>5 DEF Inv, Sent
<1>9. TokensInHand'
  <2>1. \A q \in Requests : req[q].fresh # None => req[q].fresh \in Tokens
    BY DEF Inv, TypeOK, RequestRecord
  <2> QED BY <1>1, <1>5, <2>1 DEF Inv, TokensInHand
<1>10. Rooted'
  <2>1. closed \subseteq Tokens
    BY DEF Inv, TypeOK
  <2> QED BY <1>1, <1>5, <2>1 DEF Inv, Rooted
<1>11. AccountsKnown' /\ ClaimsExclude' /\ RowsExclude'
  BY <1>1 DEF Inv, AccountsKnown, ClaimsExclude, RowsExclude, Claims, Registers, Writes
<1>12. CodesAccepted' /\ CountIsRight'
  BY <1>1 DEF Inv, CodesAccepted, CountIsRight, Checking, Counting
<1>13. TokensSuffice' /\ CodesSuffice'
  BY <1>1 DEF Inv, TokensSuffice, CodesSuffice, Drawing, Asking, Unused
<1>14. TypeOK'
  BY <1>1, <1>4 DEF Inv, TypeOK
<1> QED BY <1>7, <1>8, <1>9, <1>10, <1>11, <1>12, <1>13, <1>14 DEF Inv

----------------------------------------------------------------------------
(* Steps that write to Redis *)

(* What a step makes of accounts and tokens, when it writes neither *)
LEMMA Apart ==
  ASSUME Inv, NEW r \in Requests, RequestsOK', \A q \in Requests \ {r} : Kept(q),
         FitsA(r), FitsT(r), UNCHANGED <<accountVars, tokenVars, clients>>
  PROVE  /\ (AccountsKnown /\ ClaimsExclude /\ RowsExclude)'
         /\ (TokensInHand /\ Rooted /\ Sent /\ OneUnrevoked /\ TokensSuffice)'
         /\ code' \in Codes \cup {None} /\ attempts' \in Count \cup {NoCount}
            /\ cooldown' \in BOOLEAN /\ drawn' \in SUBSET Codes /\ accepted' \in SUBSET Codes
            /\ wrong' \in Nat /\ clean' \in BOOLEAN => TypeOK'
<1>1. RequestsOK
  BY InvRequests
<1>2. (AccountsKnown /\ ClaimsExclude /\ RowsExclude)'
  BY AccountsKept DEF Inv
<1>3. (TokensInHand /\ Rooted /\ Sent /\ OneUnrevoked /\ TokensSuffice)'
  BY <1>1, TokensKept DEF Inv
<1>4. ASSUME code' \in Codes \cup {None}, attempts' \in Count \cup {NoCount},
             cooldown' \in BOOLEAN, drawn' \in SUBSET Codes, accepted' \in SUBSET Codes,
             wrong' \in Nat, clean' \in BOOLEAN
      PROVE  TypeOK'
  BY <1>4 DEF Inv, TypeOK, RequestsOK, accountVars, tokenVars
<1> QED BY <1>2, <1>3, <1>4

LEMMA NewCodeExists ==
  ASSUME Inv, NEW r \in Asking
  PROVE  NewCode \in Codes \ drawn
<1>1. RequestsOK
  BY InvRequests
<1>2. /\ IsFiniteSet(Asking) /\ Cardinality(Asking) \in Nat
      /\ Cardinality(Codes \ drawn) \in Nat /\ Cardinality(Asking) <= Cardinality(Codes \ drawn)
  BY <1>1, Finite DEF Inv, CodesSuffice
<1>3. Cardinality(Asking) # 0
  BY <1>2, FS_EmptySet
<1>4. Codes \ drawn # {}
  BY <1>2, <1>3, FS_EmptySet
<1> QED BY <1>4 DEF NewCode

(* A new code disturbs the count of the one it replaces. *)
LEMMA SetCodeInv ==
  ASSUME Inv, NEW r \in Requests, SetCode(r)
  PROVE  Inv'
<1> DEFINE n == NewCode
           x == [req[r] EXCEPT !.pc = "attempts", !.read = n]
<1>1. RequestsOK
  BY InvRequests
<1>2. req[r].pc = "code" /\ req[r].op = "ask"
  BY <1>1, Places DEF SetCode
<1>3. r \in Asking /\ n \in Codes \ drawn
  <2>1. r \in Asking
    BY <1>2 DEF Asking
  <2> QED BY <2>1, NewCodeExists
<1>4. "attempts" \in PCs /\ "attempts" \in PCsOf[req[r].op]
  BY <1>2, PlacesOf, PlacesAreKnown DEF Handlers
<1>5. req[r] \in RequestRecord
  BY <1>1 DEF RequestsOK
<1>6. /\ x \in RequestRecord /\ x.op = "ask" /\ x.pc = "attempts"
      /\ x.fresh = req[r].fresh /\ x.token = req[r].token
  BY <1>2, <1>3, <1>4, <1>5 DEF RequestRecord
<1>7. /\ req' = [req EXCEPT ![r] = x] /\ code' = n /\ drawn' = drawn \cup {n}
      /\ wrong' = 0 /\ clean' = FALSE
      /\ attempts' = IF attempts.ttl = "new" THEN [attempts EXCEPT !.ttl = "old"] ELSE attempts
      /\ UNCHANGED <<accountVars, tokenVars, cooldown, accepted, clients>>
  BY DEF SetCode
<1> HIDE DEF n, x
<1>8. Replaces(r, x)
  BY <1>1, <1>2, <1>4, <1>6, <1>7, ReplaceOK
<1>9. /\ RequestsOK' /\ req'[r] = x /\ \A q \in Requests \ {r} : Kept(q)
      /\ \A q \in Requests \ {r} : req'[q] = req[q]
  BY <1>8 DEF Replaces, Kept
<1>10. FitsA(r)
  BY <1>6, <1>9 DEF FitsA, Issuers, Claims, Registers, Writes, Issuing
<1>11. FitsT(r)
  <2>1. req[r].token = None /\ req[r].fresh = None
    BY <1>2 DEF Inv, TokensInHand, Issuers
  <2> QED BY <1>6, <1>9, <2>1 DEF FitsT, Issuers
<1>12. attempts' \in Count \cup {NoCount}
  <2>1. attempts \in Count \cup {NoCount}
    BY DEF Inv, TypeOK
  <2>2. CASE attempts.ttl = "new"
    <3>1. attempts \in Count
      BY <2>1, <2>2 DEF NoCount
    <3> QED BY <1>7, <2>2, <3>1 DEF Count
  <2>3. CASE attempts.ttl # "new"
    BY <1>7, <2>1, <2>3
  <2> QED BY <2>2, <2>3
<1>13. TypeOK' /\ (AccountsKnown /\ ClaimsExclude /\ RowsExclude)'
       /\ (TokensInHand /\ Rooted /\ Sent /\ OneUnrevoked /\ TokensSuffice)'
  <2>1. /\ code' \in Codes \cup {None} /\ cooldown' \in BOOLEAN /\ drawn' \in SUBSET Codes
        /\ accepted' \in SUBSET Codes /\ wrong' \in Nat /\ clean' \in BOOLEAN
    BY <1>3, <1>7 DEF Inv, TypeOK
  <2> QED BY <1>7, <1>9, <1>10, <1>11, <1>12, <2>1, Apart
<1>14. CodesAccepted'
  <2>1. ~Checking(r)' /\ \A q \in Requests \ {r} : Checking(q)' <=> Checking(q)
    BY <1>6, <1>9 DEF Checking
  <2> QED BY <1>3, <1>7, <1>9, <2>1 DEF Inv, CodesAccepted
<1>15. CountIsRight'
  BY <1>7 DEF CountIsRight
<1>16. CodesSuffice'
  <2>1. /\ IsFiniteSet(Asking) /\ Cardinality(Asking) \in Nat
        /\ IsFiniteSet(Codes \ drawn) /\ Cardinality(Codes \ drawn) \in Nat
        /\ Cardinality(Asking) <= Cardinality(Codes \ drawn)
    BY <1>1, Finite DEF Inv, CodesSuffice
  <2>2. Asking' = Asking \ {r}
    BY <1>6, <1>9 DEF Asking
  <2>3. Codes \ drawn' = (Codes \ drawn) \ {n}
    BY <1>7
  <2>4. Cardinality(Asking') = Cardinality(Asking) - 1
    BY <1>3, <2>1, <2>2, FS_RemoveElement
  <2>5. Cardinality(Codes \ drawn') = Cardinality(Codes \ drawn) - 1
    BY <1>3, <2>1, <2>3, FS_RemoveElement
  <2> QED BY <2>1, <2>4, <2>5 DEF CodesSuffice
<1> QED BY <1>13, <1>14, <1>15, <1>16 DEF Inv

(* The count of a code begins at zero, and is clean if nobody checks a code. *)
LEMMA SetAttemptsInv ==
  ASSUME Inv, NEW r \in Requests, SetAttempts(r)
  PROVE  Inv'
<1>1. RequestsOK
  BY InvRequests
<1>2. req[r].pc = "attempts" /\ req[r].op = "ask"
  BY <1>1, Places DEF SetAttempts
<1>3. /\ attempts' = [n |-> 0, ttl |-> "new"] /\ clean' = Undisturbed(r) /\ Goto(r, "cool")
      /\ UNCHANGED <<accountVars, tokenVars, code, cooldown, drawn, wrong, accepted, clients>>
  BY DEF SetAttempts
<1>4. "cool" \in PCsOf[req[r].op]
  BY <1>2, PlacesOf
<1>5. /\ Replaces(r, [req[r] EXCEPT !.pc = "cool"])
      /\ req'[r].op = "ask" /\ req'[r].pc = "cool"
  BY <1>1, <1>2, <1>3, <1>4, GotoOK
<1>6. /\ RequestsOK' /\ \A q \in Requests \ {r} : Kept(q)
      /\ \A q \in Requests \ {r} : req'[q] = req[q]
  BY <1>5 DEF Replaces, Kept
<1>7. FitsA(r)
  BY <1>5 DEF FitsA, Issuers, Claims, Registers, Writes, Issuing
<1>8. FitsT(r)
  BY <1>2, <1>3, <1>4, GotoFitsT DEF Issuers
<1>9. TypeOK' /\ (AccountsKnown /\ ClaimsExclude /\ RowsExclude)'
      /\ (TokensInHand /\ Rooted /\ Sent /\ OneUnrevoked /\ TokensSuffice)'
  <2>1. attempts' \in Count
    BY <1>3 DEF Count
  <2>2. clean' \in BOOLEAN
    BY <1>3 DEF Undisturbed
  <2>3. /\ code' \in Codes \cup {None} /\ cooldown' \in BOOLEAN /\ drawn' \in SUBSET Codes
        /\ accepted' \in SUBSET Codes /\ wrong' \in Nat
    BY <1>3 DEF Inv, TypeOK
  <2> QED BY <1>3, <1>6, <1>7, <1>8, <2>1, <2>2, <2>3, Apart
<1>10. ~Checking(r)' /\ \A q \in Requests \ {r} : Checking(q)' <=> Checking(q)
  BY <1>5, <1>6 DEF Checking
<1>11. CodesAccepted'
  BY <1>3, <1>6, <1>10 DEF Inv, CodesAccepted
<1>12. CountIsRight'
  <2> SUFFICES ASSUME Undisturbed(r)
               PROVE  /\ attempts'.n = wrong /\ attempts'.ttl = "new"
                      /\ \A q \in Requests : ~Checking(q)'
                      /\ \A q \in Requests : req'[q].pc # "drop"
                      /\ wrong + Cardinality(Counting)' < MaxAttempts + Cardinality(Requests)
    BY <1>3 DEF CountIsRight
  <2>1. attempts'.n = wrong /\ attempts'.ttl = "new" /\ wrong = 0
    BY <1>3 DEF Undisturbed
  <2>2. \A q \in Requests : ~Checking(q)'
    BY <1>10 DEF Undisturbed
  <2>3. \A q \in Requests : req'[q].pc \notin {"drop", "count"}
    BY <2>2 DEF Checking
  <2>4. Cardinality(Counting)' = 0
    <3>1. Counting' = {}
      BY <2>3 DEF Counting
    <3> QED BY <3>1, FS_EmptySet
  <2>5. Cardinality(Requests) \in Nat /\ MaxAttempts \in Nat /\ MaxAttempts > 0
    BY <1>1, Finite, AttemptsAssumption
  <2> QED BY <2>1, <2>2, <2>3, <2>4, <2>5
<1>13. CodesSuffice'
  BY <1>1, <1>3, <1>5, <1>6, AskingKept DEF Inv
<1> QED BY <1>9, <1>11, <1>12, <1>13 DEF Inv

LEMMA SetCooldownInv ==
  ASSUME Inv, NEW r \in Requests, SetCooldown(r)
  PROVE  Inv'
<1>1. RequestsOK
  BY InvRequests
<1>2. req[r].pc = "cool" /\ req[r].op = "ask"
  BY <1>1, Places DEF SetCooldown
<1>3. /\ cooldown' = TRUE /\ Goto(r, "sms")
      /\ UNCHANGED <<accountVars, tokenVars, code, attempts, drawn, wrong, clean, accepted,
                     clients>>
  BY DEF SetCooldown
<1>4. "sms" \in PCsOf[req[r].op]
  BY <1>2, PlacesOf
<1>5. /\ Replaces(r, [req[r] EXCEPT !.pc = "sms"])
      /\ req'[r].op = "ask" /\ req'[r].pc = "sms"
  BY <1>1, <1>2, <1>3, <1>4, GotoOK
<1>6. /\ RequestsOK' /\ \A q \in Requests \ {r} : Kept(q)
      /\ \A q \in Requests \ {r} : req'[q] = req[q]
  BY <1>5 DEF Replaces, Kept
<1>7. FitsA(r)
  BY <1>5 DEF FitsA, Issuers, Claims, Registers, Writes, Issuing
<1>8. FitsT(r)
  BY <1>2, <1>3, <1>4, GotoFitsT DEF Issuers
<1>9. FitsC(r)
  BY <1>3, <1>4, GotoFitsC
<1>10. TypeOK' /\ (AccountsKnown /\ ClaimsExclude /\ RowsExclude)'
       /\ (TokensInHand /\ Rooted /\ Sent /\ OneUnrevoked /\ TokensSuffice)'
  <2>1. /\ code' \in Codes \cup {None} /\ cooldown' \in BOOLEAN /\ drawn' \in SUBSET Codes
        /\ accepted' \in SUBSET Codes /\ wrong' \in Nat /\ clean' \in BOOLEAN
        /\ attempts' \in Count \cup {NoCount}
    BY <1>3 DEF Inv, TypeOK
  <2> QED BY <1>3, <1>6, <1>7, <1>8, <2>1, Apart
<1>11. (CodesAccepted /\ CountIsRight /\ CodesSuffice)'
  <2>1. wrong \in Nat
    BY DEF Inv, TypeOK
  <2> QED BY <1>1, <1>3, <1>6, <1>9, <2>1, CodesKept DEF Inv
<1> QED BY <1>10, <1>11 DEF Inv

(* A wrong number is counted where the code it was typed for is: r counts no more,
   and the numbers that may still be counted are as many as before. *)
LEMMA CountTryInv ==
  ASSUME Inv, NEW r \in Requests, CountTry(r)
  PROVE  Inv'
<1>1. RequestsOK
  BY InvRequests
<1>2. req[r].pc = "count" /\ req[r].op = "verify" /\ Checking(r)
  BY <1>1, Places DEF CountTry, Checking
<1>3. /\ attempts' = [n |-> attempts.n + 1,
                      ttl |-> IF attempts.ttl = "absent" THEN "never" ELSE attempts.ttl]
      /\ wrong' = IF code = req[r].read THEN wrong + 1 ELSE wrong
      /\ IF attempts'.n >= MaxAttempts THEN Goto(r, "drop") ELSE End(r)
      /\ UNCHANGED <<accountVars, tokenVars, code, cooldown, drawn, clean, accepted, clients>>
  BY DEF CountTry
<1>4. attempts.n \in Nat /\ attempts' \in Count /\ attempts'.n = attempts.n + 1
  <2>1. attempts \in Count \cup {NoCount}
    BY DEF Inv, TypeOK
  <2>2. attempts.n \in Nat /\ attempts.ttl \in {"new", "old", "never", "absent"}
    BY <2>1 DEF Count, NoCount
  <2> QED BY <1>3, <2>2 DEF Count
<1>5. wrong \in Nat /\ wrong' \in Nat
  BY <1>3 DEF Inv, TypeOK
<1>6. /\ RequestsOK' /\ (\A q \in Requests \ {r} : req'[q] = req[q])
      /\ FitsA(r) /\ FitsT(r)
      /\ \/ req'[r].pc = "idle"
         \/ /\ req'[r].pc = "drop" /\ attempts'.n >= MaxAttempts
            /\ req'[r].read = req[r].read /\ req'[r].overlap = req[r].overlap
  <2>1. CASE attempts'.n >= MaxAttempts
    <3>1. Goto(r, "drop") /\ "drop" \in PCsOf[req[r].op]
      BY <1>2, <1>3, <2>1, PlacesOf
    <3>2. /\ Replaces(r, [req[r] EXCEPT !.pc = "drop"])
          /\ req'[r].op = "verify" /\ req'[r].pc = "drop"
          /\ req'[r].read = req[r].read /\ req'[r].overlap = req[r].overlap
      BY <1>1, <1>2, <3>1, GotoOK
    <3>3. FitsA(r)
      BY <3>2 DEF FitsA, Issuing, Claims, Registers, Writes, Issuing
    <3>4. FitsT(r)
      BY <1>2, <3>1, GotoFitsT
    <3> QED BY <2>1, <3>2, <3>3, <3>4 DEF Replaces
  <2>2. CASE ~(attempts'.n >= MaxAttempts)
    <3>1. End(r)
      BY <1>3, <2>2
    <3>2. Replaces(r, Idle) /\ FitsA(r) /\ FitsT(r)
      BY <1>1, <3>1, EndFits
    <3> QED BY <3>2, IdleOK DEF Replaces
  <2> QED BY <2>1, <2>2
<1>7. \A q \in Requests \ {r} : Kept(q)
  BY <1>6 DEF Kept
<1>8. TypeOK' /\ (AccountsKnown /\ ClaimsExclude /\ RowsExclude)'
      /\ (TokensInHand /\ Rooted /\ Sent /\ OneUnrevoked /\ TokensSuffice)'
  <2>1. /\ code' \in Codes \cup {None} /\ cooldown' \in BOOLEAN /\ drawn' \in SUBSET Codes
        /\ accepted' \in SUBSET Codes /\ clean' \in BOOLEAN
    BY <1>3 DEF Inv, TypeOK
  <2> QED BY <1>3, <1>4, <1>5, <1>6, <1>7, <2>1, Apart
<1>9. \A q \in Requests : Checking(q)' =>
        Checking(q) /\ req'[q].read = req[q].read /\ req'[q].overlap = req[q].overlap
  BY <1>2, <1>6 DEF Checking
<1>10. CodesAccepted'
  BY <1>3, <1>9 DEF Inv, CodesAccepted
<1>11. CodesSuffice'
  BY <1>1, <1>3, <1>6, <1>7, AskingKept DEF Inv
<1>12. CountIsRight'
  <2> SUFFICES ASSUME clean, code # None
               PROVE  /\ attempts'.n = wrong' /\ attempts'.ttl = "new"
                      /\ \A q \in Requests : Checking(q)' => req'[q].read = code
                      /\ \A q \in Requests : req'[q].pc = "drop" => wrong' >= MaxAttempts
                      /\ wrong' + Cardinality(Counting)' < MaxAttempts + Cardinality(Requests)
    BY <1>3 DEF CountIsRight
  <2>1. /\ attempts.n = wrong /\ attempts.ttl = "new"
        /\ \A q \in Requests : Checking(q) => req[q].read = code
        /\ \A q \in Requests : req[q].pc = "drop" => wrong >= MaxAttempts
        /\ wrong + Cardinality(Counting) < MaxAttempts + Cardinality(Requests)
    BY DEF Inv, CountIsRight
  <2>2. wrong' = wrong + 1
    BY <1>2, <1>3, <2>1
  <2>3. attempts'.n = wrong' /\ attempts'.ttl = "new"
    BY <1>3, <1>4, <2>1, <2>2
  <2>4. \A q \in Requests : Checking(q)' => req'[q].read = code
    BY <1>9, <2>1
  <2>5. \A q \in Requests : req'[q].pc = "drop" => wrong' >= MaxAttempts
    <3>1. req'[r].pc = "drop" => wrong' >= MaxAttempts
      BY <1>6, <2>3
    <3>2. \A q \in Requests \ {r} : req'[q].pc = "drop" => wrong' >= MaxAttempts
      <4>1. MaxAttempts \in Nat
        BY AttemptsAssumption
      <4> QED BY <1>5, <1>6, <2>1, <2>2, <4>1
    <3> QED BY <3>1, <3>2
  <2>6. Cardinality(Counting)' = Cardinality(Counting) - 1
    <3>1. Counting' = Counting \ {r} /\ r \in Counting
      BY <1>2, <1>6 DEF Counting
    <3> QED BY <1>1, <3>1, Finite, FS_RemoveElement
  <2>7. Cardinality(Counting) \in Nat
    BY <1>1, Finite
  <2>8. wrong' + Cardinality(Counting)' < MaxAttempts + Cardinality(Requests)
    BY <1>5, <2>1, <2>2, <2>6, <2>7
  <2> QED BY <2>3, <2>4, <2>5, <2>8
<1> QED BY <1>8, <1>10, <1>11, <1>12 DEF Inv

(* A clean code is dropped by one who found it tried too often. *)
LEMMA DropCodeInv ==
  ASSUME Inv, NEW r \in Requests, DropCode(r)
  PROVE  Inv' /\ (code # None /\ clean => wrong >= MaxAttempts)
<1>1. RequestsOK
  BY InvRequests
<1>2. req[r].pc = "drop" /\ End(r) /\ code' = None /\ attempts' = NoCount
      /\ UNCHANGED <<accountVars, tokenVars, cooldown, drawn, wrong, clean, accepted, clients>>
  BY DEF DropCode, Delete
<1>3. /\ Replaces(r, Idle) /\ \A q \in Requests \ {r} : Kept(q)
      /\ FitsA(r) /\ FitsT(r)
  BY <1>1, <1>2, EndFits
<1>4. RequestsOK' /\ req'[r].pc = "idle" /\ \A q \in Requests \ {r} : req'[q] = req[q]
  BY <1>3, IdleOK DEF Replaces
<1>5. TypeOK' /\ (AccountsKnown /\ ClaimsExclude /\ RowsExclude)'
      /\ (TokensInHand /\ Rooted /\ Sent /\ OneUnrevoked /\ TokensSuffice)'
  <2>1. /\ code' \in Codes \cup {None} /\ cooldown' \in BOOLEAN /\ drawn' \in SUBSET Codes
        /\ accepted' \in SUBSET Codes /\ wrong' \in Nat /\ clean' \in BOOLEAN
        /\ attempts' \in Count \cup {NoCount}
    BY <1>2 DEF Inv, TypeOK
  <2> QED BY <1>2, <1>3, <1>4, <2>1, Apart
<1>6. CodesAccepted' /\ CountIsRight'
  BY <1>2, <1>4 DEF Inv, CodesAccepted, CountIsRight, Checking
<1>7. CodesSuffice'
  BY <1>1, <1>2, <1>3, <1>4, AskingKept DEF Inv
<1>8. code # None /\ clean => wrong >= MaxAttempts
  BY <1>2 DEF Inv, CountIsRight
<1> QED BY <1>5, <1>6, <1>7, <1>8 DEF Inv

(* The verifications that read the code before it is burnt learn of it. *)
LEMMA BurnCodeInv ==
  ASSUME Inv, NEW r \in Requests, BurnCode(r)
  PROVE  Inv' /\ (code # None /\ clean => code \in accepted')
<1>1. RequestsOK
  BY InvRequests
<1>2. /\ req[r].pc = "burn" /\ req[r].op = "verify" /\ Checking(r)
  BY <1>1, Places DEF BurnCode, Checking
<1>3. /\ code' = None /\ attempts' = NoCount /\ accepted' = accepted \cup {req[r].read}
      /\ UNCHANGED <<accountVars, tokenVars, cooldown, drawn, wrong, clean, clients>>
  BY DEF BurnCode, Delete
<1> DEFINE Next1(q) == IF q = r THEN [req[q] EXCEPT !.pc = "holder"]
                       ELSE IF Checking(q) /\ req[q].read = req[r].read
                            THEN [req[q] EXCEPT !.overlap = TRUE]
                            ELSE req[q]
<1>4. req' = [q \in Requests |-> Next1(q)]
  BY DEF BurnCode, Accept
<1>5. "holder" \in PCs /\ "holder" \in PCsOf["verify"]
  BY PlacesOf, PlacesAreKnown DEF Handlers, Issuers
<1>6. ASSUME NEW q \in Requests
      PROVE  /\ Next1(q) \in RequestRecord /\ Next1(q).op = req[q].op
             /\ Next1(q).pc = IF q = r THEN "holder" ELSE req[q].pc
             /\ Next1(q).account = req[q].account /\ Next1(q).claims = req[q].claims
             /\ Next1(q).token = req[q].token /\ Next1(q).fresh = req[q].fresh
             /\ Next1(q).typed = req[q].typed /\ Next1(q).read = req[q].read
             /\ Next1(q).overlap = IF q # r /\ Checking(q) /\ req[q].read = req[r].read
                                   THEN TRUE ELSE req[q].overlap
  <2>1. req[q] \in RequestRecord
    BY <1>1 DEF RequestsOK
  <2>2. CASE q = r
    BY <1>5, <2>1, <2>2 DEF RequestRecord
  <2>3. CASE q # r /\ Checking(q) /\ req[q].read = req[r].read
    BY <2>1, <2>3 DEF RequestRecord
  <2>4. CASE q # r /\ ~(Checking(q) /\ req[q].read = req[r].read)
    BY <2>1, <2>4
  <2> QED BY <2>2, <2>3, <2>4
<1> HIDE DEF Next1
<1>7. \A q \in Requests : req'[q] = Next1(q)
  BY <1>4
<1>8. RequestsOK'
  <2>1. req' \in [Requests -> RequestRecord]
    BY <1>4, <1>6
  <2>2. \A q \in Requests : req'[q].pc \in PCsOf[req'[q].op]
    <3> TAKE q \in Requests
    <3>1. /\ req'[q].op = req[q].op
          /\ req'[q].pc = IF q = r THEN "holder" ELSE req[q].pc
      BY <1>6, <1>7
    <3> QED BY <1>1, <1>2, <1>5, <3>1 DEF RequestsOK
  <2> QED BY <2>1, <2>2 DEF RequestsOK
<1>9. \A q \in Requests \ {r} : Kept(q)
  <2> TAKE q \in Requests \ {r}
  <2>1. req'[q] = Next1(q)
    BY <1>7
  <2> QED BY <1>6, <2>1 DEF Kept
<1>10. /\ req'[r].op = "verify" /\ req'[r].pc = "holder"
       /\ req'[r].token = req[r].token /\ req'[r].fresh = req[r].fresh
  BY <1>2, <1>6, <1>7
<1>11. FitsA(r)
  BY <1>10 DEF FitsA, Issuing, Claims, Registers, Writes, Issuing
<1>12. FitsT(r)
  <2>1. req[r].token = None /\ req[r].fresh = None
    BY <1>2 DEF Inv, TokensInHand
  <2> QED BY <1>2, <1>10, <2>1 DEF FitsT, Drawing, Issuers
<1>13. req[r].read \in drawn
  BY <1>2 DEF Inv, CodesAccepted
<1>14. TypeOK' /\ (AccountsKnown /\ ClaimsExclude /\ RowsExclude)'
       /\ (TokensInHand /\ Rooted /\ Sent /\ OneUnrevoked /\ TokensSuffice)'
  <2>1. /\ code' \in Codes \cup {None} /\ cooldown' \in BOOLEAN /\ drawn' \in SUBSET Codes
        /\ accepted' \in SUBSET Codes /\ wrong' \in Nat /\ clean' \in BOOLEAN
        /\ attempts' \in Count \cup {NoCount}
    BY <1>3, <1>13 DEF Inv, TypeOK
  <2> QED BY <1>3, <1>8, <1>9, <1>11, <1>12, <2>1, Apart
<1>15. CodesAccepted'
  <2>1. ASSUME NEW q \in Requests, Checking(q)'
        PROVE  req'[q].read \in drawn /\ (req'[q].read \in accepted' => req'[q].overlap)
    <3>1. q # r
      BY <1>10, <2>1 DEF Checking
    <3>2. Checking(q) /\ req'[q].read = req[q].read
      BY <1>9, <2>1, <3>1 DEF Kept, Checking
    <3>3. req'[q].overlap = IF req[q].read = req[r].read THEN TRUE ELSE req[q].overlap
      BY <1>6, <1>7, <3>1, <3>2
    <3>4. req[q].read \in drawn /\ (req[q].read \in accepted => req[q].overlap)
      BY <3>2 DEF Inv, CodesAccepted
    <3> QED BY <1>3, <3>2, <3>3, <3>4
  <2>2. accepted' \subseteq drawn
    BY <1>3, <1>13 DEF Inv, CodesAccepted
  <2> QED BY <1>3, <2>1, <2>2 DEF CodesAccepted
<1>16. CountIsRight'
  BY <1>3 DEF CountIsRight
<1>17. CodesSuffice'
  BY <1>1, <1>3, <1>8, <1>9, <1>10, AskingKept DEF Inv
<1>18. code # None /\ clean => code \in accepted'
  BY <1>2, <1>3 DEF Inv, CountIsRight
<1> QED BY <1>14, <1>15, <1>16, <1>17, <1>18 DEF Inv

LEMMA ExpireInv ==
  ASSUME Inv, ExpireCode \/ ExpireAttempts \/ ExpireCooldown
  PROVE  Inv'
<1>1. /\ UNCHANGED <<users, holder, tokens, answered, lost, root, closed, raced, drawn, wrong, clean,
                     accepted, req, clients>>
      /\ code' \in {code, None} /\ attempts' \in {attempts, NoCount} /\ cooldown' \in {cooldown, FALSE}
      /\ clean /\ code' # None => attempts' = attempts
  <2>1. CASE ExpireCode
    BY <2>1 DEF ExpireCode, accountVars, tokenVars
  <2>2. CASE ExpireAttempts
    <3>1. clean /\ code # None => attempts.ttl = "new"
      BY DEF Inv, CountIsRight
    <3>2. (attempts.ttl = "old" \/ code = None) /\ code' = code
      BY <2>2 DEF ExpireAttempts
    <3> QED BY <2>2, <3>1, <3>2 DEF ExpireAttempts, accountVars, tokenVars
  <2>3. CASE ExpireCooldown
    BY <2>3 DEF ExpireCooldown, accountVars, tokenVars
  <2> QED BY <2>1, <2>2, <2>3
<1>2. AccountsKnown' /\ ClaimsExclude' /\ RowsExclude'
  BY <1>1 DEF Inv, AccountsKnown, ClaimsExclude, RowsExclude, Claims, Registers, Writes
<1>3. TokensInHand' /\ Rooted' /\ Sent' /\ OneUnrevoked'
  BY <1>1 DEF Inv, TokensInHand, Rooted, Sent, OneUnrevoked, Family, Unrevoked
<1>4. CodesAccepted'
  BY <1>1 DEF Inv, CodesAccepted, Checking
<1>5. CountIsRight'
  BY <1>1 DEF Inv, CountIsRight, Checking, Counting
<1>6. TokensSuffice' /\ CodesSuffice'
  BY <1>1 DEF Inv, TokensSuffice, CodesSuffice, Drawing, Asking, Unused
<1>7. TypeOK'
  BY <1>1 DEF Inv, TypeOK
<1> QED BY <1>2, <1>3, <1>4, <1>5, <1>6, <1>7 DEF Inv

----------------------------------------------------------------------------
(* The invariant holds in every behaviour *)

LEMMA InitInv == Init => Inv
<1> SUFFICES ASSUME Init PROVE Inv
  OBVIOUS
<1>1. /\ users = Founders /\ holder \in Founders \cup {None}
      /\ tokens = [t \in Tokens |-> None] /\ root = [t \in Tokens |-> None]
      /\ req = [r \in Requests |-> Idle] /\ clients \in Scenarios
      /\ answered = {} /\ lost = {} /\ closed = {} /\ raced = {} /\ accepted = {} /\ cooldown = FALSE
      /\ wrong = 0 /\ clean = (code # None)
      /\ \/ code = None /\ drawn = {} /\ attempts = NoCount
         \/ code \in Codes /\ drawn = {code} /\ attempts = [n |-> 0, ttl |-> "new"]
  BY CodesAssumption DEF Init
<1>2. \A r \in Requests : /\ req[r] = Idle /\ req[r].op = "none" /\ req[r].pc = "idle"
                          /\ req[r].token = None /\ req[r].fresh = None
  BY <1>1, IdleOK
<1>3. TypeOK
  <2>1. req \in [Requests -> RequestRecord] /\ \A r \in Requests : req[r].pc \in PCsOf[req[r].op]
    BY <1>1, IdleOK
  <2>2. /\ users \in SUBSET Accounts /\ holder \in users \cup {None}
    BY <1>1, FoundersAssumption
  <2>3. /\ code \in Codes \cup {None} /\ drawn \in SUBSET Codes
        /\ attempts \in Count \cup {NoCount} /\ clean \in BOOLEAN
    BY <1>1 DEF Count
  <2> QED BY <1>1, <2>1, <2>2, <2>3 DEF TypeOK
<1>4. RequestsOK
  BY <1>3 DEF TypeOK, RequestsOK
<1>5. AccountsKnown /\ ClaimsExclude /\ RowsExclude
  BY <1>2 DEF AccountsKnown, ClaimsExclude, RowsExclude, Claims, Registers, Writes, Issuers
<1>6. TokensInHand
  BY <1>2 DEF TokensInHand, Issuers
<1>7. Rooted /\ Sent /\ OneUnrevoked
  <2>1. \A f \in Tokens : Family(f) = {}
    BY <1>1 DEF Family
  <2> QED BY <1>1, <2>1 DEF Rooted, Sent, OneUnrevoked
<1>8. CodesAccepted
  BY <1>1, <1>2 DEF CodesAccepted, Checking
<1>9. CountIsRight
  <2> SUFFICES ASSUME clean, code # None
               PROVE  /\ attempts.n = wrong /\ attempts.ttl = "new"
                      /\ wrong + Cardinality(Counting) < MaxAttempts + Cardinality(Requests)
    BY <1>2 DEF CountIsRight, Checking
  <2>1. attempts.n = 0 /\ attempts.ttl = "new"
    BY <1>1 DEF NoCount
  <2>2. Counting = {}
    BY <1>2 DEF Counting
  <2>3. Cardinality(Counting) = 0
    BY <2>2, FS_EmptySet
  <2>4. Cardinality(Requests) \in Nat /\ MaxAttempts \in Nat /\ MaxAttempts > 0
    BY <1>4, Finite, AttemptsAssumption
  <2> QED BY <1>1, <2>1, <2>3, <2>4
<1>10. TokensSuffice /\ CodesSuffice
  <2>1. Drawing = {} /\ Asking = {}
    BY <1>2 DEF Drawing, Asking, Issuers
  <2>2. Cardinality(Drawing) = 0 /\ Cardinality(Asking) = 0
    BY <2>1, FS_EmptySet
  <2>3. Cardinality({t \in Tokens : Unused(t)}) \in Nat /\ Cardinality(Codes \ drawn) \in Nat
    BY <1>4, Finite
  <2> QED BY <2>2, <2>3 DEF TokensSuffice, CodesSuffice
<1> QED BY <1>3, <1>5, <1>6, <1>7, <1>8, <1>9, <1>10 DEF Inv

LEMMA NextInv == Inv /\ [Next]_vars => Inv'
<1> SUFFICES ASSUME Inv, [Next]_vars PROVE Inv'
  OBVIOUS
<1>1. CASE UNCHANGED vars
  BY <1>1, Stutter
<1>2. ASSUME NEW t \in Tokens, ExpireToken(t) PROVE Inv'
  BY <1>2, ExpireTokenInv
<1>3. CASE ExpireCode \/ ExpireAttempts \/ ExpireCooldown
  BY <1>3, ExpireInv
<1>4. ASSUME NEW r \in Requests, Receive(r) PROVE Inv'
  BY <1>4, ReceiveRegisterInv, ReceivePatchInv, ReceiveLoginInv, ReceiveRefreshInv,
     ReceiveLogoutInv, ReceiveAskInv, ReceiveVerifyInv DEF Receive
<1>5. ASSUME NEW r \in Requests, Continue(r) PROVE Inv'
  BY <1>5, InsertUserInv, CheckClashInv, WritePhoneInv, EnterPhoneInv, CommitPatchInv, RevokeInv, IssueInv, AnswerInv,
     CommitIssueInv, CommitLogoutInv, CheckCooldownInv, SetCodeInv, SetAttemptsInv,
     SetCooldownInv, SendSmsInv, ReadTriesInv, CountTryInv, DropCodeInv, BurnCodeInv,
     FindHolderInv DEF Continue
<1>6. ASSUME NEW r \in Requests, Abort(r) PROVE Inv'
  BY <1>6, AbortInv
<1> QED BY <1>1, <1>2, <1>3, <1>4, <1>5, <1>6 DEF Next

LEMMA Invariance == Spec => []Inv
BY InitInv, NextInv, PTL DEF Spec

----------------------------------------------------------------------------
(* Theorems *)

(* Every variable keeps its type, and every request stands where its handler awaits. *)
THEOREM TypeCorrect == Spec => []TypeOK
<1>1. Inv => TypeOK
  BY DEF Inv
<1> QED BY <1>1, Invariance, PTL

(* Rotation neither forks a session nor loses it (auth.py, refresh and logout), unless
   a refresh committed after its token had been revoked. *)
THEOREM SessionsKeepOneToken == Spec => []SessionKeepsOneToken
<1>1. Inv => SessionKeepsOneToken
  <2> SUFFICES ASSUME Inv, NEW f \in Tokens \ raced, Family(f) # {}
               PROVE  Cardinality({t \in Family(f) : ~tokens[t].revoked})
                        = IF f \in closed THEN 0 ELSE 1
    BY DEF SessionKeepsOneToken
  <2>1. IF f \in closed THEN Unrevoked(f) = {} ELSE \E t \in Tokens : Unrevoked(f) = {t}
    BY DEF Inv, OneUnrevoked
  <2>2. Cardinality(Unrevoked(f)) = IF f \in closed THEN 0 ELSE 1
    BY <2>1, FS_EmptySet, FS_Singleton
  <2> QED BY <2>2 DEF Unrevoked
<1> QED BY <1>1, Invariance, PTL

(* A client that has neither logged out nor raced itself has been sent the unrevoked token
   of its session, unless an answer of that session was lost: no crash and no rollback
   revokes the last token it knows (auth.py, refresh; db/session.py, get_db). *)
THEOREM ClientsAreLockedOutByLostAnswers == Spec => []LockedOutOnlyByLostAnswer
<1>1. Inv => LockedOutOnlyByLostAnswer
  <2> SUFFICES ASSUME Inv, NEW f \in Tokens \ (raced \cup closed), Family(f) # {}
               PROVE  (\E t \in Family(f) \cap answered : ~tokens[t].revoked)
                        <=> Family(f) \cap lost = {}
    BY DEF LockedOutOnlyByLostAnswer
  <2>1. PICK u \in Tokens : Unrevoked(f) = {u}
    BY DEF Inv, OneUnrevoked
  <2>2. u \in Family(f) /\ ~tokens[u].revoked /\ tokens[u] # None
    BY <2>1 DEF Unrevoked, Family
  <2>3. \A t \in Family(f) : ~tokens[t].revoked => t = u
    BY <2>1 DEF Unrevoked
  <2>4. u \in answered \cup lost
    BY <2>2 DEF Inv, Sent
  <2>5. \A t \in Family(f) \cap lost : t \notin answered /\ ~tokens[t].revoked
    BY DEF Inv, Sent, Family
  <2> QED BY <2>2, <2>3, <2>4, <2>5
<1> QED BY <1>1, Invariance, PTL

(* A code signs in once, except by verifications of it that overlap (otp.py,
   verify_code). *)
THEOREM CodesAreSingleUse == Spec => []AcceptedTwiceOnlyByRace
<1>1. Inv => AcceptedTwiceOnlyByRace
  BY DEF Inv, CodesAccepted, AcceptedTwiceOnlyByRace, Checking
<1> QED BY <1>1, Invariance, PTL

(* A code that was set undisturbed is tried at most once for each verification in flight
   more often than the limit allows (otp.py, verify_code). *)
THEOREM TriesAreBounded == Spec => []TriesBounded
<1>1. Inv => TriesBounded
  <2> SUFFICES ASSUME Inv, clean, code # None
               PROVE  attempts.n = wrong /\ wrong < MaxAttempts + Cardinality(Requests)
    BY DEF TriesBounded
  <2>1. attempts.n = wrong /\ wrong + Cardinality(Counting) < MaxAttempts + Cardinality(Requests)
    BY DEF Inv, CountIsRight
  <2>2. /\ wrong \in Nat /\ Cardinality(Counting) \in Nat /\ Cardinality(Requests) \in Nat
        /\ MaxAttempts \in Nat
    BY InvRequests, Finite, AttemptsAssumption DEF Inv, TypeOK
  <2> QED BY <2>1, <2>2
<1> QED BY <1>1, Invariance, PTL

(* Only as many wrong numbers as the limit burn the code of another, while it lives. *)
THEOREM CodesAreNotBurnt == Spec => BurnedOnlyWhenTried
<1>1. Inv /\ [Next]_vars =>
        [code # None /\ code' = None /\ clean =>
           code \in accepted' \/ wrong >= MaxAttempts \/ ExpireCode]_vars
  <2> SUFFICES ASSUME Inv, Next, code # None, code' = None, clean
               PROVE  code \in accepted' \/ wrong >= MaxAttempts \/ ExpireCode
    OBVIOUS
  <2>1. ASSUME NEW t \in Tokens, ExpireToken(t) PROVE FALSE
    BY <2>1 DEF ExpireToken, otpVars
  <2>2. CASE ExpireAttempts \/ ExpireCooldown
    BY <2>2 DEF ExpireAttempts, ExpireCooldown
  <2>3. ASSUME NEW r \in Requests, Receive(r) PROVE FALSE
    BY <2>3 DEF Receive, ReceiveRegister, ReceivePatch, ReceiveLogin, ReceiveRefresh,
         ReceiveLogout, ReceiveAsk, ReceiveVerify, otpVars
  <2>4. ASSUME NEW r \in Requests, Continue(r), ~DropCode(r), ~BurnCode(r) PROVE FALSE
    <3>1. code' = code \/ SetCode(r)
      BY <2>4 DEF Continue, InsertUser, CheckClash, WritePhone, EnterPhone, CommitPatch, Revoke, Issue, Answer,
           CommitIssue, CommitLogout, CheckCooldown, SetAttempts, SetCooldown, SendSms,
           ReadTries, CountTry, FindHolder, otpVars
    <3>2. SetCode(r) => code' # None
      <4> SUFFICES ASSUME SetCode(r) PROVE code' # None
        OBVIOUS
      <4>1. r \in Asking
        BY DEF SetCode, Asking
      <4>2. code' \in Codes
        BY <4>1, NewCodeExists DEF SetCode
      <4> QED BY <4>2, NoneAssumption
    <3> QED BY <3>1, <3>2
  <2>5. ASSUME NEW r \in Requests, Abort(r) PROVE FALSE
    BY <2>5 DEF Abort, otpVars
  <2>6. ASSUME NEW r \in Requests, DropCode(r) \/ BurnCode(r)
        PROVE  code \in accepted' \/ wrong >= MaxAttempts
    BY <2>6, DropCodeInv, BurnCodeInv
  <2> QED BY <2>1, <2>2, <2>3, <2>4, <2>5, <2>6 DEF Next
<1> QED BY <1>1, Invariance, PTL DEF Spec, BurnedOnlyWhenTried

(* A phone number changes hands only by way of nobody: a claim that has been flushed
   keeps the others off the index until it commits (users.py, patch_me). *)
THEOREM PhonesAreGivenUp == Spec => PhoneNeverTakenOver
<1>1. Inv /\ [Next]_vars => [holder # None /\ holder' # holder => holder' = None]_vars
  <2> SUFFICES ASSUME Inv, Next PROVE holder # None /\ holder' # holder => holder' = None
    OBVIOUS
  <2>1. ASSUME NEW r \in Requests, CommitPatch(r) \/ CommitIssue(r)
        PROVE  holder # None /\ holder' # holder => holder' = None
    BY <2>1, CommitPatchInv, CommitIssueInv
  <2>2. ASSUME NEW r \in Requests, Receive(r) PROVE holder' = holder
    BY <2>2 DEF Receive, ReceiveRegister, ReceivePatch, ReceiveLogin, ReceiveRefresh,
         ReceiveLogout, ReceiveAsk, ReceiveVerify, accountVars
  <2>3. ASSUME NEW r \in Requests, Continue(r), ~CommitPatch(r), ~CommitIssue(r)
        PROVE  holder' = holder
    BY <2>3 DEF Continue, InsertUser, CheckClash, WritePhone, EnterPhone, Revoke, Issue,
         Answer, CommitLogout, CheckCooldown, SetCode, SetAttempts, SetCooldown, SendSms, ReadTries, CountTry,
         DropCode, BurnCode, FindHolder, accountVars
  <2>4. ASSUME NEW r \in Requests, Abort(r) PROVE holder' = holder
    BY <2>4 DEF Abort, accountVars
  <2>5. ASSUME NEW t \in Tokens, ExpireToken(t) PROVE holder' = holder
    BY <2>5 DEF ExpireToken, accountVars
  <2>6. ASSUME ExpireCode \/ ExpireAttempts \/ ExpireCooldown PROVE holder' = holder
    BY <2>6 DEF ExpireCode, ExpireAttempts, ExpireCooldown, accountVars
  <2> QED BY <2>1, <2>2, <2>3, <2>4, <2>5, <2>6 DEF Next
<1> QED BY <1>1, Invariance, PTL DEF Spec, PhoneNeverTakenOver

(* r waits for a row of users, a row of refresh_tokens, or an index entry, and keeps the
   locks it has meanwhile. *)
Blocked(r) ==
  \/ req[r].pc \in {"insert", "issue"} /\ ~RowUnwritten(r)
  \/ /\ req[r].pc = "write"
     /\ ~RowUnwritten(r) \/ \E q \in Requests \ {r} : SharesRow(q, req[r].account)
  \/ req[r].pc = "entry" /\ \E q \in Requests \ {r} : WritesPhone(q)
  \/ (req[r].pc = "revoke" \/ (req[r].pc = "commit" /\ req[r].op = "logout")) /\ ~TokenFree(r)

NotAllBlocked ==
  (\E r \in Requests : req[r].pc # "idle")
    => \E r \in Requests : req[r].pc # "idle" /\ ~Blocked(r)

(* Places where a request waits for nothing *)
LEMMA NoWaitBeforeCommit ==
  ASSUME RequestsOK, NEW r \in Requests,
         req[r].pc = "answer" \/ (req[r].pc = "commit" /\ req[r].op # "logout")
  PROVE  req[r].pc # "idle" /\ ~Blocked(r)
BY DEF Blocked

(* Who waits for the phone number ends up behind one that goes on: whoever has entered it
   has only to issue and commit, or the one patch that has changed the row with the number
   waits for it alone. *)
LEMMA PhoneWaitEnds ==
  ASSUME Inv, NEW r \in Requests, req[r].pc = "entry"
  PROVE  \E q \in Requests : req[q].pc # "idle" /\ ~Blocked(q)
<1>1. RequestsOK
  BY InvRequests
<1>2. ASSUME NEW q \in Requests, Claims(q) PROVE req[q].pc # "idle" /\ ~Blocked(q)
  <2>1. CASE req[q].pc = "issue"
    <3>1. req[q].op = "register" /\ Writes(q)
      BY <1>2, <2>1 DEF Claims, Writes, Registers
    <3>2. \A p \in Requests \ {q} : ~WritesRow(p, req[q].account)
      BY <3>1 DEF Inv, RowsExclude, WritesRow, Writes, Registers
    <3> QED BY <2>1, <3>2 DEF Blocked, RowUnwritten
  <2>2. CASE req[q].pc # "issue"
    BY <1>1, <1>2, <2>2, NoWaitBeforeCommit DEF Claims, Issuing
  <2> QED BY <2>1, <2>2
<1>3. CASE \E q \in Requests : Claims(q)
  BY <1>2, <1>3
<1>4. CASE ~\E q \in Requests : Claims(q)
  <2>1. CASE ~Blocked(r)
    BY <2>1
  <2>2. CASE Blocked(r)
    <3>1. PICK q \in Requests \ {r} : WritesPhone(q)
      BY <2>2 DEF Blocked
    <3>2. holder # None /\ req[q].op = "patch" /\ WritesRow(q, holder)
      BY <1>4, <3>1 DEF WritesPhone
    <3>3. req[q].pc \in {"entry", "commit"} /\ req[q].account = holder /\ Writes(q)
      BY <3>2 DEF WritesRow, Writes, Registers
    <3>4. CASE req[q].pc = "commit"
      BY <1>1, <3>2, <3>4, NoWaitBeforeCommit
    <3>5. CASE req[q].pc = "entry"
      <4>1. ASSUME NEW p \in Requests \ {q} PROVE ~WritesPhone(p)
        <5>1. WritesRow(p, holder) => Writes(p) /\ req[p].account = req[q].account
          BY <3>3 DEF WritesRow, Writes, Registers
        <5>2. ~WritesRow(p, holder)
          BY <3>3, <5>1 DEF Inv, RowsExclude
        <5> QED BY <1>4, <5>2 DEF WritesPhone
      <4> QED BY <3>5, <4>1 DEF Blocked
    <3> QED BY <3>3, <3>4, <3>5
  <2> QED BY <2>1, <2>2
<1> QED BY <1>3, <1>4

(* Who waits for a users row is behind one that goes on: a patch or registration of it. *)
LEMMA RowWaitEnds ==
  ASSUME Inv, NEW r \in Requests, Writes(r)
  PROVE  \E q \in Requests : req[q].pc # "idle" /\ ~Blocked(q)
<1>1. RequestsOK
  BY InvRequests
<1>2. CASE req[r].pc = "entry"
  BY <1>2, PhoneWaitEnds
<1>3. CASE req[r].pc = "issue"
  <2>1. \A p \in Requests \ {r} : ~WritesRow(p, req[r].account)
    BY DEF Inv, RowsExclude, WritesRow, Writes, Registers
  <2> QED BY <1>3, <2>1 DEF Blocked, RowUnwritten
<1>4. CASE req[r].pc \in {"answer", "commit"}
  BY <1>1, <1>4, NoWaitBeforeCommit DEF Writes, Registers
<1> QED BY <1>2, <1>3, <1>4 DEF Writes, Registers, Issuing

(* Waits end, although whoever waits may hold locks that others wait for: those of a token
   row before those of a users row, and these before the entry for a phone number (auth.py,
   refresh and register; users.py, patch_me). *)
THEOREM WaitsEnd == Spec => []NotAllBlocked
<1>1. Inv => NotAllBlocked
  <2> SUFFICES ASSUME Inv, NEW r \in Requests, req[r].pc # "idle", Blocked(r)
               PROVE  \E q \in Requests : req[q].pc # "idle" /\ ~Blocked(q)
    BY DEF NotAllBlocked
  <2>1. RequestsOK
    BY InvRequests
  <2>2. ASSUME NEW q \in Requests, ~RowUnwritten(q)
        PROVE  \E p \in Requests : req[p].pc # "idle" /\ ~Blocked(p)
    <3>1. PICK p \in Requests : WritesRow(p, req[q].account)
      BY <2>2 DEF RowUnwritten
    <3>2. Writes(p)
      BY <3>1 DEF WritesRow, Writes, Registers
    <3> QED BY <3>2, RowWaitEnds
  <2>3. CASE req[r].pc = "entry"
    BY <2>3, PhoneWaitEnds
  <2>4. CASE ~RowUnwritten(r)
    BY <2>2, <2>4
  <2>5. CASE \E q \in Requests : SharesRow(q, req[r].account)
    BY <2>1, <2>5, NoWaitBeforeCommit DEF SharesRow, Issuers
  <2>6. CASE ~TokenFree(r)
    <3>1. PICK q \in Requests : req[q].op = "refresh" /\ req[q].pc \in Issuing
      BY <2>6 DEF TokenFree, LocksToken
    <3>2. CASE req[q].pc = "issue"
      <4>1. CASE RowUnwritten(q)
        BY <3>2, <4>1 DEF Blocked
      <4> QED BY <2>2, <4>1
    <3>3. CASE req[q].pc \in {"answer", "commit"}
      BY <2>1, <3>1, <3>3, NoWaitBeforeCommit
    <3> QED BY <3>1, <3>2, <3>3 DEF Issuing
  <2> QED BY <2>3, <2>4, <2>5, <2>6 DEF Blocked
<1> QED BY <1>1, Invariance, PTL

----------------------------------------------------------------------------
(* Every request has few steps *)

(* The awaits a request that stands at pc may still come to, at most, its own included *)
Left == [idle |-> 0, commit |-> 1, answer |-> 2, issue |-> 3, entry |-> 4, insert |-> 5,
         revoke |-> 4, write |-> 5, clash |-> 6,
         sms |-> 1, cool |-> 2, attempts |-> 3, code |-> 4, cooldown |-> 5,
         drop |-> 1, count |-> 2, holder |-> 4, burn |-> 5, tries |-> 6]

(* A request in flight comes nearer to its end with every step of its own, and no step of
   another one, no expiry and no arrival takes it back. *)
StepsRunOut ==
  [][ \A r \in Requests : req[r].pc # "idle" =>
        /\ Left[req'[r].pc] <= Left[req[r].pc]
        /\ Continue(r) => Left[req'[r].pc] < Left[req[r].pc] ]_vars

LEMMA LeftOf ==
  /\ Left["idle"] = 0 /\ Left["commit"] = 1 /\ Left["answer"] = 2 /\ Left["issue"] = 3
  /\ Left["entry"] = 4 /\ Left["insert"] = 5 /\ Left["revoke"] = 4
  /\ Left["write"] = 5 /\ Left["clash"] = 6
  /\ Left["sms"] = 1 /\ Left["cool"] = 2 /\ Left["attempts"] = 3 /\ Left["code"] = 4
  /\ Left["cooldown"] = 5 /\ Left["drop"] = 1 /\ Left["count"] = 2 /\ Left["holder"] = 4
  /\ Left["burn"] = 5 /\ Left["tries"] = 6
BY DEF Left

LEMMA LeftIsNat ==
  ASSUME NEW h \in Handlers \cup {"none"}, NEW pc \in PCsOf[h]
  PROVE  Left[pc] \in Nat
<1>1. CASE h = "none"
  BY <1>1, LeftOf DEF PCsOf
<1>2. CASE h \in {"register", "login", "refresh", "logout", "patch"}
  <2>1. pc \in {"insert", "entry", "revoke", "issue", "answer", "commit", "clash", "write"}
    BY <1>2 DEF PCsOf, Issuing
  <2> QED BY <2>1, LeftOf
<1>3. CASE h = "verify"
  <2>1. pc \in {"tries", "count", "drop", "burn", "holder", "issue", "answer", "commit"}
    BY <1>3 DEF PCsOf, Issuing
  <2> QED BY <2>1, LeftOf
<1>4. CASE h = "ask"
  BY <1>4, LeftOf DEF PCsOf
<1> QED BY <1>1, <1>2, <1>3, <1>4 DEF Handlers, Issuers

(* r is at pc now, and the others are where they were. *)
Moves(r, pc) == req'[r].pc = pc /\ \A q \in Requests \ {r} : req'[q].pc = req[q].pc

LEMMA EndMoves ==
  ASSUME RequestsOK, NEW r \in Requests, End(r)
  PROVE  Moves(r, "idle")
BY DEF RequestsOK, RequestRecord, End, Idle, Moves

LEMMA GotoMoves ==
  ASSUME RequestsOK, NEW r \in Requests, NEW pc, Goto(r, pc)
  PROVE  Moves(r, pc)
BY DEF RequestsOK, RequestRecord, Goto, Moves

LEMMA AcceptMoves ==
  ASSUME RequestsOK, NEW r \in Requests, Accept(r)
  PROVE  Moves(r, "holder")
BY DEF RequestsOK, RequestRecord, Accept, Moves

(* A step of one request moves it nearer to its end, and no other request. *)
LEMMA ContinueMoves ==
  ASSUME RequestsOK, NEW r \in Requests, Continue(r)
  PROVE  /\ Left[req'[r].pc] < Left[req[r].pc]
         /\ \A q \in Requests \ {r} : req'[q].pc = req[q].pc
<1>1. CASE InsertUser(r)
  <2>1. Moves(r, "idle") \/ Moves(r, "entry") \/ Moves(r, "issue")
    BY <1>1, EndMoves, GotoMoves DEF InsertUser
  <2> QED BY <1>1, <2>1, LeftOf DEF InsertUser, Moves
<1>2. CASE CheckClash(r)
  <2>1. Moves(r, "idle") \/ Moves(r, "write")
    BY <1>2, EndMoves, GotoMoves DEF CheckClash
  <2> QED BY <1>2, <2>1, LeftOf DEF CheckClash, Moves
<1>3. CASE WritePhone(r)
  <2>1. Moves(r, "entry") \/ Moves(r, "commit")
    BY <1>3, GotoMoves DEF WritePhone
  <2> QED BY <1>3, <2>1, LeftOf DEF WritePhone, Moves
<1>4. CASE CommitPatch(r) \/ CommitIssue(r) \/ CommitLogout(r) \/ SendSms(r) \/ DropCode(r)
  <2>1. req[r].pc \in {"commit", "sms", "drop"} /\ Moves(r, "idle")
    BY <1>4, EndMoves DEF CommitPatch, CommitIssue, CommitLogout, SendSms, DropCode
  <2> QED BY <2>1, LeftOf DEF Moves
<1>5. CASE Issue(r)
  <2>1. Moves(r, "answer")
    BY <1>5 DEF Issue, RequestsOK, RequestRecord, Moves
  <2>2. req[r].pc = "issue"
    BY <1>5 DEF Issue
  <2> QED BY <2>1, <2>2, LeftOf DEF Moves
<1>6. CASE Answer(r)
  <2>1. Moves(r, "commit")
    BY <1>6, GotoMoves DEF Answer
  <2> QED BY <1>6, <2>1, LeftOf DEF Answer, Moves
<1>7. CASE CheckCooldown(r)
  <2>1. Moves(r, "idle") \/ Moves(r, "code")
    BY <1>7, EndMoves, GotoMoves DEF CheckCooldown
  <2> QED BY <1>7, <2>1, LeftOf DEF CheckCooldown, Moves
<1>8. CASE SetCode(r)
  <2>1. Moves(r, "attempts")
    BY <1>8 DEF SetCode, RequestsOK, RequestRecord, Moves
  <2>2. req[r].pc = "code"
    BY <1>8 DEF SetCode
  <2> QED BY <2>1, <2>2, LeftOf DEF Moves
<1>9. CASE SetAttempts(r)
  <2>1. Moves(r, "cool")
    BY <1>9, GotoMoves DEF SetAttempts
  <2> QED BY <1>9, <2>1, LeftOf DEF SetAttempts, Moves
<1>10. CASE SetCooldown(r)
  <2>1. Moves(r, "sms")
    BY <1>10, GotoMoves DEF SetCooldown
  <2> QED BY <1>10, <2>1, LeftOf DEF SetCooldown, Moves
<1>11. CASE ReadTries(r)
  <2>1. Moves(r, "drop") \/ Moves(r, "burn") \/ Moves(r, "count")
    BY <1>11, GotoMoves DEF ReadTries
  <2> QED BY <1>11, <2>1, LeftOf DEF ReadTries, Moves
<1>12. CASE CountTry(r)
  <2>1. Moves(r, "idle") \/ Moves(r, "drop")
    BY <1>12, EndMoves, GotoMoves DEF CountTry
  <2> QED BY <1>12, <2>1, LeftOf DEF CountTry, Moves
<1>13. CASE BurnCode(r)
  <2>1. Moves(r, "holder")
    BY <1>13, AcceptMoves DEF BurnCode
  <2> QED BY <1>13, <2>1, LeftOf DEF BurnCode, Moves
<1>14. CASE FindHolder(r)
  <2>1. Moves(r, "idle") \/ Moves(r, "issue")
    BY <1>14, EndMoves DEF FindHolder, RequestsOK, RequestRecord, Moves
  <2> QED BY <1>14, <2>1, LeftOf DEF FindHolder, Moves
<1>15. CASE EnterPhone(r)
  <2>1. Moves(r, "idle") \/ Moves(r, "issue") \/ Moves(r, "commit")
    BY <1>15, EndMoves, GotoMoves DEF EnterPhone, AfterEntry
  <2> QED BY <1>15, <2>1, LeftOf DEF EnterPhone, Moves
<1>16. CASE Revoke(r)
  <2>1. Moves(r, "issue")
    BY <1>16, GotoMoves DEF Revoke
  <2> QED BY <1>16, <2>1, LeftOf DEF Revoke, Moves
<1> QED BY <1>1, <1>2, <1>3, <1>4, <1>5, <1>6, <1>7, <1>8, <1>9, <1>10, <1>11, <1>12, <1>13, <1>14,
           <1>15, <1>16
        DEF Continue

(* An arrival takes an idle place, and moves nobody else. *)
LEMMA ReceiveMoves ==
  ASSUME RequestsOK, NEW q \in Requests, Receive(q), NEW r \in Requests, req[r].pc # "idle"
  PROVE  req'[r].pc = req[r].pc
<1>1. req[q].pc = "idle" /\ \E x : req' = [req EXCEPT ![q] = x]
  <2>1. CASE ReceiveRegister(q) \/ ReceivePatch(q)
    BY <2>1, Zenon DEF ReceiveRegister, ReceivePatch, Arrive
  <2>2. CASE ReceiveLogin(q) \/ ReceiveRefresh(q)
    BY <2>2, Zenon DEF ReceiveLogin, ReceiveRefresh, Arrive
  <2>3. CASE ReceiveLogout(q) \/ ReceiveAsk(q)
    BY <2>3, Zenon DEF ReceiveLogout, ReceiveAsk, Arrive
  <2>4. CASE ReceiveVerify(q)
    BY <2>4, Zenon DEF ReceiveVerify, Arrive
  <2> QED BY <2>1, <2>2, <2>3, <2>4 DEF Receive
<1> QED BY <1>1 DEF RequestsOK

(* No handler repeats a step: with WaitsEnd, requests that are in flight can all be
   finished in at most six steps each, in some order, unless new ones arrive. *)
THEOREM RequestsAreShort == Spec => StepsRunOut
<1> DEFINE Shorter == \A r \in Requests : req[r].pc # "idle" =>
                        /\ Left[req'[r].pc] <= Left[req[r].pc]
                        /\ Continue(r) => Left[req'[r].pc] < Left[req[r].pc]
<1>1. ASSUME Inv, Inv', [Next]_vars, ~UNCHANGED vars PROVE Shorter
  <2> SUFFICES ASSUME NEW r \in Requests, req[r].pc # "idle"
               PROVE  /\ Left[req'[r].pc] <= Left[req[r].pc]
                      /\ Continue(r) => Left[req'[r].pc] < Left[req[r].pc]
    OBVIOUS
  <2>1. RequestsOK /\ RequestsOK'
    BY <1>1, InvRequests DEF Inv, TypeOK, RequestsOK
  <2>2. Left[req[r].pc] \in Nat /\ Left[req'[r].pc] \in Nat
    BY <2>1, LeftIsNat DEF RequestsOK, RequestRecord
  <2>3. Continue(r) => Left[req'[r].pc] < Left[req[r].pc]
    BY <2>1, ContinueMoves
  <2>4. CASE req'[r].pc \in {req[r].pc, "idle"}
    BY <2>2, <2>3, <2>4, LeftOf
  <2>5. CASE \E q \in Requests : Continue(q)
    <3>1. PICK q \in Requests : Continue(q)
      BY <2>5
    <3>2. CASE q = r
      BY <2>2, <2>3, <3>1, <3>2
    <3>3. CASE q # r
      BY <2>1, <2>4, <3>1, <3>3, ContinueMoves
    <3> QED BY <3>2, <3>3
  <2>6. CASE UNCHANGED req
    BY <2>4, <2>6
  <2>7. CASE \E q \in Requests : Receive(q)
    BY <2>1, <2>4, <2>7, ReceiveMoves
  <2>8. CASE \E q \in Requests : Abort(q)
    <3>1. PICK q \in Requests : End(q)
      BY <2>8 DEF Abort
    <3>2. req'[r].pc \in {req[r].pc, "idle"}
      BY <2>1, <3>1, EndMoves DEF Moves
    <3> QED BY <2>4, <3>2
  <2> QED BY <1>1, <2>5, <2>6, <2>7, <2>8
          DEF Next, ExpireToken, ExpireCode, ExpireAttempts, ExpireCooldown
<1>2. Inv /\ [Next]_vars => [Shorter]_vars
  BY <1>1, NextInv
<1> QED BY <1>2, Invariance, PTL DEF Spec, StepsRunOut

=============================================================================
