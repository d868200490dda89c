------------------------------ MODULE Devices ------------------------------
(***************************************************************************)
(* Pairing and sharing of one device: app/api/v1/devices.py over           *)
(* app/services/device_access.py.                                          *)
(*                                                                         *)
(* Every HTTP request is a transaction of its own (db/session.py, get_db): *)
(* each SELECT reads what is committed at that moment (PostgreSQL READ     *)
(* COMMITTED), flushed INSERTs are invisible to the others but block an    *)
(* INSERT of the same key, and UPDATE and DELETE statements are sent at    *)
(* the COMMIT that follows the handler.  Redis is written at once.  The    *)
(* handlers are coroutines: between two of their awaits any other request  *)
(* may run, which is why every await is a step of its own here.            *)
(*                                                                         *)
(* The module follows one hardware_uid.  Nothing in the code relates two   *)
(* devices, and no endpoint deletes a device row.                          *)
(***************************************************************************)
EXTENDS Integers, FiniteSets

CONSTANTS Users,          \* accounts
          Secrets,        \* factory secrets /provision may be given
          Unprovisioned,  \* the secret a new row starts with
          Names,          \* display names
          Nonces,         \* challenge nonces: secrets.token_hex(32)
          Requests,       \* slots for requests in flight (bounds concurrency)
          Ops,            \* the handlers the clients call
          None            \* no row, no nonce, no user

Handlers == {"challenge", "confirm", "provision", "share", "remove"}

ASSUME OpsAssumption == Ops \subseteq Handlers
ASSUME FiniteAssumption == IsFiniteSet(Nonces) /\ IsFiniteSet(Requests)
ASSUME NoneAssumption ==
  None \notin Users \cup Secrets \cup {Unprovisioned} \cup Names \cup Nonces

VARIABLES
  device,      \* the committed devices row, or None
  members,     \* the committed user_devices rows of the device
  challenge,   \* Redis key pairing:challenge:{device_id}, or None
  issued,      \* nonces generated so far for the row
  req,         \* the requests in flight
  verified,    \* history: the secret the last committed confirm verified
  used         \* history: nonces of the confirms that committed

vars == <<device, members, challenge, issued, req, verified, used>>

SecretValues == Secrets \cup {Unprovisioned}
Row == [secret : SecretValues, paired : BOOLEAN, name : Names]

ASSUME NoRowAssumption == None \notin Row

(* Where a request of a handler can stand: its awaits *)
PCsOf == [none      |-> {"idle"},
          challenge |-> {"member", "insert", "nonce", "commit"},
          confirm   |-> {"member", "verify", "consume", "commit"},
          provision |-> {"member", "commit"},
          share     |-> {"member", "target", "link", "commit"},
          remove    |-> {"member", "count", "find", "commit"}]
PCs == UNION {PCsOf[h] : h \in Handlers \cup {"none"}}

(***************************************************************************)
(* A request: its handler, where it stands, its caller and arguments, the  *)
(* device row as its transaction loaded it (seen), whether it has a        *)
(* user_devices row to add or delete (wrote) and, as history, the kinds of *)
(* requests that have disturbed it since its first SELECT (since).         *)
(***************************************************************************)
RequestRecord ==
  [op : Handlers \cup {"none"}, pc : PCs, caller : Users \cup {None},
   target : Users \cup {None}, nonce : Nonces \cup {None},
   secret : SecretValues \cup {None}, name : Names \cup {None},
   seen : Row \cup {None}, wrote : BOOLEAN, since : SUBSET Handlers]

Idle == [op |-> "none", pc |-> "idle", caller |-> None, target |-> None,
         nonce |-> None, secret |-> None, name |-> None, seen |-> None,
         wrote |-> FALSE, since |-> {}]

TypeOK ==
  /\ device \in Row \cup {None}
  /\ members \in SUBSET Users
  /\ challenge \in Nonces \cup {None}
  /\ issued \in SUBSET Nonces
  /\ req \in [Requests -> RequestRecord]
  /\ \A r \in Requests : req[r].pc \in PCsOf[req[r].op]
  /\ verified \in SecretValues \cup {None}
  /\ used \in SUBSET Nonces

Init ==
  /\ device = None
  /\ members = {}
  /\ challenge = None
  /\ issued = {}
  /\ req = [r \in Requests |-> Idle]
  /\ verified = None
  /\ used = {}

----------------------------------------------------------------------------
(* Transactions *)

Goto(r, pc) == req' = [req EXCEPT ![r].pc = pc]

(* An HTTPException or a database error: get_db rolls back. *)
Reject(r) == req' = [req EXCEPT ![r] = Idle]

(* The COMMIT of r may make what another transaction has read out of date. *)
Disturbs(r) == \/ req[r].op \in {"confirm", "provision"}
               \/ req[r].op = "remove" /\ req[r].wrote

(* COMMIT.  As history only, the other requests note that r has disturbed them. *)
Commit(r) ==
  req' = [q \in Requests |->
            IF q = r THEN Idle
            ELSE IF Disturbs(r) /\ req[q].pc # "idle"
                 THEN [req[q] EXCEPT !.since = @ \cup {req[r].op}]
                 ELSE req[q]]

(* r has flushed, and not committed, the INSERT of the devices row and of its
   caller's user_devices row. *)
Registering(r) ==
  /\ req[r].op = "challenge"
  /\ req[r].pc \in {"nonce", "commit"}
  /\ req[r].seen = None

(* r has flushed, and not committed, the INSERT of u's user_devices row. *)
Linking(r, u) ==
  /\ req[r].op = "share"
  /\ req[r].pc = "commit"
  /\ req[r].wrote
  /\ req[r].target = u

----------------------------------------------------------------------------
(* Faults: variants that the properties below must not survive *)

(* A provision that waits for the handshake *)
NextStepVerifiesProvision ==
  [challenge |-> "nonce", confirm |-> "verify", provision |-> "verify",
   share |-> "target", remove |-> "count"]

(* What each handler does once its caller is known to be a member *)
NextStep == [challenge |-> "nonce", confirm |-> "verify", provision |-> "commit",
             share |-> "target", remove |-> "count"]

(* A handler without the membership check *)
CheckNothing(r) ==
  /\ req[r].pc = "member"
  /\ Goto(r, NextStep[req[r].op])
  /\ UNCHANGED <<device, members, challenge, issued, verified, used>>

(* Table devices without the unique index on hardware_uid *)
InsertWithoutUniqueIndex(r) ==
  /\ req[r].pc = "insert"
  /\ Goto(r, "nonce")
  /\ UNCHANGED <<device, members, challenge, issued, verified, used>>

(* A challenge that renames a paired device *)
RenameAlways(r) ==
  /\ req[r].op = "challenge" /\ req[r].pc = "commit"
  /\ IF req[r].seen = None
     THEN /\ device' = [secret |-> Unprovisioned, paired |-> FALSE,
                        name |-> req[r].name]
          /\ members' = {req[r].caller}
     ELSE /\ device' = [device EXCEPT !.name = req[r].name]
          /\ UNCHANGED members
  /\ Commit(r)
  /\ UNCHANGED <<challenge, issued, verified, used>>

(* A confirm that leaves the nonce in Redis *)
KeepNonce(r) ==
  /\ req[r].pc = "consume"
  /\ Goto(r, "commit")
  /\ UNCHANGED <<device, members, challenge, issued, verified, used>>

(* A provision that does not reset is_paired *)
ProvisionKeepsPairing(r) ==
  /\ req[r].op = "provision" /\ req[r].pc = "commit"
  /\ device' = [device EXCEPT !.secret = req[r].secret]
  /\ Commit(r)
  /\ UNCHANGED <<members, challenge, issued, verified, used>>

(* Table user_devices without its primary key *)
LinkWithoutKey(r) ==
  /\ req[r].pc = "link"
  /\ req' = [req EXCEPT ![r].pc = "commit", ![r].wrote = TRUE]
  /\ UNCHANGED <<device, members, challenge, issued, verified, used>>

(* An insertion that waits for the ones that wait *)
LinkWaitsForWaiters(r) ==
  /\ req[r].pc = "link"
  /\ \A q \in Requests \ {r} : req[q].pc # "link" /\ ~Linking(q, req[r].target)
  /\ IF req[r].target \in members
     THEN Reject(r)
     ELSE req' = [req EXCEPT ![r].pc = "commit", ![r].wrote = TRUE]
  /\ UNCHANGED <<device, members, challenge, issued, verified, used>>

(* < for <= in the count of members *)
CountOffByOne(r) ==
  /\ req[r].pc = "count"
  /\ IF Cardinality(members) < 1 THEN Reject(r) ELSE Goto(r, "find")
  /\ UNCHANGED <<device, members, challenge, issued, verified, used>>

----------------------------------------------------------------------------
(* Arrival: the handler's first SELECT, of the devices row *)

(* assert_device_member's SELECT: without a row the answer is 404 *)
Load(r, request) ==
  /\ req[r].pc = "idle"
  /\ device # None
  /\ req' = [req EXCEPT ![r] = [request EXCEPT !.pc = "member", !.seen = device]]
  /\ UNCHANGED <<device, members, challenge, issued, verified, used>>

(* Challenges in flight that still have to draw a nonce *)
Undrawn == {r \in Requests : req[r].op = "challenge" /\ req[r].pc # "commit"}

(* Bound of the model: the code never runs out of nonces. *)
NonceLeft == Cardinality(issued) + Cardinality(Undrawn) < Cardinality(Nonces)

ReceiveChallenge(r) ==
  /\ "challenge" \in Ops
  /\ NonceLeft
  /\ \E u \in Users, n \in Names :
       LET request == [Idle EXCEPT !.op = "challenge", !.caller = u, !.name = n]
       IN \/ Load(r, request)
          \/ /\ req[r].pc = "idle"
             /\ device = None
             /\ req' = [req EXCEPT ![r] = [request EXCEPT !.pc = "insert"]]
             /\ UNCHANGED <<device, members, challenge, issued, verified, used>>

(* The body carries a nonce the service has issued and an HMAC the device has
   computed over it with the secret it holds. *)
ReceiveConfirm(r) ==
  /\ "confirm" \in Ops
  /\ \E u \in Users, n \in issued, s \in SecretValues :
       Load(r, [Idle EXCEPT !.op = "confirm", !.caller = u, !.nonce = n, !.secret = s])

ReceiveProvision(r) ==
  /\ "provision" \in Ops
  /\ \E u \in Users, s \in Secrets :
       Load(r, [Idle EXCEPT !.op = "provision", !.caller = u, !.secret = s])

ReceiveShare(r) ==
  /\ "share" \in Ops
  /\ \E u, t \in Users :
       Load(r, [Idle EXCEPT !.op = "share", !.caller = u, !.target = t])

ReceiveRemove(r) ==
  /\ "remove" \in Ops
  /\ \E u, t \in Users :
       Load(r, [Idle EXCEPT !.op = "remove", !.caller = u, !.target = t])

Receive(r) == \/ ReceiveChallenge(r)
              \/ ReceiveConfirm(r)
              \/ ReceiveProvision(r)
              \/ ReceiveShare(r)
              \/ ReceiveRemove(r)

----------------------------------------------------------------------------
(* Membership check, for every handler that found the row *)

(* is_member: 404 (409 for a challenge) unless the caller has a row now *)
CheckMember(r) ==
  /\ req[r].pc = "member"
  /\ IF req[r].caller \in members
     THEN Goto(r, NextStep[req[r].op])
     ELSE Reject(r)
  /\ UNCHANGED <<device, members, challenge, issued, verified, used>>

----------------------------------------------------------------------------
(* POST /pair/challenge *)

(* A second INSERT of the hardware_uid waits for the first one's transaction,
   and fails if that one has committed. *)
InsertDevice(r) ==
  /\ req[r].pc = "insert"
  /\ \A q \in Requests : ~Registering(q)
  /\ IF device = None THEN Goto(r, "nonce") ELSE Reject(r)
  /\ UNCHANGED <<device, members, challenge, issued, verified, used>>

(* redis.setex, before the COMMIT; it replaces a challenge that is pending. *)
IssueNonce(r) ==
  /\ req[r].pc = "nonce"
  /\ \E n \in Nonces \ issued :
       /\ challenge' = n
       /\ issued' = issued \cup {n}
  /\ Goto(r, "commit")
  /\ UNCHANGED <<device, members, verified, used>>

(* The row is new, or its name changes if the loaded row was not paired. *)
CommitChallenge(r) ==
  /\ req[r].op = "challenge" /\ req[r].pc = "commit"
  /\ LET seen == req[r].seen
     IN IF seen = None
        THEN /\ device' = [secret |-> Unprovisioned, paired |-> FALSE,
                           name |-> req[r].name]
             /\ members' = {req[r].caller}
        ELSE /\ device' = IF ~seen.paired /\ seen.name # req[r].name
                          THEN [device EXCEPT !.name = req[r].name]
                          ELSE device
             /\ UNCHANGED members
  /\ Commit(r)
  /\ UNCHANGED <<challenge, issued, verified, used>>

(* The Redis key's time to live is over, or Redis has lost it. *)
ExpireChallenge ==
  /\ challenge # None
  /\ challenge' = None
  /\ UNCHANGED <<device, members, issued, req, verified, used>>

----------------------------------------------------------------------------
(* POST /pair/confirm *)

(* verify_device_hmac: HMACs over one nonce agree when their keys do. *)
HmacMatches(r) == req[r].secret = req[r].seen.secret

(* 409 when the loaded row is paired; redis.get, then 410, 400 and 400 *)
Accepts(r) ==
  /\ ~req[r].seen.paired
  /\ challenge # None
  /\ challenge = req[r].nonce
  /\ HmacMatches(r)

VerifyResponse(r) ==
  /\ req[r].pc = "verify"
  /\ IF Accepts(r) THEN Goto(r, "consume") ELSE Reject(r)
  /\ UNCHANGED <<device, members, challenge, issued, verified, used>>

(* redis.delete, before the COMMIT and whatever nonce the key holds by now *)
ConsumeNonce(r) ==
  /\ req[r].pc = "consume"
  /\ challenge' = None
  /\ Goto(r, "commit")
  /\ UNCHANGED <<device, members, issued, verified, used>>

(* UPDATE devices SET is_paired: the loaded row was not paired. *)
CommitConfirm(r) ==
  /\ req[r].op = "confirm" /\ req[r].pc = "commit"
  /\ device' = [device EXCEPT !.paired = TRUE]
  /\ verified' = req[r].seen.secret
  /\ used' = used \cup {req[r].nonce}
  /\ Commit(r)
  /\ UNCHANGED <<members, challenge, issued>>

----------------------------------------------------------------------------
(* POST /{device_id}/provision *)

(* The secret is encrypted afresh, so its column is always written; is_paired
   is in the UPDATE only if the loaded row was paired. *)
CommitProvision(r) ==
  /\ req[r].op = "provision" /\ req[r].pc = "commit"
  /\ device' = [device EXCEPT !.secret = req[r].secret,
                              !.paired = IF req[r].seen.paired THEN FALSE ELSE @]
  /\ Commit(r)
  /\ UNCHANGED <<members, challenge, issued, verified, used>>

----------------------------------------------------------------------------
(* POST /{device_id}/share *)

(* add_member's is_member: a target with a row is left alone. *)
CheckTarget(r) ==
  /\ req[r].pc = "target"
  /\ Goto(r, IF req[r].target \in members THEN "commit" ELSE "link")
  /\ UNCHANGED <<device, members, challenge, issued, verified, used>>

(* add_member's INSERT waits for an uncommitted one of the same row, and fails
   on the primary key if that one, or an earlier one, has committed. *)
LinkMember(r) ==
  /\ req[r].pc = "link"
  /\ \A q \in Requests : ~Linking(q, req[r].target)
  /\ IF req[r].target \in members
     THEN Reject(r)
     ELSE req' = [req EXCEPT ![r].pc = "commit", ![r].wrote = TRUE]
  /\ UNCHANGED <<device, members, challenge, issued, verified, used>>

(* The handler lists the members first, which changes nothing. *)
CommitShare(r) ==
  /\ req[r].op = "share" /\ req[r].pc = "commit"
  /\ members' = IF req[r].wrote THEN members \cup {req[r].target} ELSE members
  /\ Commit(r)
  /\ UNCHANGED <<device, challenge, issued, verified, used>>

----------------------------------------------------------------------------
(* DELETE /{device_id}/members/{user_id} *)

(* member_count: 409 when it is at most 1 *)
CountMembers(r) ==
  /\ req[r].pc = "count"
  /\ IF Cardinality(members) <= 1 THEN Reject(r) ELSE Goto(r, "find")
  /\ UNCHANGED <<device, members, challenge, issued, verified, used>>

(* remove_member loads the target's row, if there is one, and marks it. *)
FindLink(r) ==
  /\ req[r].pc = "find"
  /\ IF req[r].target \in members
     THEN req' = [req EXCEPT ![r].pc = "commit", ![r].wrote = TRUE]
     ELSE Goto(r, "commit")
  /\ UNCHANGED <<device, members, challenge, issued, verified, used>>

(* DELETE of the row by its key; a row that is gone by now is only a warning. *)
CommitRemove(r) ==
  /\ req[r].op = "remove" /\ req[r].pc = "commit"
  /\ members' = IF req[r].wrote THEN members \ {req[r].target} ELSE members
  /\ Commit(r)
  /\ UNCHANGED <<device, challenge, issued, verified, used>>

----------------------------------------------------------------------------
(* Failures *)

(* The process dies, or PostgreSQL or Redis fails: the transaction is rolled back and
   Redis keeps what was written.  The nonce of a registration that is rolled back
   belongs to an id no row will have. *)
Abort(r) ==
  /\ req[r].pc # "idle"
  /\ Reject(r)
  /\ IF Registering(r)
     THEN challenge' = None /\ issued' = {}
     ELSE UNCHANGED <<challenge, issued>>
  /\ UNCHANGED <<device, members, verified, used>>

----------------------------------------------------------------------------
(* Specification *)

Continue(r) ==
  \/ CheckMember(r)
  \/ InsertDevice(r)
  \/ IssueNonce(r)
  \/ CommitChallenge(r)
  \/ VerifyResponse(r)
  \/ ConsumeNonce(r)
  \/ CommitConfirm(r)
  \/ CommitProvision(r)
  \/ CheckTarget(r)
  \/ LinkMember(r)
  \/ CommitShare(r)
  \/ CountMembers(r)
  \/ FindLink(r)
  \/ CommitRemove(r)

Next ==
  \/ ExpireChallenge
  \/ \E r \in Requests : Receive(r) \/ Continue(r) \/ Abort(r)

Spec == Init /\ [][Next]_vars

(* The event loop resumes every coroutine whose await is over.  PostgreSQL wakes
   an INSERT that waits when its rival ends: new rivals may make it wait again,
   but do not overtake it for ever.  Nothing obliges a client to call, a key to
   expire or a request to fail. *)
FairSpec ==
  /\ Spec
  /\ \A r \in Requests : /\ WF_vars(Continue(r))
                         /\ SF_vars(InsertDevice(r))
                         /\ SF_vars(LinkMember(r))

----------------------------------------------------------------------------
(* Properties *)

(* The row locks exclude each other: one registration at a time, none once the
   row is committed, and never two INSERTs of one user_devices row, nor one of
   a row that is there (device.hardware_uid UNIQUE, user_devices' key). *)
OneWriterPerKey ==
  \A r, q \in Requests :
    /\ Registering(r) => device = None /\ (Registering(q) => q = r)
    /\ \A u \in Users : Linking(r, u) => u \notin members /\ (Linking(q, u) => q = r)

(* A challenge alone makes its caller a member, and only of a device that had
   no row: afterwards members change by share and remove requests. *)
MembersChangeOnlyBySharing ==
  [][ device # None /\ members' # members =>
        \E r \in Requests : CommitShare(r) \/ CommitRemove(r) ]_vars

(* Whoever is served beyond the membership check (device_access.py) is still
   a member when it commits, unless a removal has committed meanwhile. *)
AccessLostOnlyInFlight ==
  \A r \in Requests :
    req[r].seen # None /\ req[r].pc \notin {"idle", "member"} =>
      req[r].caller \in members \/ "remove" \in req[r].since

(* The last member goes only by a removal that raced with another removal. *)
LastMemberLostOnlyByRace ==
  [][ members # {} /\ members' = {} =>
        \E r \in Requests : CommitRemove(r) /\ "remove" \in req[r].since ]_vars

(* A paired row whose secret is not the one its pairing verified *)
Mispaired == device # None /\ device.paired /\ device.secret # verified

(* A device becomes paired under a secret nobody has verified only when a
   confirm and a provision of it overlap. *)
MispairedOnlyByRace ==
  [][ ~Mispaired /\ Mispaired' =>
        \E r \in Requests :
          \/ CommitConfirm(r) /\ "provision" \in req[r].since
          \/ CommitProvision(r) /\ "confirm" \in req[r].since ]_vars

(* A nonce pairs the device once; twice only if the two confirms overlapped. *)
NonceReusedOnlyByRace ==
  \A r \in Requests :
    /\ req[r].op = "confirm"
    /\ req[r].pc \in {"consume", "commit"}
    /\ req[r].nonce \in used
    => "confirm" \in req[r].since

(* The name of a paired device changes only under a challenge that had loaded
   the row before a confirm paired it. *)
PairedNameChangesOnlyByRace ==
  [][ device # None /\ device.paired /\ device'.name # device.name =>
        \E r \in Requests : CommitChallenge(r) /\ "confirm" \in req[r].since ]_vars

(* Every request ends, whichever transactions it waits for: no two of them wait
   for each other, and no step is left without a successor. *)
RequestsEnd ==
  \A r \in Requests : req[r].pc # "idle" ~> req[r].pc = "idle"

(***************************************************************************)
(* The invariants above are inductive with these.                          *)
(***************************************************************************)

(* Before the row is committed nobody is a member and nothing is paired. *)
EmptyWithoutRow == device = None => members = {} /\ used = {}

(* Unless a removal has disturbed it, a removal that has counted the members
   leaves one behind, whoever its target is. *)
TwoMembers ==
  \A r \in Requests :
    /\ req[r].op = "remove"
    /\ req[r].pc \in {"find", "commit"}
    /\ "remove" \notin req[r].since
    => \A t \in Users : \E u \in members : u # t

(* The row a request has loaded is out of date only as to what a confirm or a
   provision that disturbed it has written. *)
SnapshotCurrent ==
  \A r \in Requests :
    req[r].seen # None =>
      /\ "provision" \notin req[r].since => device.secret = req[r].seen.secret
      /\ "confirm" \notin req[r].since /\ device.paired => req[r].seen.paired

(* A pending nonce has been issued and has paired nothing, and a confirm that
   has deleted its nonce will not find it in Redis again. *)
NonceDiscipline ==
  /\ used \subseteq issued
  /\ challenge # None => challenge \in issued /\ challenge \notin used
  /\ \A r \in Requests :
       req[r].op = "confirm" =>
         /\ req[r].nonce \in issued
         /\ req[r].pc = "commit" => challenge # req[r].nonce

Inv == /\ OneWriterPerKey
       /\ EmptyWithoutRow
       /\ AccessLostOnlyInFlight
       /\ TwoMembers
       /\ SnapshotCurrent
       /\ NonceDiscipline
       /\ NonceReusedOnlyByRace

(***************************************************************************)
(* What the documentation of the handlers says                             *)
(***************************************************************************)

(* devices.py:318 "Removing the last member is blocked to avoid orphaning the
   device." *)
NeverOrphaned == device # None => members # {}

(* devices.py:238 "Set or replace the device secret. Forces re-pairing (resets
   is_paired)." *)
ProvisionForcesRepairing ==
  [][ \A r \in Requests : CommitProvision(r) => ~device'.paired ]_vars

============================================================================
