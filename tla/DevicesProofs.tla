--------------------------- MODULE DevicesProofs ---------------------------
(* Proofs about Devices, for any sets of users, secrets, names, nonces and  *)
(* request slots.                                                            *)
EXTENDS Devices, FiniteSetTheorems, TLAPS

(***************************************************************************)
(* The inductive invariant                                                 *)
(***************************************************************************)

(* The body each handler was called with; a row to write is only committed. *)
Arguments ==
  \A r \in Requests :
    /\ req[r].pc # "idle" => req[r].caller \in Users
    /\ req[r].op = "challenge" => req[r].name \in Names
    /\ req[r].op = "confirm" => req[r].nonce \in Nonces
    /\ req[r].op = "provision" => req[r].secret \in Secrets
    /\ req[r].op \in {"share", "remove"} => req[r].target \in Users
    /\ req[r].wrote => req[r].pc = "commit"

(* Rows are never deleted, and only a registration goes on without one. *)
RowStays ==
  \A r \in Requests :
    /\ req[r].seen # None => device # None
    /\ req[r].pc \in {"idle", "insert"} => req[r].seen = None
    /\ req[r].pc = "member" => req[r].seen # None
    /\ req[r].op \in Handlers \ {"challenge"} => req[r].seen # None

Typed == TypeOK /\ Arguments /\ RowStays

----------------------------------------------------------------------------


LEMMA TypedInit == Init => Typed
BY NoneAssumption, NoRowAssumption
DEF Init, Typed, TypeOK, Arguments, RowStays, Idle, RequestRecord, PCs, PCsOf, Handlers


(* What the place of a request says of its handler *)
LEMMA Places ==
  ASSUME TypeOK, NEW r \in Requests
  PROVE  /\ req[r].pc = "idle" <=> req[r].op = "none"
         /\ req[r].pc = "member" => req[r].op \in Handlers
         /\ req[r].pc \in {"insert", "nonce"} => req[r].op = "challenge"
         /\ req[r].pc \in {"verify", "consume"} => req[r].op = "confirm"
         /\ req[r].pc \in {"target", "link"} => req[r].op = "share"
         /\ req[r].pc \in {"count", "find"} => req[r].op = "remove"
         /\ req[r].pc = "commit" => req[r].op \in Handlers
BY DEF TypeOK, RequestRecord, PCs, PCsOf, Handlers

LEMMA NextStepPlaces ==
  ASSUME NEW h \in Handlers
  PROVE  NextStep[h] \in PCsOf[h] /\ NextStep[h] \in PCs /\ NextStep[h] \notin {"idle", "insert", "member"}
BY DEF NextStep, PCsOf, PCs, Handlers

LEMMA GotoTyped ==
  ASSUME Typed, NEW r \in Requests, NEW pc \in PCsOf[req[r].op], pc \in PCs,
         pc \notin {"idle", "insert", "member"}, req[r].op # "none", req[r].pc # "commit",
         Goto(r, pc), UNCHANGED <<device, members, verified, used>>,
         challenge' \in Nonces \cup {None}, issued' \in SUBSET Nonces
  PROVE  Typed'
BY Places DEF Typed, TypeOK, Arguments, RowStays, Goto, RequestRecord

LEMMA RejectTyped ==
  ASSUME Typed, NEW r \in Requests,
         Reject(r), UNCHANGED <<device, members, verified, used>>,
         challenge' \in Nonces \cup {None}, issued' \in SUBSET Nonces
  PROVE  Typed'
BY NoneAssumption, NoRowAssumption
DEF Typed, TypeOK, Arguments, RowStays, Reject, Idle, RequestRecord, PCs, PCsOf, Handlers

LEMMA LoadTyped ==
  ASSUME Typed, NEW r \in Requests, NEW x \in RequestRecord, Load(r, x),
         x.op \in Handlers, ~x.wrote, x.caller \in Users,
         x.op = "challenge" => x.name \in Names,
         x.op = "confirm" => x.nonce \in Nonces,
         x.op = "provision" => x.secret \in Secrets,
         x.op \in {"share", "remove"} => x.target \in Users
  PROVE  Typed'
<1> DEFINE y == [x EXCEPT !.pc = "member", !.seen = device]
<1>1. y \in RequestRecord /\ y.pc = "member" /\ y.seen = device /\ y.op = x.op
      /\ y.caller = x.caller /\ y.name = x.name /\ y.nonce = x.nonce
      /\ y.secret = x.secret /\ y.target = x.target /\ y.wrote = x.wrote
  <2>1. "member" \in PCs /\ device \in Row \cup {None}
    BY DEF Typed, TypeOK, PCs, PCsOf, Handlers
  <2> QED BY <2>1 DEF RequestRecord
<1>2. y.pc \in PCsOf[y.op]
  BY <1>1 DEF PCsOf, Handlers
<1>3. req' = [req EXCEPT ![r] = y] /\ device # None
      /\ UNCHANGED <<device, members, challenge, issued, verified, used>>
  BY DEF Load
<1> HIDE DEF y
<1>4. TypeOK'
  BY <1>1, <1>2, <1>3 DEF Typed, TypeOK
<1>5. Arguments' /\ RowStays'
  BY <1>1, <1>3, NoRowAssumption DEF Typed, TypeOK, Arguments, RowStays
<1> QED BY <1>4, <1>5 DEF Typed

LEMMA CommitTyped ==
  ASSUME Typed, NEW r \in Requests, Commit(r),
         device' \in Row \cup {None}, device # None => device' # None,
         members' \in SUBSET Users, verified' \in SecretValues \cup {None},
         used' \in SUBSET Nonces, UNCHANGED <<challenge, issued>>
  PROVE  Typed'
BY NoneAssumption, NoRowAssumption
DEF Typed, TypeOK, Arguments, RowStays, Commit, Disturbs, Idle, RequestRecord, PCs, PCsOf, Handlers

(* The devices row that each COMMIT leaves *)
LEMMA ChallengeRow ==
  ASSUME Typed, NEW r \in Requests, CommitChallenge(r)
  PROVE  /\ device' \in Row
         /\ req[r].caller \in Users
         /\ req[r].seen = None =>
              /\ device' = [secret |-> Unprovisioned, paired |-> FALSE, name |-> req[r].name]
              /\ members' = {req[r].caller}
         /\ req[r].seen # None =>
              /\ members' = members
              /\ device'.secret = device.secret /\ device'.paired = device.paired
              /\ device'.name # device.name => ~req[r].seen.paired
<1>1. req[r].name \in Names /\ req[r].caller \in Users
  BY DEF CommitChallenge, Typed, TypeOK, PCsOf, Arguments
<1>2. CASE req[r].seen = None
  <2>1. /\ device' = [secret |-> Unprovisioned, paired |-> FALSE, name |-> req[r].name]
        /\ members' = {req[r].caller}
    BY <1>2, Zenon DEF CommitChallenge
  <2> QED BY <1>1, <1>2, <2>1 DEF Row, SecretValues
<1>3. CASE req[r].seen # None
  <2>1. device \in Row
    BY <1>3 DEF Typed, TypeOK, RowStays
  <2>2. [device EXCEPT !.name = req[r].name] \in Row
    BY <1>1, <2>1 DEF Row
  <2>3. \/ device' = [device EXCEPT !.name = req[r].name] /\ ~req[r].seen.paired
        \/ device' = device
    BY <1>3, Zenon DEF CommitChallenge
  <2>4. members' = members
    BY <1>3, Zenon DEF CommitChallenge
  <2> QED BY <1>1, <1>3, <2>1, <2>2, <2>3, <2>4 DEF Row
<1> QED BY <1>2, <1>3

LEMMA ConfirmRow ==
  ASSUME Typed, NEW r \in Requests, CommitConfirm(r)
  PROVE  /\ device \in Row /\ device' \in Row /\ req[r].seen \in Row
         /\ req[r].nonce \in Nonces
         /\ device'.secret = device.secret /\ device'.paired /\ device'.name = device.name
<1>1. req[r].nonce \in Nonces /\ req[r].seen \in Row /\ device \in Row
  BY DEF CommitConfirm, Typed, TypeOK, Arguments, RowStays, RequestRecord, Handlers
<1> QED BY <1>1 DEF CommitConfirm, Row

LEMMA ProvisionRow ==
  ASSUME Typed, NEW r \in Requests, CommitProvision(r)
  PROVE  /\ device \in Row /\ device' \in Row /\ req[r].seen \in Row
         /\ device'.secret = req[r].secret /\ device'.name = device.name
         /\ device'.paired => device.paired /\ ~req[r].seen.paired
<1>1. req[r].secret \in Secrets /\ req[r].seen \in Row /\ device \in Row
  BY DEF CommitProvision, Typed, TypeOK, Arguments, RowStays, RequestRecord, Handlers
<1>2. CASE req[r].seen.paired
  <2>1. device' = [device EXCEPT !.secret = req[r].secret, !.paired = FALSE]
    BY <1>2, Zenon DEF CommitProvision
  <2> QED BY <1>1, <2>1 DEF Row, SecretValues
<1>3. CASE ~req[r].seen.paired
  <2>1. device' = [device EXCEPT !.secret = req[r].secret]
    BY <1>1, <1>3 DEF CommitProvision, Row
  <2> QED BY <1>1, <1>3, <2>1 DEF Row, SecretValues
<1> QED BY <1>2, <1>3

LEMMA IdleTyped == Idle \in RequestRecord
BY DEF Idle, RequestRecord, PCs, PCsOf, Handlers

LEMMA TypedNext == Typed /\ [Next]_vars => Typed'
<1> SUFFICES ASSUME Typed, [Next]_vars PROVE Typed'
    OBVIOUS
<1> USE DEF Typed, TypeOK, Handlers
<1>1. CASE UNCHANGED vars
  BY <1>1 DEF vars, Arguments, RowStays
<1>2. CASE ExpireChallenge
  BY <1>2 DEF ExpireChallenge, Arguments, RowStays
<1>3. ASSUME NEW r \in Requests, Receive(r) PROVE Typed'
  <2>1. CASE ReceiveChallenge(r)
    <3>1. PICK u \in Users, n \in Names :
            LET x == [Idle EXCEPT !.op = "challenge", !.caller = u, !.name = n]
            IN \/ Load(r, x)
               \/ /\ req' = [req EXCEPT ![r] = [x EXCEPT !.pc = "insert"]]
                  /\ UNCHANGED <<device, members, challenge, issued, verified, used>>
      BY <2>1 DEF ReceiveChallenge
    <3> DEFINE x == [Idle EXCEPT !.op = "challenge", !.caller = u, !.name = n]
    <3>2. x \in RequestRecord /\ ~x.wrote /\ x.op = "challenge" /\ x.caller = u /\ x.name = n
          /\ x.seen = None
      BY IdleTyped DEF RequestRecord, Idle
    <3>3. CASE Load(r, x)
      BY <3>2, <3>3, LoadTyped
    <3>4. CASE /\ req' = [req EXCEPT ![r] = [x EXCEPT !.pc = "insert"]]
               /\ UNCHANGED <<device, members, challenge, issued, verified, used>>
      <4> DEFINE y == [x EXCEPT !.pc = "insert"]
      <4>1. "insert" \in PCs /\ "insert" \in PCsOf["challenge"]
        BY DEF PCs, PCsOf
      <4>2. y \in RequestRecord /\ y.op = "challenge" /\ y.caller = u /\ y.name = n
            /\ y.seen = None /\ y.pc = "insert" /\ ~y.wrote
        BY <3>2, <4>1 DEF RequestRecord
      <4>3. req' = [req EXCEPT ![r] = y]
            /\ UNCHANGED <<device, members, challenge, issued, verified, used>>
        BY <3>4
      <4> HIDE DEF y
      <4>4. TypeOK'
        BY <4>1, <4>2, <4>3
      <4>5. Arguments' /\ RowStays'
        BY <4>2, <4>3 DEF Arguments, RowStays
      <4> QED BY <4>4, <4>5
    <3> QED BY <3>1, <3>3, <3>4
  <2>2. CASE ReceiveConfirm(r)
    <3>1. PICK u \in Users, n \in issued, s \in SecretValues :
            Load(r, [Idle EXCEPT !.op = "confirm", !.caller = u, !.nonce = n, !.secret = s])
      BY <2>2 DEF ReceiveConfirm
    <3> DEFINE x == [Idle EXCEPT !.op = "confirm", !.caller = u, !.nonce = n, !.secret = s]
    <3>2. x \in RequestRecord /\ ~x.wrote /\ x.op = "confirm" /\ x.caller = u /\ x.nonce = n
      BY IdleTyped DEF RequestRecord, Idle
    <3> QED BY <3>1, <3>2, LoadTyped
  <2>3. CASE ReceiveProvision(r)
    <3>1. PICK u \in Users, s \in Secrets :
            Load(r, [Idle EXCEPT !.op = "provision", !.caller = u, !.secret = s])
      BY <2>3 DEF ReceiveProvision
    <3> DEFINE x == [Idle EXCEPT !.op = "provision", !.caller = u, !.secret = s]
    <3>2. x \in RequestRecord /\ ~x.wrote /\ x.op = "provision" /\ x.caller = u /\ x.secret = s
      BY IdleTyped DEF RequestRecord, Idle, SecretValues
    <3> QED BY <3>1, <3>2, LoadTyped
  <2>4. CASE ReceiveShare(r)
    <3>1. PICK u \in Users, t \in Users :
            Load(r, [Idle EXCEPT !.op = "share", !.caller = u, !.target = t])
      BY <2>4 DEF ReceiveShare
    <3> DEFINE x == [Idle EXCEPT !.op = "share", !.caller = u, !.target = t]
    <3>2. x \in RequestRecord /\ ~x.wrote /\ x.op = "share" /\ x.caller = u /\ x.target = t
      BY IdleTyped DEF RequestRecord, Idle
    <3> QED BY <3>1, <3>2, LoadTyped
  <2>5. CASE ReceiveRemove(r)
    <3>1. PICK u \in Users, t \in Users :
            Load(r, [Idle EXCEPT !.op = "remove", !.caller = u, !.target = t])
      BY <2>5 DEF ReceiveRemove
    <3> DEFINE x == [Idle EXCEPT !.op = "remove", !.caller = u, !.target = t]
    <3>2. x \in RequestRecord /\ ~x.wrote /\ x.op = "remove" /\ x.caller = u /\ x.target = t
      BY IdleTyped DEF RequestRecord, Idle
    <3> QED BY <3>1, <3>2, LoadTyped
  <2> QED BY <1>3, <2>1, <2>2, <2>3, <2>4, <2>5 DEF Receive
<1>4. ASSUME NEW r \in Requests, Continue(r) PROVE Typed'
  <2>1. CASE CheckMember(r)
    <3>1. req[r].op \in Handlers
      BY <2>1, Places DEF CheckMember
    <3> QED BY <2>1, <3>1, NextStepPlaces, GotoTyped, RejectTyped DEF CheckMember
  <2>2. CASE InsertDevice(r)
    <3>1. req[r].op = "challenge" /\ "nonce" \in PCsOf["challenge"] /\ "nonce" \in PCs
      BY <2>2, Places DEF InsertDevice, PCs, PCsOf
    <3> QED BY <2>2, <3>1, GotoTyped, RejectTyped DEF InsertDevice
  <2>3. CASE IssueNonce(r)
    <3>1. req[r].op = "challenge" /\ "commit" \in PCsOf["challenge"] /\ "commit" \in PCs
      BY <2>3, Places DEF IssueNonce, PCs, PCsOf
    <3> QED BY <2>3, <3>1, GotoTyped DEF IssueNonce
  <2>4. CASE CommitChallenge(r)
    <3>1. members' \in SUBSET Users
      BY <2>4, ChallengeRow
    <3> QED BY <2>4, <3>1, ChallengeRow, CommitTyped, NoRowAssumption DEF CommitChallenge
  <2>5. CASE VerifyResponse(r)
    <3>1. req[r].op = "confirm" /\ "consume" \in PCsOf["confirm"] /\ "consume" \in PCs
      BY <2>5, Places DEF VerifyResponse, PCs, PCsOf
    <3> QED BY <2>5, <3>1, GotoTyped, RejectTyped DEF VerifyResponse
  <2>6. CASE ConsumeNonce(r)
    <3>1. req[r].op = "confirm" /\ "commit" \in PCsOf["confirm"] /\ "commit" \in PCs
      BY <2>6, Places DEF ConsumeNonce, PCs, PCsOf
    <3> QED BY <2>6, <3>1, GotoTyped DEF ConsumeNonce
  <2>7. CASE CommitConfirm(r)
    <3>1. verified' \in SecretValues
      BY <2>7, ConfirmRow DEF CommitConfirm, Row
    <3> QED BY <2>7, <3>1, ConfirmRow, CommitTyped, NoRowAssumption DEF CommitConfirm
  <2>8. CASE CommitProvision(r)
    BY <2>8, ProvisionRow, CommitTyped, NoRowAssumption DEF CommitProvision
  <2>9. CASE CheckTarget(r)
    <3>1. req[r].op = "share" /\ {"commit", "link"} \subseteq PCsOf["share"]
          /\ {"commit", "link"} \subseteq PCs
      BY <2>9, Places DEF CheckTarget, PCs, PCsOf
    <3> QED BY <2>9, <3>1, GotoTyped DEF CheckTarget
  <2>10. CASE LinkMember(r)
    <3>1. req[r].op = "share" /\ "commit" \in PCsOf["share"] /\ "commit" \in PCs
      BY <2>10, Places DEF LinkMember, PCs, PCsOf
    <3>2. CASE req[r].target \in members
      BY <2>10, <3>2, RejectTyped DEF LinkMember
    <3>3. CASE req[r].target \notin members
      BY <2>10, <3>1, <3>3 DEF LinkMember, Arguments, RowStays, RequestRecord
    <3> QED BY <3>2, <3>3
  <2>11. CASE CommitShare(r)
    <3>1. req[r].target \in Users
      BY <2>11 DEF CommitShare, Arguments
    <3> QED BY <2>11, <3>1, CommitTyped DEF CommitShare
  <2>12. CASE CountMembers(r)
    <3>1. req[r].op = "remove" /\ "find" \in PCsOf["remove"] /\ "find" \in PCs
      BY <2>12, Places DEF CountMembers, PCs, PCsOf
    <3> QED BY <2>12, <3>1, GotoTyped, RejectTyped DEF CountMembers
  <2>13. CASE FindLink(r)
    <3>1. req[r].op = "remove" /\ "commit" \in PCsOf["remove"] /\ "commit" \in PCs
      BY <2>13, Places DEF FindLink, PCs, PCsOf
    <3>2. CASE req[r].target \in members
      BY <2>13, <3>1, <3>2 DEF FindLink, Arguments, RowStays, RequestRecord
    <3>3. CASE req[r].target \notin members
      BY <2>13, <3>1, <3>3, GotoTyped DEF FindLink
    <3> QED BY <3>2, <3>3
  <2>14. CASE CommitRemove(r)
    BY <2>14, CommitTyped DEF CommitRemove
  <2> QED BY <1>4, <2>1, <2>2, <2>3, <2>4, <2>5, <2>6, <2>7, <2>8, <2>9, <2>10,
             <2>11, <2>12, <2>13, <2>14 DEF Continue
<1>5. ASSUME NEW r \in Requests, Abort(r) PROVE Typed'
  BY <1>5, RejectTyped DEF Abort
<1> QED BY <1>1, <1>2, <1>3, <1>4, <1>5 DEF Next

(* Every reachable state is well typed: requests stand only at awaits of their
   own handler, whatever the interleaving of requests, failures and expiry. *)
THEOREM TypeCorrect == Spec => []TypeOK
<1>1. Init => Typed
  BY TypedInit
<1>2. Typed /\ [Next]_vars => Typed'
  BY TypedNext
<1>3. Typed => TypeOK
  BY DEF Typed
<1> QED BY <1>1, <1>2, <1>3, PTL DEF Spec

----------------------------------------------------------------------------

(* The form of an arrival: a record with the row just loaded, or a challenge
   that found none *)
LEMMA Arrival ==
  ASSUME Typed, NEW r \in Requests, Receive(r)
  PROVE  /\ \E x \in RequestRecord :
              /\ req' = [req EXCEPT ![r] = x]
              /\ x.since = {} /\ ~x.wrote
              /\ \/ x.pc = "member" /\ x.seen = device /\ device # None
                 \/ x.pc = "insert" /\ x.seen = None
              /\ x.op = "confirm" => x.nonce \in issued
         /\ UNCHANGED <<device, members, challenge, issued, verified, used>>
<1> DEFINE G == /\ \E x \in RequestRecord :
                     /\ req' = [req EXCEPT ![r] = x]
                     /\ x.since = {} /\ ~x.wrote
                     /\ \/ x.pc = "member" /\ x.seen = device /\ device # None
                        \/ x.pc = "insert" /\ x.seen = None
                     /\ x.op = "confirm" => x.nonce \in issued
                /\ UNCHANGED <<device, members, challenge, issued, verified, used>>
<1>1. ASSUME NEW x \in RequestRecord, Load(r, x), x.since = {}, ~x.wrote,
             x.op = "confirm" => x.nonce \in issued
      PROVE  G
  <2>1. "member" \in PCs /\ device \in Row \cup {None}
    BY DEF Typed, TypeOK, PCs, PCsOf, Handlers
  <2>2. [x EXCEPT !.pc = "member", !.seen = device] \in RequestRecord
    BY <2>1 DEF RequestRecord
  <2> QED BY <1>1, <2>2 DEF Load, RequestRecord
<1>2. CASE ReceiveChallenge(r)
  <2>1. PICK u \in Users, n \in Names :
          LET x == [Idle EXCEPT !.op = "challenge", !.caller = u, !.name = n]
          IN \/ Load(r, x)
             \/ /\ req' = [req EXCEPT ![r] = [x EXCEPT !.pc = "insert"]]
                /\ UNCHANGED <<device, members, challenge, issued, verified, used>>
    BY <1>2 DEF ReceiveChallenge
  <2> DEFINE x == [Idle EXCEPT !.op = "challenge", !.caller = u, !.name = n]
  <2>2. x \in RequestRecord /\ x.since = {} /\ ~x.wrote /\ x.op = "challenge" /\ x.seen = None
    BY IdleTyped DEF RequestRecord, Idle, Handlers
  <2>3. "insert" \in PCs
    BY DEF PCs, PCsOf, Handlers
  <2>4. [x EXCEPT !.pc = "insert"] \in RequestRecord
    <3> HIDE DEF x
    <3> QED BY <2>2, <2>3 DEF RequestRecord
  <2> QED BY <1>1, <2>1, <2>2, <2>4 DEF RequestRecord
<1>3. CASE ReceiveConfirm(r)
  <2>1. PICK u \in Users, n \in issued, s \in SecretValues :
          Load(r, [Idle EXCEPT !.op = "confirm", !.caller = u, !.nonce = n, !.secret = s])
    BY <1>3 DEF ReceiveConfirm
  <2> DEFINE x == [Idle EXCEPT !.op = "confirm", !.caller = u, !.nonce = n, !.secret = s]
  <2>2. x \in RequestRecord /\ x.since = {} /\ ~x.wrote /\ x.nonce = n
    BY IdleTyped DEF RequestRecord, Idle, Handlers, Typed, TypeOK
  <2> QED BY <1>1, <2>1, <2>2
<1>4. CASE ReceiveProvision(r)
  <2>1. PICK u \in Users, s \in Secrets :
          Load(r, [Idle EXCEPT !.op = "provision", !.caller = u, !.secret = s])
    BY <1>4 DEF ReceiveProvision
  <2> DEFINE x == [Idle EXCEPT !.op = "provision", !.caller = u, !.secret = s]
  <2>2. x \in RequestRecord /\ x.since = {} /\ ~x.wrote /\ x.op = "provision"
    BY IdleTyped DEF RequestRecord, Idle, Handlers, SecretValues
  <2> QED BY <1>1, <2>1, <2>2
<1>5. CASE ReceiveShare(r)
  <2>1. PICK u \in Users, t \in Users :
          Load(r, [Idle EXCEPT !.op = "share", !.caller = u, !.target = t])
    BY <1>5 DEF ReceiveShare
  <2> DEFINE x == [Idle EXCEPT !.op = "share", !.caller = u, !.target = t]
  <2>2. x \in RequestRecord /\ x.since = {} /\ ~x.wrote /\ x.op = "share"
    BY IdleTyped DEF RequestRecord, Idle, Handlers
  <2> QED BY <1>1, <2>1, <2>2
<1>6. CASE ReceiveRemove(r)
  <2>1. PICK u \in Users, t \in Users :
          Load(r, [Idle EXCEPT !.op = "remove", !.caller = u, !.target = t])
    BY <1>6 DEF ReceiveRemove
  <2> DEFINE x == [Idle EXCEPT !.op = "remove", !.caller = u, !.target = t]
  <2>2. x \in RequestRecord /\ x.since = {} /\ ~x.wrote /\ x.op = "remove"
    BY IdleTyped DEF RequestRecord, Idle, Handlers
  <2> QED BY <1>1, <2>1, <2>2
<1> QED BY <1>2, <1>3, <1>4, <1>5, <1>6 DEF Receive

LEMMA InvInit == Init => Inv
BY DEF Init, Inv, OneWriterPerKey, EmptyWithoutRow, AccessLostOnlyInFlight, TwoMembers,
       SnapshotCurrent, NonceDiscipline, NonceReusedOnlyByRace, Idle, Registering, Linking

LEMMA TwoOrMore ==
  ASSUME NEW S, ~(Cardinality(S) <= 1), NEW t
  PROVE  \E u \in S : u # t
<1> SUFFICES ASSUME \A u \in S : u = t PROVE Cardinality(S) <= 1
    OBVIOUS
<1>1. S = {} \/ S = {t}
  OBVIOUS
<1>2. Cardinality({}) = 0 /\ Cardinality({t}) = 1
  BY FS_EmptySet, FS_Singleton
<1> QED BY <1>1, <1>2

LEMMA InvNext == Typed /\ Inv /\ [Next]_vars => Inv'
<1> SUFFICES ASSUME Typed, Inv, [Next]_vars PROVE Inv'
    OBVIOUS
<1> USE NoneAssumption, NoRowAssumption
<1>1. CASE UNCHANGED vars
  BY <1>1 DEF vars, Inv, OneWriterPerKey, EmptyWithoutRow, AccessLostOnlyInFlight, TwoMembers,
       SnapshotCurrent, NonceDiscipline, NonceReusedOnlyByRace, Registering, Linking
<1>2. CASE ExpireChallenge
  BY <1>2 DEF ExpireChallenge, Typed, TypeOK, Arguments, Inv, OneWriterPerKey, EmptyWithoutRow, AccessLostOnlyInFlight, TwoMembers,
       SnapshotCurrent, NonceDiscipline, NonceReusedOnlyByRace, Registering, Linking
<1>3. ASSUME NEW r \in Requests, Receive(r) PROVE Inv'
  <2>1. PICK x \in RequestRecord :
          /\ req' = [req EXCEPT ![r] = x]
          /\ x.since = {} /\ ~x.wrote
          /\ \/ x.pc = "member" /\ x.seen = device /\ device # None
             \/ x.pc = "insert" /\ x.seen = None
          /\ x.op = "confirm" => x.nonce \in issued
          /\ UNCHANGED <<device, members, challenge, issued, verified, used>>
    BY <1>3, Arrival
  <2> QED BY <2>1 DEF Typed, TypeOK, Inv, OneWriterPerKey, EmptyWithoutRow, AccessLostOnlyInFlight,
       TwoMembers, SnapshotCurrent, NonceDiscipline, NonceReusedOnlyByRace, Registering, Linking
<1>4. ASSUME NEW r \in Requests, CheckMember(r) PROVE Inv'
  <2>1. OneWriterPerKey'
    BY <1>4, Places DEF CheckMember, Goto, Reject, Idle, NextStep, Inv, Typed, TypeOK, RequestRecord, Arguments, RowStays, Handlers, OneWriterPerKey, EmptyWithoutRow, Registering, Linking
  <2>2. EmptyWithoutRow'
    BY <1>4, Places DEF CheckMember, Goto, Reject, Idle, NextStep, Inv, Typed, TypeOK, RequestRecord, Arguments, RowStays, Handlers, EmptyWithoutRow
  <2>3. AccessLostOnlyInFlight'
    BY <1>4, Places DEF CheckMember, Goto, Reject, Idle, NextStep, Inv, Typed, TypeOK, RequestRecord, Arguments, RowStays, Handlers, AccessLostOnlyInFlight, OneWriterPerKey, Registering
  <2>4. TwoMembers'
    BY <1>4, Places DEF CheckMember, Goto, Reject, Idle, NextStep, Inv, Typed, TypeOK, RequestRecord, Arguments, RowStays, Handlers, TwoMembers, OneWriterPerKey, Registering
  <2>5. SnapshotCurrent'
    BY <1>4, Places DEF CheckMember, Goto, Reject, Idle, NextStep, Inv, Typed, TypeOK, RequestRecord, Arguments, RowStays, Handlers, SnapshotCurrent, OneWriterPerKey, Registering
  <2>6. NonceDiscipline'
    BY <1>4, Places DEF CheckMember, Goto, Reject, Idle, NextStep, Inv, Typed, TypeOK, RequestRecord, Arguments, RowStays, Handlers, NonceDiscipline, OneWriterPerKey, EmptyWithoutRow, Registering
  <2>7. NonceReusedOnlyByRace'
    BY <1>4, Places DEF CheckMember, Goto, Reject, Idle, NextStep, Inv, Typed, TypeOK, RequestRecord, Arguments, RowStays, Handlers, NonceReusedOnlyByRace, NonceDiscipline
  <2> QED BY <2>1, <2>2, <2>3, <2>4, <2>5, <2>6, <2>7 DEF Inv
<1>5. ASSUME NEW r \in Requests, InsertDevice(r) PROVE Inv'
  <2>1. OneWriterPerKey'
    BY <1>5, Places DEF InsertDevice, Goto, Reject, Idle, Inv, Typed, TypeOK, RequestRecord, Arguments, RowStays, Handlers, OneWriterPerKey, EmptyWithoutRow, Registering, Linking
  <2>2. EmptyWithoutRow'
    BY <1>5, Places DEF InsertDevice, Goto, Reject, Idle, Inv, Typed, TypeOK, RequestRecord, Arguments, RowStays, Handlers, EmptyWithoutRow
  <2>3. AccessLostOnlyInFlight'
    BY <1>5, Places DEF InsertDevice, Goto, Reject, Idle, Inv, Typed, TypeOK, RequestRecord, Arguments, RowStays, Handlers, AccessLostOnlyInFlight, OneWriterPerKey, Registering
  <2>4. TwoMembers'
    BY <1>5, Places DEF InsertDevice, Goto, Reject, Idle, Inv, Typed, TypeOK, RequestRecord, Arguments, RowStays, Handlers, TwoMembers, OneWriterPerKey, Registering
  <2>5. SnapshotCurrent'
    BY <1>5, Places DEF InsertDevice, Goto, Reject, Idle, Inv, Typed, TypeOK, RequestRecord, Arguments, RowStays, Handlers, SnapshotCurrent, OneWriterPerKey, Registering
  <2>6. NonceDiscipline'
    BY <1>5, Places DEF InsertDevice, Goto, Reject, Idle, Inv, Typed, TypeOK, RequestRecord, Arguments, RowStays, Handlers, NonceDiscipline, OneWriterPerKey, EmptyWithoutRow, Registering
  <2>7. NonceReusedOnlyByRace'
    BY <1>5, Places DEF InsertDevice, Goto, Reject, Idle, Inv, Typed, TypeOK, RequestRecord, Arguments, RowStays, Handlers, NonceReusedOnlyByRace, NonceDiscipline
  <2> QED BY <2>1, <2>2, <2>3, <2>4, <2>5, <2>6, <2>7 DEF Inv
<1>6. ASSUME NEW r \in Requests, IssueNonce(r) PROVE Inv'
  <2>1. OneWriterPerKey'
    BY <1>6, Places DEF IssueNonce, Goto, Inv, Typed, TypeOK, RequestRecord, Arguments, RowStays, Handlers, OneWriterPerKey, EmptyWithoutRow, Registering, Linking
  <2>2. EmptyWithoutRow'
    BY <1>6, Places DEF IssueNonce, Goto, Inv, Typed, TypeOK, RequestRecord, Arguments, RowStays, Handlers, EmptyWithoutRow
  <2>3. AccessLostOnlyInFlight'
    BY <1>6, Places DEF IssueNonce, Goto, Inv, Typed, TypeOK, RequestRecord, Arguments, RowStays, Handlers, AccessLostOnlyInFlight, OneWriterPerKey, Registering
  <2>4. TwoMembers'
    BY <1>6, Places DEF IssueNonce, Goto, Inv, Typed, TypeOK, RequestRecord, Arguments, RowStays, Handlers, TwoMembers, OneWriterPerKey, Registering
  <2>5. SnapshotCurrent'
    BY <1>6, Places DEF IssueNonce, Goto, Inv, Typed, TypeOK, RequestRecord, Arguments, RowStays, Handlers, SnapshotCurrent, OneWriterPerKey, Registering
  <2>6. NonceDiscipline'
    BY <1>6, Places DEF IssueNonce, Goto, Inv, Typed, TypeOK, RequestRecord, Arguments, RowStays, Handlers, NonceDiscipline, OneWriterPerKey, EmptyWithoutRow, Registering
  <2>7. NonceReusedOnlyByRace'
    BY <1>6, Places DEF IssueNonce, Goto, Inv, Typed, TypeOK, RequestRecord, Arguments, RowStays, Handlers, NonceReusedOnlyByRace, NonceDiscipline
  <2> QED BY <2>1, <2>2, <2>3, <2>4, <2>5, <2>6, <2>7 DEF Inv
<1>7. ASSUME NEW r \in Requests, CommitChallenge(r) PROVE Inv'
  <2>1. OneWriterPerKey'
    BY <1>7, ChallengeRow DEF CommitChallenge, Commit, Disturbs, Idle, Inv, Typed, TypeOK, RequestRecord, Arguments, RowStays, Handlers, OneWriterPerKey, EmptyWithoutRow, Registering, Linking
  <2>2. EmptyWithoutRow'
    BY <1>7, ChallengeRow DEF CommitChallenge, Commit, Disturbs, Idle, Inv, Typed, TypeOK, RequestRecord, Arguments, RowStays, Handlers, EmptyWithoutRow
  <2>3. AccessLostOnlyInFlight'
    BY <1>7, ChallengeRow DEF CommitChallenge, Commit, Disturbs, Idle, Inv, Typed, TypeOK, RequestRecord, Arguments, RowStays, Handlers, AccessLostOnlyInFlight, OneWriterPerKey, Registering
  <2>4. TwoMembers'
    BY <1>7, ChallengeRow DEF CommitChallenge, Commit, Disturbs, Idle, Inv, Typed, TypeOK, RequestRecord, Arguments, RowStays, Handlers, TwoMembers, OneWriterPerKey, Registering
  <2>5. SnapshotCurrent'
    BY <1>7, ChallengeRow DEF CommitChallenge, Commit, Disturbs, Idle, Inv, Typed, TypeOK, RequestRecord, Arguments, RowStays, Handlers, SnapshotCurrent, OneWriterPerKey, Registering
  <2>6. NonceDiscipline'
    BY <1>7, ChallengeRow DEF CommitChallenge, Commit, Disturbs, Idle, Inv, Typed, TypeOK, RequestRecord, Arguments, RowStays, Handlers, NonceDiscipline, OneWriterPerKey, EmptyWithoutRow, Registering
  <2>7. NonceReusedOnlyByRace'
    BY <1>7, ChallengeRow DEF CommitChallenge, Commit, Disturbs, Idle, Inv, Typed, TypeOK, RequestRecord, Arguments, RowStays, Handlers, NonceReusedOnlyByRace, NonceDiscipline
  <2> QED BY <2>1, <2>2, <2>3, <2>4, <2>5, <2>6, <2>7 DEF Inv
<1>8. ASSUME NEW r \in Requests, VerifyResponse(r) PROVE Inv'
  <2>1. OneWriterPerKey'
    BY <1>8, Places DEF VerifyResponse, Accepts, Goto, Reject, Idle, Inv, Typed, TypeOK, RequestRecord, Arguments, RowStays, Handlers, OneWriterPerKey, EmptyWithoutRow, Registering, Linking
  <2>2. EmptyWithoutRow'
    BY <1>8, Places DEF VerifyResponse, Accepts, Goto, Reject, Idle, Inv, Typed, TypeOK, RequestRecord, Arguments, RowStays, Handlers, EmptyWithoutRow
  <2>3. AccessLostOnlyInFlight'
    BY <1>8, Places DEF VerifyResponse, Accepts, Goto, Reject, Idle, Inv, Typed, TypeOK, RequestRecord, Arguments, RowStays, Handlers, AccessLostOnlyInFlight, OneWriterPerKey, Registering
  <2>4. TwoMembers'
    BY <1>8, Places DEF VerifyResponse, Accepts, Goto, Reject, Idle, Inv, Typed, TypeOK, RequestRecord, Arguments, RowStays, Handlers, TwoMembers, OneWriterPerKey, Registering
  <2>5. SnapshotCurrent'
    BY <1>8, Places DEF VerifyResponse, Accepts, Goto, Reject, Idle, Inv, Typed, TypeOK, RequestRecord, Arguments, RowStays, Handlers, SnapshotCurrent, OneWriterPerKey, Registering
  <2>6. NonceDiscipline'
    BY <1>8, Places DEF VerifyResponse, Accepts, Goto, Reject, Idle, Inv, Typed, TypeOK, RequestRecord, Arguments, RowStays, Handlers, NonceDiscipline, OneWriterPerKey, EmptyWithoutRow, Registering
  <2>7. NonceReusedOnlyByRace'
    BY <1>8, Places DEF VerifyResponse, Accepts, Goto, Reject, Idle, Inv, Typed, TypeOK, RequestRecord, Arguments, RowStays, Handlers, NonceReusedOnlyByRace, NonceDiscipline
  <2> QED BY <2>1, <2>2, <2>3, <2>4, <2>5, <2>6, <2>7 DEF Inv
<1>9. ASSUME NEW r \in Requests, ConsumeNonce(r) PROVE Inv'
  <2>1. OneWriterPerKey'
    BY <1>9, Places DEF ConsumeNonce, Goto, Inv, Typed, TypeOK, RequestRecord, Arguments, RowStays, Handlers, OneWriterPerKey, EmptyWithoutRow, Registering, Linking
  <2>2. EmptyWithoutRow'
    BY <1>9, Places DEF ConsumeNonce, Goto, Inv, Typed, TypeOK, RequestRecord, Arguments, RowStays, Handlers, EmptyWithoutRow
  <2>3. AccessLostOnlyInFlight'
    BY <1>9, Places DEF ConsumeNonce, Goto, Inv, Typed, TypeOK, RequestRecord, Arguments, RowStays, Handlers, AccessLostOnlyInFlight, OneWriterPerKey, Registering
  <2>4. TwoMembers'
    BY <1>9, Places DEF ConsumeNonce, Goto, Inv, Typed, TypeOK, RequestRecord, Arguments, RowStays, Handlers, TwoMembers, OneWriterPerKey, Registering
  <2>5. SnapshotCurrent'
    BY <1>9, Places DEF ConsumeNonce, Goto, Inv, Typed, TypeOK, RequestRecord, Arguments, RowStays, Handlers, SnapshotCurrent, OneWriterPerKey, Registering
  <2>6. NonceDiscipline'
    BY <1>9, Places DEF ConsumeNonce, Goto, Inv, Typed, TypeOK, RequestRecord, Arguments, RowStays, Handlers, NonceDiscipline, OneWriterPerKey, EmptyWithoutRow, Registering
  <2>7. NonceReusedOnlyByRace'
    BY <1>9, Places DEF ConsumeNonce, Goto, Inv, Typed, TypeOK, RequestRecord, Arguments, RowStays, Handlers, NonceReusedOnlyByRace, NonceDiscipline
  <2> QED BY <2>1, <2>2, <2>3, <2>4, <2>5, <2>6, <2>7 DEF Inv
<1>10. ASSUME NEW r \in Requests, CommitConfirm(r) PROVE Inv'
  <2>0. /\ req[r].op = "confirm" /\ req[r].pc = "commit" /\ Commit(r)
        /\ verified' = req[r].seen.secret /\ used' = used \cup {req[r].nonce}
        /\ UNCHANGED <<members, challenge, issued>>
        /\ device \in Row /\ device' \in Row /\ req[r].seen \in Row
        /\ req[r].nonce \in Nonces
        /\ device'.secret = device.secret /\ device'.paired /\ device'.name = device.name
    BY <1>10, ConfirmRow DEF CommitConfirm
  <2>1. OneWriterPerKey'
    BY <2>0 DEF Commit, Disturbs, Idle, Inv, Typed, TypeOK, RequestRecord, Arguments, RowStays, Handlers, OneWriterPerKey, EmptyWithoutRow, Registering, Linking
  <2>2. EmptyWithoutRow'
    BY <2>0 DEF Commit, Disturbs, Idle, Inv, Typed, TypeOK, RequestRecord, Arguments, RowStays, Handlers, EmptyWithoutRow
  <2>3. AccessLostOnlyInFlight'
    BY <2>0 DEF Commit, Disturbs, Idle, Inv, Typed, TypeOK, RequestRecord, Arguments, RowStays, Handlers, AccessLostOnlyInFlight, OneWriterPerKey, Registering
  <2>4. TwoMembers'
    BY <2>0 DEF Commit, Disturbs, Idle, Inv, Typed, TypeOK, RequestRecord, Arguments, RowStays, Handlers, TwoMembers, OneWriterPerKey, Registering
  <2>5. SnapshotCurrent'
    BY <2>0 DEF Commit, Disturbs, Idle, Inv, Typed, TypeOK, RequestRecord, Arguments, RowStays, Handlers, SnapshotCurrent, OneWriterPerKey, Registering
  <2>6. NonceDiscipline'
    BY <2>0 DEF Commit, Disturbs, Idle, Inv, Typed, TypeOK, RequestRecord, Arguments, RowStays, Handlers, NonceDiscipline, OneWriterPerKey, EmptyWithoutRow, Registering
  <2>7. NonceReusedOnlyByRace'
    BY <2>0 DEF Commit, Disturbs, Idle, Inv, Typed, TypeOK, RequestRecord, Arguments, RowStays, Handlers, NonceReusedOnlyByRace, NonceDiscipline
  <2> QED BY <2>1, <2>2, <2>3, <2>4, <2>5, <2>6, <2>7 DEF Inv
<1>11. ASSUME NEW r \in Requests, CommitProvision(r) PROVE Inv'
  <2>0. /\ req[r].op = "provision" /\ req[r].pc = "commit" /\ Commit(r)
        /\ UNCHANGED <<members, challenge, issued, verified, used>>
        /\ device \in Row /\ device' \in Row /\ req[r].seen \in Row
        /\ device'.secret = req[r].secret /\ device'.name = device.name
        /\ device'.paired => device.paired /\ ~req[r].seen.paired
    BY <1>11, ProvisionRow DEF CommitProvision
  <2>1. OneWriterPerKey'
    BY <2>0 DEF Commit, Disturbs, Idle, Inv, Typed, TypeOK, RequestRecord, Arguments, RowStays, Handlers, OneWriterPerKey, EmptyWithoutRow, Registering, Linking
  <2>2. EmptyWithoutRow'
    BY <2>0 DEF Commit, Disturbs, Idle, Inv, Typed, TypeOK, RequestRecord, Arguments, RowStays, Handlers, EmptyWithoutRow
  <2>3. AccessLostOnlyInFlight'
    BY <2>0 DEF Commit, Disturbs, Idle, Inv, Typed, TypeOK, RequestRecord, Arguments, RowStays, Handlers, AccessLostOnlyInFlight, OneWriterPerKey, Registering
  <2>4. TwoMembers'
    BY <2>0 DEF Commit, Disturbs, Idle, Inv, Typed, TypeOK, RequestRecord, Arguments, RowStays, Handlers, TwoMembers, OneWriterPerKey, Registering
  <2>5. SnapshotCurrent'
    BY <2>0 DEF Commit, Disturbs, Idle, Inv, Typed, TypeOK, RequestRecord, Arguments, RowStays, Handlers, SnapshotCurrent, OneWriterPerKey, Registering
  <2>6. NonceDiscipline'
    BY <2>0 DEF Commit, Disturbs, Idle, Inv, Typed, TypeOK, RequestRecord, Arguments, RowStays, Handlers, NonceDiscipline, OneWriterPerKey, EmptyWithoutRow, Registering
  <2>7. NonceReusedOnlyByRace'
    BY <2>0 DEF Commit, Disturbs, Idle, Inv, Typed, TypeOK, RequestRecord, Arguments, RowStays, Handlers, NonceReusedOnlyByRace, NonceDiscipline
  <2> QED BY <2>1, <2>2, <2>3, <2>4, <2>5, <2>6, <2>7 DEF Inv
<1>12. ASSUME NEW r \in Requests, CheckTarget(r) PROVE Inv'
  <2>1. OneWriterPerKey'
    BY <1>12, Places DEF CheckTarget, Goto, Inv, Typed, TypeOK, RequestRecord, Arguments, RowStays, Handlers, OneWriterPerKey, EmptyWithoutRow, Registering, Linking
  <2>2. EmptyWithoutRow'
    BY <1>12, Places DEF CheckTarget, Goto, Inv, Typed, TypeOK, RequestRecord, Arguments, RowStays, Handlers, EmptyWithoutRow
  <2>3. AccessLostOnlyInFlight'
    BY <1>12, Places DEF CheckTarget, Goto, Inv, Typed, TypeOK, RequestRecord, Arguments, RowStays, Handlers, AccessLostOnlyInFlight, OneWriterPerKey, Registering
  <2>4. TwoMembers'
    BY <1>12, Places DEF CheckTarget, Goto, Inv, Typed, TypeOK, RequestRecord, Arguments, RowStays, Handlers, TwoMembers, OneWriterPerKey, Registering
  <2>5. SnapshotCurrent'
    BY <1>12, Places DEF CheckTarget, Goto, Inv, Typed, TypeOK, RequestRecord, Arguments, RowStays, Handlers, SnapshotCurrent, OneWriterPerKey, Registering
  <2>6. NonceDiscipline'
    BY <1>12, Places DEF CheckTarget, Goto, Inv, Typed, TypeOK, RequestRecord, Arguments, RowStays, Handlers, NonceDiscipline, OneWriterPerKey, EmptyWithoutRow, Registering
  <2>7. NonceReusedOnlyByRace'
    BY <1>12, Places DEF CheckTarget, Goto, Inv, Typed, TypeOK, RequestRecord, Arguments, RowStays, Handlers, NonceReusedOnlyByRace, NonceDiscipline
  <2> QED BY <2>1, <2>2, <2>3, <2>4, <2>5, <2>6, <2>7 DEF Inv
<1>13. ASSUME NEW r \in Requests, LinkMember(r) PROVE Inv'
  <2>1. OneWriterPerKey'
    BY <1>13, Places DEF LinkMember, Reject, Idle, Inv, Typed, TypeOK, RequestRecord, Arguments, RowStays, Handlers, OneWriterPerKey, EmptyWithoutRow, Registering, Linking
  <2>2. EmptyWithoutRow'
    BY <1>13, Places DEF LinkMember, Reject, Idle, Inv, Typed, TypeOK, RequestRecord, Arguments, RowStays, Handlers, EmptyWithoutRow
  <2>3. AccessLostOnlyInFlight'
    BY <1>13, Places DEF LinkMember, Reject, Idle, Inv, Typed, TypeOK, RequestRecord, Arguments, RowStays, Handlers, AccessLostOnlyInFlight, OneWriterPerKey, Registering
  <2>4. TwoMembers'
    BY <1>13, Places DEF LinkMember, Reject, Idle, Inv, Typed, TypeOK, RequestRecord, Arguments, RowStays, Handlers, TwoMembers, OneWriterPerKey, Registering
  <2>5. SnapshotCurrent'
    BY <1>13, Places DEF LinkMember, Reject, Idle, Inv, Typed, TypeOK, RequestRecord, Arguments, RowStays, Handlers, SnapshotCurrent, OneWriterPerKey, Registering
  <2>6. NonceDiscipline'
    BY <1>13, Places DEF LinkMember, Reject, Idle, Inv, Typed, TypeOK, RequestRecord, Arguments, RowStays, Handlers, NonceDiscipline, OneWriterPerKey, EmptyWithoutRow, Registering
  <2>7. NonceReusedOnlyByRace'
    BY <1>13, Places DEF LinkMember, Reject, Idle, Inv, Typed, TypeOK, RequestRecord, Arguments, RowStays, Handlers, NonceReusedOnlyByRace, NonceDiscipline
  <2> QED BY <2>1, <2>2, <2>3, <2>4, <2>5, <2>6, <2>7 DEF Inv
<1>14. ASSUME NEW r \in Requests, CommitShare(r) PROVE Inv'
  <2>1. OneWriterPerKey'
    BY <1>14, Places DEF CommitShare, Commit, Disturbs, Idle, Inv, Typed, TypeOK, RequestRecord, Arguments, RowStays, Handlers, OneWriterPerKey, EmptyWithoutRow, Registering, Linking
  <2>2. EmptyWithoutRow'
    BY <1>14, Places DEF CommitShare, Commit, Disturbs, Idle, Inv, Typed, TypeOK, RequestRecord, Arguments, RowStays, Handlers, EmptyWithoutRow
  <2>3. AccessLostOnlyInFlight'
    BY <1>14, Places DEF CommitShare, Commit, Disturbs, Idle, Inv, Typed, TypeOK, RequestRecord, Arguments, RowStays, Handlers, AccessLostOnlyInFlight, OneWriterPerKey, Registering
  <2>4. TwoMembers'
    BY <1>14, Places DEF CommitShare, Commit, Disturbs, Idle, Inv, Typed, TypeOK, RequestRecord, Arguments, RowStays, Handlers, TwoMembers, OneWriterPerKey, Registering
  <2>5. SnapshotCurrent'
    BY <1>14, Places DEF CommitShare, Commit, Disturbs, Idle, Inv, Typed, TypeOK, RequestRecord, Arguments, RowStays, Handlers, SnapshotCurrent, OneWriterPerKey, Registering
  <2>6. NonceDiscipline'
    BY <1>14, Places DEF CommitShare, Commit, Disturbs, Idle, Inv, Typed, TypeOK, RequestRecord, Arguments, RowStays, Handlers, NonceDiscipline, OneWriterPerKey, EmptyWithoutRow, Registering
  <2>7. NonceReusedOnlyByRace'
    BY <1>14, Places DEF CommitShare, Commit, Disturbs, Idle, Inv, Typed, TypeOK, RequestRecord, Arguments, RowStays, Handlers, NonceReusedOnlyByRace, NonceDiscipline
  <2> QED BY <2>1, <2>2, <2>3, <2>4, <2>5, <2>6, <2>7 DEF Inv
<1>15. ASSUME NEW r \in Requests, CountMembers(r) PROVE Inv'
  <2>1. OneWriterPerKey'
    BY <1>15, Places, TwoOrMore DEF CountMembers, Goto, Reject, Idle, Inv, Typed, TypeOK, RequestRecord, Arguments, RowStays, Handlers, OneWriterPerKey, EmptyWithoutRow, Registering, Linking
  <2>2. EmptyWithoutRow'
    BY <1>15, Places, TwoOrMore DEF CountMembers, Goto, Reject, Idle, Inv, Typed, TypeOK, RequestRecord, Arguments, RowStays, Handlers, EmptyWithoutRow
  <2>3. AccessLostOnlyInFlight'
    BY <1>15, Places, TwoOrMore DEF CountMembers, Goto, Reject, Idle, Inv, Typed, TypeOK, RequestRecord, Arguments, RowStays, Handlers, AccessLostOnlyInFlight, OneWriterPerKey, Registering
  <2>4. TwoMembers'
    <3>1. CASE Cardinality(members) <= 1
      <4>1. Reject(r) /\ members' = members
        BY <1>15, <3>1 DEF CountMembers
      <4> QED BY <4>1 DEF Reject, Idle, Inv, Typed, TypeOK, TwoMembers
    <3>2. CASE ~(Cardinality(members) <= 1)
      <4>1. Goto(r, "find") /\ members' = members
        BY <1>15, <3>2 DEF CountMembers
      <4>2. \A t \in Users : \E u \in members : u # t
        BY <3>2, TwoOrMore
      <4> QED BY <4>1, <4>2 DEF Goto, Inv, Typed, TypeOK, RequestRecord, TwoMembers
    <3> QED BY <3>1, <3>2
  <2>5. SnapshotCurrent'
    BY <1>15, Places, TwoOrMore DEF CountMembers, Goto, Reject, Idle, Inv, Typed, TypeOK, RequestRecord, Arguments, RowStays, Handlers, SnapshotCurrent, OneWriterPerKey, Registering
  <2>6. NonceDiscipline'
    BY <1>15, Places, TwoOrMore DEF CountMembers, Goto, Reject, Idle, Inv, Typed, TypeOK, RequestRecord, Arguments, RowStays, Handlers, NonceDiscipline, OneWriterPerKey, EmptyWithoutRow, Registering
  <2>7. NonceReusedOnlyByRace'
    BY <1>15, Places, TwoOrMore DEF CountMembers, Goto, Reject, Idle, Inv, Typed, TypeOK, RequestRecord, Arguments, RowStays, Handlers, NonceReusedOnlyByRace, NonceDiscipline
  <2> QED BY <2>1, <2>2, <2>3, <2>4, <2>5, <2>6, <2>7 DEF Inv
<1>16. ASSUME NEW r \in Requests, FindLink(r) PROVE Inv'
  <2>1. OneWriterPerKey'
    BY <1>16, Places DEF FindLink, Goto, Inv, Typed, TypeOK, RequestRecord, Arguments, RowStays, Handlers, OneWriterPerKey, EmptyWithoutRow, Registering, Linking
  <2>2. EmptyWithoutRow'
    BY <1>16, Places DEF FindLink, Goto, Inv, Typed, TypeOK, RequestRecord, Arguments, RowStays, Handlers, EmptyWithoutRow
  <2>3. AccessLostOnlyInFlight'
    BY <1>16, Places DEF FindLink, Goto, Inv, Typed, TypeOK, RequestRecord, Arguments, RowStays, Handlers, AccessLostOnlyInFlight, OneWriterPerKey, Registering
  <2>4. TwoMembers'
    BY <1>16, Places DEF FindLink, Goto, Inv, Typed, TypeOK, RequestRecord, Arguments, RowStays, Handlers, TwoMembers, OneWriterPerKey, Registering
  <2>5. SnapshotCurrent'
    BY <1>16, Places DEF FindLink, Goto, Inv, Typed, TypeOK, RequestRecord, Arguments, RowStays, Handlers, SnapshotCurrent, OneWriterPerKey, Registering
  <2>6. NonceDiscipline'
    BY <1>16, Places DEF FindLink, Goto, Inv, Typed, TypeOK, RequestRecord, Arguments, RowStays, Handlers, NonceDiscipline, OneWriterPerKey, EmptyWithoutRow, Registering
  <2>7. NonceReusedOnlyByRace'
    BY <1>16, Places DEF FindLink, Goto, Inv, Typed, TypeOK, RequestRecord, Arguments, RowStays, Handlers, NonceReusedOnlyByRace, NonceDiscipline
  <2> QED BY <2>1, <2>2, <2>3, <2>4, <2>5, <2>6, <2>7 DEF Inv
<1>17. ASSUME NEW r \in Requests, CommitRemove(r) PROVE Inv'
  <2>1. OneWriterPerKey'
    BY <1>17, Places DEF CommitRemove, Commit, Disturbs, Idle, Inv, Typed, TypeOK, RequestRecord, Arguments, RowStays, Handlers, OneWriterPerKey, EmptyWithoutRow, Registering, Linking
  <2>2. EmptyWithoutRow'
    BY <1>17, Places DEF CommitRemove, Commit, Disturbs, Idle, Inv, Typed, TypeOK, RequestRecord, Arguments, RowStays, Handlers, EmptyWithoutRow
  <2>3. AccessLostOnlyInFlight'
    BY <1>17, Places DEF CommitRemove, Commit, Disturbs, Idle, Inv, Typed, TypeOK, RequestRecord, Arguments, RowStays, Handlers, AccessLostOnlyInFlight, OneWriterPerKey, Registering
  <2>4. TwoMembers'
    BY <1>17, Places DEF CommitRemove, Commit, Disturbs, Idle, Inv, Typed, TypeOK, RequestRecord, Arguments, RowStays, Handlers, TwoMembers, OneWriterPerKey, Registering
  <2>5. SnapshotCurrent'
    BY <1>17, Places DEF CommitRemove, Commit, Disturbs, Idle, Inv, Typed, TypeOK, RequestRecord, Arguments, RowStays, Handlers, SnapshotCurrent, OneWriterPerKey, Registering
  <2>6. NonceDiscipline'
    BY <1>17, Places DEF CommitRemove, Commit, Disturbs, Idle, Inv, Typed, TypeOK, RequestRecord, Arguments, RowStays, Handlers, NonceDiscipline, OneWriterPerKey, EmptyWithoutRow, Registering
  <2>7. NonceReusedOnlyByRace'
    BY <1>17, Places DEF CommitRemove, Commit, Disturbs, Idle, Inv, Typed, TypeOK, RequestRecord, Arguments, RowStays, Handlers, NonceReusedOnlyByRace, NonceDiscipline
  <2> QED BY <2>1, <2>2, <2>3, <2>4, <2>5, <2>6, <2>7 DEF Inv
<1>18. ASSUME NEW r \in Requests, Abort(r) PROVE Inv'
  <2>1. OneWriterPerKey'
    BY <1>18, Places DEF Abort, Reject, Idle, Inv, Typed, TypeOK, RequestRecord, Arguments, RowStays, Handlers, OneWriterPerKey, EmptyWithoutRow, Registering, Linking
  <2>2. EmptyWithoutRow'
    BY <1>18, Places DEF Abort, Reject, Idle, Inv, Typed, TypeOK, RequestRecord, Arguments, RowStays, Handlers, EmptyWithoutRow
  <2>3. AccessLostOnlyInFlight'
    BY <1>18, Places DEF Abort, Reject, Idle, Inv, Typed, TypeOK, RequestRecord, Arguments, RowStays, Handlers, AccessLostOnlyInFlight, OneWriterPerKey, Registering
  <2>4. TwoMembers'
    BY <1>18, Places DEF Abort, Reject, Idle, Inv, Typed, TypeOK, RequestRecord, Arguments, RowStays, Handlers, TwoMembers, OneWriterPerKey, Registering
  <2>5. SnapshotCurrent'
    BY <1>18, Places DEF Abort, Reject, Idle, Inv, Typed, TypeOK, RequestRecord, Arguments, RowStays, Handlers, SnapshotCurrent, OneWriterPerKey, Registering
  <2>6. NonceDiscipline'
    BY <1>18, Places DEF Abort, Reject, Idle, Inv, Typed, TypeOK, RequestRecord, Arguments, RowStays, Handlers, NonceDiscipline, OneWriterPerKey, EmptyWithoutRow, Registering
  <2>7. NonceReusedOnlyByRace'
    BY <1>18, Places DEF Abort, Reject, Idle, Inv, Typed, TypeOK, RequestRecord, Arguments, RowStays, Handlers, NonceReusedOnlyByRace, NonceDiscipline
  <2> QED BY <2>1, <2>2, <2>3, <2>4, <2>5, <2>6, <2>7 DEF Inv
<1> QED BY <1>1, <1>2, <1>3, <1>4, <1>5, <1>6, <1>7, <1>8, <1>9, <1>10, <1>11, <1>12,
           <1>13, <1>14, <1>15, <1>16, <1>17, <1>18 DEF Next, Continue

LEMMA Invariance == Spec => [](Typed /\ Inv)
<1>1. Init => Typed /\ Inv
  BY TypedInit, InvInit
<1>2. Typed /\ Inv /\ [Next]_vars => Typed' /\ Inv'
  BY TypedNext, InvNext
<1> QED BY <1>1, <1>2, PTL DEF Spec

(* No two transactions write one unique key at a time, and none writes one that
   is already there. *)
THEOREM KeysExclude == Spec => []OneWriterPerKey
<1>1. Inv => OneWriterPerKey
  BY DEF Inv
<1> QED BY <1>1, Invariance, PTL

(* A caller beyond the membership check has lost its access only to a removal
   that committed while it was served. *)
THEOREM AccessIsKept == Spec => []AccessLostOnlyInFlight
<1>1. Inv => AccessLostOnlyInFlight
  BY DEF Inv
<1> QED BY <1>1, Invariance, PTL

(* Only confirms that overlap accept one nonce twice. *)
THEOREM NonceIsSingleUse == Spec => []NonceReusedOnlyByRace
<1>1. Inv => NonceReusedOnlyByRace
  BY DEF Inv
<1> QED BY <1>1, Invariance, PTL

----------------------------------------------------------------------------

(* What each step of a request leaves alone, besides the COMMITs *)
LEMMA QuietSteps ==
  ASSUME NEW r \in Requests, Receive(r) \/ Continue(r) \/ Abort(r),
         ~CommitChallenge(r), ~CommitConfirm(r), ~CommitProvision(r),
         ~CommitShare(r), ~CommitRemove(r)
  PROVE  UNCHANGED <<device, members, verified>>
BY DEF Receive, ReceiveChallenge, ReceiveConfirm, ReceiveProvision, ReceiveShare,
       ReceiveRemove, Load, Continue, CheckMember, InsertDevice, IssueNonce, VerifyResponse,
       ConsumeNonce, CheckTarget, LinkMember, CountMembers, FindLink, Abort

LEMMA QuietStutter ==
  ASSUME [Next]_vars,
         \A r \in Requests : /\ ~CommitChallenge(r) /\ ~CommitConfirm(r) /\ ~CommitProvision(r)
                             /\ ~CommitShare(r) /\ ~CommitRemove(r)
  PROVE  UNCHANGED <<device, members, verified>>
BY QuietSteps DEF Next, vars, ExpireChallenge

(* No interleaving removes the last member of a device, but that of two
   removals. *)
THEOREM LastMemberStays == Spec => LastMemberLostOnlyByRace
<1>1. ASSUME Typed, Inv, [Next]_vars, members # {}, members' = {}
      PROVE  \E r \in Requests : CommitRemove(r) /\ "remove" \in req[r].since
  <2>1. PICK r \in Requests : \/ CommitChallenge(r) \/ CommitConfirm(r)
                              \/ CommitProvision(r) \/ CommitShare(r) \/ CommitRemove(r)
    BY <1>1, QuietStutter
  <2>2. ~CommitChallenge(r)
    BY <1>1, ChallengeRow
  <2>3. ~CommitConfirm(r) /\ ~CommitProvision(r) /\ ~CommitShare(r)
    BY <1>1 DEF CommitConfirm, CommitProvision, CommitShare
  <2>4. CommitRemove(r)
    BY <2>1, <2>2, <2>3
  <2>5. "remove" \in req[r].since
    BY <1>1, <2>4 DEF CommitRemove, Inv, TwoMembers, Typed, Arguments
  <2> QED BY <2>4, <2>5
<1>2. Typed /\ Inv /\ [Next]_vars =>
        [ members # {} /\ members' = {} =>
            \E r \in Requests : CommitRemove(r) /\ "remove" \in req[r].since ]_vars
  BY <1>1
<1> QED BY <1>2, Invariance, PTL DEF Spec, LastMemberLostOnlyByRace

(* Members of a registered device change by share and remove requests alone. *)
THEOREM SharingAlone == Spec => MembersChangeOnlyBySharing
<1>1. ASSUME Typed, Inv, [Next]_vars, device # None, members' # members
      PROVE  \E r \in Requests : CommitShare(r) \/ CommitRemove(r)
  <2>1. PICK r \in Requests : \/ CommitChallenge(r) \/ CommitConfirm(r)
                              \/ CommitProvision(r) \/ CommitShare(r) \/ CommitRemove(r)
    BY <1>1, QuietStutter
  <2>2. ~CommitConfirm(r) /\ ~CommitProvision(r)
    BY <1>1 DEF CommitConfirm, CommitProvision
  <2>3. ~CommitChallenge(r)
    <3>1. ASSUME CommitChallenge(r) PROVE FALSE
      <4>1. req[r].seen = None
        BY <1>1, <3>1, ChallengeRow
      <4>2. Registering(r)
        BY <3>1, <4>1 DEF CommitChallenge, Registering
      <4> QED BY <1>1, <4>2 DEF Inv, OneWriterPerKey
    <3> QED BY <3>1
  <2> QED BY <2>1, <2>2, <2>3
<1>2. Typed /\ Inv /\ [Next]_vars =>
        [ device # None /\ members' # members =>
            \E r \in Requests : CommitShare(r) \/ CommitRemove(r) ]_vars
  BY <1>1
<1> QED BY <1>2, Invariance, PTL DEF Spec, MembersChangeOnlyBySharing

(* A device is paired under a secret nobody has verified only if a confirm and a
   provision of it overlapped. *)
THEOREM PairingIsVerified == Spec => MispairedOnlyByRace
<1> DEFINE Race == \E r \in Requests :
                     \/ CommitConfirm(r) /\ "provision" \in req[r].since
                     \/ CommitProvision(r) /\ "confirm" \in req[r].since
<1>1. ASSUME Typed, Inv, [Next]_vars, ~Mispaired, Mispaired'
      PROVE  Race
  <2>1. PICK r \in Requests : \/ CommitChallenge(r) \/ CommitConfirm(r)
                              \/ CommitProvision(r) \/ CommitShare(r) \/ CommitRemove(r)
    BY <1>1, QuietStutter DEF Mispaired
  <2>2. ~CommitShare(r) /\ ~CommitRemove(r)
    BY <1>1 DEF CommitShare, CommitRemove, Mispaired
  <2>3. ~CommitChallenge(r)
    <3>1. ASSUME CommitChallenge(r) PROVE FALSE
      <4>1. verified' = verified
        BY <3>1 DEF CommitChallenge
      <4>2. req[r].seen # None
        <5>1. req[r].seen = None => ~device'.paired
          BY <1>1, <3>1, ChallengeRow
        <5> QED BY <1>1, <5>1 DEF Mispaired
      <4>3. device # None /\ device'.secret = device.secret /\ device'.paired = device.paired
        BY <1>1, <3>1, <4>2, ChallengeRow DEF Typed, RowStays
      <4> QED BY <1>1, <4>1, <4>3 DEF Mispaired
    <3> QED BY <3>1
  <2>4. CASE CommitConfirm(r)
    <3>1. verified' = req[r].seen.secret /\ device'.secret = device.secret /\ req[r].seen # None
      BY <1>1, <2>4, ConfirmRow, NoRowAssumption DEF CommitConfirm
    <3>2. "provision" \in req[r].since
      BY <1>1, <3>1 DEF Mispaired, Inv, SnapshotCurrent
    <3> QED BY <2>4, <3>2
  <2>5. CASE CommitProvision(r)
    <3>1. device.paired /\ ~req[r].seen.paired /\ req[r].seen # None
      BY <1>1, <2>5, ProvisionRow, NoRowAssumption DEF Mispaired
    <3>2. "confirm" \in req[r].since
      BY <1>1, <3>1 DEF Inv, SnapshotCurrent
    <3> QED BY <2>5, <3>2
  <2> QED BY <2>1, <2>2, <2>3, <2>4, <2>5
<1>2. Typed /\ Inv /\ [Next]_vars => [ ~Mispaired /\ Mispaired' => Race ]_vars
  BY <1>1
<1> QED BY <1>2, Invariance, PTL DEF Spec, MispairedOnlyByRace

(* A paired device is renamed only by a challenge that had loaded the row before
   the confirm that paired it. *)
THEOREM PairedNameStays == Spec => PairedNameChangesOnlyByRace
<1>1. ASSUME Typed, Inv, [Next]_vars, device # None, device.paired, device'.name # device.name
      PROVE  \E r \in Requests : CommitChallenge(r) /\ "confirm" \in req[r].since
  <2>1. PICK r \in Requests : \/ CommitChallenge(r) \/ CommitConfirm(r)
                              \/ CommitProvision(r) \/ CommitShare(r) \/ CommitRemove(r)
    BY <1>1, QuietStutter
  <2>2. ~CommitShare(r) /\ ~CommitRemove(r)
    BY <1>1 DEF CommitShare, CommitRemove
  <2>3. ~CommitConfirm(r) /\ ~CommitProvision(r)
    BY <1>1, ConfirmRow, ProvisionRow
  <2>4. CommitChallenge(r)
    BY <2>1, <2>2, <2>3
  <2>5. req[r].seen # None
    BY <1>1, <2>4 DEF CommitChallenge, Inv, OneWriterPerKey, Registering
  <2>6. ~req[r].seen.paired
    BY <1>1, <2>4, <2>5, ChallengeRow
  <2>7. "confirm" \in req[r].since
    BY <1>1, <2>5, <2>6 DEF Inv, SnapshotCurrent
  <2> QED BY <2>4, <2>7
<1>2. Typed /\ Inv /\ [Next]_vars =>
        [ device # None /\ device.paired /\ device'.name # device.name =>
            \E r \in Requests : CommitChallenge(r) /\ "confirm" \in req[r].since ]_vars
  BY <1>1
<1> QED BY <1>2, Invariance, PTL DEF Spec, PairedNameChangesOnlyByRace

----------------------------------------------------------------------------
(* Who waits for whom *)

(* Every challenge in flight finds a nonce that has not been issued. *)
NoncesSuffice == Cardinality(issued) + Cardinality(Undrawn) <= Cardinality(Nonces)

LEMMA FiniteParts ==
  ASSUME Typed
  PROVE  /\ IsFiniteSet(issued) /\ Cardinality(issued) \in Nat
         /\ IsFiniteSet(Undrawn) /\ Cardinality(Undrawn) \in Nat
         /\ Cardinality(Nonces) \in Nat
<1>1. issued \in SUBSET Nonces /\ Undrawn \in SUBSET Requests
  BY DEF Typed, TypeOK, Undrawn
<1>2. IsFiniteSet(issued) /\ IsFiniteSet(Undrawn)
  BY <1>1, FiniteAssumption, FS_Subset
<1> QED BY <1>2, FiniteAssumption, FS_CardinalityType

LEMMA OneMore ==
  ASSUME NEW S, NEW x, IsFiniteSet(S)
  PROVE  IsFiniteSet(S \cup {x}) /\ Cardinality(S \cup {x}) <= Cardinality(S) + 1
<1>1. Cardinality(S) \in Nat
  BY FS_CardinalityType
<1>2. CASE x \in S
  <2>1. IsFiniteSet(S \cup {x}) /\ Cardinality(S \cup {x}) = Cardinality(S)
    BY <1>2, FS_AddElement, Zenon
  <2> QED BY <1>1, <2>1
<1>3. CASE x \notin S
  BY <1>1, <1>3, FS_AddElement
<1> QED BY <1>2, <1>3

LEMMA FewerSuffice ==
  ASSUME Typed, NoncesSuffice, Undrawn' \subseteq Undrawn, issued' \subseteq issued
  PROVE  NoncesSuffice'
<1>1. /\ Cardinality(issued) \in Nat /\ Cardinality(Undrawn) \in Nat /\ Cardinality(Nonces) \in Nat
      /\ Cardinality(issued)' \in Nat /\ Cardinality(Undrawn)' \in Nat
  <2>1. IsFiniteSet(issued') /\ IsFiniteSet(Undrawn')
    BY FiniteParts, FS_Subset
  <2> QED BY <2>1, FiniteParts, FS_CardinalityType
<1>2. Cardinality(issued') <= Cardinality(issued)
  BY FiniteParts, FS_Subset
<1>3. Cardinality(Undrawn') <= Cardinality(Undrawn)
  BY FiniteParts, FS_Subset
<1> QED BY <1>1, <1>2, <1>3 DEF NoncesSuffice

(* A step that gives no request the place of a challenge leaves the undrawn as they are. *)
LEMMA GotoUndrawn ==
  ASSUME Typed, NEW r \in Requests, NEW pc, Goto(r, pc) \/ Reject(r) \/ Commit(r)
  PROVE  /\ req[r].pc # "commit" \/ ~Goto(r, pc) => Undrawn' \subseteq Undrawn
         /\ Goto(r, pc) /\ pc = "commit" => Undrawn' = Undrawn \ {r}
BY DEF Typed, TypeOK, Undrawn, Goto, Reject, Commit, Idle, RequestRecord

LEMMA NoncesNext == Typed /\ NoncesSuffice /\ [Next]_vars => NoncesSuffice'
<1> SUFFICES ASSUME Typed, NoncesSuffice, [Next]_vars PROVE NoncesSuffice'
    OBVIOUS
<1>1. CASE UNCHANGED vars \/ ExpireChallenge
  BY <1>1, FewerSuffice DEF vars, ExpireChallenge, Undrawn
<1>2. ASSUME NEW r \in Requests, Receive(r) PROVE NoncesSuffice'
  <2>1. issued' = issued /\ \E x : req' = [req EXCEPT ![r] = x]
    BY <1>2, Arrival
  <2>2. CASE ReceiveChallenge(r)
    <3>1. Undrawn' \subseteq Undrawn \cup {r}
      BY <2>1 DEF Typed, TypeOK, Undrawn
    <3>2. IsFiniteSet(Undrawn \cup {r}) /\ Cardinality(Undrawn \cup {r}) <= Cardinality(Undrawn) + 1
      BY FiniteParts, OneMore
    <3>3. /\ Cardinality(Undrawn') <= Cardinality(Undrawn \cup {r})
          /\ IsFiniteSet(Undrawn')
      BY <3>1, <3>2, FS_Subset
    <3>4. Cardinality(Undrawn') \in Nat /\ Cardinality(Undrawn \cup {r}) \in Nat
      BY <3>2, <3>3, FS_CardinalityType
    <3>5. Cardinality(issued) + Cardinality(Undrawn) < Cardinality(Nonces)
      BY <2>2 DEF ReceiveChallenge, NonceLeft
    <3> QED BY <2>1, <3>2, <3>3, <3>4, <3>5, FiniteParts DEF NoncesSuffice
  <2>3. ASSUME NEW x \in RequestRecord, Load(r, x), x.op # "challenge" PROVE NoncesSuffice'
    <3>1. Undrawn' \subseteq Undrawn
      BY <2>3 DEF Load, Typed, TypeOK, Undrawn, RequestRecord
    <3> QED BY <2>1, <3>1, FewerSuffice
  <2>4. CASE ReceiveConfirm(r)
    <3>1. PICK u \in Users, n \in issued, s \in SecretValues :
            Load(r, [Idle EXCEPT !.op = "confirm", !.caller = u, !.nonce = n, !.secret = s])
      BY <2>4 DEF ReceiveConfirm
    <3> DEFINE x == [Idle EXCEPT !.op = "confirm", !.caller = u, !.nonce = n, !.secret = s]
    <3>2. x \in RequestRecord /\ x.op # "challenge"
      BY IdleTyped DEF RequestRecord, Idle, Handlers, Typed, TypeOK
    <3> QED BY <2>3, <3>1, <3>2
  <2>5. CASE ReceiveProvision(r)
    <3>1. PICK u \in Users, s \in Secrets :
            Load(r, [Idle EXCEPT !.op = "provision", !.caller = u, !.secret = s])
      BY <2>5 DEF ReceiveProvision
    <3> DEFINE x == [Idle EXCEPT !.op = "provision", !.caller = u, !.secret = s]
    <3>2. x \in RequestRecord /\ x.op # "challenge"
      BY IdleTyped DEF RequestRecord, Idle, Handlers, SecretValues
    <3> QED BY <2>3, <3>1, <3>2
  <2>6. CASE ReceiveShare(r)
    <3>1. PICK u \in Users, t \in Users :
            Load(r, [Idle EXCEPT !.op = "share", !.caller = u, !.target = t])
      BY <2>6 DEF ReceiveShare
    <3> DEFINE x == [Idle EXCEPT !.op = "share", !.caller = u, !.target = t]
    <3>2. x \in RequestRecord /\ x.op # "challenge"
      BY IdleTyped DEF RequestRecord, Idle, Handlers
    <3> QED BY <2>3, <3>1, <3>2
  <2>7. CASE ReceiveRemove(r)
    <3>1. PICK u \in Users, t \in Users :
            Load(r, [Idle EXCEPT !.op = "remove", !.caller = u, !.target = t])
      BY <2>7 DEF ReceiveRemove
    <3> DEFINE x == [Idle EXCEPT !.op = "remove", !.caller = u, !.target = t]
    <3>2. x \in RequestRecord /\ x.op # "challenge"
      BY IdleTyped DEF RequestRecord, Idle, Handlers
    <3> QED BY <2>3, <3>1, <3>2
  <2> QED BY <1>2, <2>2, <2>4, <2>5, <2>6, <2>7 DEF Receive
<1>3. ASSUME NEW r \in Requests, Continue(r) PROVE NoncesSuffice'
  <2>1. CASE IssueNonce(r)
    <3>1. PICK n \in Nonces \ issued : issued' = issued \cup {n}
      BY <2>1 DEF IssueNonce
    <3>2. r \in Undrawn
      BY <2>1, Places DEF IssueNonce, Undrawn, Typed
    <3>3. Undrawn' = Undrawn \ {r}
      BY <2>1, GotoUndrawn DEF IssueNonce
    <3>4. Cardinality(issued') = Cardinality(issued) + 1
      BY <3>1, FiniteParts, FS_AddElement
    <3>5. Cardinality(Undrawn') = Cardinality(Undrawn) - 1
      BY <3>2, <3>3, FiniteParts, FS_RemoveElement
    <3> QED BY <3>4, <3>5, FiniteParts DEF NoncesSuffice
  <2>2. CASE ~IssueNonce(r)
    <3>1. issued' = issued
      BY <1>3, <2>2 DEF Continue, CheckMember, InsertDevice, CommitChallenge, VerifyResponse,
            ConsumeNonce, CommitConfirm, CommitProvision, CheckTarget, LinkMember, CommitShare,
            CountMembers, FindLink, CommitRemove
    <3>2. CASE LinkMember(r) \/ FindLink(r)
      <4>1. Undrawn' \subseteq Undrawn
        BY <3>2, GotoUndrawn DEF LinkMember, FindLink, Typed, TypeOK, Undrawn, RequestRecord,
              Goto, Reject, Idle
      <4> QED BY <3>1, <4>1, FewerSuffice
    <3>3. CASE ~(LinkMember(r) \/ FindLink(r))
      <4>1. \/ req[r].pc # "commit" /\ \E pc : Goto(r, pc)
            \/ Reject(r)
            \/ Commit(r)
        BY <1>3, <2>2, <3>3 DEF Continue, CheckMember, InsertDevice, CommitChallenge, VerifyResponse,
              ConsumeNonce, CommitConfirm, CommitProvision, CheckTarget, CommitShare,
              CountMembers, CommitRemove
      <4>2. Undrawn' \subseteq Undrawn
        BY <4>1, GotoUndrawn
      <4> QED BY <3>1, <4>2, FewerSuffice
    <3> QED BY <3>2, <3>3
  <2> QED BY <2>1, <2>2
<1>4. ASSUME NEW r \in Requests, Abort(r) PROVE NoncesSuffice'
  <2>1. issued' \subseteq issued /\ Reject(r)
    BY <1>4 DEF Abort
  <2>2. Undrawn' \subseteq Undrawn
    BY <2>1 DEF Typed, TypeOK, Undrawn, Reject, Idle
  <2> QED BY <2>1, <2>2, FewerSuffice
<1> QED BY <1>1, <1>2, <1>3, <1>4 DEF Next

LEMMA NoncesInit == Init => NoncesSuffice
<1> SUFFICES ASSUME Init PROVE NoncesSuffice
    OBVIOUS
<1>1. issued = {} /\ Undrawn = {}
  BY DEF Init, Undrawn, Idle
<1> QED BY <1>1, FS_EmptySet, FiniteAssumption, FS_CardinalityType DEF NoncesSuffice

(* A request that waits: for an uncommitted registration, for an uncommitted row of the
   same member, or for a nonce *)
Blocked(r) == \/ req[r].pc = "insert" /\ \E q \in Requests : Registering(q)
              \/ req[r].pc = "link" /\ \E q \in Requests : Linking(q, req[r].target)
              \/ req[r].pc = "nonce" /\ Nonces \subseteq issued

NotAllBlocked ==
  (\E r \in Requests : req[r].pc # "idle")
    => \E r \in Requests : req[r].pc # "idle" /\ ~Blocked(r)

LEMMA NonceThere ==
  ASSUME Typed, NoncesSuffice, NEW r \in Requests, req[r].pc = "nonce"
  PROVE  ~Blocked(r)
<1>1. r \in Undrawn
  BY Places DEF Typed, Undrawn
<1>2. Cardinality(Undrawn) > 0
  BY <1>1, FiniteParts, FS_EmptySet
<1>3. Cardinality(issued) < Cardinality(Nonces)
  BY <1>2, FiniteParts DEF NoncesSuffice
<1>4. ~(Nonces \subseteq issued)
  <2> SUFFICES ASSUME Nonces \subseteq issued PROVE FALSE
      OBVIOUS
  <2>1. Nonces = issued
    BY DEF Typed, TypeOK
  <2> QED BY <1>3, <2>1, FiniteParts
<1> QED BY <1>4 DEF Blocked

(* Waits end: an insertion waits only for a request that has flushed, which waits for
   nobody, and the bound on challenges leaves each of them a nonce. *)
THEOREM WaitsEnd == Spec => []NotAllBlocked
<1>1. Typed /\ NoncesSuffice => NotAllBlocked
  <2> SUFFICES ASSUME Typed, NoncesSuffice, NEW r \in Requests, req[r].pc # "idle", Blocked(r)
               PROVE  \E q \in Requests : req[q].pc # "idle" /\ ~Blocked(q)
    BY DEF NotAllBlocked
  <2>1. req[r].pc # "nonce"
    BY NonceThere
  <2>2. PICK q \in Requests : Registering(q) \/ Linking(q, req[r].target)
    BY <2>1 DEF Blocked
  <2>3. req[q].pc \in {"nonce", "commit"}
    BY <2>2 DEF Registering, Linking
  <2>4. ~Blocked(q)
    BY <2>3, NonceThere DEF Blocked
  <2> QED BY <2>3, <2>4
<1>2. Spec => []NoncesSuffice
  BY NoncesInit, NoncesNext, Invariance, PTL DEF Spec
<1> QED BY <1>1, <1>2, Invariance, PTL

----------------------------------------------------------------------------
(* Every request has few steps *)

(* The awaits a request that stands at pc may still come to, its own included *)
Left == [idle |-> 0, commit |-> 1, nonce |-> 2, insert |-> 3, consume |-> 2, verify |-> 3,
         link |-> 2, target |-> 3, find |-> 2, count |-> 3, member |-> 4]

(* A request in flight comes nearer to its end with every step of its own, and no step of
   another one, no expiry and no arrival takes it back. *)
StepsRunOut ==
  [][ \A r \in Requests : req[r].pc # "idle" =>
        /\ Left[req'[r].pc] <= Left[req[r].pc]
        /\ Continue(r) => Left[req'[r].pc] < Left[req[r].pc] ]_vars

LEMMA LeftOf ==
  /\ Left["idle"] = 0 /\ Left["commit"] = 1 /\ Left["nonce"] = 2 /\ Left["insert"] = 3
  /\ Left["consume"] = 2 /\ Left["verify"] = 3 /\ Left["link"] = 2 /\ Left["target"] = 3
  /\ Left["find"] = 2 /\ Left["count"] = 3 /\ Left["member"] = 4
  /\ \A pc \in PCs : Left[pc] \in Nat
BY DEF Left, PCs, PCsOf, Handlers

(* r is at pc now, and the others are where they were. *)
Moves(r, pc) == req'[r].pc = pc /\ \A q \in Requests \ {r} : req'[q].pc = req[q].pc

LEMMA EndMoves ==
  ASSUME Typed, NEW r \in Requests, Reject(r) \/ Commit(r)
  PROVE  Moves(r, "idle")
BY DEF Typed, TypeOK, RequestRecord, Reject, Commit, Idle, Moves

LEMMA GotoMoves ==
  ASSUME Typed, NEW r \in Requests, NEW pc, Goto(r, pc)
  PROVE  Moves(r, pc)
BY DEF Typed, TypeOK, RequestRecord, Goto, Moves

LEMMA WriteMoves ==
  ASSUME Typed, NEW r \in Requests, req' = [req EXCEPT ![r].pc = "commit", ![r].wrote = TRUE]
  PROVE  Moves(r, "commit")
BY DEF Typed, TypeOK, RequestRecord, Moves

(* A step of one request moves it nearer to its end, and no other request. *)
LEMMA ContinueMoves ==
  ASSUME Typed, NEW r \in Requests, Continue(r)
  PROVE  /\ Left[req'[r].pc] < Left[req[r].pc]
         /\ \A q \in Requests \ {r} : req'[q].pc = req[q].pc
<1>1. CASE CheckMember(r)
  <2>1. NextStep[req[r].op] \in {"nonce", "verify", "commit", "target", "count"}
    BY <1>1, Places DEF CheckMember, Typed, NextStep, Handlers
  <2>2. Moves(r, "idle") \/ Moves(r, NextStep[req[r].op])
    BY <1>1, EndMoves, GotoMoves DEF CheckMember
  <2> QED BY <1>1, <2>1, <2>2, LeftOf DEF CheckMember, Moves
<1>2. CASE InsertDevice(r)
  <2>1. Moves(r, "idle") \/ Moves(r, "nonce")
    BY <1>2, EndMoves, GotoMoves DEF InsertDevice
  <2> QED BY <1>2, <2>1, LeftOf DEF InsertDevice, Moves
<1>3. CASE IssueNonce(r) \/ ConsumeNonce(r)
  <2>1. Moves(r, "commit") /\ req[r].pc \in {"nonce", "consume"}
    BY <1>3, GotoMoves DEF IssueNonce, ConsumeNonce
  <2> QED BY <2>1, LeftOf DEF Moves
<1>4. CASE CommitChallenge(r) \/ CommitConfirm(r) \/ CommitProvision(r) \/ CommitShare(r)
           \/ CommitRemove(r)
  <2>1. req[r].pc = "commit" /\ Moves(r, "idle")
    BY <1>4, EndMoves
    DEF CommitChallenge, CommitConfirm, CommitProvision, CommitShare, CommitRemove
  <2> QED BY <2>1, LeftOf DEF Moves
<1>5. CASE VerifyResponse(r)
  <2>1. Moves(r, "idle") \/ Moves(r, "consume")
    BY <1>5, EndMoves, GotoMoves DEF VerifyResponse
  <2> QED BY <1>5, <2>1, LeftOf DEF VerifyResponse, Moves
<1>6. CASE CheckTarget(r)
  <2>1. Moves(r, "commit") \/ Moves(r, "link")
    BY <1>6, GotoMoves DEF CheckTarget
  <2> QED BY <1>6, <2>1, LeftOf DEF CheckTarget, Moves
<1>7. CASE LinkMember(r) \/ FindLink(r)
  <2>1. Moves(r, "idle") \/ Moves(r, "commit")
    BY <1>7, EndMoves, WriteMoves, GotoMoves DEF LinkMember, FindLink
  <2>2. req[r].pc \in {"link", "find"}
    BY <1>7 DEF LinkMember, FindLink
  <2> QED BY <2>1, <2>2, LeftOf DEF Moves
<1>8. CASE CountMembers(r)
  <2>1. Moves(r, "idle") \/ Moves(r, "find")
    BY <1>8, EndMoves, GotoMoves DEF CountMembers
  <2> QED BY <1>8, <2>1, LeftOf DEF CountMembers, Moves
<1> QED BY <1>1, <1>2, <1>3, <1>4, <1>5, <1>6, <1>7, <1>8 DEF Continue

(* No handler repeats a step: with WaitsEnd, requests that are in flight can all be
   finished in at most four steps each, in some order, unless new ones arrive. *)
THEOREM RequestsAreShort == Spec => StepsRunOut
<1> DEFINE Shorter == \A r \in Requests : req[r].pc # "idle" =>
                        /\ Left[req'[r].pc] <= Left[req[r].pc]
                        /\ Continue(r) => Left[req'[r].pc] < Left[req[r].pc]
<1>1. ASSUME Typed, Typed', [Next]_vars, ~UNCHANGED vars PROVE Shorter
  <2> SUFFICES ASSUME NEW r \in Requests, req[r].pc # "idle"
               PROVE  /\ Left[req'[r].pc] <= Left[req[r].pc]
                      /\ Continue(r) => Left[req'[r].pc] < Left[req[r].pc]
    OBVIOUS
  <2>1. Left[req[r].pc] \in Nat /\ Left[req'[r].pc] \in Nat
    BY <1>1, LeftOf DEF Typed, TypeOK, RequestRecord
  <2>2. Continue(r) => Left[req'[r].pc] < Left[req[r].pc]
    BY <1>1, ContinueMoves
  <2>3. CASE ExpireChallenge
    <3>1. Left[req'[r].pc] = Left[req[r].pc]
      BY <2>3 DEF ExpireChallenge
    <3> QED BY <2>1, <2>2, <3>1
  <2>4. CASE \E q \in Requests : Receive(q)
    <3>1. PICK q \in Requests : Receive(q)
      BY <2>4
    <3>2. q # r /\ \E x : req' = [req EXCEPT ![q] = x]
      <4>1. req[q].pc = "idle"
        BY <3>1 DEF Receive, ReceiveChallenge, ReceiveConfirm, ReceiveProvision, ReceiveShare,
              ReceiveRemove, Load
      <4> QED BY <1>1, <3>1, <4>1, Arrival
    <3>3. Left[req'[r].pc] = Left[req[r].pc]
      BY <1>1, <3>2 DEF Typed, TypeOK
    <3> QED BY <2>1, <2>2, <3>3
  <2>5. CASE \E q \in Requests : Continue(q)
    <3>1. PICK q \in Requests : Continue(q)
      BY <2>5
    <3>2. CASE q = r
      BY <2>1, <2>2, <3>1, <3>2
    <3>3. CASE q # r
      <4>1. req'[r].pc = req[r].pc
        BY <1>1, <3>1, <3>3, ContinueMoves
      <4> QED BY <2>1, <2>2, <4>1
    <3> QED BY <3>2, <3>3
  <2>6. CASE \E q \in Requests : Abort(q)
    <3>1. PICK q \in Requests : Reject(q)
      BY <2>6 DEF Abort
    <3>2. req'[r].pc = req[r].pc \/ req'[r].pc = "idle"
      BY <1>1, <3>1, EndMoves DEF Moves
    <3> QED BY <2>1, <2>2, <3>2, LeftOf
  <2> QED BY <1>1, <2>3, <2>4, <2>5, <2>6 DEF Next
<1>2. Typed /\ [Next]_vars => [Shorter]_vars
  BY <1>1, TypedNext
<1> QED BY <1>2, Invariance, PTL DEF Spec, StepsRunOut
============================================================================
