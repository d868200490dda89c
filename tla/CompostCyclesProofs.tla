------------------------ MODULE CompostCyclesProofs ------------------------
(* Proofs about CompostCycles, for any sets of cycles, logs, times and     *)
(* request slots, any page size and any handlers.                          *)
EXTENDS CompostCycles, FiniteSetTheorems, TLAPS

(***************************************************************************)
(* The inductive invariant                                                 *)
(***************************************************************************)

(* What a request was called for: a start has drawn an id that no row has and no
   other start; the cycle of a patch or a log is not deleted, and a cycle that had
   an end when it was loaded still has one. *)
Arguments ==
  /\ \A r \in Requests :
       /\ req[r].op = "start" => req[r].cycle \in Cycles \ Existing
       /\ req[r].op = "patch" => /\ req[r].cycle \in Existing
                                 /\ req[r].seen \in Cycle
                                 /\ req[r].seen.ended => cycles[req[r].cycle].ended
       /\ req[r].op = "log" => req[r].at \in Times
  /\ \A q, r \in Requests :
       req[q].op = "start" /\ req[r].op = "start" /\ req[q].cycle = req[r].cycle => q = r

(* r has put its cycle into the index, or finds it there, and has not committed. *)
Entered(r) == req[r].pc = "commit" /\ Activates(r)

(* Nobody else is active, or becomes so, while a request is in the index. *)
IndexGuards ==
  /\ \A c, d \in Active : c = d
  /\ \A r \in Requests : Entered(r) => Active \subseteq {req[r].cycle}
  /\ \A q, r \in Requests : Entered(q) /\ Entered(r) => q = r

(* The cycle a log is given by default is the active one until that changes. *)
DefaultIsActive ==
  \A r \in Requests :
    req[r].op = "log" /\ req[r].default /\ ~req[r].overtaken => Active = {req[r].cycle} \ {None}

(* The logs that come before l in a listing *)
Newer(l) == {k \in Stored : logs[k].at > logs[l].at}

(* One listing at a time; its count is right until a log is committed.  What the
   client has not seen is still before it: logs only move down. *)
PagesAhead ==
  /\ \A q, r \in Requests : req[q].op = "list" /\ req[r].op = "list" => q = r
  /\ \A r \in Requests : req[r].op = "list" => ~reader.finished
  /\ \A r \in Requests :
       req[r].op = "list" /\ ~req[r].overtaken => reader.total = Cardinality(Stored)
  /\ reader.began \subseteq Stored
  /\ Tied \/ reader.raced \/
       \A l \in reader.began : l \in reader.seen \/ Cardinality(Newer(l)) >= reader.offset

Inv == /\ TypeOK /\ Arguments /\ CompletedHasEnd
       /\ IndexGuards /\ DefaultIsActive
       /\ PagesAhead /\ MissedOnlyByRace

----------------------------------------------------------------------------
(* Requests *)

RequestsOK == /\ req \in [Requests -> RequestRecord]
              /\ \A r \in Requests : req[r].pc \in PCsOf[req[r].op]

(* What the place of a request says of its handler *)
LEMMA Places ==
  ASSUME RequestsOK, NEW r \in Requests
  PROVE  /\ req[r].pc = "idle" <=> req[r].op = "none"
         /\ req[r].pc = "row" => req[r].op = "patch"
         /\ req[r].pc = "index" => req[r].op \in {"start", "patch"}
         /\ req[r].pc = "rows" <=> req[r].op = "list"
         /\ req[r].pc = "commit" => req[r].op \in {"start", "patch", "log"}
         /\ req[r].op = "log" => req[r].pc = "commit"
BY DEF RequestsOK, RequestRecord, PCs, PCsOf, Handlers

LEMMA PlacesOf ==
  /\ {"index", "commit"} \subseteq PCsOf["start"] \cap PCsOf["patch"] \cap PCs
  /\ "row" \in PCsOf["patch"] \cap PCs
  /\ "commit" \in PCsOf["log"]
  /\ "rows" \in PCsOf["list"] \cap PCs
  /\ "idle" \in PCsOf["none"] \cap PCs
BY DEF PCs, PCsOf, Handlers

LEMMA IdleOK == Idle \in RequestRecord /\ Idle.op = "none" /\ Idle.pc = "idle"
BY PlacesOf DEF Idle, RequestRecord

(* A step that gives r a new record, and leaves the others theirs *)
LEMMA ReplaceOK ==
  ASSUME RequestsOK, NEW r \in Requests, NEW x \in RequestRecord, x.pc \in PCsOf[x.op],
         req' = [req EXCEPT ![r] = x]
  PROVE  /\ RequestsOK'
         /\ req'[r] = x
         /\ \A q \in Requests \ {r} : req'[q] = req[q]
BY DEF RequestsOK

LEMMA RejectOK ==
  ASSUME RequestsOK, NEW r \in Requests, Reject(r)
  PROVE  /\ RequestsOK'
         /\ req'[r] = Idle
         /\ \A q \in Requests \ {r} : req'[q] = req[q]
BY IdleOK, PlacesOf, ReplaceOK DEF Reject

LEMMA GotoOK ==
  ASSUME RequestsOK, NEW r \in Requests, NEW pc \in PCsOf[req[r].op] \cap PCs, Goto(r, pc)
  PROVE  /\ RequestsOK'
         /\ req'[r] = [req[r] EXCEPT !.pc = pc]
         /\ \A q \in Requests \ {r} : req'[q] = req[q]
<1> DEFINE x == [req[r] EXCEPT !.pc = pc]
<1>1. x \in RequestRecord /\ x.pc \in PCsOf[x.op]
  BY DEF RequestsOK, RequestRecord
<1>2. req' = [req EXCEPT ![r] = x]
  BY DEF Goto
<1> QED BY <1>1, <1>2, ReplaceOK

(* A COMMIT touches nothing of another request but its history. *)
LEMMA CommitOK ==
  ASSUME RequestsOK, NEW r \in Requests, NEW S, Commit(r, S)
  PROVE  /\ RequestsOK'
         /\ req'[r] = Idle
         /\ \A q \in Requests \ {r} :
              /\ req[q].op \in S => req'[q] = [req[q] EXCEPT !.overtaken = TRUE]
              /\ req[q].op \notin S => req'[q] = req[q]
         /\ \A q \in Requests \ {r} :
              /\ req'[q].op = req[q].op /\ req'[q].pc = req[q].pc
              /\ req'[q].cycle = req[q].cycle /\ req'[q].seen = req[q].seen
              /\ req'[q].status = req[q].status /\ req'[q].ended = req[q].ended
              /\ req'[q].at = req[q].at /\ req'[q].default = req[q].default
<1>1. \A q \in Requests : req'[q] = IF q = r THEN Idle
                                    ELSE IF req[q].op \in S THEN [req[q] EXCEPT !.overtaken = TRUE]
                                    ELSE req[q]
  BY DEF Commit
<1>2. \A q \in Requests : req[q] \in RequestRecord
  BY DEF RequestsOK
<1>3. \A q \in Requests \ {r} :
              /\ req'[q] \in RequestRecord
              /\ req'[q].op = req[q].op /\ req'[q].pc = req[q].pc
              /\ req'[q].cycle = req[q].cycle /\ req'[q].seen = req[q].seen
              /\ req'[q].status = req[q].status /\ req'[q].ended = req[q].ended
              /\ req'[q].at = req[q].at /\ req'[q].default = req[q].default
  <2> TAKE q \in Requests \ {r}
  <2>1. CASE req[q].op \in S
    <3>1. req'[q] = [req[q] EXCEPT !.overtaken = TRUE]
      BY <1>1, <2>1
    <3> QED BY <1>2, <3>1 DEF RequestRecord
  <2>2. CASE req[q].op \notin S
    BY <1>1, <1>2, <2>2
  <2> QED BY <2>1, <2>2
<1>4. req' = [q \in Requests |-> req'[q]]
  BY <1>1 DEF Commit
<1>5. RequestsOK'
  BY <1>1, <1>3, <1>4, IdleOK, PlacesOf DEF RequestsOK
<1> QED BY <1>1, <1>3, <1>5

----------------------------------------------------------------------------
(* Steps that change nothing but one request *)

(* What Inv asks of one request, given the tables *)
Fits(r) ==
  /\ req[r].op = "start" =>
       /\ req[r].cycle \in Cycles \ Existing
       /\ \A q \in Requests : req[q].op = "start" /\ req[q].cycle = req[r].cycle => q = r
  /\ req[r].op = "patch" => /\ req[r].cycle \in Existing
                            /\ req[r].seen \in Cycle
                            /\ req[r].seen.ended => cycles[req[r].cycle].ended
  /\ req[r].op = "log" => req[r].at \in Times
  /\ Entered(r) => /\ Active \subseteq {req[r].cycle}
                   /\ \A q \in Requests : Entered(q) => q = r
  /\ req[r].op = "log" /\ req[r].default /\ ~req[r].overtaken =>
       Active = {req[r].cycle} \ {None}

LEMMA InvFits ==
  ASSUME Inv, NEW r \in Requests
  PROVE  Fits(r)
BY DEF Inv, Fits, Arguments, IndexGuards, DefaultIsActive

LEMMA OneRequest ==
  ASSUME Inv, NEW r \in Requests, UNCHANGED <<cycles, logs, reader, clients>>,
         RequestsOK', \A q \in Requests \ {r} : req'[q] = req[q],
         Fits(r)', req'[r].op # "list"
  PROVE  Inv'
<1>1. UNCHANGED <<Existing, Active, Stored, Tied>>
  BY DEF Existing, Active, Stored, Tied
<1>2. \A q \in Requests \ {r} : Entered(q)' = Entered(q)
  BY DEF Entered, Activates, ChangesStatus
<1>3. TypeOK'
  BY DEF Inv, TypeOK, RequestsOK
<1>4. Arguments'
  BY <1>1 DEF Inv, Arguments, Fits
<1>5. CompletedHasEnd'
  BY <1>1 DEF Inv, CompletedHasEnd
<1>6. IndexGuards'
  BY <1>1, <1>2 DEF Inv, IndexGuards, Fits
<1>7. DefaultIsActive'
  BY <1>1 DEF Inv, DefaultIsActive, Fits
<1>8. PagesAhead'
  <2>1. UNCHANGED <<reader, Stored, Tied>> /\ \A l : Newer(l)' = Newer(l)
    BY <1>1 DEF Newer
  <2> QED BY <2>1 DEF Inv, PagesAhead
<1>9. MissedOnlyByRace'
  BY <1>1 DEF Inv, MissedOnlyByRace
<1> QED BY <1>3, <1>4, <1>5, <1>6, <1>7, <1>8, <1>9 DEF Inv

LEMMA InvRequests == Inv => RequestsOK
BY DEF Inv, TypeOK, RequestsOK

(* An end, with or without a rollback, of a request that has changed nothing *)
LEMMA RejectInv ==
  ASSUME Inv, NEW r \in Requests, Reject(r), UNCHANGED <<cycles, logs, reader, clients>>
  PROVE  Inv'
<1>1. /\ RequestsOK' /\ req'[r] = Idle
      /\ \A q \in Requests \ {r} : req'[q] = req[q]
  BY InvRequests, RejectOK
<1>2. Fits(r)'
  BY <1>1, IdleOK DEF Fits, Entered
<1> QED BY <1>1, <1>2, IdleOK, OneRequest

(* Another place of the same request *)
LEMMA GotoInv ==
  ASSUME Inv, NEW r \in Requests, NEW pc \in PCsOf[req[r].op] \cap PCs, Goto(r, pc),
         UNCHANGED <<cycles, logs, reader, clients>>, req[r].op \in {"start", "patch"},
         pc = "commit" /\ Activates(r) =>
           /\ Active \subseteq {req[r].cycle}
           /\ \A q \in Requests \ {r} : ~Entered(q)
  PROVE  Inv'
<1>1. /\ RequestsOK' /\ req'[r] = [req[r] EXCEPT !.pc = pc]
      /\ \A q \in Requests \ {r} : req'[q] = req[q]
  BY InvRequests, GotoOK
<1>2. /\ req'[r].op = req[r].op /\ req'[r].pc = pc /\ req'[r].cycle = req[r].cycle
      /\ req'[r].seen = req[r].seen /\ req'[r].status = req[r].status
  BY <1>1, InvRequests DEF RequestsOK, RequestRecord
<1>3. UNCHANGED <<Existing, Active>>
  BY DEF Existing, Active
<1>4. \A q \in Requests \ {r} : Entered(q)' = Entered(q)
  BY <1>1 DEF Entered, Activates, ChangesStatus
<1>5. Entered(r)' => pc = "commit" /\ Activates(r)
  BY <1>2 DEF Entered, Activates, ChangesStatus
<1>6. Fits(r)'
  BY <1>1, <1>2, <1>3, <1>4, <1>5, InvFits DEF Fits
<1> QED BY <1>1, <1>2, <1>6, OneRequest

(* A request that arrives *)
LEMMA ArriveInv ==
  ASSUME Inv, NEW r \in Requests, NEW x \in RequestRecord, req' = [req EXCEPT ![r] = x],
         UNCHANGED <<cycles, logs, reader, clients>>,
         x.pc \in PCsOf[x.op], x.op # "list", x.pc = "commit" => x.op = "log",
         x.op = "start" =>
           /\ x.cycle \in Cycles \ Existing
           /\ \A q \in Requests : req[q].op = "start" => req[q].cycle # x.cycle,
         x.op = "patch" => x.cycle \in Existing /\ x.seen = cycles[x.cycle],
         x.op = "log" => x.at \in Times,
         x.op = "log" /\ x.default => Active = {x.cycle} \ {None}
  PROVE  Inv'
<1>1. /\ RequestsOK' /\ req'[r] = x
      /\ \A q \in Requests \ {r} : req'[q] = req[q]
  BY InvRequests, ReplaceOK
<1>2. UNCHANGED <<Existing, Active>>
  BY DEF Existing, Active
<1>3. x.op = "patch" => x.seen \in Cycle
  BY DEF Inv, TypeOK, Existing
<1>4. Fits(r)'
  BY <1>1, <1>2, <1>3 DEF Fits, Entered, Activates
<1> QED BY <1>1, <1>4, OneRequest

----------------------------------------------------------------------------
(* Steps of a start *)

LEMMA ReceiveStartInv ==
  ASSUME Inv, NEW r \in Requests, ReceiveStart(r)
  PROVE  Inv'
<1>1. PICK c \in Cycles : /\ Unused(c)
                          /\ req' = [req EXCEPT ![r] = [Idle EXCEPT !.op = "start",
                                                          !.pc = "index", !.cycle = c]]
  BY DEF ReceiveStart
<1> DEFINE x == [Idle EXCEPT !.op = "start", !.pc = "index", !.cycle = c]
<1>2. x \in RequestRecord /\ x.op = "start" /\ x.pc = "index" /\ x.cycle = c
  BY PlacesOf DEF Idle, RequestRecord, Handlers
<1>3. c \in Cycles \ Existing /\ \A q \in Requests : req[q].op = "start" => req[q].cycle # c
  BY <1>1 DEF Unused, Existing
<1>4. UNCHANGED <<cycles, logs, reader, clients>>
  BY DEF ReceiveStart
<1> HIDE DEF x
<1>5. x.pc \in PCsOf[x.op]
  BY <1>2, PlacesOf
<1>6. req' = [req EXCEPT ![r] = x]
  BY <1>1 DEF x
<1> QED BY <1>2, <1>3, <1>4, <1>5, <1>6, ArriveInv

(* Whoever is in the index has written it. *)
LEMMA EnteredHolds ==
  ASSUME NEW r \in Requests, Entered(r)
  PROVE  HoldsIndex(r)
BY DEF Entered, HoldsIndex

LEMMA EnterIndexInv ==
  ASSUME Inv, NEW r \in Requests, EnterIndex(r)
  PROVE  Inv'
<1>1. req[r].op \in {"start", "patch"} /\ "commit" \in PCsOf[req[r].op] \cap PCs
  BY InvRequests, Places, PlacesOf DEF EnterIndex
<1>2. \A q \in Requests \ {r} : ~Entered(q)
  BY EnteredHolds DEF EnterIndex
<1>3. UNCHANGED <<cycles, logs, reader, clients>>
  BY DEF EnterIndex
<1>4. CASE Active \subseteq {req[r].cycle}
  BY <1>1, <1>2, <1>3, <1>4, GotoInv DEF EnterIndex
<1>5. CASE ~(Active \subseteq {req[r].cycle})
  BY <1>3, <1>5, RejectInv DEF EnterIndex
<1> QED BY <1>4, <1>5

(* The tables and the others after the COMMIT of a start or a patch *)
LEMMA CommitCycleInv ==
  ASSUME Inv, NEW r \in Requests, NEW row \in Cycle, NEW S, Commit(r, S),
         req[r].cycle \in Cycles, req[r].pc = "commit", req[r].op \in {"start", "patch"},
         cycles' = [cycles EXCEPT ![req[r].cycle] = row],
         UNCHANGED <<logs, reader, clients>>,
         "list" \notin S,
         \/ req[r].op = "start"
         \/ req[r].cycle \in Existing /\ (cycles[req[r].cycle].ended => row.ended),
         row.status = "completed" => row.ended,
         row.status = "active" => Entered(r) \/ req[r].cycle \in Active,
         "log" \in S \/ (req[r].cycle \in Existing /\ row.status = cycles[req[r].cycle].status)
  PROVE  Inv'
<1> DEFINE c == req[r].cycle
<1>1. /\ RequestsOK'
      /\ req'[r] = Idle
      /\ \A q \in Requests \ {r} :
           /\ req[q].op \in S => req'[q] = [req[q] EXCEPT !.overtaken = TRUE]
           /\ req[q].op \notin S => req'[q] = req[q]
      /\ \A q \in Requests \ {r} :
           /\ req'[q].op = req[q].op /\ req'[q].pc = req[q].pc
           /\ req'[q].cycle = req[q].cycle /\ req'[q].seen = req[q].seen
           /\ req'[q].status = req[q].status /\ req'[q].ended = req[q].ended
           /\ req'[q].at = req[q].at /\ req'[q].default = req[q].default
  BY InvRequests, CommitOK
<1>2. /\ cycles'[c] = row
      /\ \A d \in Cycles \ {c} : cycles'[d] = cycles[d]
      /\ cycles' \in [Cycles -> Cycle \cup {None}]
  BY DEF Inv, TypeOK
<1>3. row # None
  BY NoRowAssumption
<1>4. Existing' = Existing \cup {c}
  BY <1>2, <1>3 DEF Existing
<1>5. /\ Active' \ {c} = Active \ {c}
      /\ c \in Active' <=> row.status = "active"
  BY <1>2, <1>3, <1>4 DEF Active
<1>6. \A q \in Requests \ {r} : Entered(q)' = Entered(q)
  BY <1>1 DEF Entered, Activates, ChangesStatus
<1>7. ~Entered(r)'
  BY <1>1, IdleOK DEF Entered
<1>8. TypeOK'
  BY <1>1, <1>2 DEF Inv, TypeOK, RequestsOK
<1>9. Arguments'
  <2>1. ASSUME NEW q \in Requests, req'[q].op = "start"
        PROVE  req'[q].cycle \in Cycles \ Existing'
    <3>1. q # r /\ req[q].op = "start" /\ req'[q].cycle = req[q].cycle
      BY <1>1, <2>1, IdleOK
    <3>2. req[q].cycle # c /\ req[q].cycle \in Cycles \ Existing
      BY <3>1 DEF Inv, Arguments
    <3> QED BY <1>4, <3>1, <3>2
  <2>2. ASSUME NEW q \in Requests, req'[q].op = "patch"
        PROVE  /\ req'[q].cycle \in Existing'
               /\ req'[q].seen \in Cycle
               /\ req'[q].seen.ended => cycles'[req'[q].cycle].ended
    <3>1. /\ q # r /\ req[q].op = "patch" /\ req'[q].cycle = req[q].cycle
          /\ req'[q].seen = req[q].seen
      BY <1>1, <2>2, IdleOK
    <3>2. /\ req[q].cycle \in Existing /\ req[q].seen \in Cycle
          /\ req[q].seen.ended => cycles[req[q].cycle].ended
      BY <3>1 DEF Inv, Arguments
    <3>3. CASE req[q].cycle = c
      <4>1. req[r].op # "start"
        BY <3>2, <3>3 DEF Inv, Arguments
      <4> QED BY <1>2, <1>4, <3>1, <3>2, <3>3, <4>1
    <3>4. CASE req[q].cycle # c
      BY <1>2, <1>4, <3>1, <3>2, <3>4 DEF Existing
    <3> QED BY <3>3, <3>4
  <2>3. \A q \in Requests : req'[q].op = "log" => req'[q].at \in Times
    BY <1>1, IdleOK DEF Inv, Arguments
  <2>4. \A p, q \in Requests :
          req'[p].op = "start" /\ req'[q].op = "start" /\ req'[p].cycle = req'[q].cycle => p = q
    BY <1>1, IdleOK DEF Inv, Arguments
  <2> QED BY <2>1, <2>2, <2>3, <2>4 DEF Arguments
<1>10. CompletedHasEnd'
  BY <1>2, <1>4 DEF Inv, CompletedHasEnd, Existing
<1>11. Active' \subseteq Active \/ (Entered(r) /\ Active' = {c})
  <2>1. CASE Entered(r)
    BY <1>5, <2>1 DEF Inv, IndexGuards
  <2>2. CASE ~Entered(r)
    BY <1>5, <2>2
  <2> QED BY <2>1, <2>2
<1>12. IndexGuards'
  <2>1. \A a, b \in Active' : a = b
    BY <1>11 DEF Inv, IndexGuards
  <2>2. \A q \in Requests : Entered(q)' => q # r /\ Entered(q) /\ req'[q].cycle = req[q].cycle
    BY <1>1, <1>6, <1>7
  <2>3. \A q \in Requests : Entered(q)' => Active' \subseteq {req'[q].cycle}
    BY <1>11, <2>2 DEF Inv, IndexGuards
  <2>4. \A p, q \in Requests : Entered(p)' /\ Entered(q)' => p = q
    BY <2>2 DEF Inv, IndexGuards
  <2> QED BY <2>1, <2>3, <2>4 DEF IndexGuards
<1>13. DefaultIsActive'
  <2> SUFFICES ASSUME NEW q \in Requests, req'[q].op = "log", req'[q].default, ~req'[q].overtaken
               PROVE  Active' = {req'[q].cycle} \ {None}
    BY DEF DefaultIsActive
  <2>1. q # r /\ req[q].op = "log"
    <3>1. req'[r].op = "none"
      BY <1>1, IdleOK
    <3>2. q # r
      BY <3>1
    <3> QED BY <1>1, <3>2
  <2>2. "log" \notin S
    <3>1. req[q] \in RequestRecord
      BY InvRequests DEF RequestsOK
    <3> QED BY <1>1, <2>1, <3>1 DEF RequestRecord
  <2>3. req'[q] = req[q]
    BY <1>1, <2>1, <2>2
  <2>4. Active' = Active
    BY <1>5, <2>2 DEF Active
  <2> QED BY <2>1, <2>3, <2>4 DEF Inv, DefaultIsActive
<1>14. PagesAhead'
  <2>1. UNCHANGED <<reader, Stored, Tied>> /\ \A l : Newer(l)' = Newer(l)
    BY DEF Newer, Stored, Tied
  <2>2. ASSUME NEW q \in Requests, req'[q].op = "list" PROVE req'[q] = req[q]
    <3>1. req'[r].op = "none"
      BY <1>1, IdleOK
    <3>2. q # r
      BY <2>2, <3>1
    <3>3. req[q].op = "list"
      BY <1>1, <2>2, <3>2
    <3> QED BY <1>1, <3>2, <3>3
  <2> QED BY <2>1, <2>2 DEF Inv, PagesAhead
<1>15. MissedOnlyByRace'
  <2>1. UNCHANGED <<reader, Tied>>
    BY DEF Stored, Tied
  <2> QED BY <2>1 DEF Inv, MissedOnlyByRace
<1> QED BY <1>8, <1>9, <1>10, <1>12, <1>13, <1>14, <1>15 DEF Inv

LEMMA CommitStartInv ==
  ASSUME Inv, NEW r \in Requests, CommitStart(r)
  PROVE  Inv'
<1> DEFINE row == [status |-> "active", ended |-> FALSE]
<1>1. req[r].op = "start" /\ req[r].pc = "commit" /\ Commit(r, {"log"})
      /\ cycles' = [cycles EXCEPT ![req[r].cycle] = row]
      /\ UNCHANGED <<logs, reader, clients>>
  BY DEF CommitStart
<1>2. row \in Cycle /\ row.status = "active"
  BY DEF Cycle, Statuses
<1>3. req[r].cycle \in Cycles
  BY <1>1 DEF Inv, Arguments
<1>4. Entered(r)
  BY <1>1 DEF Entered, Activates
<1> HIDE DEF row
<1> QED BY <1>1, <1>2, <1>3, <1>4, CommitCycleInv

----------------------------------------------------------------------------
(* Steps of a patch *)

LEMMA ReceivePatchInv ==
  ASSUME Inv, NEW r \in Requests, ReceivePatch(r)
  PROVE  Inv'
<1>1. PICK c \in Existing, s \in Statuses \cup {None}, e \in BOOLEAN :
        req' = [req EXCEPT ![r] = [Idle EXCEPT !.op = "patch", !.pc = "row", !.cycle = c,
                                     !.seen = cycles[c], !.status = s, !.ended = e]]
  BY DEF ReceivePatch
<1> DEFINE x == [Idle EXCEPT !.op = "patch", !.pc = "row", !.cycle = c,
                   !.seen = cycles[c], !.status = s, !.ended = e]
<1>2. c \in Cycles /\ cycles[c] \in Cycle \cup {None}
  BY DEF Existing, Inv, TypeOK
<1>3. x \in RequestRecord /\ x.op = "patch" /\ x.pc = "row" /\ x.cycle = c /\ x.seen = cycles[c]
  BY <1>2, PlacesOf DEF Idle, RequestRecord, Handlers
<1>4. UNCHANGED <<cycles, logs, reader, clients>>
  BY DEF ReceivePatch
<1>5. req' = [req EXCEPT ![r] = x]
  BY <1>1
<1> HIDE DEF x
<1>6. x.pc \in PCsOf[x.op]
  BY <1>3, PlacesOf
<1> QED BY <1>3, <1>4, <1>5, <1>6, ArriveInv

LEMMA LockRowInv ==
  ASSUME Inv, NEW r \in Requests, LockRow(r)
  PROVE  Inv'
<1> DEFINE pc == IF Activates(r) THEN "index" ELSE "commit"
<1>1. req[r].op = "patch"
  BY InvRequests, Places DEF LockRow
<1>2. pc \in PCsOf[req[r].op] \cap PCs
  BY <1>1, PlacesOf
<1>3. Goto(r, pc) /\ UNCHANGED <<cycles, logs, reader, clients>>
  BY DEF LockRow
<1>4. pc = "commit" => ~Activates(r)
  OBVIOUS
<1> HIDE DEF pc
<1> QED BY <1>1, <1>2, <1>3, <1>4, GotoInv

(* What a patch writes: never less of an end than there was. *)
LEMMA PatchedRow ==
  ASSUME Inv, NEW r \in Requests, CommitPatch(r)
  PROVE  /\ req[r].cycle \in Existing
         /\ \E row \in Cycle :
              /\ cycles' = [cycles EXCEPT ![req[r].cycle] = row]
              /\ row.status = IF ChangesStatus(r) THEN req[r].status
                              ELSE cycles[req[r].cycle].status
              /\ cycles[req[r].cycle].ended => row.ended
              /\ row.status = "completed" => row.ended
<1> DEFINE old == cycles[req[r].cycle]
           row == [status |-> IF ChangesStatus(r) THEN req[r].status ELSE old.status,
                   ended |-> old.ended \/ StampsEnd(r)]
<1>1. /\ req[r].cycle \in Existing /\ req[r].cycle \in Cycles
      /\ req[r].seen \in Cycle
      /\ req[r].seen.ended => old.ended
      /\ old \in Cycle
      /\ old.status = "completed" => old.ended
  BY DEF CommitPatch, Inv, TypeOK, Arguments, CompletedHasEnd, Existing
<1>2. req[r].status \in Statuses \cup {None} /\ req[r].ended \in BOOLEAN
  BY InvRequests DEF RequestsOK, RequestRecord
<1>3. cycles' = [cycles EXCEPT ![req[r].cycle] = row]
  BY <1>1 DEF CommitPatch, Inv, TypeOK
<1>4. /\ row.status = IF ChangesStatus(r) THEN req[r].status ELSE old.status
      /\ row.status \in Statuses
  BY <1>1, <1>2 DEF ChangesStatus, Cycle
<1>5. row.ended = (old.ended \/ StampsEnd(r))
  OBVIOUS
<1>6. StampsEnd(r) \in BOOLEAN /\ old.ended \in BOOLEAN
  BY <1>1, <1>2 DEF StampsEnd, Cycle
<1>7. row \in Cycle
  BY <1>4, <1>6 DEF Cycle
<1>8. row.status = "completed" => row.ended
  <2>1. CASE ChangesStatus(r)
    BY <1>1, <1>4, <1>5, <2>1 DEF StampsEnd
  <2>2. CASE ~ChangesStatus(r)
    BY <1>1, <1>4, <1>5, <2>2
  <2> QED BY <2>1, <2>2
<1>9. old.ended => row.ended
  BY <1>5
<1> HIDE DEF row
<1> QED BY <1>1, <1>3, <1>4, <1>7, <1>8, <1>9

LEMMA CommitPatchInv ==
  ASSUME Inv, NEW r \in Requests, CommitPatch(r)
  PROVE  Inv'
<1> DEFINE S == IF ChangesStatus(r) THEN {"log"} ELSE {}
           c == req[r].cycle
<1>1. PICK row \in Cycle :
        /\ cycles' = [cycles EXCEPT ![c] = row]
        /\ row.status = IF ChangesStatus(r) THEN req[r].status ELSE cycles[c].status
        /\ cycles[c].ended => row.ended
        /\ row.status = "completed" => row.ended
  BY PatchedRow
<1>2. /\ Commit(r, S) /\ UNCHANGED <<logs, reader, clients>>
      /\ req[r].op = "patch" /\ req[r].pc = "commit"
  BY DEF CommitPatch
<1>3. c \in Existing /\ c \in Cycles
  BY PatchedRow DEF Existing
<1>4. row.status = "active" => Entered(r) \/ c \in Active
  BY <1>1, <1>2, <1>3 DEF Entered, Activates, Active
<1>5. "list" \notin S /\ ("log" \in S \/ row.status = cycles[c].status)
  BY <1>1
<1> HIDE DEF S
<1> QED BY <1>1, <1>2, <1>3, <1>4, <1>5, CommitCycleInv

----------------------------------------------------------------------------
(* Steps of a log *)

LEMMA ReceiveLogInv ==
  ASSUME Inv, NEW r \in Requests, ReceiveLog(r)
  PROVE  Inv'
<1>1. PICK t \in LogTimes, c \in Cycles \cup {None}, default \in BOOLEAN :
        /\ IF default
           THEN IF DefaultCycle = {} THEN c = None ELSE c \in DefaultCycle
           ELSE c \in Existing
        /\ req' = [req EXCEPT ![r] = [Idle EXCEPT !.op = "log", !.pc = "commit",
                                        !.cycle = c, !.at = t, !.default = default]]
  BY DEF ReceiveLog
<1> DEFINE x == [Idle EXCEPT !.op = "log", !.pc = "commit", !.cycle = c, !.at = t,
                                        !.default = default]
<1>2. t \in Times
  BY TimesAssumption DEF LogTimes
<1>3. x \in RequestRecord /\ x.op = "log" /\ x.pc = "commit" /\ x.cycle = c /\ x.at = t
      /\ x.default = default
  BY <1>2, PlacesOf DEF Idle, RequestRecord, Handlers
<1>4. default => Active = {c} \ {None}
  <2>1. \A d \in Active : d # None
    BY NoneAssumption DEF Active, Existing
  <2> QED BY <1>1, <2>1 DEF DefaultCycle, Inv, IndexGuards
<1>5. UNCHANGED <<cycles, logs, reader, clients>>
  BY DEF ReceiveLog
<1>6. req' = [req EXCEPT ![r] = x]
  BY <1>1
<1> HIDE DEF x
<1>7. x.pc \in PCsOf[x.op]
  BY <1>3, PlacesOf
<1> QED BY <1>2, <1>3, <1>4, <1>5, <1>6, <1>7, ArriveInv

LEMMA StoredFinite ==
  ASSUME NEW S \in SUBSET Stored
  PROVE  IsFiniteSet(S) /\ Cardinality(S) \in Nat
<1>1. S \in SUBSET Logs
  BY DEF Stored
<1>2. IsFiniteSet(S)
  BY <1>1, FiniteAssumption, FS_Subset
<1> QED BY <1>2, FS_CardinalityType

(* A new log moves no entry of a listing up: those newer than it stay. *)
LEMMA CommitLogInv ==
  ASSUME Inv, NEW r \in Requests, CommitLog(r)
  PROVE  Inv'
<1>1. PICK l \in Logs \ Stored :
        logs' = [logs EXCEPT ![l] = [cycle |-> req[r].cycle, at |-> req[r].at]]
  BY DEF CommitLog
<1>2. /\ req[r].op = "log" /\ req[r].pc = "commit" /\ Commit(r, {"list"})
      /\ UNCHANGED <<cycles, reader, clients, Existing, Active>>
  BY DEF CommitLog, Existing, Active
<1>3. /\ RequestsOK'
      /\ req'[r] = Idle
      /\ \A q \in Requests \ {r} :
           /\ req[q].op = "list" => req'[q] = [req[q] EXCEPT !.overtaken = TRUE]
           /\ req[q].op # "list" => req'[q] = req[q]
      /\ \A q \in Requests \ {r} :
           /\ req'[q].op = req[q].op /\ req'[q].pc = req[q].pc
           /\ req'[q].cycle = req[q].cycle /\ req'[q].seen = req[q].seen
           /\ req'[q].status = req[q].status /\ req'[q].ended = req[q].ended
           /\ req'[q].at = req[q].at /\ req'[q].default = req[q].default
  <2>1. \A op : op \in {"list"} <=> op = "list"
    OBVIOUS
  <2> QED BY <1>2, <2>1, InvRequests, CommitOK
<1>4. [cycle |-> req[r].cycle, at |-> req[r].at] \in Log
  <2>1. req[r].cycle \in Cycles \cup {None} /\ req[r].at \in Times
    BY <1>2, InvRequests DEF RequestsOK, RequestRecord, Inv, Arguments
  <2> QED BY <2>1 DEF Log
<1>5. /\ logs' \in [Logs -> Log \cup {None}]
      /\ \A k \in Stored : logs'[k] = logs[k]
      /\ Stored' = Stored \cup {l}
  BY <1>1, <1>4, NoRowAssumption DEF Inv, TypeOK, Stored
<1>6. \A q \in Requests : Entered(q)' => q # r /\ Entered(q) /\ req'[q].cycle = req[q].cycle
  <2> TAKE q \in Requests
  <2>1. CASE q = r
    BY <1>3, <2>1, IdleOK DEF Entered
  <2>2. CASE q # r
    BY <1>3, <2>2 DEF Entered, Activates, ChangesStatus
  <2> QED BY <2>1, <2>2
<1>7. \A q \in Requests : req'[q].op # "none" => q # r
  BY <1>3, IdleOK
<1>8. TypeOK'
  BY <1>2, <1>3, <1>5 DEF Inv, TypeOK, RequestsOK
<1>9. Arguments'
  BY <1>2, <1>3, <1>7 DEF Inv, Arguments
<1>10. CompletedHasEnd'
  BY <1>2 DEF Inv, CompletedHasEnd
<1>11. IndexGuards'
  BY <1>2, <1>6 DEF Inv, IndexGuards
<1>12. DefaultIsActive'
  <2> SUFFICES ASSUME NEW q \in Requests, req'[q].op = "log", req'[q].default, ~req'[q].overtaken
               PROVE  Active' = {req'[q].cycle} \ {None}
    BY DEF DefaultIsActive
  <2>1. q # r
    BY <1>7
  <2>2. req'[q] = req[q]
    BY <1>3, <2>1
  <2> QED BY <1>2, <2>2 DEF Inv, DefaultIsActive
<1>13. Tied => Tied'
  BY <1>5 DEF Tied
<1>14. PagesAhead'
  <2>1. \A p, q \in Requests : req'[p].op = "list" /\ req'[q].op = "list" => p = q
    BY <1>3, <1>7 DEF Inv, PagesAhead
  <2>2. \A q \in Requests : req'[q].op = "list" => req'[q].overtaken /\ ~reader'.finished
    <3> TAKE q \in Requests
    <3> HAVE req'[q].op = "list"
    <3>1. q # r
      BY <1>7
    <3>2. req[q].op = "list" /\ req'[q] = [req[q] EXCEPT !.overtaken = TRUE]
      BY <1>3, <3>1
    <3>3. req[q] \in RequestRecord
      BY InvRequests DEF RequestsOK
    <3>4. req'[q].overtaken
      BY <3>2, <3>3 DEF RequestRecord
    <3> QED BY <1>2, <3>2, <3>4 DEF Inv, PagesAhead
  <2>3. reader'.began \subseteq Stored'
    BY <1>2, <1>5 DEF Inv, PagesAhead
  <2>4. ASSUME NEW k \in reader.began, Cardinality(Newer(k)) >= reader.offset
        PROVE  Cardinality(Newer(k)') >= reader'.offset
    <3>1. k \in Stored
      BY DEF Inv, PagesAhead
    <3>2. Newer(k) \subseteq Newer(k)'
      BY <1>5, <3>1 DEF Newer
    <3>3. Newer(k)' \subseteq Logs
      BY DEF Newer, Stored
    <3>4. IsFiniteSet(Newer(k)')
      BY <3>3, FiniteAssumption, FS_Subset
    <3>5. Cardinality(Newer(k)) <= Cardinality(Newer(k)')
      BY <3>2, <3>4, FS_Subset
    <3>6. Cardinality(Newer(k)) \in Nat /\ Cardinality(Newer(k)') \in Nat
      BY <3>4, StoredFinite, FS_CardinalityType DEF Newer
    <3>7. reader' = reader /\ reader.offset \in Nat
      BY <1>2 DEF Inv, TypeOK, Reader
    <3> QED BY <2>4, <3>5, <3>6, <3>7
  <2>5. Tied' \/ reader'.raced \/
          \A k \in reader'.began : k \in reader'.seen \/ Cardinality(Newer(k)') >= reader'.offset
    BY <1>2, <1>13, <2>4 DEF Inv, PagesAhead
  <2> QED BY <2>1, <2>2, <2>3, <2>5 DEF PagesAhead
<1>15. MissedOnlyByRace'
  BY <1>2, <1>13 DEF Inv, MissedOnlyByRace
<1> QED BY <1>8, <1>9, <1>10, <1>11, <1>12, <1>14, <1>15 DEF Inv

----------------------------------------------------------------------------
(* Steps of a listing *)

(* A listing changes nothing but the reader. *)
LEMMA ListingInv ==
  ASSUME Inv, NEW r \in Requests, RequestsOK', UNCHANGED <<cycles, logs, clients>>,
         \A q \in Requests \ {r} : req'[q] = req[q], req'[r].op \in {"none", "list"},
         reader' \in Reader, PagesAhead', MissedOnlyByRace'
  PROVE  Inv'
<1>1. UNCHANGED <<Existing, Active>>
  BY DEF Existing, Active
<1>2. \A q \in Requests : Entered(q)' => Entered(q) /\ req'[q] = req[q]
  <2> TAKE q \in Requests
  <2>1. CASE q = r
    BY <2>1, Places, Zenon DEF Entered, Activates
  <2>2. CASE q # r
    BY <2>2 DEF Entered, Activates, ChangesStatus
  <2> QED BY <2>1, <2>2
<1>3. TypeOK'
  BY DEF Inv, TypeOK, RequestsOK
<1>4. \A q \in Requests : req'[q].op \in {"start", "patch", "log"} => req'[q] = req[q]
  OBVIOUS
<1>5. Arguments'
  BY <1>1, <1>4 DEF Inv, Arguments
<1>6. CompletedHasEnd' /\ IndexGuards' /\ DefaultIsActive'
  BY <1>1, <1>2, <1>4 DEF Inv, CompletedHasEnd, IndexGuards, DefaultIsActive
<1> QED BY <1>3, <1>5, <1>6 DEF Inv

LEMMA CountLogsInv ==
  ASSUME Inv, NEW r \in Requests, CountLogs(r)
  PROVE  Inv'
<1> DEFINE x == [Idle EXCEPT !.op = "list", !.pc = "rows"]
<1>1. x \in RequestRecord /\ x.op = "list" /\ x.pc = "rows" /\ ~x.overtaken
  BY PlacesOf DEF Idle, RequestRecord, Handlers
<1>2. req' = [req EXCEPT ![r] = x] /\ UNCHANGED <<cycles, logs, clients>>
      /\ ~reader.finished /\ \A q \in Requests : req[q].op # "list"
  BY DEF CountLogs
<1> HIDE DEF x
<1>3. x.pc \in PCsOf[x.op]
  BY <1>1, PlacesOf
<1>4. /\ RequestsOK' /\ req'[r] = x
      /\ \A q \in Requests \ {r} : req'[q] = req[q]
  BY <1>1, <1>2, <1>3, InvRequests, ReplaceOK
<1>5. reader \in Reader /\ Cardinality(Stored) \in Nat /\ Stored \in SUBSET Logs
  BY StoredFinite DEF Inv, TypeOK, Stored
<1>6. /\ reader'.offset = reader.offset /\ reader'.total = Cardinality(Stored)
      /\ reader'.seen = reader.seen /\ reader'.raced = reader.raced
      /\ ~reader'.finished
      /\ reader'.began = IF reader.offset = 0 THEN Stored ELSE reader.began
      /\ reader' \in Reader
  BY <1>2, <1>5 DEF CountLogs, Reader
<1>7. UNCHANGED <<Stored, Tied>> /\ \A l : Newer(l)' = Newer(l)
  BY <1>2 DEF Stored, Tied, Newer
<1>8. PagesAhead'
  <2>1. /\ \A p, q \in Requests : req'[p].op = "list" /\ req'[q].op = "list" => p = q
        /\ \A q \in Requests : req'[q].op = "list" => ~reader'.finished
        /\ \A q \in Requests :
             req'[q].op = "list" /\ ~req'[q].overtaken => reader'.total = Cardinality(Stored')
        /\ reader'.began \subseteq Stored'
    BY <1>2, <1>4, <1>6, <1>7 DEF Inv, PagesAhead
  <2>2. CASE reader.offset = 0
    <3>1. ASSUME NEW l \in Stored PROVE Cardinality(Newer(l)) >= 0
      <4>1. Newer(l) \in SUBSET Stored
        BY DEF Newer
      <4>2. Cardinality(Newer(l)) \in Nat
        BY <4>1, StoredFinite
      <4> QED BY <4>2
    <3> QED BY <2>1, <2>2, <3>1, <1>6, <1>7 DEF PagesAhead
  <2>3. CASE reader.offset # 0
    BY <2>1, <2>3, <1>6, <1>7 DEF Inv, PagesAhead
  <2> QED BY <2>2, <2>3
<1>9. MissedOnlyByRace'
  BY <1>6 DEF MissedOnlyByRace
<1> QED BY <1>1, <1>2, <1>4, <1>6, <1>8, <1>9, ListingInv

(* Without ties an entry's position is the number of newer ones. *)
LEMMA PlaceOf ==
  ASSUME Inv, ~Tied, NEW place \in NewestFirst, NEW l \in Stored
  PROVE  Before(place, l) = Cardinality(Newer(l))
<1>1. \A k \in Stored : logs[k].at \in Int
  BY TimesAssumption DEF Inv, TypeOK, Stored, Log
<1>2. /\ \A k \in Stored : place[k] \in Int
      /\ \A j, k \in Stored : j # k => /\ place[j] # place[k]
                                       /\ logs[j].at > logs[k].at => place[j] < place[k]
  <2>1. Cardinality(Stored) \in Nat
    BY StoredFinite
  <2> QED BY <2>1 DEF NewestFirst
<1>3. \A k \in Stored : place[k] < place[l] <=> logs[k].at > logs[l].at
  BY <1>1, <1>2 DEF Tied
<1>4. {k \in Stored : place[k] < place[l]} = Newer(l)
  BY <1>3 DEF Newer
<1> QED BY <1>4 DEF Before

LEMMA ReadPageInv ==
  ASSUME Inv, NEW r \in Requests, ReadPage(r)
  PROVE  Inv'
<1>1. PICK place \in NewestFirst :
        reader' = [reader EXCEPT !.seen = @ \cup Page(place, reader.offset),
                                 !.offset = @ + Limit,
                                 !.raced = @ \/ req[r].overtaken,
                                 !.finished = reader.offset + Limit >= reader.total]
  BY DEF ReadPage
<1>2. req[r].op = "list" /\ Reject(r) /\ UNCHANGED <<cycles, logs, clients>>
  BY DEF ReadPage
<1>3. /\ RequestsOK' /\ req'[r] = Idle
      /\ \A q \in Requests \ {r} : req'[q] = req[q]
  BY <1>2, InvRequests, RejectOK
<1>4. reader \in Reader /\ Page(place, reader.offset) \in SUBSET Logs
  BY DEF Inv, TypeOK, Page, Stored
<1>5. req[r].overtaken \in BOOLEAN
  BY InvRequests DEF RequestsOK, RequestRecord
<1>6. /\ reader'.offset = reader.offset + Limit /\ reader'.total = reader.total
      /\ reader'.seen = reader.seen \cup Page(place, reader.offset)
      /\ reader'.began = reader.began
      /\ reader'.raced = (reader.raced \/ req[r].overtaken)
      /\ reader'.finished = (reader.offset + Limit >= reader.total)
  BY <1>1, <1>4 DEF Reader
<1>7. reader' \in Reader
  <2>1. /\ reader.seen \cup Page(place, reader.offset) \in SUBSET Logs
        /\ reader.offset + Limit \in Nat
        /\ (reader.raced \/ req[r].overtaken) \in BOOLEAN
        /\ (reader.offset + Limit >= reader.total) \in BOOLEAN
    BY <1>4, <1>5, LimitAssumption DEF Reader
  <2> QED BY <1>1, <1>4, <2>1 DEF Reader
<1>8. UNCHANGED <<Stored, Tied>> /\ \A l : Newer(l)' = Newer(l)
  BY <1>2 DEF Stored, Tied, Newer
<1>9. \A q \in Requests : req'[q].op # "list"
  <2>1. req'[r].op # "list"
    BY <1>3, IdleOK
  <2>2. ASSUME NEW q \in Requests \ {r} PROVE req'[q].op # "list"
    BY <1>2, <1>3 DEF Inv, PagesAhead
  <2> QED BY <2>1, <2>2
<1>10. ASSUME ~Tied, ~reader.raced, NEW l \in reader.began, l \notin reader'.seen
       PROVE  Cardinality(Newer(l)) >= reader.offset + Limit
  <2>1. l \in Stored /\ Cardinality(Newer(l)) >= reader.offset
    BY <1>6, <1>10 DEF Inv, PagesAhead
  <2>2. Newer(l) \in SUBSET Stored
    BY DEF Newer
  <2>3. Before(place, l) = Cardinality(Newer(l)) /\ Cardinality(Newer(l)) \in Nat
    BY <1>10, <2>1, <2>2, PlaceOf, StoredFinite
  <2>4. Before(place, l) \notin reader.offset .. (reader.offset + Limit - 1)
    BY <1>6, <1>10, <2>1 DEF Page
  <2> QED BY <2>1, <2>3, <2>4, <1>4, LimitAssumption DEF Reader
<1>11. PagesAhead'
  <2>1. reader'.began \subseteq Stored'
    BY <1>6, <1>8 DEF Inv, PagesAhead
  <2> QED BY <1>6, <1>8, <1>9, <1>10, <2>1 DEF PagesAhead
<1>12. MissedOnlyByRace'
  <2> SUFFICES ASSUME reader'.finished, ~Tied, ~reader'.raced, NEW l \in reader.began,
                      l \notin reader'.seen
               PROVE  FALSE
    BY <1>6, <1>8 DEF MissedOnlyByRace
  <2>1. ~reader.raced /\ ~req[r].overtaken
    BY <1>6
  <2>2. reader.total = Cardinality(Stored) /\ l \in Stored
    BY <1>2, <2>1 DEF Inv, PagesAhead
  <2>3. Cardinality(Newer(l)) >= Cardinality(Stored)
    <3>1. Cardinality(Newer(l)) >= reader.offset + Limit
      BY <1>10, <2>1
    <3>2. reader.offset + Limit >= Cardinality(Stored)
      BY <1>6, <2>2
    <3>3. Cardinality(Newer(l)) \in Nat /\ Cardinality(Stored) \in Nat /\ reader.offset \in Nat
      BY <1>4, StoredFinite DEF Newer, Reader
    <3> QED BY <3>1, <3>2, <3>3, LimitAssumption
  <2>4. Newer(l) \in SUBSET Stored /\ l \notin Newer(l)
    <3>1. logs[l].at \in Int
      BY <2>2, TimesAssumption DEF Inv, TypeOK, Stored, Log
    <3> QED BY <3>1 DEF Newer
  <2>5. IsFiniteSet(Stored) /\ Cardinality(Stored) \in Nat
    BY StoredFinite
  <2>6. /\ Cardinality(Newer(l)) <= Cardinality(Stored)
        /\ Cardinality(Stored) = Cardinality(Newer(l)) => Stored = Newer(l)
    BY <2>4, <2>5, FS_Subset
  <2>7. Cardinality(Newer(l)) \in Nat
    BY <2>4, StoredFinite
  <2>8. Stored = Newer(l)
    BY <2>3, <2>5, <2>6, <2>7
  <2> QED BY <2>2, <2>4, <2>8
<1> QED BY <1>2, <1>3, <1>7, <1>11, <1>12, IdleOK, ListingInv

----------------------------------------------------------------------------
(* The invariant *)

LEMMA InvInit == Init => Inv
<1> SUFFICES ASSUME Init PROVE Inv
  OBVIOUS
<1>1. req = [r \in Requests |-> Idle] /\ logs = [l \in Logs |-> None] /\ reader = NewReader
  BY DEF Init
<1>2. /\ req \in [Requests -> RequestRecord]
      /\ \A r \in Requests : req[r].op = "none" /\ req[r].pc = "idle"
  BY <1>1, IdleOK
<1>3. TypeOK
  BY <1>1, <1>2, PlacesOf DEF Init, TypeOK, NewReader, Reader
<1>4. Arguments /\ DefaultIsActive
  BY <1>2 DEF Arguments, DefaultIsActive
<1>5. \A c, d \in Active : c = d
  <2> SUFFICES ASSUME NEW c \in Active, NEW d \in Active, c # d PROVE FALSE
    OBVIOUS
  <2>1. Active \in SUBSET Cycles
    BY DEF Active, Existing
  <2>2. IsFiniteSet(Active) /\ {c, d} \in SUBSET Active
    BY <2>1, FiniteAssumption, FS_Subset
  <2>3. Cardinality({c}) = 1 /\ IsFiniteSet({c})
    BY FS_Singleton
  <2>4. Cardinality({c} \cup {d}) = 2
    BY <2>3, FS_AddElement
  <2>5. {c, d} = {c} \cup {d}
    OBVIOUS
  <2>6. Cardinality({c, d}) <= Cardinality(Active) /\ Cardinality(Active) \in Nat
    BY <2>2, FS_Subset, FS_CardinalityType
  <2> QED BY <2>4, <2>5, <2>6 DEF Init
<1>6. IndexGuards
  BY <1>2, <1>5 DEF IndexGuards, Entered
<1>7. PagesAhead /\ MissedOnlyByRace
  BY <1>1, <1>2 DEF PagesAhead, MissedOnlyByRace, NewReader
<1> QED BY <1>3, <1>4, <1>6, <1>7 DEF Inv, Init

LEMMA InvNext == Inv /\ [Next]_vars => Inv'
<1> SUFFICES ASSUME Inv, [Next]_vars PROVE Inv'
  OBVIOUS
<1>1. CASE UNCHANGED vars
  <2>1. UNCHANGED <<Existing, Active, Stored, Tied>> /\ \A l : Newer(l)' = Newer(l)
    BY <1>1 DEF vars, Existing, Active, Stored, Tied, Newer
  <2>2. \A r \in Requests : Entered(r)' = Entered(r)
    BY <1>1 DEF vars, Entered, Activates, ChangesStatus
  <2> QED BY <1>1, <2>1, <2>2
          DEF vars, Inv, TypeOK, Arguments, CompletedHasEnd, IndexGuards, DefaultIsActive,
              PagesAhead, MissedOnlyByRace
<1>2. ASSUME NEW r \in Requests, Abort(r) PROVE Inv'
  BY <1>2, RejectInv DEF Abort
<1> QED BY <1>1, <1>2, ReceiveStartInv, EnterIndexInv, CommitStartInv, ReceivePatchInv,
           LockRowInv, CommitPatchInv, ReceiveLogInv, CommitLogInv, CountLogsInv, ReadPageInv
        DEF Next, Receive, Continue

LEMMA Invariance == Spec => []Inv
BY InvInit, InvNext, PTL DEF Spec

(***************************************************************************)
(* Theorems                                                                *)
(***************************************************************************)

(* Rows, requests in flight and the reader keep their types, and a request only
   stands where its handler can stand. *)
THEOREM TypeCorrect == Spec => []TypeOK
<1>1. Inv => TypeOK
  BY DEF Inv
<1> QED BY <1>1, Invariance, PTL

(* No batch is completed without an end, whatever patches overlap. *)
THEOREM CompletedBatchesEnd == Spec => []CompletedHasEnd
<1>1. Inv => CompletedHasEnd
  BY DEF Inv
<1> QED BY <1>1, Invariance, PTL

(* A client that turns the pages misses no log, but for ties and races. *)
THEOREM PagesMissNothing == Spec => []MissedOnlyByRace
<1>1. Inv => MissedOnlyByRace
  BY DEF Inv
<1> QED BY <1>1, Invariance, PTL

(* A log without a cycle goes to the batch that is active when it commits. *)
THEOREM LogsGoToTheActiveBatch == Spec => AttributedElsewhereOnlyByRace
<1>1. Inv /\ [Next]_vars =>
        [ \A r \in Requests :
            CommitLog(r) /\ req[r].default /\ ~req[r].overtaken =>
              Active = {req[r].cycle} \ {None} ]_vars
  BY DEF Inv, DefaultIsActive, CommitLog
<1> QED BY <1>1, Invariance, PTL DEF Spec, AttributedElsewhereOnlyByRace

(* The partial unique index implements the promise of one active batch: a COMMIT
   starts a batch when none is active, or stops the one that is. *)
THEOREM ImplementsOneActiveBatch == Spec => OneActive
<1>1. Inv => Active = {} \/ \E c \in Cycles : Active = {c}
  BY DEF Inv, IndexGuards, Active, Existing
<1>2. Init => Batch!Init
  BY <1>1, InvInit DEF Batch!Init
<1>3. ASSUME Inv, NEW r \in Requests, NEW c \in Cycles, NEW row \in Cycle,
             req[r].cycle = c, req[r].pc = "commit",
             cycles' = [cycles EXCEPT ![c] = row],
             row.status = "active" => Entered(r) \/ c \in Active
      PROVE  Batch!Next \/ UNCHANGED Active
  <2>1. /\ cycles'[c] = row /\ \A d \in Cycles \ {c} : cycles'[d] = cycles[d]
        /\ row # None
    BY <1>3, NoRowAssumption DEF Inv, TypeOK
  <2>2. Active' \ {c} = Active \ {c} /\ (c \in Active' <=> row.status = "active")
    BY <2>1 DEF Active, Existing
  <2>3. CASE row.status = "active"
    <3>1. Active \subseteq {c}
      BY <1>3, <2>3 DEF Inv, IndexGuards
    <3>2. Active' = {c}
      BY <2>2, <2>3, <3>1
    <3> QED BY <3>1, <3>2 DEF Batch!Next, Batch!Start
  <2>4. CASE row.status # "active" /\ c \in Active
    <3>1. Active = {c}
      BY <1>3, <2>4 DEF Inv, IndexGuards
    <3>2. Active' = {}
      BY <2>2, <2>4, <3>1
    <3> QED BY <3>1, <3>2 DEF Batch!Next, Batch!Stop
  <2>5. CASE row.status # "active" /\ c \notin Active
    BY <2>2, <2>5
  <2> QED BY <2>3, <2>4, <2>5
<1>4. Inv /\ [Next]_vars => [Batch!Next]_Active
  <2> SUFFICES ASSUME Inv, [Next]_vars PROVE Batch!Next \/ UNCHANGED Active
    OBVIOUS
  <2>1. ASSUME NEW r \in Requests, CommitStart(r) PROVE Batch!Next \/ UNCHANGED Active
    <3> DEFINE row == [status |-> "active", ended |-> FALSE]
    <3>1. row \in Cycle /\ cycles' = [cycles EXCEPT ![req[r].cycle] = row]
      BY <2>1 DEF CommitStart, Cycle, Statuses
    <3>2. req[r].cycle \in Cycles /\ req[r].pc = "commit" /\ Entered(r)
      BY <2>1 DEF CommitStart, Inv, Arguments, Entered, Activates
    <3> HIDE DEF row
    <3> QED BY <1>3, <3>1, <3>2
  <2>2. ASSUME NEW r \in Requests, CommitPatch(r) PROVE Batch!Next \/ UNCHANGED Active
    <3>1. PICK row \in Cycle :
            /\ cycles' = [cycles EXCEPT ![req[r].cycle] = row]
            /\ row.status = IF ChangesStatus(r) THEN req[r].status
                            ELSE cycles[req[r].cycle].status
      BY <2>2, PatchedRow
    <3>2. /\ req[r].cycle \in Existing /\ req[r].cycle \in Cycles
          /\ req[r].pc = "commit" /\ req[r].op = "patch"
      BY <2>2, PatchedRow DEF CommitPatch, Existing
    <3>3. row.status = "active" => Entered(r) \/ req[r].cycle \in Active
      BY <3>1, <3>2 DEF Entered, Activates, Active
    <3> QED BY <1>3, <3>1, <3>2, <3>3
  <2>3. ASSUME UNCHANGED cycles PROVE UNCHANGED Active
    BY <2>3 DEF Active, Existing
  <2>4. \/ \E r \in Requests : CommitStart(r) \/ CommitPatch(r)
        \/ UNCHANGED cycles
    BY DEF Next, Receive, Continue, Abort, ReceiveStart, EnterIndex, ReceivePatch, LockRow,
           ReceiveLog, CommitLog, CountLogs, ReadPage, vars
  <2> QED BY <2>1, <2>2, <2>3, <2>4
<1> QED BY <1>2, <1>4, Invariance, PTL DEF Spec, OneActive, Batch!Spec

(* r waits for a row lock or for the index. *)
Blocked(r) ==
  \/ req[r].pc = "row" /\ \E q \in Requests : LocksRow(q, req[r].cycle)
  \/ req[r].pc = "index" /\ \E q \in Requests \ {r} : HoldsIndex(q)

NotAllBlocked ==
  (\E r \in Requests : req[r].pc # "idle")
    => \E r \in Requests : req[r].pc # "idle" /\ ~Blocked(r)

(* The waits of patches and starts end: rows are locked before the index, and whoever
   holds the index only has to commit. *)
THEOREM WaitsEnd == Spec => []NotAllBlocked
<1>1. \A q \in Requests : req[q].pc = "commit" => ~Blocked(q)
  BY DEF Blocked
<1>2. ASSUME NEW q \in Requests, req[q].pc = "index"
      PROVE  ~Blocked(q) \/ \E p \in Requests : req[p].pc = "commit"
  BY <1>2 DEF Blocked, HoldsIndex
<1>3. ASSUME NEW r \in Requests, req[r].pc = "row"
      PROVE  ~Blocked(r) \/ \E q \in Requests : req[q].pc \in {"index", "commit"}
  BY <1>3 DEF Blocked, LocksRow
<1>4. \A r \in Requests : req[r].pc \notin {"row", "index"} => ~Blocked(r)
  BY DEF Blocked
<1>5. NotAllBlocked
  BY <1>1, <1>2, <1>3, <1>4 DEF NotAllBlocked
<1> QED BY <1>5, PTL

----------------------------------------------------------------------------
(* Every request has few steps *)

(* The awaits a request that stands at pc may still come to, its own included *)
Left == [idle |-> 0, commit |-> 1, rows |-> 1, index |-> 2, row |-> 3]

(* A request in flight comes nearer to its end with every step of its own, and no step of
   another one and no arrival takes it back. *)
StepsRunOut ==
  [][ \A r \in Requests : req[r].pc # "idle" =>
        /\ Left[req'[r].pc] <= Left[req[r].pc]
        /\ Continue(r) => Left[req'[r].pc] < Left[req[r].pc] ]_vars

LEMMA LeftOf ==
  /\ Left["idle"] = 0 /\ Left["commit"] = 1 /\ Left["rows"] = 1
  /\ Left["index"] = 2 /\ Left["row"] = 3
  /\ \A pc \in PCs : Left[pc] \in Nat
BY DEF Left, PCs, PCsOf, Handlers

(* r is at pc now, and the others are where they were. *)
Moves(r, pc) == req'[r].pc = pc /\ \A q \in Requests \ {r} : req'[q].pc = req[q].pc

LEMMA EndMoves ==
  ASSUME RequestsOK, NEW r \in Requests, NEW S, Reject(r) \/ Commit(r, S)
  PROVE  Moves(r, "idle")
BY DEF RequestsOK, RequestRecord, Reject, Commit, Idle, Moves

LEMMA GotoMoves ==
  ASSUME RequestsOK, NEW r \in Requests, NEW pc, Goto(r, pc)
  PROVE  Moves(r, pc)
BY DEF RequestsOK, RequestRecord, Goto, Moves

(* A step of one request moves it nearer to its end, and no other request. *)
LEMMA ContinueMoves ==
  ASSUME RequestsOK, NEW r \in Requests, Continue(r)
  PROVE  /\ Left[req'[r].pc] < Left[req[r].pc]
         /\ \A q \in Requests \ {r} : req'[q].pc = req[q].pc
<1>1. CASE LockRow(r)
  <2>1. Moves(r, "index") \/ Moves(r, "commit")
    BY <1>1, GotoMoves DEF LockRow
  <2> QED BY <1>1, <2>1, LeftOf DEF LockRow, Moves
<1>2. CASE EnterIndex(r)
  <2>1. Moves(r, "idle") \/ Moves(r, "commit")
    BY <1>2, EndMoves, GotoMoves DEF EnterIndex
  <2> QED BY <1>2, <2>1, LeftOf DEF EnterIndex, Moves
<1>3. CASE CommitStart(r) \/ CommitPatch(r) \/ CommitLog(r) \/ ReadPage(r)
  <2>1. Reject(r) \/ \E S : Commit(r, S)
    <3>1. CASE CommitStart(r) \/ CommitLog(r)
      BY <3>1, Zenon DEF CommitStart, CommitLog
    <3>2. CASE CommitPatch(r) \/ ReadPage(r)
      BY <3>2, Zenon DEF CommitPatch, ReadPage
    <3> QED BY <1>3, <3>1, <3>2
  <2>2. req[r].pc \in {"commit", "rows"}
    <3>1. CASE CommitStart(r) \/ CommitLog(r)
      BY <3>1, Zenon DEF CommitStart, CommitLog
    <3>2. CASE CommitPatch(r) \/ ReadPage(r)
      BY <3>2, Zenon DEF CommitPatch, ReadPage
    <3> QED BY <1>3, <3>1, <3>2
  <2>3. Moves(r, "idle")
    BY <2>1, EndMoves
  <2> QED BY <2>2, <2>3, LeftOf DEF Moves
<1> QED BY <1>1, <1>2, <1>3 DEF Continue

(* An arrival takes an idle place, and moves nobody else. *)
LEMMA ReceiveMoves ==
  ASSUME RequestsOK, NEW q \in Requests, Receive(q), NEW r \in Requests, req[r].pc # "idle"
  PROVE  req'[r].pc = req[r].pc
<1>1. req[q].pc = "idle" /\ \E x : req' = [req EXCEPT ![q] = x]
  <2>1. CASE ReceiveStart(q) \/ ReceivePatch(q)
    BY <2>1, Zenon DEF ReceiveStart, ReceivePatch, Arrive
  <2>2. CASE ReceiveLog(q) \/ CountLogs(q)
    BY <2>2, Zenon DEF ReceiveLog, CountLogs, Arrive
  <2> QED BY <2>1, <2>2 DEF Receive
<1> QED BY <1>1 DEF RequestsOK

(* No handler repeats a step: with WaitsEnd, requests that are in flight can all be
   finished in at most three steps each, in some order, unless new ones arrive. *)
THEOREM RequestsAreShort == Spec => StepsRunOut
<1> DEFINE Shorter == \A r \in Requests : req[r].pc # "idle" =>
                        /\ Left[req'[r].pc] <= Left[req[r].pc]
                        /\ Continue(r) => Left[req'[r].pc] < Left[req[r].pc]
<1>1. ASSUME Inv, Inv', [Next]_vars, ~UNCHANGED vars PROVE Shorter
  <2> SUFFICES ASSUME NEW r \in Requests, req[r].pc # "idle"
               PROVE  /\ Left[req'[r].pc] <= Left[req[r].pc]
                      /\ Continue(r) => Left[req'[r].pc] < Left[req[r].pc]
    OBVIOUS
  <2>1. RequestsOK /\ RequestsOK'
    BY <1>1 DEF Inv, TypeOK, RequestsOK
  <2>2. Left[req[r].pc] \in Nat /\ Left[req'[r].pc] \in Nat
    BY <2>1, LeftOf DEF RequestsOK, RequestRecord
  <2>3. Continue(r) => Left[req'[r].pc] < Left[req[r].pc]
    BY <2>1, ContinueMoves
  <2>4. CASE req'[r].pc \in {req[r].pc, "idle"}
    BY <2>2, <2>3, <2>4, LeftOf
  <2>5. CASE \E q \in Requests : Continue(q)
    <3>1. PICK q \in Requests : Continue(q)
      BY <2>5
    <3>2. CASE q = r
      BY <2>2, <2>3, <3>1, <3>2
    <3>3. CASE q # r
      BY <2>1, <2>4, <3>1, <3>3, ContinueMoves
    <3> QED BY <3>2, <3>3
  <2>6. CASE \E q \in Requests : Receive(q)
    BY <2>1, <2>4, <2>6, ReceiveMoves
  <2>7. CASE \E q \in Requests : Abort(q)
    <3>1. PICK q \in Requests : Reject(q)
      BY <2>7 DEF Abort
    <3>2. req'[r].pc \in {req[r].pc, "idle"}
      BY <2>1, <3>1, EndMoves DEF Moves
    <3> QED BY <2>4, <3>2
  <2> QED BY <1>1, <2>5, <2>6, <2>7 DEF Next
<1>2. Inv /\ [Next]_vars => [Shorter]_vars
  BY <1>1, InvNext
<1> QED BY <1>2, Invariance, PTL DEF Spec, StepsRunOut
============================================================================
