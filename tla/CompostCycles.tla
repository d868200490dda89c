--------------------------- MODULE CompostCycles ---------------------------
(***************************************************************************)
(* The compost cycles and waste logs of one device: app/api/v1/cycles.py   *)
(* and waste.py over the tables compost_cycles and waste_logs.             *)
(*                                                                         *)
(* Requests are transactions as in module Devices.  Every handler checks   *)
(* the caller's membership first, which is module Devices' concern: the    *)
(* requests here are those that have passed.  Labels, notes, the kind and  *)
(* the weight of the material are left out, and of ended_at only whether   *)
(* it is set is kept.                                                      *)
(***************************************************************************)
EXTENDS Integers, FiniteSets

CONSTANTS Cycles,     \* ids of compost_cycles rows
          Logs,       \* ids of waste_logs rows
          Times,      \* logged_at: the body's, or the time of the request
          Limit,      \* the page size of a listing
          Requests,   \* slots for requests in flight (bounds concurrency)
          Scenarios,  \* sets of handlers: the clients of a behaviour call one set
          None        \* no row, no cycle, no status

Handlers == {"start", "patch", "log", "list"}
Statuses == {"active", "curing", "completed"}

ASSUME ScenariosAssumption == Scenarios \subseteq SUBSET Handlers
ASSUME TimesAssumption == Times \subseteq Int /\ Times # {}
ASSUME LimitAssumption == Limit \in Nat \ {0}
ASSUME FiniteAssumption == IsFiniteSet(Cycles) /\ IsFiniteSet(Logs)
ASSUME NoneAssumption == None \notin Cycles \cup Logs \cup Statuses

VARIABLES
  cycles,   \* the committed compost_cycles rows
  logs,     \* the committed waste_logs rows
  req,      \* the requests in flight
  reader,   \* the client that lists the waste logs page by page
  clients   \* the handlers the clients of this behaviour call

vars == <<cycles, logs, req, reader, clients>>

Cycle == [status : Statuses, ended : BOOLEAN]
Log == [cycle : Cycles \cup {None}, at : Times]

ASSUME NoRowAssumption == None \notin Cycle \cup Log

(* Where a request of a handler can stand: its awaits *)
PCsOf == [none  |-> {"idle"},
          start |-> {"index", "commit"},
          patch |-> {"row", "index", "commit"},
          log   |-> {"commit"},
          list  |-> {"rows"}]
PCs == UNION {PCsOf[h] : h \in Handlers \cup {"none"}}

(***************************************************************************)
(* A request: its handler, where it stands, the cycle it is about, the row *)
(* it has loaded (seen), the body's status and whether it has an ended_at, *)
(* a log's time and whether its cycle was left to the server (default).    *)
(* As history, overtaken: the active cycle, or for a listing the logs,     *)
(* have changed since its first SELECT.                                    *)
(***************************************************************************)
RequestRecord ==
  [op : Handlers \cup {"none"}, pc : PCs, cycle : Cycles \cup {None},
   seen : Cycle \cup {None}, status : Statuses \cup {None}, ended : BOOLEAN,
   at : Times \cup {None}, default : BOOLEAN, overtaken : BOOLEAN]

Idle == [op |-> "none", pc |-> "idle", cycle |-> None, seen |-> None,
         status |-> None, ended |-> FALSE, at |-> None, default |-> FALSE,
         overtaken |-> FALSE]

(* The client asks for pages until it has passed the total of the last answer.
   As history: the logs there were when it began, and whether a listing was
   overtaken between its two statements. *)
Reader == [offset : Nat, total : Nat, seen : SUBSET Logs, began : SUBSET Logs,
           raced : BOOLEAN, finished : BOOLEAN]

NewReader == [offset |-> 0, total |-> 0, seen |-> {}, began |-> {},
              raced |-> FALSE, finished |-> FALSE]

TypeOK ==
  /\ cycles \in [Cycles -> Cycle \cup {None}]
  /\ logs \in [Logs -> Log \cup {None}]
  /\ req \in [Requests -> RequestRecord]
  /\ \A r \in Requests : req[r].pc \in PCsOf[req[r].op]
  /\ reader \in Reader
  /\ clients \in Scenarios

(* _load_cycle_with_access and the SELECT of a log's cycle find these; all are of
   the one device. *)
Existing == {c \in Cycles : cycles[c] # None}

Active == {c \in Existing : cycles[c].status = "active"}

(* A completed batch has an end, although a patch decides from the row it has
   loaded and another may have written the row since. *)
CompletedHasEnd ==
  \A c \in Existing : cycles[c].status = "completed" => cycles[c].ended

(* The device may have had batches already. *)
Init ==
  /\ cycles \in [Cycles -> Cycle \cup {None}]
  /\ Cardinality(Active) <= 1
  /\ CompletedHasEnd
  /\ logs = [l \in Logs |-> None]
  /\ req = [r \in Requests |-> Idle]
  /\ reader = NewReader
  /\ clients \in Scenarios

----------------------------------------------------------------------------
(* Requests and transactions *)

Goto(r, pc) == req' = [req EXCEPT ![r].pc = pc]

(* An HTTPException or a database error: get_db rolls back. *)
Reject(r) == req' = [req EXCEPT ![r] = Idle]

Arrive(r, handler) == handler \in clients /\ req[r].pc = "idle"

(* COMMIT.  As history, the others are told what it may have made out of date. *)
Commit(r, overtakes) ==
  req' = [q \in Requests |->
            IF q = r THEN Idle
            ELSE IF req[q].op \in overtakes THEN [req[q] EXCEPT !.overtaken = TRUE]
                 ELSE req[q]]

(* Fault: a body without a status is taken for one. *)
ChangesStatusAlways(r) == req[r].status # req[r].seen.status

(* The UPDATE of r sets the status column: only a change of the row loaded does. *)
ChangesStatus(r) == req[r].status \notin {None, req[r].seen.status}

Activates(r) == \/ req[r].op = "start"
                \/ req[r].op = "patch" /\ ChangesStatus(r) /\ req[r].status = "active"

(* r has put an entry into the partial unique index, or has taken one out. *)
HoldsIndex(r) ==
  /\ req[r].pc = "commit"
  /\ \/ Activates(r)
     \/ /\ req[r].op = "patch" /\ ChangesStatus(r)
        /\ cycles[req[r].cycle].status = "active"

(* r has the row lock of c. *)
LocksRow(r, c) ==
  req[r].op = "patch" /\ req[r].pc \in {"index", "commit"} /\ req[r].cycle = c

----------------------------------------------------------------------------
(* POST /devices/{device_id}/cycles *)

Unused(c) == cycles[c] = None /\ \A q \in Requests : req[q].op = "start" => req[q].cycle # c

(* 409 when a cycle is active; the id is drawn here.  (Bound: ids run out.) *)
ReceiveStart(r) ==
  /\ Arrive(r, "start")
  /\ Active = {}
  /\ \E c \in Cycles :
       /\ Unused(c)
       /\ req' = [req EXCEPT ![r] = [Idle EXCEPT !.op = "start", !.pc = "index",
                                               !.cycle = c]]
  /\ UNCHANGED <<cycles, logs, reader, clients>>

(* Faults: the check of the handler without the index behind it; an insertion
   that waits for those that wait *)
EnterIndexAlways(r) ==
  /\ req[r].pc = "index"
  /\ Goto(r, "commit")
  /\ UNCHANGED <<cycles, logs, reader, clients>>

EnterIndexAfterWaiters(r) ==
  /\ req[r].pc = "index"
  /\ \A q \in Requests \ {r} : ~HoldsIndex(q) /\ req[q].pc # "index"
  /\ IF Active \subseteq {req[r].cycle} THEN Goto(r, "commit") ELSE Reject(r)
  /\ UNCHANGED <<cycles, logs, reader, clients>>

(* uq_compost_cycles_one_active_per_device: the statement waits for transactions
   that have changed the index, and fails if another cycle is active. *)
EnterIndex(r) ==
  /\ req[r].pc = "index"
  /\ \A q \in Requests \ {r} : ~HoldsIndex(q)
  /\ IF Active \subseteq {req[r].cycle} THEN Goto(r, "commit") ELSE Reject(r)
  /\ UNCHANGED <<cycles, logs, reader, clients>>

CommitStart(r) ==
  /\ req[r].op = "start" /\ req[r].pc = "commit"
  /\ cycles' = [cycles EXCEPT ![req[r].cycle] = [status |-> "active", ended |-> FALSE]]
  /\ Commit(r, {"log"})
  /\ UNCHANGED <<logs, reader, clients>>

----------------------------------------------------------------------------
(* PATCH /cycles/{cycle_id} *)

(* Any status may follow any other; a body without status or ended_at only
   annotates the batch. *)
ReceivePatch(r) ==
  /\ Arrive(r, "patch")
  /\ \E c \in Existing, s \in Statuses \cup {None}, e \in BOOLEAN :
       req' = [req EXCEPT ![r] = [Idle EXCEPT !.op = "patch", !.pc = "row",
                                               !.cycle = c, !.seen = cycles[c],
                                               !.status = s, !.ended = e]]
  /\ UNCHANGED <<cycles, logs, reader, clients>>

(* UPDATE waits for the row lock. *)
LockRow(r) ==
  /\ req[r].pc = "row"
  /\ \A q \in Requests : ~LocksRow(q, req[r].cycle)
  /\ Goto(r, IF Activates(r) THEN "index" ELSE "commit")
  /\ UNCHANGED <<cycles, logs, reader, clients>>

(* Fault: only an active batch is stamped when it is completed. *)
StampsEndOfActive(r) ==
  req[r].ended \/ (req[r].status = "completed" /\ req[r].seen.status = "active")

(* ended_at is the body's, or now when the batch is completed and the row loaded
   had none. *)
StampsEnd(r) ==
  req[r].ended \/ (ChangesStatus(r) /\ req[r].status = "completed" /\ ~req[r].seen.ended)

(* Only the columns that differ from the row loaded are written. *)
CommitPatch(r) ==
  /\ req[r].op = "patch" /\ req[r].pc = "commit"
  /\ cycles' = [cycles EXCEPT ![req[r].cycle] =
                  [status |-> IF ChangesStatus(r) THEN req[r].status ELSE @.status,
                   ended |-> @.ended \/ StampsEnd(r)]]
  /\ Commit(r, IF ChangesStatus(r) THEN {"log"} ELSE {})
  /\ UNCHANGED <<logs, reader, clients>>

----------------------------------------------------------------------------
(* POST /devices/{device_id}/waste-logs *)

(* Fault: the default is any cycle that is not completed. *)
DefaultCycleUnfinished ==
  {c \in Existing : cycles[c].status # "completed"}

(* The cycles a log may belong to by default: the active one, if any *)
DefaultCycle == Active

Stored == {l \in Logs : logs[l] # None}

(* Bound of the model: the code never runs out of ids. *)
LogLeft ==
  Cardinality(Stored) + Cardinality({q \in Requests : req[q].op = "log"}) < Cardinality(Logs)

(* Bound of the model: times are of interest to listings only. *)
LogTimes == IF "list" \in clients THEN Times ELSE {CHOOSE t \in Times : TRUE}

(* The SELECT of the cycle named, which exists, or of the active one *)
ReceiveLog(r) ==
  /\ Arrive(r, "log") /\ LogLeft
  /\ \E t \in LogTimes, c \in Cycles \cup {None}, default \in BOOLEAN :
       /\ IF default
          THEN IF DefaultCycle = {} THEN c = None ELSE c \in DefaultCycle
          ELSE c \in Existing
       /\ req' = [req EXCEPT ![r] = [Idle EXCEPT !.op = "log", !.pc = "commit",
                                       !.cycle = c, !.at = t, !.default = default]]
  /\ UNCHANGED <<cycles, logs, reader, clients>>

(* The INSERT's foreign key waits for nobody: no cycle is deleted, and status is
   not part of its key. *)
CommitLog(r) ==
  /\ req[r].op = "log" /\ req[r].pc = "commit"
  /\ \E l \in Logs \ Stored :
       logs' = [logs EXCEPT ![l] = [cycle |-> req[r].cycle, at |-> req[r].at]]
  /\ Commit(r, {"list"})
  /\ UNCHANGED <<cycles, reader, clients>>

----------------------------------------------------------------------------
(* GET /devices/{device_id}/waste-logs, and the client that turns its pages *)

(* The first statement: SELECT count( * ) *)
CountLogs(r) ==
  /\ Arrive(r, "list")
  /\ ~reader.finished
  /\ \A q \in Requests : req[q].op # "list"
  /\ req' = [req EXCEPT ![r] = [Idle EXCEPT !.op = "list", !.pc = "rows"]]
  /\ reader' = [reader EXCEPT !.total = Cardinality(Stored),
                              !.began = IF reader.offset = 0 THEN Stored ELSE @]
  /\ UNCHANGED <<cycles, logs, clients>>

(* The entries at positions offset + 1 to offset + Limit of an ordering: those
   with fewer than offset + Limit others before them, but at least offset. *)
Before(place, l) == Cardinality({k \in Stored : place[k] < place[l]})
Page(place, offset) ==
  {l \in Stored : Before(place, l) \in offset .. (offset + Limit - 1)}

(* Fault: no ORDER BY *)
AnyOrder ==
  {place \in [Stored -> 1 .. Cardinality(Stored)] :
     \A k, l \in Stored : k # l => place[k] # place[l]}

(* ORDER BY logged_at DESC: equal times in any order, another for each query *)
NewestFirst ==
  {place \in [Stored -> 1 .. Cardinality(Stored)] :
     \A k, l \in Stored : k # l =>
       /\ place[k] # place[l]
       /\ logs[k].at > logs[l].at => place[k] < place[l]}

(* The second statement, and the client's next move *)
ReadPage(r) ==
  /\ req[r].op = "list" /\ req[r].pc = "rows"
  /\ \E place \in NewestFirst :
       reader' = [reader EXCEPT !.seen = @ \cup Page(place, reader.offset),
                                !.offset = @ + Limit,
                                !.raced = @ \/ req[r].overtaken,
                                !.finished = reader.offset + Limit >= reader.total]
  /\ Reject(r)
  /\ UNCHANGED <<cycles, logs, clients>>

----------------------------------------------------------------------------
(* Specification *)

Receive(r) == \/ ReceiveStart(r)
              \/ ReceivePatch(r)
              \/ ReceiveLog(r)
              \/ CountLogs(r)

Continue(r) == \/ EnterIndex(r)
               \/ CommitStart(r)
               \/ LockRow(r)
               \/ CommitPatch(r)
               \/ CommitLog(r)
               \/ ReadPage(r)

(* The process dies, or PostgreSQL fails: a rollback.  So does a patch whose response
   cannot be read from the row it has flushed. *)
Abort(r) ==
  /\ req[r].pc # "idle"
  /\ Reject(r)
  /\ UNCHANGED <<cycles, logs, reader, clients>>

Next == \E r \in Requests : Receive(r) \/ Continue(r) \/ Abort(r)

Spec == Init /\ [][Next]_vars

----------------------------------------------------------------------------
(* Properties *)

(* Whatever start and patch requests overlap, a batch becomes active only while
   no other one is (cycles.py, "at most one 'active' cycle per device"). *)
Batch == INSTANCE OneActiveBatch WITH active <- Active
OneActive == Batch!Spec

(* A log that names no cycle is the active one's when it is committed, unless
   the active cycle has changed since it was looked up (waste.py). *)
AttributedElsewhereOnlyByRace ==
  [][ \A r \in Requests :
        CommitLog(r) /\ req[r].default /\ ~req[r].overtaken =>
          Active = {req[r].cycle} \ {None} ]_vars

Tied == \E k, l \in Stored : k # l /\ logs[k].at = logs[l].at

(* A client that turns the pages until it has passed the total has seen every
   log there was when it began, unless two logs have equal times or one was
   committed between a listing's count and its rows. *)
MissedOnlyByRace ==
  reader.finished => reader.began \subseteq reader.seen \/ Tied \/ reader.raced

(* Transactions that wait for row locks and index entries never wait for each
   other: one of those in flight can always go on. *)
SomeoneContinues ==
  (\E r \in Requests : req[r].pc # "idle")
    => \E r \in Requests : req[r].pc # "idle" /\ ENABLED Continue(r)

=============================================================================
