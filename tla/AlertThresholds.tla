--------------------------- MODULE AlertThresholds ---------------------------
(***************************************************************************)
(* The alert thresholds of one device: PUT /devices/{id}/config            *)
(* (app/api/v1/devices.py) writes the device_configs row and deletes the   *)
(* copy in Redis; the alert checks of the Celery workers                   *)
(* (app/workers/tasks/telemetry.py, _load_thresholds) read the copy, or    *)
(* the row and then fill the copy.                                         *)
(*                                                                         *)
(* A PUT is a coroutine with a transaction of its own: the row is flushed, *)
(* the copy deleted, and the transaction committed only after the handler  *)
(* has answered.  A check is a task of another process: nothing but        *)
(* PostgreSQL and Redis relates the two.                                   *)
(***************************************************************************)
CONSTANTS Fields,   \* the seven thresholds
          Values,   \* values a member may give one
          Null,     \* NULL: the threshold is not customised
          Default,  \* the value ALERT_THRESHOLDS has for it
          Puts,     \* slots for PUTs in flight
          Checks,   \* slots for alert checks in flight
          None      \* no row, no copy

ASSUME ValuesAssumption ==
  Null \notin Values /\ Default \notin Values /\ Null # Default

Config == [Fields -> Values \cup {Null}]
Thresholds == [Fields -> Values \cup {Default}]

ASSUME NoneAssumption == None \notin Config \cup Thresholds

Defaults == [f \in Fields |-> Default]

VARIABLES
  config,  \* the committed device_configs row, or None
  cache,   \* Redis key alert_config:{device_id}, or None
  put,     \* the PUTs in flight
  check,   \* the loads in flight
  past,    \* history: the thresholds that are or were in force
  answer   \* history: the thresholds the last load returned

vars == <<config, cache, put, check, past, answer>>

(* Fault: NULL is a threshold. *)
EffectiveWithNull(row) ==
  [f \in Fields |-> IF row = None THEN Default ELSE row[f]]

(* The thresholds a row stands for: NULL falls back to the global default. *)
Effective(row) ==
  [f \in Fields |-> IF row = None \/ row[f] = Null THEN Default ELSE row[f]]

(* seen: the row the PUT has loaded.  As history, raced: another PUT has
   committed since; refilled: the copy was filled since the PUT deleted it. *)
PutRecord ==
  [pc : {"idle", "flush", "invalidate", "commit"}, body : Config,
   seen : Config \cup {None}, raced : BOOLEAN, refilled : BOOLEAN]

(* found: the thresholds read from the row.  As history, late: a PUT has
   committed since, or the row could not be read. *)
CheckRecord ==
  [pc : {"idle", "query", "fill"}, found : Thresholds, late : BOOLEAN]

NoPut == [pc |-> "idle", body |-> [f \in Fields |-> Null], seen |-> None,
          raced |-> FALSE, refilled |-> FALSE]
NoCheck == [pc |-> "idle", found |-> Defaults, late |-> FALSE]

TypeOK ==
  /\ config \in Config \cup {None}
  /\ cache \in Thresholds \cup {None}
  /\ put \in [Puts -> PutRecord]
  /\ check \in [Checks -> CheckRecord]
  /\ past \in SUBSET Thresholds
  /\ answer \in Thresholds

Init ==
  /\ config = None
  /\ cache = None
  /\ put = [p \in Puts |-> NoPut]
  /\ check = [c \in Checks |-> NoCheck]
  /\ past = {Defaults}
  /\ answer = Defaults

----------------------------------------------------------------------------
(* PUT /{device_id}/config *)

(* The columns the flush writes: those the body changes in the loaded row *)
Dirty(p) == {f \in Fields : put[p].body[f] # put[p].seen[f]}

(* p has sent its INSERT or UPDATE and holds the key or the row. *)
Writing(p) ==
  /\ put[p].pc \in {"invalidate", "commit"}
  /\ put[p].seen = None \/ Dirty(p) # {}

(* The SELECT of the row, once the caller is known to be a member *)
LoadConfig(p) ==
  /\ put[p].pc = "idle"
  /\ \E body \in Config :
       put' = [put EXCEPT ![p] = [NoPut EXCEPT !.pc = "flush", !.body = body,
                                               !.seen = config]]
  /\ UNCHANGED <<config, cache, check, past, answer>>

(* db.flush: an INSERT or an UPDATE waits for the other one's transaction; an
   INSERT then fails if there is a row by now (device_id is unique). *)
Flush(p) ==
  /\ put[p].pc = "flush"
  /\ put[p].seen = None \/ Dirty(p) # {} => \A q \in Puts : ~Writing(q)
  /\ put' = [put EXCEPT ![p] = IF put[p].seen = None /\ config # None
                               THEN NoPut
                               ELSE [@ EXCEPT !.pc = "invalidate"]]
  /\ UNCHANGED <<config, cache, check, past, answer>>

(* Fault: the copy is replaced, not deleted. *)
WriteThrough(p) ==
  /\ put[p].pc = "invalidate"
  /\ cache' = Effective(put[p].body)
  /\ put' = [put EXCEPT ![p].pc = "commit"]
  /\ UNCHANGED <<config, check, past, answer>>

(* Fault: the copy stays. *)
KeepCopy(p) ==
  /\ put[p].pc = "invalidate"
  /\ put' = [put EXCEPT ![p].pc = "commit"]
  /\ UNCHANGED <<config, cache, check, past, answer>>

(* redis.delete, before the COMMIT *)
Invalidate(p) ==
  /\ put[p].pc = "invalidate"
  /\ cache' = None
  /\ put' = [put EXCEPT ![p].pc = "commit"]
  /\ UNCHANGED <<config, check, past, answer>>

(* Fault: a NULL of the body leaves the column alone. *)
WrittenWithoutNull(p) ==
  IF put[p].seen = None
  THEN put[p].body
  ELSE [f \in Fields |-> IF put[p].body[f] = Null THEN config[f] ELSE put[p].body[f]]

(* The row p's transaction leaves: columns it has not changed keep the value
   they have by now. *)
Written(p) ==
  IF put[p].seen = None
  THEN put[p].body
  ELSE [f \in Fields |-> IF f \in Dirty(p) THEN put[p].body[f] ELSE config[f]]

Commit(p) ==
  /\ put[p].pc = "commit"
  /\ config' = Written(p)
  /\ past' = past \cup {Effective(config')}
  /\ put' = [q \in Puts |-> IF q = p THEN NoPut
                            ELSE IF put[q].pc = "idle" THEN put[q]
                            ELSE [put[q] EXCEPT !.raced = TRUE]]
  /\ check' = [c \in Checks |-> IF check[c].pc = "fill"
                                THEN [check[c] EXCEPT !.late = TRUE]
                                ELSE check[c]]
  /\ UNCHANGED <<cache, answer>>

(* The request fails or the process dies: rolled back, but Redis is not. *)
AbortPut(p) ==
  /\ put[p].pc # "idle"
  /\ put' = [put EXCEPT ![p] = NoPut]
  /\ UNCHANGED <<config, cache, check, past, answer>>

----------------------------------------------------------------------------
(* _load_thresholds, in a worker *)

(* The cached copy is the answer. *)
Hit(c) ==
  /\ check[c].pc = "idle"
  /\ cache # None
  /\ answer' = cache
  /\ UNCHANGED <<config, cache, put, check, past>>

(* No copy, or Redis cannot be reached *)
Miss(c) ==
  /\ check[c].pc = "idle"
  /\ check' = [check EXCEPT ![c].pc = "query"]
  /\ UNCHANGED <<config, cache, put, past, answer>>

Found(c, thresholds, late) ==
  /\ check[c].pc = "query"
  /\ check' = [check EXCEPT ![c] = [pc |-> "fill", found |-> thresholds, late |-> late]]
  /\ UNCHANGED <<config, cache, put, past, answer>>

Query(c) == Found(c, Effective(config), FALSE)

(* Any exception of the query: the check goes on with the global defaults. *)
QueryFails(c) == Found(c, Defaults, TRUE)

Finish(c) ==
  /\ check[c].pc = "fill"
  /\ answer' = check[c].found
  /\ check' = [check EXCEPT ![c] = NoCheck]

(* r.setex, of whatever the query has found or failed to find *)
Fill(c) ==
  /\ Finish(c)
  /\ cache' = check[c].found
  /\ put' = [p \in Puts |-> IF put[p].pc = "commit"
                            THEN [put[p] EXCEPT !.refilled = TRUE]
                            ELSE put[p]]
  /\ UNCHANGED <<config, past>>

(* A failure of r.setex is ignored. *)
FillFails(c) ==
  /\ Finish(c)
  /\ UNCHANGED <<config, cache, put, past>>

(* The worker is killed; the task is delivered again as another check. *)
AbortCheck(c) ==
  /\ check[c].pc # "idle"
  /\ check' = [check EXCEPT ![c] = NoCheck]
  /\ UNCHANGED <<config, cache, put, past, answer>>

(* Fault: the copy is stored without a time to live. *)
NeverExpire == FALSE /\ UNCHANGED vars

(* The time to live (300 s) of the copy is over. *)
Expire ==
  /\ cache # None
  /\ cache' = None
  /\ UNCHANGED <<config, put, check, past, answer>>

----------------------------------------------------------------------------
(* Specification *)

ContinuePut(p) == Flush(p) \/ Invalidate(p) \/ Commit(p)

ContinueCheck(c) == Query(c) \/ QueryFails(c) \/ Fill(c) \/ FillFails(c)

Next ==
  \/ Expire
  \/ \E p \in Puts : LoadConfig(p) \/ ContinuePut(p) \/ AbortPut(p)
  \/ \E c \in Checks : Hit(c) \/ Miss(c) \/ ContinueCheck(c) \/ AbortCheck(c)

Spec == Init /\ [][Next]_vars

(* Requests and tasks that were started go on, and Redis drops keys whose time
   is over.  Nothing obliges a member to call or a reading to arrive. *)
FairSpec ==
  /\ Spec
  /\ WF_vars(Expire)
  /\ \A p \in Puts : WF_vars(ContinuePut(p))
  /\ \A c \in Checks : WF_vars(ContinueCheck(c))

----------------------------------------------------------------------------
(* Properties *)

(* The checks use thresholds that are or were in force: what a PUT that fails
   has written is never seen, and no two PUTs are mixed in the copy. *)
Register == INSTANCE ThresholdRegister WITH current <- Effective(config)
RegisterSpec == Register!Spec

(* The copy disagrees with the row. *)
Stale == cache # None /\ cache # Effective(config)

(* The copy becomes stale in two ways only: by the COMMIT of a PUT after whose
   deletion a check has filled it again, and by a check that had read the row
   before a PUT's COMMIT, or could not read it. *)
StaleOnlyByRace ==
  [][ ~Stale /\ Stale' =>
        \/ \E p \in Puts : Commit(p) /\ put[p].refilled
        \/ \E c \in Checks : Fill(c) /\ check[c].late ]_vars

(* A PUT leaves the row its body describes, unless another PUT has committed
   since it loaded the row: then the row may be a mix of the two. *)
MixedOnlyByRace ==
  [][ \A p \in Puts : Commit(p) /\ config' # put[p].body => put[p].raced ]_vars

(* Once PUTs no longer commit and the row can be read, the copy is fresh for
   good: a stale copy does not outlive its time to live. *)
EventuallyFresh ==
  <>[][\A p \in Puts : ~Commit(p)]_vars /\ <>[][\A c \in Checks : ~QueryFails(c)]_vars
    => <>[]~Stale

(* devices.py:398 "Upsert per-device alert thresholds and invalidate the
   worker's cache.": when a PUT has committed, no stale copy is left. *)
PutInvalidatesCopy == [][ \A p \in Puts : Commit(p) => ~Stale' ]_vars
==============================================================================
