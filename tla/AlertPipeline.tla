--------------------------- MODULE AlertPipeline ---------------------------
(***************************************************************************)
(* From a device's message to the members' phones: the MQTT listener       *)
(* (Ingestion) and the Celery workers (AlertChecks) share nothing but the  *)
(* queue of alert checks.                                                  *)
(***************************************************************************)
EXTENDS Naturals

CONSTANTS Times, Versions, Slots, Users, Workers, MaxRetries, MaxRepeats, None

VARIABLES readings, firmware, ingest, unchecked,               \* the listener's
          queue,                                               \* shared
          pushes, worker, events, sent, verdict, gaveUp, repeats  \* the workers'

listenerVars == <<readings, firmware, ingest, unchecked>>
celeryVars == <<pushes, worker, events, sent, verdict, gaveUp, repeats>>
vars == <<listenerVars, queue, celeryVars>>

Listener == INSTANCE Ingestion
Celery == INSTANCE AlertChecks

ASSUME RetriesAssumption == MaxRetries \in Nat
ASSUME RepeatsAssumption == MaxRepeats \in Nat
ASSUME NoVerdictAssumption == None \notin Celery!Verdict

TypeOK == Listener!TypeOK /\ Celery!TypeOK

Init == Listener!Init /\ Celery!Init

Next ==
  \/ Listener!Next /\ UNCHANGED celeryVars
  \/ Celery!Next /\ UNCHANGED listenerVars

Spec == Init /\ [][Next]_vars

(* The event loop resumes its coroutines; a worker that is free takes a message
   if there is one, and goes on with a task it has taken.  Nothing obliges a
   device to publish, and no failure has to happen. *)
FairSpec ==
  /\ Spec
  /\ \A s \in Slots : WF_vars(Listener!Continue(s) /\ UNCHANGED celeryVars)
  /\ \A w \in Workers : /\ WF_vars(Celery!Take(w) /\ UNCHANGED listenerVars)
                        /\ WF_vars(Celery!Work(w) /\ UNCHANGED listenerVars)

----------------------------------------------------------------------------
(* Properties *)

CheckOf(t) == IF ~Listener!Stored(t) THEN "none"
              ELSE IF t \in unchecked THEN "excused"
              ELSE IF verdict[t] # None THEN "made" ELSE "due"

(* A push about t to u waits or is being sent. *)
Owes(t, u) ==
  \/ \E n \in 0 .. MaxRetries : pushes[t][u][n] > 0
  \/ \E w \in Workers : /\ worker[w].pc \in {"send", "retry"}
                       /\ worker[w].reading = t /\ worker[w].user = u

Check == [t \in Times |-> CheckOf(t)]
Owed == {p \in Times \X Users : Owes(p[1], p[2])}

Promise == INSTANCE AlertPromise WITH check <- Check, owed <- Owed

(* Alarms are kept in order from the COMMIT of a reading (mqtt.py) to FCM's answer
   (workers/tasks): only a stored reading is checked, the check or its excuse comes
   once, a dispatched push ends only with its member notified or itself given up,
   and nothing is done again without a repetition. *)
PromiseSpec == Promise!Spec

(* One batch of alert events and one notification per member and reading, and one
   more for each message delivered again and each answer of FCM that was lost: a
   reading that the device publishes twice is checked once. *)
RepeatedOnlyByRedelivery ==
  \A t \in Times :
    /\ events[t] <= 1 + repeats[t]
    /\ \A u \in Users : sent[t][u] <= 1 + repeats[t]

(* No coroutine, message or worker is left that is concerned with t. *)
Settled(t) ==
  /\ \A s \in Slots : ingest[s].pc = "enqueue" => ingest[s].time # t
  /\ queue[t] = 0
  /\ \A u \in Users, n \in 0 .. MaxRetries : pushes[t][u][n] = 0
  /\ \A w \in Workers : worker[w].reading # t

(* However often workers are lost: a stored reading whose check was enqueued has
   been checked to the end, the alert events it reports as recorded are there,
   and every member it has dispatched a push to was notified or given up on. *)
NothingLost ==
  \A t \in Times :
    Listener!Stored(t) /\ t \notin unchecked /\ Settled(t) =>
      /\ verdict[t] # None
      /\ verdict[t].recorded => events[t] > 0
      /\ \A u \in verdict[t].reached : sent[t][u] > 0 \/ <<t, u>> \in gaveUp

(* Every alert comes to an end: retries are bounded and no message stays behind. *)
AlarmsEnd == \A t \in Times : Listener!Stored(t) ~> Settled(t)

(* alert_event.py:4 "Persists every threshold breach to the database for audit":
   an acknowledged check that has found a breach has recorded it. *)
BreachesArePersisted ==
  \A t \in Times : verdict[t] # None /\ verdict[t].breach => events[t] > 0
============================================================================
