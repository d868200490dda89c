---------------------------- MODULE AlertChecks ----------------------------
(***************************************************************************)
(* The Celery workers (app/workers/tasks) checking the readings of one     *)
(* device: telemetry.process_alert_check and notifications.send_push.      *)
(*                                                                         *)
(* Tasks are acknowledged late (celery_app.py): a worker holds the message *)
(* of its task until the task has ended, and a message whose worker is     *)
(* lost is delivered again, whatever the task has done by then.  What a    *)
(* check makes of a reading depends on the thresholds that it loads        *)
(* (AlertThresholds); here it finds a breach or none.                      *)
(***************************************************************************)
EXTENDS Naturals

CONSTANTS Times,       \* readings
          Users,       \* accounts that may get a push
          Workers,     \* worker processes
          MaxRetries,  \* max_retries of send_push
          MaxRepeats,  \* bound of the model: repetitions for one reading
          None         \* no reading, no user, no verdict

VARIABLES
  queue,    \* check messages waiting, by reading
  pushes,   \* push messages waiting, by reading, user and retries so far
  worker,   \* what each worker is doing
  events,   \* committed batches of alert_events rows, by reading
  sent,     \* notifications FCM has accepted, by reading and user
  verdict,  \* history: what the acknowledged check of a reading has done
  gaveUp,   \* history: pushes that ended without FCM accepting them
  repeats   \* history: redeliveries, and sends whose answer was lost

vars == <<queue, pushes, worker, events, sent, verdict, gaveUp, repeats>>

(* recorded: the alert events were committed.  reached: the members a push was
   dispatched to. *)
Verdict == [breach : BOOLEAN, recorded : BOOLEAN, reached : SUBSET Users]
NoBreach == [breach |-> FALSE, recorded |-> FALSE, reached |-> {}]

CheckPCs == {"evaluate", "persist", "select", "dispatch"}
PushPCs == {"send", "retry", "acknowledge"}

(* todo: the members left to dispatch to; done: what the check has done so far *)
Task == [pc : {"idle"} \cup CheckPCs \cup PushPCs, reading : Times \cup {None},
         user : Users \cup {None}, retries : 0 .. MaxRetries,
         todo : SUBSET Users, done : Verdict]

NoTask == [pc |-> "idle", reading |-> None, user |-> None, retries |-> 0,
           todo |-> {}, done |-> NoBreach]

TypeOK ==
  /\ queue \in [Times -> Nat]
  /\ pushes \in [Times -> [Users -> [0 .. MaxRetries -> Nat]]]
  /\ worker \in [Workers -> Task]
  /\ events \in [Times -> Nat]
  /\ sent \in [Times -> [Users -> Nat]]
  /\ verdict \in [Times -> Verdict \cup {None}]
  /\ gaveUp \in SUBSET (Times \X Users)
  /\ repeats \in [Times -> 0 .. MaxRepeats]

Init ==
  /\ queue = [t \in Times |-> 0]
  /\ pushes = [t \in Times |-> [u \in Users |-> [n \in 0 .. MaxRetries |-> 0]]]
  /\ worker = [w \in Workers |-> NoTask]
  /\ events = [t \in Times |-> 0]
  /\ sent = [t \in Times |-> [u \in Users |-> 0]]
  /\ verdict = [t \in Times |-> None]
  /\ gaveUp = {}
  /\ repeats = [t \in Times |-> 0]

----------------------------------------------------------------------------
(* process_telemetry_alert_check *)

(* Fault: a message is taken that is not there. *)
TakeAnyCheck(w) ==
  /\ worker[w].pc = "idle"
  /\ \E t \in Times :
       /\ queue' = [queue EXCEPT ![t] = @ - 1]
       /\ worker' = [worker EXCEPT ![w] = [NoTask EXCEPT !.pc = "evaluate", !.reading = t]]
  /\ UNCHANGED <<pushes, events, sent, verdict, gaveUp, repeats>>

TakeCheck(w) ==
  /\ worker[w].pc = "idle"
  /\ \E t \in Times :
       /\ queue[t] > 0
       /\ queue' = [queue EXCEPT ![t] = @ - 1]
       /\ worker' = [worker EXCEPT ![w] = [NoTask EXCEPT !.pc = "evaluate", !.reading = t]]
  /\ UNCHANGED <<pushes, events, sent, verdict, gaveUp, repeats>>

(* _load_thresholds and _evaluate: without a breach there is nothing to do. *)
Evaluate(w) ==
  /\ worker[w].pc = "evaluate"
  /\ \/ worker' = [worker EXCEPT ![w].pc = "dispatch"]
     \/ worker' = [worker EXCEPT ![w].pc = "persist", ![w].done.breach = TRUE]
  /\ UNCHANGED <<queue, pushes, events, sent, verdict, gaveUp, repeats>>

(* _persist_alerts: the events of all metrics in one transaction *)
Persist(w) ==
  /\ worker[w].pc = "persist"
  /\ events' = [events EXCEPT ![worker[w].reading] = @ + 1]
  /\ worker' = [worker EXCEPT ![w].pc = "select", ![w].done.recorded = TRUE]
  /\ UNCHANGED <<queue, pushes, sent, verdict, gaveUp, repeats>>

(* A failure is logged and the check goes on. *)
PersistFails(w) ==
  /\ worker[w].pc = "persist"
  /\ worker' = [worker EXCEPT ![w].pc = "select"]
  /\ UNCHANGED <<queue, pushes, events, sent, verdict, gaveUp, repeats>>

(* The members that have a push token now; none if the query fails *)
SelectMembers(w) ==
  /\ worker[w].pc = "select"
  /\ \E members \in SUBSET Users :
       worker' = [worker EXCEPT ![w].pc = "dispatch", ![w].todo = members]
  /\ UNCHANGED <<queue, pushes, events, sent, verdict, gaveUp, repeats>>

DispatchPush(w) ==
  /\ worker[w].pc = "dispatch"
  /\ \E u \in worker[w].todo :
       /\ pushes' = [pushes EXCEPT ![worker[w].reading][u][0] = @ + 1]
       /\ worker' = [worker EXCEPT ![w].todo = @ \ {u}, ![w].done.reached = @ \cup {u}]
  /\ UNCHANGED <<queue, events, sent, verdict, gaveUp, repeats>>

(* apply_async fails: the members that are left get nothing. *)
DispatchFails(w) ==
  /\ worker[w].pc = "dispatch"
  /\ worker[w].todo # {}
  /\ worker' = [worker EXCEPT ![w].todo = {}]
  /\ UNCHANGED <<queue, pushes, events, sent, verdict, gaveUp, repeats>>

(* The task has returned: its message is acknowledged. *)
AcknowledgeCheck(w) ==
  /\ worker[w].pc = "dispatch"
  /\ worker[w].todo = {}
  /\ verdict' = [verdict EXCEPT ![worker[w].reading] = worker[w].done]
  /\ worker' = [worker EXCEPT ![w] = NoTask]
  /\ UNCHANGED <<queue, pushes, events, sent, gaveUp, repeats>>

----------------------------------------------------------------------------
(* send_push_notification *)

TakePush(w) ==
  /\ worker[w].pc = "idle"
  /\ \E t \in Times, u \in Users, n \in 0 .. MaxRetries :
       /\ pushes[t][u][n] > 0
       /\ pushes' = [pushes EXCEPT ![t][u][n] = @ - 1]
       /\ worker' = [worker EXCEPT ![w] = [NoTask EXCEPT !.pc = "send", !.reading = t,
                                                         !.user = u, !.retries = n]]
  /\ UNCHANGED <<queue, events, sent, verdict, gaveUp, repeats>>

Accept(w) == sent' = [sent EXCEPT ![worker[w].reading][worker[w].user] = @ + 1]

SendSucceeds(w) ==
  /\ worker[w].pc = "send"
  /\ Accept(w)
  /\ worker' = [worker EXCEPT ![w].pc = "acknowledge"]
  /\ UNCHANGED <<queue, pushes, events, verdict, gaveUp, repeats>>

GiveUp(w) == gaveUp' = gaveUp \cup {<<worker[w].reading, worker[w].user>>}

(* A permanent error, or no Firebase credentials *)
SendRejected(w) ==
  /\ worker[w].pc = "send"
  /\ GiveUp(w)
  /\ worker' = [worker EXCEPT ![w].pc = "acknowledge"]
  /\ UNCHANGED <<queue, pushes, events, sent, verdict, repeats>>

(* self.retry, or the exception once the retries are used up *)
RetryOrGiveUp(w) ==
  IF worker[w].retries < MaxRetries
  THEN worker' = [worker EXCEPT ![w].pc = "retry"] /\ UNCHANGED gaveUp
  ELSE worker' = [worker EXCEPT ![w].pc = "acknowledge"] /\ GiveUp(w)

(* Any other error of the send *)
SendFails(w) ==
  /\ worker[w].pc = "send"
  /\ RetryOrGiveUp(w)
  /\ UNCHANGED <<queue, pushes, events, sent, verdict, repeats>>

Repeat(t) ==
  /\ repeats[t] < MaxRepeats
  /\ repeats' = [repeats EXCEPT ![t] = @ + 1]

(* FCM has accepted the notification, but its answer is lost. *)
AnswerLost(w) ==
  /\ worker[w].pc = "send"
  /\ Accept(w)
  /\ Repeat(worker[w].reading)
  /\ RetryOrGiveUp(w)
  /\ UNCHANGED <<queue, pushes, events, verdict>>

Publish(t, u, n) == pushes' = [pushes EXCEPT ![t][u][n] = @ + 1]

(* Fault: a retry that is not counted *)
PublishUncounted(w) ==
  /\ worker[w].pc = "retry"
  /\ Publish(worker[w].reading, worker[w].user, worker[w].retries)
  /\ worker' = [worker EXCEPT ![w].pc = "acknowledge"]
  /\ UNCHANGED <<queue, events, sent, verdict, gaveUp, repeats>>

(* The retry is a new message; the one it replaces is acknowledged after it. *)
PublishRetry(w) ==
  /\ worker[w].pc = "retry"
  /\ Publish(worker[w].reading, worker[w].user, worker[w].retries + 1)
  /\ worker' = [worker EXCEPT ![w].pc = "acknowledge"]
  /\ UNCHANGED <<queue, events, sent, verdict, gaveUp, repeats>>

(* Celery cannot publish the retry: it rejects the message, which is not requeued. *)
RetryFails(w) ==
  /\ worker[w].pc = "retry"
  /\ GiveUp(w)
  /\ worker' = [worker EXCEPT ![w].pc = "acknowledge"]
  /\ UNCHANGED <<queue, pushes, events, sent, verdict, repeats>>

AcknowledgePush(w) ==
  /\ worker[w].pc = "acknowledge"
  /\ worker' = [worker EXCEPT ![w] = NoTask]
  /\ UNCHANGED <<queue, pushes, events, sent, verdict, gaveUp, repeats>>

----------------------------------------------------------------------------
(* Fault: messages are acknowledged when they are taken. *)
LoseMessage(w) ==
  /\ worker[w].pc # "idle"
  /\ Repeat(worker[w].reading)
  /\ worker' = [worker EXCEPT ![w] = NoTask]
  /\ UNCHANGED <<queue, pushes, events, sent, verdict, gaveUp>>

(* The worker process is killed: its message goes back to the queue. *)
LoseWorker(w) ==
  /\ worker[w].pc # "idle"
  /\ Repeat(worker[w].reading)
  /\ LET task == worker[w]
     IN IF task.pc \in CheckPCs
        THEN /\ queue' = [queue EXCEPT ![task.reading] = @ + 1]
             /\ UNCHANGED pushes
        ELSE /\ Publish(task.reading, task.user, task.retries)
             /\ UNCHANGED queue
  /\ worker' = [worker EXCEPT ![w] = NoTask]
  /\ UNCHANGED <<events, sent, verdict, gaveUp>>

Take(w) == TakeCheck(w) \/ TakePush(w)

Work(w) ==
  \/ Evaluate(w) \/ Persist(w) \/ PersistFails(w) \/ SelectMembers(w)
  \/ DispatchPush(w) \/ DispatchFails(w) \/ AcknowledgeCheck(w)
  \/ SendSucceeds(w) \/ SendRejected(w) \/ SendFails(w) \/ AnswerLost(w)
  \/ PublishRetry(w) \/ RetryFails(w) \/ AcknowledgePush(w)

Next == \E w \in Workers : Take(w) \/ Work(w) \/ LoseWorker(w)
============================================================================
