------------------------- MODULE AlertPipelineProofs -------------------------
(* Proofs about AlertPipeline, for any readings, members, coroutines, workers, *)
(* retries and repetitions.                                                    *)
EXTENDS AlertPipeline, FiniteSetTheorems, TLAPS

(***************************************************************************)
(* The inductive invariant                                                 *)
(***************************************************************************)

(* s is about to hand over t; w is checking t; w has a push to send about t to u. *)
Hands(s, t) == ingest[s].pc = "enqueue" /\ ingest[s].time = t
Checks(w, t) == worker[w].pc \in Celery!CheckPCs /\ worker[w].reading = t
Sends(w, t, u) ==
  worker[w].pc \in {"send", "retry"} /\ worker[w].reading = t /\ worker[w].user = u

(* What a worker has in hand: a check dispatches to each member once. *)
Tasks ==
  \A w \in Workers :
    /\ worker[w].pc # "idle" => worker[w].reading \in Times /\ Listener!Stored(worker[w].reading)
    /\ worker[w].pc \in Celery!PushPCs => worker[w].user \in Users
    /\ worker[w].pc = "retry" => worker[w].retries < MaxRetries
    /\ worker[w].pc \in {"evaluate", "persist", "select"} => worker[w].done.reached = {}
    /\ worker[w].pc \in Celery!CheckPCs => worker[w].todo \cap worker[w].done.reached = {}

(* The check of a stored reading is in one place: with a coroutine, in the queue,
   with a worker, or acknowledged; unless its hand-over has failed. *)
OnePlace(t) ==
  /\ \A s \in Slots : Hands(s, t) =>
       /\ Listener!Stored(t) /\ t \notin unchecked /\ queue[t] = 0 /\ verdict[t] = None
       /\ \A w \in Workers : ~Checks(w, t)
       /\ \A q \in Slots : Hands(q, t) => q = s
  /\ queue[t] > 0 =>
       /\ Listener!Stored(t) /\ t \notin unchecked /\ queue[t] = 1 /\ verdict[t] = None
       /\ \A w \in Workers : ~Checks(w, t)
  /\ \A w \in Workers : Checks(w, t) =>
       /\ Listener!Stored(t) /\ t \notin unchecked /\ verdict[t] = None
       /\ \A v \in Workers : Checks(v, t) => v = w
  /\ verdict[t] # None \/ t \in unchecked => Listener!Stored(t)
  /\ t \in unchecked => verdict[t] = None
Somewhere(t) ==
  Listener!Stored(t) /\ t \notin unchecked =>
    \/ \E s \in Slots : Hands(s, t)
    \/ queue[t] > 0
    \/ \E w \in Workers : Checks(w, t)
    \/ verdict[t] # None

(* Messages and alarms are about readings that are stored. *)
AboutStored ==
  \A t \in Times :
    /\ events[t] > 0 => Listener!Stored(t)
    /\ \A u \in Users :
         /\ sent[t][u] > 0 => Listener!Stored(t)
         /\ \A n \in 0 .. MaxRetries : pushes[t][u][n] > 0 => Listener!Stored(t)

(* What a check reports is true, and it has written its events once. *)
Persisted(t) == \/ verdict[t] # None
                \/ \E w \in Workers : Checks(w, t) /\ worker[w].pc \in {"select", "dispatch"}
EventsRight(t) ==
  /\ verdict[t] # None /\ verdict[t].recorded => events[t] > 0
  /\ \A w \in Workers : Checks(w, t) /\ worker[w].done.recorded => events[t] > 0
  /\ events[t] <= repeats[t] + (IF Persisted(t) THEN 1 ELSE 0)

(* The check of t has dispatched a push to u. *)
Reached(t, u) == \/ verdict[t] # None /\ u \in verdict[t].reached
                 \/ \E w \in Workers : Checks(w, t) /\ u \in worker[w].done.reached

(* A push that was dispatched has been answered, or waits, or is being sent. *)
Traced(t, u) ==
  Reached(t, u) =>
    \/ sent[t][u] > 0
    \/ <<t, u>> \in gaveUp
    \/ \E n \in 0 .. MaxRetries : pushes[t][u][n] > 0
    \/ \E w \in Workers : Sends(w, t, u)

(* Every message about t to u that waits, by its retries and its place in the queue;
   the workers that have one to send *)
Messages(t, u) == UNION {{n} \X (1 .. pushes[t][u][n]) : n \in 0 .. MaxRetries}
Sending(t, u) == {w \in Workers : Sends(w, t, u)}

(* The check of t may still dispatch to u. *)
Pending(t, u) == verdict[t] = None /\ ~Reached(t, u)

(* The notifications sent, and those that may still be, are one for each repetition
   and one more. *)
Counted(t, u) ==
  /\ IsFiniteSet(Messages(t, u)) /\ IsFiniteSet(Sending(t, u))
  /\ sent[t][u] + Cardinality(Messages(t, u)) + Cardinality(Sending(t, u))
       + (IF Pending(t, u) THEN 1 ELSE 0) <= 1 + repeats[t]

Inv == /\ TypeOK /\ Tasks /\ AboutStored
       /\ \A t \in Times : OnePlace(t) /\ Somewhere(t) /\ EventsRight(t)
       /\ \A t \in Times, u \in Users : Traced(t, u) /\ Counted(t, u)

----------------------------------------------------------------------------
(* What steps leave as it is *)

TypesOK ==
  /\ readings \in SUBSET Listener!Reading
  /\ ingest \in [Slots -> Listener!Coroutine]
  /\ \A s \in Slots : ingest[s].pc # "idle" => ingest[s].time \in Times
  /\ queue \in [Times -> Nat]
  /\ unchecked \in SUBSET Times
  /\ pushes \in [Times -> [Users -> [0 .. MaxRetries -> Nat]]]
  /\ worker \in [Workers -> Celery!Task]
  /\ events \in [Times -> Nat]
  /\ sent \in [Times -> [Users -> Nat]]
  /\ verdict \in [Times -> Celery!Verdict \cup {None}]
  /\ gaveUp \in SUBSET (Times \X Users)
  /\ repeats \in [Times -> 0 .. MaxRepeats]

LEMMA Types == TypeOK <=> TypesOK /\ firmware \in Versions \cup {None}
BY DEF TypeOK, TypesOK, Listener!TypeOK, Celery!TypeOK

LEMMA TypesNext == TypesOK' /\ firmware' \in Versions \cup {None} => TypeOK'
BY DEF TypeOK, TypesOK, Listener!TypeOK, Celery!TypeOK

(* A step of worker w that turns its task into x *)
Moves(w, x) ==
  /\ worker' \in [Workers -> Celery!Task]
  /\ worker'[w] = x
  /\ \A v \in Workers \ {w} : worker'[v] = worker[v]

LEMMA MovesOK ==
  ASSUME TypesOK, NEW w \in Workers, NEW x \in Celery!Task, worker' = [worker EXCEPT ![w] = x]
  PROVE  Moves(w, x)
BY DEF TypesOK, Moves

LEMMA PCs ==
  /\ Celery!CheckPCs = {"evaluate", "persist", "select", "dispatch"}
  /\ Celery!PushPCs = {"send", "retry", "acknowledge"}
BY DEF Celery!CheckPCs, Celery!PushPCs

LEMMA NoTaskOK ==
  /\ Celery!NoTask \in Celery!Task /\ Celery!NoTask.pc = "idle"
  /\ Celery!NoBreach \in Celery!Verdict
  /\ Celery!NoBreach.reached = {} /\ Celery!NoBreach.recorded = FALSE
<1>1. /\ Celery!NoBreach \in Celery!Verdict
      /\ Celery!NoBreach.reached = {} /\ Celery!NoBreach.recorded = FALSE
  BY DEF Celery!NoBreach, Celery!Verdict
<1>2. 0 \in 0 .. MaxRetries
  BY RetriesAssumption
<1> QED BY <1>1, <1>2 DEF Celery!NoTask, Celery!Task

LEMMA PlacesKept ==
  ASSUME NEW t \in Times, OnePlace(t), Somewhere(t),
         \A w \in Workers : Checks(w, t)' <=> Checks(w, t),
         UNCHANGED <<readings, unchecked, ingest>>,
         queue'[t] = queue[t], verdict'[t] = verdict[t]
  PROVE  OnePlace(t)' /\ Somewhere(t)'
<1>1. Listener!Stored(t)' <=> Listener!Stored(t)
  BY DEF Listener!Stored
<1>2. \A s \in Slots : Hands(s, t)' <=> Hands(s, t)
  BY DEF Hands
<1>3. OnePlace(t)'
  BY <1>1, <1>2 DEF OnePlace
<1>4. Somewhere(t)'
  BY <1>1, <1>2 DEF Somewhere
<1> QED BY <1>3, <1>4

LEMMA EventsKept ==
  ASSUME TypesOK, TypesOK', NEW t \in Times, EventsRight(t),
         events'[t] = events[t], verdict'[t] = verdict[t],
         \A w \in Workers : Checks(w, t)' =>
           Checks(w, t) /\ worker'[w].done.recorded = worker[w].done.recorded,
         \/ repeats'[t] = repeats[t] + 1
         \/ repeats'[t] = repeats[t] /\ (Persisted(t) => Persisted(t)')
  PROVE  EventsRight(t)'
<1>1. events[t] \in Nat /\ repeats[t] \in Nat
  BY DEF TypesOK
<1>2. events[t] <= repeats'[t] + (IF Persisted(t)' THEN 1 ELSE 0)
  BY <1>1 DEF EventsRight
<1> QED BY <1>2 DEF EventsRight

LEMMA Finite ==
  ASSUME NEW t \in Times, NEW u \in Users, Counted(t, u)
  PROVE  Cardinality(Messages(t, u)) \in Nat /\ Cardinality(Sending(t, u)) \in Nat
BY FS_CardinalityType DEF Counted

LEMMA PushesKept ==
  ASSUME TypesOK, TypesOK', NEW t \in Times, NEW u \in Users, Traced(t, u), Counted(t, u),
         pushes'[t][u] = pushes[t][u], sent'[t][u] = sent[t][u],
         <<t, u>> \in gaveUp => <<t, u>> \in gaveUp',
         \A w \in Workers : Sends(w, t, u)' <=> Sends(w, t, u),
         Reached(t, u)' => Reached(t, u),
         \/ repeats'[t] = repeats[t] + 1
         \/ repeats'[t] = repeats[t] /\ (Pending(t, u)' => Pending(t, u))
  PROVE  Traced(t, u)' /\ Counted(t, u)'
<1>1. Traced(t, u)'
  BY DEF Traced
<1>2. Messages(t, u)' = Messages(t, u) /\ Sending(t, u)' = Sending(t, u)
  BY DEF Messages, Sending
<1>3. sent[t][u] \in Nat /\ repeats[t] \in Nat
  BY DEF TypesOK
<1>4. Cardinality(Messages(t, u)) \in Nat /\ Cardinality(Sending(t, u)) \in Nat
  BY Finite
<1>5. Counted(t, u)'
  BY <1>2, <1>3, <1>4 DEF Counted
<1> QED BY <1>1, <1>5

LEMMA InMessages ==
  ASSUME NEW t \in Times, NEW u \in Users, NEW p
  PROVE  p \in Messages(t, u) <=>
           \E n \in 0 .. MaxRetries : \E i \in 1 .. pushes[t][u][n] : p = <<n, i>>
BY DEF Messages

LEMMA PushCount ==
  ASSUME TypesOK, NEW t \in Times, NEW u \in Users, NEW n \in 0 .. MaxRetries
  PROVE  pushes[t][u][n] \in Nat
<1>1. pushes[t] \in [Users -> [0 .. MaxRetries -> Nat]]
  BY DEF TypesOK
<1>2. pushes[t][u] \in [0 .. MaxRetries -> Nat]
  BY <1>1
<1> QED BY <1>2

(* The number of messages with n retries changes to k. *)
LEMMA SetPushes ==
  ASSUME TypesOK, NEW t \in Times, NEW u \in Users, NEW n \in 0 .. MaxRetries, NEW k \in Nat,
         pushes' = [pushes EXCEPT ![t][u][n] = k]
  PROVE  /\ pushes' \in [Times -> [Users -> [0 .. MaxRetries -> Nat]]]
         /\ \A t2 \in Times, u2 \in Users : t2 # t \/ u2 # u => pushes'[t2][u2] = pushes[t2][u2]
         /\ pushes'[t][u][n] = k
         /\ \A m \in 0 .. MaxRetries : m # n => pushes'[t][u][m] = pushes[t][u][m]
         /\ \A m \in 0 .. MaxRetries : pushes[t][u][m] \in Nat
<1> DEFINE g == [pushes[t][u] EXCEPT ![n] = k]
           f == [pushes[t] EXCEPT ![u] = g]
<1>1. /\ pushes \in [Times -> [Users -> [0 .. MaxRetries -> Nat]]]
      /\ pushes[t] \in [Users -> [0 .. MaxRetries -> Nat]]
      /\ pushes[t][u] \in [0 .. MaxRetries -> Nat]
  BY DEF TypesOK
<1>2. /\ g \in [0 .. MaxRetries -> Nat] /\ g[n] = k
      /\ \A m \in 0 .. MaxRetries : m # n => g[m] = pushes[t][u][m]
  BY <1>1
<1>3. pushes' = [pushes EXCEPT ![t] = f]
  OBVIOUS
<1> HIDE DEF g
<1>4. /\ f \in [Users -> [0 .. MaxRetries -> Nat]] /\ f[u] = g
      /\ \A u2 \in Users : u2 # u => f[u2] = pushes[t][u2]
  BY <1>1, <1>2
<1> HIDE DEF f
<1>5. /\ pushes' \in [Times -> [Users -> [0 .. MaxRetries -> Nat]]] /\ pushes'[t] = f
      /\ \A t2 \in Times : t2 # t => pushes'[t2] = pushes[t2]
  BY <1>1, <1>3, <1>4
<1> QED BY <1>1, <1>2, <1>4, <1>5

(* One message more, or one less *)
LEMMA Published ==
  ASSUME TypesOK, NEW t \in Times, NEW u \in Users, NEW n \in 0 .. MaxRetries,
         Celery!Publish(t, u, n), IsFiniteSet(Messages(t, u))
  PROVE  /\ pushes' \in [Times -> [Users -> [0 .. MaxRetries -> Nat]]]
         /\ \A t2 \in Times, u2 \in Users : t2 # t \/ u2 # u => pushes'[t2][u2] = pushes[t2][u2]
         /\ pushes'[t][u][n] > 0
         /\ \A m \in 0 .. MaxRetries : pushes[t][u][m] > 0 => pushes'[t][u][m] > 0
         /\ IsFiniteSet(Messages(t, u)')
         /\ Cardinality(Messages(t, u)') = Cardinality(Messages(t, u)) + 1
<1>1. /\ pushes' \in [Times -> [Users -> [0 .. MaxRetries -> Nat]]]
      /\ \A t2 \in Times, u2 \in Users : t2 # t \/ u2 # u => pushes'[t2][u2] = pushes[t2][u2]
      /\ pushes'[t][u][n] = pushes[t][u][n] + 1
      /\ \A m \in 0 .. MaxRetries : m # n => pushes'[t][u][m] = pushes[t][u][m]
      /\ \A m \in 0 .. MaxRetries : pushes[t][u][m] \in Nat
  <2>1. pushes[t][u][n] + 1 \in Nat
    BY PushCount
  <2>2. pushes' = [pushes EXCEPT ![t][u][n] = pushes[t][u][n] + 1]
    BY DEF Celery!Publish
  <2> QED BY <2>1, <2>2, SetPushes
<1> DEFINE k == pushes[t][u][n]
           p == <<n, k + 1>>
<1>2. Messages(t, u)' = Messages(t, u) \cup {p}
  <2>1. \A q : q \in Messages(t, u)' <=>
          \E m \in 0 .. MaxRetries : \E i \in 1 .. pushes'[t][u][m] : q = <<m, i>>
    BY DEF Messages
  <2>2. ASSUME NEW q \in Messages(t, u)' PROVE q \in Messages(t, u) \cup {p}
    <3>0. PICK m \in 0 .. MaxRetries : \E i \in 1 .. pushes'[t][u][m] : q = <<m, i>>
      BY <2>1, <2>2
    <3>1. PICK i \in 1 .. pushes'[t][u][m] : q = <<m, i>>
      BY <3>0
    <3>2. i \in 1 .. pushes[t][u][m] \/ (m = n /\ i = k + 1)
      <4>1. k \in Nat
        BY <1>1
      <4>2. m = n => i \in 1 .. k + 1
        BY <1>1
      <4>3. m # n => i \in 1 .. pushes[t][u][m]
        BY <1>1
      <4> HIDE DEF k
      <4>4. m = n => i \in 1 .. k \/ i = k + 1
        BY <4>1, <4>2
      <4> QED BY <4>3, <4>4 DEF k
    <3> QED BY <3>1, <3>2, InMessages
  <2>3. ASSUME NEW q \in Messages(t, u) PROVE q \in Messages(t, u)'
    <3>0. PICK m \in 0 .. MaxRetries : \E i \in 1 .. pushes[t][u][m] : q = <<m, i>>
      BY <2>3, InMessages
    <3>1. PICK i \in 1 .. pushes[t][u][m] : q = <<m, i>>
      BY <3>0
    <3>2. i \in 1 .. pushes'[t][u][m]
      BY <1>1
    <3> QED BY <2>1, <3>1, <3>2
  <2>4. p \in Messages(t, u)'
    <3>1. k + 1 \in 1 .. pushes'[t][u][n]
      BY <1>1
    <3> QED BY <2>1, <3>1
  <2> QED BY <2>2, <2>3, <2>4
<1>3. p \notin Messages(t, u)
  <2> SUFFICES ASSUME NEW m \in 0 .. MaxRetries, NEW i \in 1 .. pushes[t][u][m], p = <<m, i>>
               PROVE  FALSE
    BY InMessages
  <2>1. m = n /\ i = k + 1
    OBVIOUS
  <2> QED BY <1>1, <2>1
<1> HIDE DEF k, p
<1>4. /\ IsFiniteSet(Messages(t, u)')
      /\ Cardinality(Messages(t, u)') = Cardinality(Messages(t, u)) + 1
  BY <1>2, <1>3, FS_AddElement
<1> QED BY <1>1, <1>4

LEMMA Taken ==
  ASSUME TypesOK, NEW t \in Times, NEW u \in Users, NEW n \in 0 .. MaxRetries,
         pushes[t][u][n] > 0, pushes' = [pushes EXCEPT ![t][u][n] = @ - 1],
         IsFiniteSet(Messages(t, u))
  PROVE  /\ pushes' \in [Times -> [Users -> [0 .. MaxRetries -> Nat]]]
         /\ \A t2 \in Times, u2 \in Users : t2 # t \/ u2 # u => pushes'[t2][u2] = pushes[t2][u2]
         /\ IsFiniteSet(Messages(t, u)')
         /\ Cardinality(Messages(t, u)') = Cardinality(Messages(t, u)) - 1
<1>1. /\ pushes' \in [Times -> [Users -> [0 .. MaxRetries -> Nat]]]
      /\ \A t2 \in Times, u2 \in Users : t2 # t \/ u2 # u => pushes'[t2][u2] = pushes[t2][u2]
      /\ pushes'[t][u][n] = pushes[t][u][n] - 1
      /\ \A m \in 0 .. MaxRetries : m # n => pushes'[t][u][m] = pushes[t][u][m]
      /\ \A m \in 0 .. MaxRetries : pushes[t][u][m] \in Nat
  <2>1. pushes[t][u][n] - 1 \in Nat
    BY PushCount
  <2> QED BY <2>1, SetPushes
<1> DEFINE k == pushes[t][u][n]
           p == <<n, k>>
<1>2. Messages(t, u)' = Messages(t, u) \ {p}
  <2>1. \A q : q \in Messages(t, u)' <=>
          \E m \in 0 .. MaxRetries : \E i \in 1 .. pushes'[t][u][m] : q = <<m, i>>
    BY DEF Messages
  <2>2. ASSUME NEW q \in Messages(t, u)' PROVE q \in Messages(t, u) \ {p}
    <3>0. PICK m \in 0 .. MaxRetries : \E i \in 1 .. pushes'[t][u][m] : q = <<m, i>>
      BY <2>1, <2>2
    <3>1. PICK i \in 1 .. pushes'[t][u][m] : q = <<m, i>>
      BY <3>0
    <3>2. i \in 1 .. pushes[t][u][m] /\ ~(m = n /\ i = k)
      BY <1>1
    <3>3. q # p
      BY <3>1, <3>2
    <3> QED BY <3>1, <3>2, <3>3, InMessages
  <2>3. ASSUME NEW q \in Messages(t, u), q # p PROVE q \in Messages(t, u)'
    <3>0. PICK m \in 0 .. MaxRetries : \E i \in 1 .. pushes[t][u][m] : q = <<m, i>>
      BY <2>3, InMessages
    <3>1. PICK i \in 1 .. pushes[t][u][m] : q = <<m, i>>
      BY <3>0
    <3>2. ~(m = n /\ i = k)
      BY <2>3, <3>1
    <3>3. i \in 1 .. pushes'[t][u][m]
      BY <1>1, <3>2
    <3> QED BY <2>1, <3>1, <3>3
  <2> QED BY <2>2, <2>3
<1>3. p \in Messages(t, u)
  <2>1. k \in 1 .. pushes[t][u][n]
    BY <1>1
  <2> QED BY <2>1, InMessages
<1> HIDE DEF k, p
<1>4. /\ IsFiniteSet(Messages(t, u)')
      /\ Cardinality(Messages(t, u)') = Cardinality(Messages(t, u)) - 1
  BY <1>2, <1>3, FS_RemoveElement
<1> QED BY <1>1, <1>4

----------------------------------------------------------------------------
(* Steps of a worker *)

(* What the invariant says of a task *)
Fits(x) ==
  /\ x.pc # "idle" => x.reading \in Times /\ Listener!Stored(x.reading)
  /\ x.pc \in Celery!PushPCs => x.user \in Users
  /\ x.pc = "retry" => x.retries < MaxRetries
  /\ x.pc \in {"evaluate", "persist", "select"} => x.done.reached = {}
  /\ x.pc \in Celery!CheckPCs => x.todo \cap x.done.reached = {}

LEMMA TasksKept ==
  ASSUME Tasks, NEW w \in Workers, NEW x, Moves(w, x), Fits(x), UNCHANGED readings
  PROVE  Tasks'
<1>1. \A t : Listener!Stored(t)' <=> Listener!Stored(t)
  BY DEF Listener!Stored
<1>2. ASSUME NEW v \in Workers
      PROVE  Fits(worker[v])'
  <2>1. CASE v = w
    BY <1>1, <2>1 DEF Moves, Fits, Listener!Stored
  <2>2. CASE v # w
    <3>1. worker'[v] = worker[v] /\ Fits(worker[v])
      BY <2>2 DEF Moves, Tasks, Fits
    <3> QED BY <1>1, <3>1 DEF Fits, Listener!Stored
  <2> QED BY <2>1, <2>2
<1> QED BY <1>2 DEF Tasks, Fits

(* w goes on with the check it has in hand. *)
LEMMA Checkers ==
  ASSUME NEW w \in Workers, NEW x, Moves(w, x), x.reading = worker[w].reading,
         worker[w].pc \in Celery!CheckPCs, x.pc \in Celery!CheckPCs
  PROVE  /\ \A v \in Workers, t \in Times : Checks(v, t)' <=> Checks(v, t)
         /\ \A v \in Workers, t \in Times, u \in Users : Sends(v, t, u)' <=> Sends(v, t, u)
<1>1. \A v \in Workers, t \in Times : Checks(v, t)' <=> Checks(v, t)
  BY DEF Moves, Checks
<1>2. ASSUME NEW v \in Workers, NEW t \in Times, NEW u \in Users
      PROVE  Sends(v, t, u)' <=> Sends(v, t, u)
  <2>1. CASE v = w
    BY <2>1, PCs DEF Moves, Sends
  <2>2. CASE v # w
    BY <2>2 DEF Moves, Sends
  <2> QED BY <2>1, <2>2
<1> QED BY <1>1, <1>2

(* w does not concern itself with a check. *)
LEMMA Senders ==
  ASSUME NEW w \in Workers, NEW x, Moves(w, x),
         worker[w].pc \notin Celery!CheckPCs, x.pc \notin Celery!CheckPCs
  PROVE  /\ \A v \in Workers, t \in Times : Checks(v, t)' <=> Checks(v, t)
         /\ \A v \in Workers, t \in Times : Checks(v, t) => worker'[v] = worker[v]
BY DEF Moves, Checks

(* The check goes on, and has nothing to show yet. *)
LEMMA QuietCheck ==
  ASSUME Inv, NEW w \in Workers, NEW x \in Celery!Task, Moves(w, x), Fits(x),
         worker[w].pc \in Celery!CheckPCs, x.pc \in Celery!CheckPCs,
         x.reading = worker[w].reading, x.done.reached = worker[w].done.reached,
         x.done.recorded = worker[w].done.recorded,
         worker[w].pc \in {"select", "dispatch"} => x.pc \in {"select", "dispatch"},
         UNCHANGED <<listenerVars, queue, pushes, events, sent, verdict, gaveUp, repeats>>
  PROVE  Inv'
<1>1. TypesOK /\ TypesOK' /\ TypeOK'
  <2>1. TypesOK /\ firmware \in Versions \cup {None}
    BY Types DEF Inv
  <2>2. TypesOK'
    BY <2>1 DEF TypesOK, Moves, listenerVars
  <2> QED BY <2>1, <2>2, TypesNext DEF listenerVars
<1>2. /\ \A v \in Workers, t \in Times : Checks(v, t)' <=> Checks(v, t)
      /\ \A v \in Workers, t \in Times, u \in Users : Sends(v, t, u)' <=> Sends(v, t, u)
  BY Checkers
<1>3. UNCHANGED <<readings, firmware, ingest, unchecked>>
  BY DEF listenerVars
<1>4. Tasks' /\ AboutStored'
  BY <1>3, TasksKept DEF Inv, AboutStored, Listener!Stored
<1>5. ASSUME NEW t \in Times PROVE OnePlace(t)' /\ Somewhere(t)' /\ EventsRight(t)'
  <2>1. OnePlace(t)' /\ Somewhere(t)'
    BY <1>2, <1>3, PlacesKept DEF Inv
  <2>2. Persisted(t) => Persisted(t)'
    BY <1>2 DEF Persisted, Moves
  <2>3. \A v \in Workers : Checks(v, t)' =>
           Checks(v, t) /\ worker'[v].done.recorded = worker[v].done.recorded
    BY <1>2 DEF Moves
  <2>4. EventsRight(t)'
    BY <1>1, <2>2, <2>3, EventsKept DEF Inv
  <2> QED BY <2>1, <2>4
<1>6. ASSUME NEW t \in Times, NEW u \in Users PROVE Traced(t, u)' /\ Counted(t, u)'
  <2>1. Reached(t, u)' <=> Reached(t, u)
    BY <1>2 DEF Reached, Moves
  <2>2. Pending(t, u)' <=> Pending(t, u)
    BY <2>1 DEF Pending
  <2> QED BY <1>1, <1>2, <2>1, <2>2, PushesKept DEF Inv
<1> QED BY <1>1, <1>4, <1>5, <1>6 DEF Inv

(* w is concerned with a push about t to u, or becomes so, or was. *)
LEMMA PushStep ==
  ASSUME Inv, TypesOK', NEW w \in Workers, NEW x \in Celery!Task, Moves(w, x), Fits(x),
         NEW t \in Times, NEW u \in Users, Listener!Stored(t),
         worker[w].pc \notin Celery!CheckPCs, x.pc \notin Celery!CheckPCs,
         worker[w].pc = "idle" \/ (worker[w].reading = t /\ worker[w].user = u),
         x.pc = "idle" \/ (x.reading = t /\ x.user = u),
         UNCHANGED <<listenerVars, queue, events, verdict>>,
         \A t2 \in Times, u2 \in Users : t2 # t \/ u2 # u =>
           /\ pushes'[t2][u2] = pushes[t2][u2] /\ sent'[t2][u2] = sent[t2][u2],
         gaveUp \subseteq gaveUp',
         \A t2 \in Times : \/ repeats'[t2] = repeats[t2]
                           \/ repeats'[t2] = repeats[t2] + 1,
         (Reached(t, u)' <=> Reached(t, u)) /\ (Pending(t, u)' <=> Pending(t, u))
           => Traced(t, u)' /\ Counted(t, u)'
  PROVE  Inv'
<1>1. TypesOK /\ TypeOK'
  <2>1. TypesOK /\ firmware \in Versions \cup {None}
    BY Types DEF Inv
  <2> QED BY <2>1, TypesNext DEF listenerVars
<1>2. /\ \A v \in Workers, r \in Times : Checks(v, r)' <=> Checks(v, r)
      /\ \A v \in Workers, r \in Times : Checks(v, r) => worker'[v] = worker[v]
  BY Senders
<1>3. UNCHANGED <<readings, firmware, ingest, unchecked>>
  BY DEF listenerVars
<1>4. Tasks'
  BY <1>3, TasksKept DEF Inv
<1>5. AboutStored'
  <2>1. \A r \in Times : Listener!Stored(r)' <=> Listener!Stored(r)
    BY <1>3 DEF Listener!Stored
  <2>2. ASSUME NEW r \in Times, NEW q \in Users
        PROVE  /\ sent'[r][q] > 0 => Listener!Stored(r)
               /\ \A n \in 0 .. MaxRetries : pushes'[r][q][n] > 0 => Listener!Stored(r)
    <3>1. CASE r = t
      BY <3>1
    <3>2. CASE r # t
      BY <3>2 DEF Inv, AboutStored
    <3> QED BY <3>1, <3>2
  <2>3. \A r \in Times : events'[r] > 0 => Listener!Stored(r)
    BY DEF Inv, AboutStored
  <2> QED BY <2>1, <2>2, <2>3 DEF AboutStored
<1>6. ASSUME NEW r \in Times PROVE OnePlace(r)' /\ Somewhere(r)' /\ EventsRight(r)'
  <2>1. OnePlace(r)' /\ Somewhere(r)'
    BY <1>2, <1>3, PlacesKept DEF Inv
  <2>2. Persisted(r) => Persisted(r)'
    BY <1>2 DEF Persisted
  <2>3. \A v \in Workers : Checks(v, r)' =>
           Checks(v, r) /\ worker'[v].done.recorded = worker[v].done.recorded
    BY <1>2
  <2>4. EventsRight(r)'
    BY <1>1, <2>2, <2>3, EventsKept DEF Inv
  <2> QED BY <2>1, <2>4
<1>7. \A r \in Times, q \in Users :
        (Reached(r, q)' <=> Reached(r, q)) /\ (Pending(r, q)' <=> Pending(r, q))
  <2> TAKE r \in Times, q \in Users
  <2>1. Reached(r, q)' <=> Reached(r, q)
    BY <1>2 DEF Reached
  <2> QED BY <2>1 DEF Pending
<1>8. ASSUME NEW r \in Times, NEW q \in Users PROVE Traced(r, q)' /\ Counted(r, q)'
  <2>1. CASE r = t /\ q = u
    BY <1>7, <2>1
  <2>2. CASE r # t \/ q # u
    <3>1. ASSUME NEW v \in Workers PROVE Sends(v, r, q)' <=> Sends(v, r, q)
      <4>1. CASE v = w
        BY <2>2, <4>1 DEF Moves, Sends
      <4>2. CASE v # w
        BY <4>2 DEF Moves, Sends
      <4> QED BY <4>1, <4>2
    <3> QED BY <1>1, <1>7, <2>2, <3>1, PushesKept DEF Inv
  <2> QED BY <2>1, <2>2
<1> QED BY <1>1, <1>4, <1>5, <1>6, <1>8 DEF Inv

(* What w has in hand decides whether it is among the senders. *)
LEMMA SendersChange ==
  ASSUME NEW w \in Workers, NEW x, Moves(w, x), NEW t \in Times, NEW u \in Users,
         worker[w].pc = "idle" \/ (worker[w].reading = t /\ worker[w].user = u),
         x.pc = "idle" \/ (x.reading = t /\ x.user = u)
  PROVE  Sending(t, u)' = IF x.pc \in {"send", "retry"} THEN Sending(t, u) \cup {w}
                          ELSE Sending(t, u) \ {w}
<1>1. \A v \in Workers \ {w} : Sends(v, t, u)' <=> Sends(v, t, u)
  BY DEF Moves, Sends
<1>2. Sends(w, t, u)' <=> x.pc \in {"send", "retry"}
  BY DEF Moves, Sends
<1> QED BY <1>1, <1>2 DEF Sending

LEMMA InvTypes == Inv => TypesOK /\ firmware \in Versions \cup {None}
BY Types DEF Inv

(* The task of w with another pc *)
LEMMA PcChanges ==
  ASSUME TypesOK, NEW w \in Workers,
         NEW pc \in {"idle"} \cup Celery!CheckPCs \cup Celery!PushPCs,
         worker' = [worker EXCEPT ![w].pc = pc]
  PROVE  \E x \in Celery!Task :
           /\ Moves(w, x) /\ x.pc = pc /\ x.reading = worker[w].reading
           /\ x.user = worker[w].user /\ x.retries = worker[w].retries
           /\ x.todo = worker[w].todo /\ x.done = worker[w].done
<1> DEFINE x == [worker[w] EXCEPT !.pc = pc]
<1>1. worker[w] \in Celery!Task
  BY DEF TypesOK
<1>2. /\ x \in Celery!Task /\ x.pc = pc /\ x.reading = worker[w].reading
      /\ x.user = worker[w].user /\ x.retries = worker[w].retries
      /\ x.todo = worker[w].todo /\ x.done = worker[w].done
  BY <1>1 DEF Celery!Task
<1>3. worker' = [worker EXCEPT ![w] = x]
  OBVIOUS
<1> HIDE DEF x
<1> QED BY <1>2, <1>3, MovesOK

(* What the invariant says of the task of w *)
LEMMA TaskFits ==
  ASSUME Inv, NEW w \in Workers
  PROVE  Fits(worker[w])
BY DEF Inv, Tasks, Fits

LEMMA EvaluateInv ==
  ASSUME Inv, NEW w \in Workers, Celery!Evaluate(w), UNCHANGED listenerVars
  PROVE  Inv'
<1>1. worker[w].pc = "evaluate"
      /\ UNCHANGED <<queue, pushes, events, sent, verdict, gaveUp, repeats>>
  BY DEF Celery!Evaluate
<1>2. TypesOK /\ Fits(worker[w]) /\ worker[w] \in Celery!Task
  BY InvTypes, TaskFits DEF TypesOK
<1>3. CASE worker' = [worker EXCEPT ![w].pc = "dispatch"]
  <2>1. PICK x \in Celery!Task :
          /\ Moves(w, x) /\ x.pc = "dispatch" /\ x.reading = worker[w].reading
          /\ x.todo = worker[w].todo /\ x.done = worker[w].done
    <3>1. "dispatch" \in {"idle"} \cup Celery!CheckPCs \cup Celery!PushPCs
      BY PCs
    <3>2. \E x \in Celery!Task :
            /\ Moves(w, x) /\ x.pc = "dispatch" /\ x.reading = worker[w].reading
            /\ x.user = worker[w].user /\ x.retries = worker[w].retries
            /\ x.todo = worker[w].todo /\ x.done = worker[w].done
      BY <1>2, <1>3, <3>1, PcChanges
    <3> QED BY <3>2
  <2>2. Fits(x)
    BY <1>1, <1>2, <2>1, PCs DEF Fits
  <2> QED BY <1>1, <2>1, <2>2, PCs, QuietCheck
<1>4. CASE worker' = [worker EXCEPT ![w].pc = "persist", ![w].done.breach = TRUE]
  <2> DEFINE done == [worker[w].done EXCEPT !.breach = TRUE]
             x == [worker[w] EXCEPT !.pc = "persist", !.done = done]
  <2>1. /\ done \in Celery!Verdict /\ done.reached = worker[w].done.reached
        /\ done.recorded = worker[w].done.recorded
    BY <1>2 DEF Celery!Task, Celery!Verdict
  <2>2. worker' = [worker EXCEPT ![w] = x]
    BY <1>4
  <2> HIDE DEF done
  <2>3. /\ x \in Celery!Task /\ x.pc = "persist" /\ x.reading = worker[w].reading
        /\ x.todo = worker[w].todo /\ x.done = done
    BY <1>2, <2>1, PCs DEF Celery!Task
  <2> HIDE DEF x
  <2>4. Moves(w, x)
    BY <1>2, <2>2, <2>3, MovesOK
  <2>5. Fits(x)
    BY <1>1, <1>2, <2>1, <2>3, PCs DEF Fits
  <2> QED BY <1>1, <2>1, <2>3, <2>4, <2>5, PCs, QuietCheck
<1> QED BY <1>3, <1>4 DEF Celery!Evaluate

LEMMA PersistFailsInv ==
  ASSUME Inv, NEW w \in Workers, Celery!PersistFails(w), UNCHANGED listenerVars
  PROVE  Inv'
<1>1. /\ worker[w].pc = "persist" /\ worker' = [worker EXCEPT ![w].pc = "select"]
      /\ UNCHANGED <<queue, pushes, events, sent, verdict, gaveUp, repeats>>
  BY DEF Celery!PersistFails
<1>2. TypesOK /\ Fits(worker[w])
  BY InvTypes, TaskFits
<1>3. PICK x \in Celery!Task :
        /\ Moves(w, x) /\ x.pc = "select" /\ x.reading = worker[w].reading
        /\ x.todo = worker[w].todo /\ x.done = worker[w].done
  <2>1. "select" \in {"idle"} \cup Celery!CheckPCs \cup Celery!PushPCs
    BY PCs
  <2>2. \E x \in Celery!Task :
          /\ Moves(w, x) /\ x.pc = "select" /\ x.reading = worker[w].reading
          /\ x.user = worker[w].user /\ x.retries = worker[w].retries
          /\ x.todo = worker[w].todo /\ x.done = worker[w].done
    BY <1>1, <1>2, <2>1, PcChanges
  <2> QED BY <2>2
<1>4. Fits(x)
  BY <1>1, <1>2, <1>3, PCs DEF Fits
<1> QED BY <1>1, <1>3, <1>4, PCs, QuietCheck

LEMMA SelectMembersInv ==
  ASSUME Inv, NEW w \in Workers, Celery!SelectMembers(w), UNCHANGED listenerVars
  PROVE  Inv'
<1>1. PICK members \in SUBSET Users :
        worker' = [worker EXCEPT ![w].pc = "dispatch", ![w].todo = members]
  BY DEF Celery!SelectMembers
<1>2. worker[w].pc = "select"
      /\ UNCHANGED <<queue, pushes, events, sent, verdict, gaveUp, repeats>>
  BY DEF Celery!SelectMembers
<1>3. TypesOK /\ Fits(worker[w]) /\ worker[w] \in Celery!Task
  BY InvTypes, TaskFits DEF TypesOK
<1> DEFINE x == [worker[w] EXCEPT !.pc = "dispatch", !.todo = members]
<1>4. /\ x \in Celery!Task /\ x.pc = "dispatch" /\ x.reading = worker[w].reading
      /\ x.todo = members /\ x.done = worker[w].done
  BY <1>3, PCs DEF Celery!Task
<1>5. worker' = [worker EXCEPT ![w] = x]
  BY <1>1
<1> HIDE DEF x
<1>6. Moves(w, x)
  BY <1>3, <1>4, <1>5, MovesOK
<1>7. Fits(x)
  BY <1>2, <1>3, <1>4, PCs DEF Fits
<1> QED BY <1>2, <1>4, <1>6, <1>7, PCs, QuietCheck

LEMMA DispatchFailsInv ==
  ASSUME Inv, NEW w \in Workers, Celery!DispatchFails(w), UNCHANGED listenerVars
  PROVE  Inv'
<1>1. /\ worker[w].pc = "dispatch" /\ worker' = [worker EXCEPT ![w].todo = {}]
      /\ UNCHANGED <<queue, pushes, events, sent, verdict, gaveUp, repeats>>
  BY DEF Celery!DispatchFails
<1>2. TypesOK /\ Fits(worker[w]) /\ worker[w] \in Celery!Task
  BY InvTypes, TaskFits DEF TypesOK
<1> DEFINE x == [worker[w] EXCEPT !.todo = {}]
<1>3. /\ x \in Celery!Task /\ x.pc = "dispatch" /\ x.reading = worker[w].reading
      /\ x.todo = {} /\ x.done = worker[w].done
  BY <1>1, <1>2 DEF Celery!Task
<1>4. worker' = [worker EXCEPT ![w] = x]
  BY <1>1
<1> HIDE DEF x
<1>5. Moves(w, x)
  BY <1>2, <1>3, <1>4, MovesOK
<1>6. Fits(x)
  BY <1>1, <1>2, <1>3, PCs DEF Fits
<1> QED BY <1>1, <1>3, <1>5, <1>6, PCs, QuietCheck

(* The events of t are written for the first time since the check was taken. *)
LEMMA PersistInv ==
  ASSUME Inv, NEW w \in Workers, Celery!Persist(w), UNCHANGED listenerVars
  PROVE  Inv'
<1> DEFINE t0 == worker[w].reading
<1>1. /\ worker[w].pc = "persist"
      /\ events' = [events EXCEPT ![t0] = @ + 1]
      /\ worker' = [worker EXCEPT ![w].pc = "select", ![w].done.recorded = TRUE]
      /\ UNCHANGED <<queue, pushes, sent, verdict, gaveUp, repeats>>
  BY DEF Celery!Persist
<1>2. TypesOK /\ firmware \in Versions \cup {None} /\ Fits(worker[w]) /\ worker[w] \in Celery!Task
  BY InvTypes, TaskFits DEF TypesOK
<1> DEFINE done == [worker[w].done EXCEPT !.recorded = TRUE]
           x == [worker[w] EXCEPT !.pc = "select", !.done = done]
<1>3. /\ done \in Celery!Verdict /\ done.reached = worker[w].done.reached
  BY <1>2 DEF Celery!Task, Celery!Verdict
<1>4. worker' = [worker EXCEPT ![w] = x]
  BY <1>1
<1> HIDE DEF done
<1>5. /\ x \in Celery!Task /\ x.pc = "select" /\ x.reading = t0
      /\ x.todo = worker[w].todo /\ x.done = done
  BY <1>2, <1>3, PCs DEF Celery!Task
<1> HIDE DEF x
<1>6. Moves(w, x)
  BY <1>2, <1>4, <1>5, MovesOK
<1>7. Fits(x)
  BY <1>1, <1>2, <1>3, <1>5, PCs DEF Fits
<1>8. /\ \A v \in Workers, t \in Times : Checks(v, t)' <=> Checks(v, t)
      /\ \A v \in Workers, t \in Times, u \in Users : Sends(v, t, u)' <=> Sends(v, t, u)
  BY <1>1, <1>5, <1>6, PCs, Checkers
<1>9. t0 \in Times /\ Listener!Stored(t0) /\ Checks(w, t0)
  BY <1>1, <1>2, PCs DEF Fits, Checks
<1>10. UNCHANGED <<readings, firmware, ingest, unchecked>>
  BY DEF listenerVars
<1>11. /\ events' \in [Times -> Nat] /\ events'[t0] = events[t0] + 1
       /\ \A t \in Times : t # t0 => events'[t] = events[t]
       /\ events[t0] \in Nat
  BY <1>1, <1>2, <1>9 DEF TypesOK
<1>12. TypesOK' /\ TypeOK'
  <2>1. TypesOK'
    BY <1>1, <1>2, <1>6, <1>10, <1>11 DEF TypesOK, Moves
  <2> QED BY <1>2, <1>10, <2>1, TypesNext
<1> HIDE DEF t0
<1>13. Tasks' /\ AboutStored'
  <2>1. \A t \in Times : events'[t] > 0 => Listener!Stored(t)
    BY <1>9, <1>11 DEF Inv, AboutStored
  <2> QED BY <1>1, <1>6, <1>7, <1>10, <2>1, TasksKept DEF Inv, AboutStored, Listener!Stored
<1>14. ASSUME NEW t \in Times PROVE OnePlace(t)' /\ Somewhere(t)' /\ EventsRight(t)'
  <2>1. OnePlace(t)' /\ Somewhere(t)'
    BY <1>1, <1>8, <1>10, PlacesKept DEF Inv
  <2>2. CASE t # t0
    <3>1. \A v \in Workers : Checks(v, t) => worker'[v] = worker[v]
      BY <1>6, <2>2 DEF Moves, Checks, t0
    <3>2. Persisted(t) => Persisted(t)'
      BY <1>1, <1>8, <3>1 DEF Persisted
    <3>3. EventsRight(t)'
      BY <1>1, <1>2, <1>8, <1>11, <1>12, <2>2, <3>1, <3>2, EventsKept DEF Inv
    <3> QED BY <2>1, <3>3
  <2>3. CASE t = t0
    <3>1. verdict[t] = None /\ \A v \in Workers : Checks(v, t) => v = w
      BY <1>9, <2>3 DEF Inv, OnePlace
    <3>2. ~Persisted(t)
      BY <1>1, <3>1 DEF Persisted
    <3>3. Persisted(t)'
      BY <1>5, <1>6, <1>8, <1>9, <2>3 DEF Persisted, Moves
    <3>4. events[t] <= repeats[t] /\ repeats[t] \in Nat
      BY <1>2, <1>11, <2>3, <3>2 DEF Inv, EventsRight, TypesOK
    <3>5. events'[t] <= repeats'[t] + (IF Persisted(t)' THEN 1 ELSE 0) /\ events'[t] > 0
      BY <1>1, <1>11, <2>3, <3>3, <3>4
    <3>6. EventsRight(t)'
      BY <3>5 DEF EventsRight
    <3> QED BY <2>1, <3>6
  <2> QED BY <2>2, <2>3
<1>15. ASSUME NEW t \in Times, NEW u \in Users PROVE Traced(t, u)' /\ Counted(t, u)'
  <2>1. Reached(t, u)' <=> Reached(t, u)
    <3>1. \A v \in Workers : worker'[v].done.reached = worker[v].done.reached
      BY <1>3, <1>5, <1>6 DEF Moves
    <3> QED BY <1>1, <1>8, <3>1 DEF Reached
  <2>2. Pending(t, u)' <=> Pending(t, u)
    BY <1>1, <2>1 DEF Pending
  <2> QED BY <1>1, <1>2, <1>8, <1>12, <2>1, <2>2, PushesKept DEF Inv
<1> QED BY <1>12, <1>13, <1>14, <1>15 DEF Inv

(* What a worker concerned with the check of t0 leaves of other readings *)
LEMMA Elsewhere ==
  ASSUME Inv, TypesOK', NEW w \in Workers, NEW x, Moves(w, x), NEW t0, NEW t \in Times, t # t0,
         worker[w].pc = "idle" \/ (worker[w].pc \in Celery!CheckPCs /\ worker[w].reading = t0),
         x.pc = "idle" \/ (x.pc \in Celery!CheckPCs /\ x.reading = t0),
         UNCHANGED <<readings, ingest, unchecked, sent, gaveUp>>,
         pushes'[t] = pushes[t], queue'[t] = queue[t], verdict'[t] = verdict[t],
         events'[t] = events[t], repeats'[t] = repeats[t]
  PROVE  /\ OnePlace(t)' /\ Somewhere(t)' /\ EventsRight(t)'
         /\ \A u \in Users : Traced(t, u)' /\ Counted(t, u)'
<1>1. TypesOK
  BY InvTypes
<1>2. /\ \A v \in Workers : Checks(v, t)' <=> Checks(v, t)
      /\ \A v \in Workers : Checks(v, t) => worker'[v] = worker[v]
  <2>1. ~Checks(w, t) /\ ~Checks(w, t)'
    BY PCs DEF Checks, Moves
  <2> QED BY <2>1 DEF Checks, Moves
<1>3. \A v \in Workers, u \in Users : Sends(v, t, u)' <=> Sends(v, t, u)
  <2> TAKE v \in Workers, u \in Users
  <2>1. CASE v = w
    BY <2>1, PCs DEF Moves, Sends
  <2>2. CASE v # w
    BY <2>2 DEF Moves, Sends
  <2> QED BY <2>1, <2>2
<1>4. OnePlace(t)' /\ Somewhere(t)'
  BY <1>2, PlacesKept DEF Inv
<1>5. EventsRight(t)'
  <2>1. Persisted(t) => Persisted(t)'
    BY <1>2 DEF Persisted
  <2> QED BY <1>1, <1>2, <2>1, EventsKept DEF Inv
<1>6. ASSUME NEW u \in Users PROVE Traced(t, u)' /\ Counted(t, u)'
  <2>1. Reached(t, u)' <=> Reached(t, u)
    BY <1>2 DEF Reached
  <2>2. Pending(t, u)' <=> Pending(t, u)
    BY <2>1 DEF Pending
  <2> QED BY <1>1, <1>3, <2>1, <2>2, PushesKept DEF Inv
<1> QED BY <1>4, <1>5, <1>6

(* The check of t0 passes from the queue to w. *)
LEMMA TakeCheckInv ==
  ASSUME Inv, NEW w \in Workers, Celery!TakeCheck(w), UNCHANGED listenerVars
  PROVE  Inv'
<1>1. PICK t0 \in Times :
        /\ queue[t0] > 0
        /\ queue' = [queue EXCEPT ![t0] = @ - 1]
        /\ worker' = [worker EXCEPT ![w] = [Celery!NoTask EXCEPT !.pc = "evaluate",
                                                                 !.reading = t0]]
  BY DEF Celery!TakeCheck
<1>2. worker[w].pc = "idle" /\ UNCHANGED <<pushes, events, sent, verdict, gaveUp, repeats>>
      /\ UNCHANGED <<readings, firmware, ingest, unchecked>>
  BY DEF Celery!TakeCheck, listenerVars
<1>3. TypesOK /\ firmware \in Versions \cup {None}
  BY InvTypes
<1> DEFINE x == [Celery!NoTask EXCEPT !.pc = "evaluate", !.reading = t0]
<1>4. /\ x \in Celery!Task /\ x.pc = "evaluate" /\ x.reading = t0
      /\ x.todo = {} /\ x.done.reached = {} /\ x.done.recorded = FALSE
  BY NoTaskOK, PCs DEF Celery!NoTask, Celery!Task
<1>5. worker' = [worker EXCEPT ![w] = x]
  BY <1>1
<1> HIDE DEF x
<1>6. Moves(w, x)
  BY <1>3, <1>4, <1>5, MovesOK
<1>7. /\ Listener!Stored(t0) /\ t0 \notin unchecked /\ queue[t0] = 1 /\ verdict[t0] = None
      /\ \A v \in Workers : ~Checks(v, t0)
      /\ \A s \in Slots : ~Hands(s, t0)
  BY <1>1 DEF Inv, OnePlace
<1>8. /\ queue' \in [Times -> Nat] /\ queue'[t0] = 0
      /\ \A t \in Times : t # t0 => queue'[t] = queue[t]
  BY <1>1, <1>3, <1>7 DEF TypesOK
<1>9. TypesOK' /\ TypeOK'
  <2>1. TypesOK'
    BY <1>2, <1>3, <1>6, <1>8 DEF TypesOK, Moves
  <2> QED BY <1>2, <1>3, <2>1, TypesNext
<1>10. Tasks' /\ AboutStored'
  <2>1. Fits(x)
    BY <1>4, <1>7, PCs DEF Fits
  <2> QED BY <1>2, <1>6, <2>1, TasksKept DEF Inv, AboutStored, Listener!Stored
<1>11. ASSUME NEW t \in Times, t # t0
       PROVE  /\ OnePlace(t)' /\ Somewhere(t)' /\ EventsRight(t)'
              /\ \A u \in Users : Traced(t, u)' /\ Counted(t, u)'
  BY <1>2, <1>4, <1>6, <1>8, <1>9, <1>11, PCs, Elsewhere
<1>12. \A v \in Workers : Checks(v, t0)' <=> v = w
  BY <1>4, <1>6, <1>7, PCs DEF Checks, Moves
<1>13. OnePlace(t0)' /\ Somewhere(t0)'
  <2>1. Listener!Stored(t0)' /\ \A s \in Slots : ~Hands(s, t0)'
    BY <1>2, <1>7 DEF Listener!Stored, Hands
  <2> QED BY <1>2, <1>7, <1>8, <1>12, <2>1 DEF OnePlace, Somewhere
<1>14. EventsRight(t0)'
  <2>1. ~Persisted(t0)
    BY <1>7 DEF Persisted
  <2>2. ~Persisted(t0)'
    BY <1>2, <1>4, <1>6, <1>7, <1>12 DEF Persisted, Moves
  <2> QED BY <1>2, <1>4, <1>6, <1>7, <1>12, <2>1, <2>2 DEF Inv, EventsRight, Moves
<1>15. ASSUME NEW u \in Users PROVE Traced(t0, u)' /\ Counted(t0, u)'
  <2>1. ~Reached(t0, u)' /\ ~Reached(t0, u)
    BY <1>2, <1>4, <1>6, <1>7, <1>12 DEF Reached, Moves
  <2>2. Pending(t0, u)' <=> Pending(t0, u)
    BY <1>2, <2>1 DEF Pending
  <2>3. ASSUME NEW v \in Workers PROVE Sends(v, t0, u)' <=> Sends(v, t0, u)
    <3>1. CASE v = w
      BY <1>2, <1>4, <1>6, <3>1 DEF Moves, Sends
    <3>2. CASE v # w
      BY <1>6, <3>2 DEF Moves, Sends
    <3> QED BY <3>1, <3>2
  <2> QED BY <1>2, <1>3, <1>9, <2>1, <2>2, <2>3, PushesKept DEF Inv
<1> QED BY <1>9, <1>10, <1>11, <1>13, <1>14, <1>15 DEF Inv

(* What the check has done is on record, and the worker is free. *)
LEMMA AcknowledgeCheckInv ==
  ASSUME Inv, NEW w \in Workers, Celery!AcknowledgeCheck(w), UNCHANGED listenerVars
  PROVE  Inv'
<1>0. PICK t0 : t0 = worker[w].reading
  OBVIOUS
<1> DEFINE x == Celery!NoTask
<1>1. /\ worker[w].pc = "dispatch"
      /\ verdict' = [verdict EXCEPT ![t0] = worker[w].done]
      /\ worker' = [worker EXCEPT ![w] = x]
      /\ UNCHANGED <<queue, pushes, events, sent, gaveUp, repeats>>
      /\ UNCHANGED <<readings, firmware, ingest, unchecked>>
  BY <1>0 DEF Celery!AcknowledgeCheck, listenerVars
<1>2. TypesOK /\ firmware \in Versions \cup {None} /\ Fits(worker[w]) /\ worker[w] \in Celery!Task
  BY InvTypes, TaskFits DEF TypesOK
<1>3. x \in Celery!Task /\ x.pc = "idle"
  BY NoTaskOK
<1> HIDE DEF x
<1>4. Moves(w, x)
  BY <1>1, <1>2, <1>3, MovesOK
<1>5. t0 \in Times /\ Checks(w, t0)
  BY <1>0, <1>1, <1>2, PCs DEF Fits, Checks
<1>6. /\ Listener!Stored(t0) /\ t0 \notin unchecked /\ verdict[t0] = None /\ ~(queue[t0] > 0)
      /\ \A v \in Workers : Checks(v, t0) => v = w
      /\ \A s \in Slots : ~Hands(s, t0)
  BY <1>5 DEF Inv, OnePlace
<1>7. /\ worker[w].done \in Celery!Verdict /\ worker[w].done # None
      /\ verdict' \in [Times -> Celery!Verdict \cup {None}] /\ verdict'[t0] = worker[w].done
      /\ \A t \in Times : t # t0 => verdict'[t] = verdict[t]
  <2>1. worker[w].done \in Celery!Verdict
    BY <1>2 DEF Celery!Task
  <2> QED BY <1>1, <1>2, <1>5, <2>1, NoVerdictAssumption DEF TypesOK
<1>8. TypesOK' /\ TypeOK'
  <2>1. TypesOK'
    BY <1>1, <1>2, <1>4, <1>7 DEF TypesOK, Moves
  <2> QED BY <1>1, <1>2, <2>1, TypesNext
<1>9. Tasks' /\ AboutStored'
  <2>1. Fits(x)
    BY <1>3, PCs DEF Fits
  <2> QED BY <1>1, <1>4, <2>1, TasksKept DEF Inv, AboutStored, Listener!Stored
<1>10. ASSUME NEW t \in Times, t # t0
       PROVE  /\ OnePlace(t)' /\ Somewhere(t)' /\ EventsRight(t)'
              /\ \A u \in Users : Traced(t, u)' /\ Counted(t, u)'
  BY <1>0, <1>1, <1>3, <1>4, <1>7, <1>8, <1>10, PCs, Elsewhere
<1>11. \A v \in Workers : ~Checks(v, t0)'
  <2>1. ~Checks(w, t0)'
    BY <1>3, <1>4, PCs DEF Checks, Moves
  <2> QED BY <1>4, <1>6, <2>1 DEF Checks, Moves
<1>12. OnePlace(t0)' /\ Somewhere(t0)'
  <2>1. Listener!Stored(t0)' /\ \A s \in Slots : ~Hands(s, t0)'
    BY <1>1, <1>6 DEF Listener!Stored, Hands
  <2> QED BY <1>1, <1>6, <1>7, <1>11, <2>1 DEF OnePlace, Somewhere
<1>13. EventsRight(t0)'
  <2>1. Persisted(t0) /\ Persisted(t0)'
    BY <1>1, <1>5, <1>7 DEF Persisted
  <2> QED BY <1>1, <1>5, <1>7, <1>11, <2>1 DEF Inv, EventsRight
<1>14. ASSUME NEW u \in Users PROVE Traced(t0, u)' /\ Counted(t0, u)'
  <2>1. Reached(t0, u)' => Reached(t0, u)
    BY <1>5, <1>7, <1>11 DEF Reached
  <2>2. ~Pending(t0, u)'
    BY <1>7 DEF Pending
  <2>3. ASSUME NEW v \in Workers PROVE Sends(v, t0, u)' <=> Sends(v, t0, u)
    <3>1. CASE v = w
      BY <1>1, <1>3, <1>4, <3>1 DEF Moves, Sends
    <3>2. CASE v # w
      BY <1>4, <3>2 DEF Moves, Sends
    <3> QED BY <3>1, <3>2
  <2> QED BY <1>1, <1>2, <1>5, <1>8, <2>1, <2>2, <2>3, PushesKept DEF Inv
<1> QED BY <1>5, <1>8, <1>9, <1>10, <1>12, <1>13, <1>14 DEF Inv

(* A check whose worker is lost goes back to the queue, and may repeat everything. *)
LEMMA LoseCheckInv ==
  ASSUME Inv, NEW w \in Workers, Celery!LoseWorker(w), worker[w].pc \in Celery!CheckPCs,
         UNCHANGED listenerVars
  PROVE  Inv'
<1>0. PICK t0 : t0 = worker[w].reading
  OBVIOUS
<1> DEFINE x == Celery!NoTask
<1>1. /\ queue' = [queue EXCEPT ![t0] = @ + 1]
      /\ repeats[t0] < MaxRepeats /\ repeats' = [repeats EXCEPT ![t0] = @ + 1]
      /\ worker' = [worker EXCEPT ![w] = x]
      /\ UNCHANGED <<pushes, events, sent, verdict, gaveUp>>
      /\ UNCHANGED <<readings, firmware, ingest, unchecked>>
  BY <1>0 DEF Celery!LoseWorker, Celery!Repeat, listenerVars
<1>2. TypesOK /\ firmware \in Versions \cup {None} /\ Fits(worker[w]) /\ worker[w] \in Celery!Task
  BY InvTypes, TaskFits DEF TypesOK
<1>3. x \in Celery!Task /\ x.pc = "idle"
  BY NoTaskOK
<1> HIDE DEF x
<1>4. Moves(w, x)
  BY <1>1, <1>2, <1>3, MovesOK
<1>5. t0 \in Times /\ Checks(w, t0)
  BY <1>0, <1>2, PCs DEF Fits, Checks
<1>6. /\ Listener!Stored(t0) /\ t0 \notin unchecked /\ verdict[t0] = None /\ ~(queue[t0] > 0)
      /\ \A v \in Workers : Checks(v, t0) => v = w
      /\ \A s \in Slots : ~Hands(s, t0)
  BY <1>5 DEF Inv, OnePlace
<1>7. /\ queue' \in [Times -> Nat] /\ queue'[t0] = 1
      /\ \A t \in Times : t # t0 => queue'[t] = queue[t]
  <2>1. queue[t0] = 0
    BY <1>2, <1>5, <1>6 DEF TypesOK
  <2> QED BY <1>1, <1>2, <1>5, <2>1 DEF TypesOK
<1>8. /\ repeats' \in [Times -> 0 .. MaxRepeats] /\ repeats'[t0] = repeats[t0] + 1
      /\ \A t \in Times : t # t0 => repeats'[t] = repeats[t]
  BY <1>1, <1>2, <1>5, RepeatsAssumption DEF TypesOK
<1>9. TypesOK' /\ TypeOK'
  <2>1. TypesOK'
    BY <1>1, <1>2, <1>4, <1>7, <1>8 DEF TypesOK, Moves
  <2> QED BY <1>1, <1>2, <2>1, TypesNext
<1>10. Tasks' /\ AboutStored'
  <2>1. Fits(x)
    BY <1>3, PCs DEF Fits
  <2> QED BY <1>1, <1>4, <2>1, TasksKept DEF Inv, AboutStored, Listener!Stored
<1>11. ASSUME NEW t \in Times, t # t0
       PROVE  /\ OnePlace(t)' /\ Somewhere(t)' /\ EventsRight(t)'
              /\ \A u \in Users : Traced(t, u)' /\ Counted(t, u)'
  BY <1>0, <1>1, <1>3, <1>4, <1>7, <1>8, <1>9, <1>11, PCs, Elsewhere
<1>12. \A v \in Workers : ~Checks(v, t0)'
  <2>1. ~Checks(w, t0)'
    BY <1>3, <1>4, PCs DEF Checks, Moves
  <2> QED BY <1>4, <1>6, <2>1 DEF Checks, Moves
<1>13. ASSUME NEW v \in Workers, NEW u \in Users PROVE Sends(v, t0, u)' <=> Sends(v, t0, u)
  <2>1. CASE v = w
    BY <1>3, <1>4, <2>1, PCs DEF Moves, Sends
  <2>2. CASE v # w
    BY <1>4, <2>2 DEF Moves, Sends
  <2> QED BY <2>1, <2>2
<1>14. OnePlace(t0)' /\ Somewhere(t0)'
  <2>1. Listener!Stored(t0)' /\ \A s \in Slots : ~Hands(s, t0)'
    BY <1>1, <1>6 DEF Listener!Stored, Hands
  <2> QED BY <1>1, <1>6, <1>7, <1>12, <2>1 DEF OnePlace, Somewhere
<1>15. EventsRight(t0)'
  BY <1>1, <1>2, <1>5, <1>8, <1>9, <1>12, EventsKept DEF Inv
<1>16. ASSUME NEW u \in Users PROVE Traced(t0, u)' /\ Counted(t0, u)'
  <2>1. ~Reached(t0, u)'
    BY <1>1, <1>6, <1>12 DEF Reached
  <2> QED BY <1>1, <1>2, <1>5, <1>8, <1>9, <1>13, <2>1, PushesKept DEF Inv
<1> QED BY <1>5, <1>9, <1>10, <1>11, <1>14, <1>15, <1>16 DEF Inv

(* The check of t0 dispatches to u0, to whom it has dispatched nothing yet. *)
LEMMA DispatchPushInv ==
  ASSUME Inv, NEW w \in Workers, Celery!DispatchPush(w), UNCHANGED listenerVars
  PROVE  Inv'
<1>0. PICK t0 : t0 = worker[w].reading
  OBVIOUS
<1>1. PICK u0 \in worker[w].todo :
        /\ pushes' = [pushes EXCEPT ![t0][u0][0] = @ + 1]
        /\ worker' = [worker EXCEPT ![w].todo = @ \ {u0}, ![w].done.reached = @ \cup {u0}]
  BY <1>0 DEF Celery!DispatchPush
<1>2. /\ worker[w].pc = "dispatch"
      /\ UNCHANGED <<queue, events, sent, verdict, gaveUp, repeats>>
      /\ UNCHANGED <<readings, firmware, ingest, unchecked>>
  BY DEF Celery!DispatchPush, listenerVars
<1>3. TypesOK /\ firmware \in Versions \cup {None} /\ Fits(worker[w]) /\ worker[w] \in Celery!Task
  BY InvTypes, TaskFits DEF TypesOK
<1>4. /\ t0 \in Times /\ u0 \in Users /\ Listener!Stored(t0) /\ Checks(w, t0)
      /\ u0 \notin worker[w].done.reached
  BY <1>0, <1>2, <1>3, PCs DEF Fits, Checks, Celery!Task
<1> DEFINE done == [worker[w].done EXCEPT !.reached = @ \cup {u0}]
           x == [worker[w] EXCEPT !.todo = @ \ {u0}, !.done = done]
<1>5. /\ done \in Celery!Verdict /\ done.reached = worker[w].done.reached \cup {u0}
      /\ done.recorded = worker[w].done.recorded
  BY <1>3, <1>4 DEF Celery!Task, Celery!Verdict
<1>6. worker' = [worker EXCEPT ![w] = x]
  BY <1>1
<1> HIDE DEF done
<1>7. /\ x \in Celery!Task /\ x.pc = "dispatch" /\ x.reading = t0
      /\ x.todo = worker[w].todo \ {u0} /\ x.done = done
  BY <1>0, <1>2, <1>3, <1>5 DEF Celery!Task
<1> HIDE DEF x
<1>8. Moves(w, x)
  BY <1>3, <1>6, <1>7, MovesOK
<1>9. /\ pushes' \in [Times -> [Users -> [0 .. MaxRetries -> Nat]]]
      /\ \A t \in Times, u \in Users : t # t0 \/ u # u0 => pushes'[t][u] = pushes[t][u]
      /\ pushes'[t0][u0][0] > 0
      /\ IsFiniteSet(Messages(t0, u0)')
      /\ Cardinality(Messages(t0, u0)') = Cardinality(Messages(t0, u0)) + 1
  <2>1. 0 \in 0 .. MaxRetries
    BY RetriesAssumption
  <2>2. Celery!Publish(t0, u0, 0) /\ IsFiniteSet(Messages(t0, u0))
    BY <1>1, <1>4 DEF Celery!Publish, Inv, Counted
  <2> QED BY <1>3, <1>4, <2>1, <2>2, Published
<1>10. TypesOK' /\ TypeOK'
  <2>1. TypesOK'
    BY <1>2, <1>3, <1>8, <1>9 DEF TypesOK, Moves
  <2> QED BY <1>2, <1>3, <2>1, TypesNext
<1>11. /\ \A v \in Workers, t \in Times : Checks(v, t)' <=> Checks(v, t)
       /\ \A v \in Workers, t \in Times, u \in Users : Sends(v, t, u)' <=> Sends(v, t, u)
  BY <1>0, <1>2, <1>7, <1>8, PCs, Checkers
<1>12. Tasks' /\ AboutStored'
  <2>0. worker[w].todo \cap worker[w].done.reached = {}
    BY <1>2, <1>3, PCs DEF Fits
  <2>1. Fits(x)
    BY <1>4, <1>5, <1>7, <2>0, PCs DEF Fits
  <2>2. ASSUME NEW t \in Times, NEW u \in Users, NEW n \in 0 .. MaxRetries, pushes'[t][u][n] > 0
        PROVE  Listener!Stored(t)
    BY <1>4, <1>9, <2>2 DEF Inv, AboutStored
  <2> QED BY <1>2, <1>8, <2>1, <2>2, TasksKept DEF Inv, AboutStored, Listener!Stored
<1>13. ASSUME NEW t \in Times PROVE OnePlace(t)' /\ Somewhere(t)' /\ EventsRight(t)'
  <2>1. OnePlace(t)' /\ Somewhere(t)'
    BY <1>2, <1>11, PlacesKept DEF Inv
  <2>2. \A v \in Workers : /\ worker'[v].done.recorded = worker[v].done.recorded
                           /\ worker'[v].pc = worker[v].pc
    BY <1>2, <1>5, <1>7, <1>8 DEF Moves
  <2>3. Persisted(t) => Persisted(t)'
    BY <1>2, <1>11, <2>2 DEF Persisted
  <2>4. EventsRight(t)'
    BY <1>2, <1>3, <1>10, <1>11, <2>2, <2>3, EventsKept DEF Inv
  <2> QED BY <2>1, <2>4
<1>14. ASSUME NEW t \in Times, NEW u \in Users, t # t0 \/ u # u0
       PROVE  Traced(t, u)' /\ Counted(t, u)'
  <2>1. \A v \in Workers : Checks(v, t) =>
           (u \in worker'[v].done.reached <=> u \in worker[v].done.reached)
    <3> TAKE v \in Workers
    <3>1. CASE v # w
      BY <1>8, <3>1 DEF Moves
    <3>2. CASE v = w
      BY <1>0, <1>5, <1>7, <1>8, <1>14, <3>2 DEF Moves, Checks
    <3> QED BY <3>1, <3>2
  <2>2. Reached(t, u)' <=> Reached(t, u)
    BY <1>2, <1>11, <2>1 DEF Reached
  <2>3. Pending(t, u)' <=> Pending(t, u)
    BY <1>2, <2>2 DEF Pending
  <2> QED BY <1>2, <1>3, <1>9, <1>10, <1>11, <1>14, <2>2, <2>3, PushesKept DEF Inv
<1>15. Traced(t0, u0)'
  <2>1. 0 \in 0 .. MaxRetries
    BY RetriesAssumption
  <2> QED BY <1>9, <2>1 DEF Traced
<1>16. Counted(t0, u0)'
  <2>1. verdict[t0] = None /\ \A v \in Workers : Checks(v, t0) => v = w
    BY <1>4 DEF Inv, OnePlace
  <2>2. Pending(t0, u0)
    BY <1>4, <2>1 DEF Pending, Reached
  <2>3. ~Pending(t0, u0)'
    <3>1. Checks(w, t0)' /\ u0 \in worker'[w].done.reached
      BY <1>4, <1>5, <1>7, <1>8, <1>11 DEF Moves
    <3> QED BY <3>1 DEF Pending, Reached
  <2>4. Sending(t0, u0)' = Sending(t0, u0)
    BY <1>4, <1>11 DEF Sending
  <2>5. Counted(t0, u0) /\ sent[t0][u0] \in Nat /\ repeats[t0] \in Nat
    BY <1>3, <1>4 DEF Inv, TypesOK
  <2>6. Cardinality(Messages(t0, u0)) \in Nat /\ Cardinality(Sending(t0, u0)) \in Nat
    BY <1>4, <2>5, Finite
  <2>7. sent[t0][u0] + Cardinality(Messages(t0, u0)) + Cardinality(Sending(t0, u0)) + 1
          <= 1 + repeats[t0]
    BY <2>2, <2>5 DEF Counted
  <2>8. sent'[t0][u0] + Cardinality(Messages(t0, u0)') + Cardinality(Sending(t0, u0)') + 0
          <= 1 + repeats'[t0]
    BY <1>2, <1>9, <2>4, <2>5, <2>6, <2>7
  <2>9. IsFiniteSet(Sending(t0, u0)')
    BY <2>4, <2>5 DEF Counted
  <2> QED BY <1>9, <2>3, <2>8, <2>9 DEF Counted
<1> QED BY <1>10, <1>12, <1>13, <1>14, <1>15, <1>16 DEF Inv

----------------------------------------------------------------------------
(* Steps of a worker that has a push in hand *)

(* What is known of the numbers that are counted *)
LEMMA Counts ==
  ASSUME Inv, NEW t \in Times, NEW u \in Users
  PROVE  /\ IsFiniteSet(Messages(t, u)) /\ Cardinality(Messages(t, u)) \in Nat
         /\ IsFiniteSet(Sending(t, u)) /\ Cardinality(Sending(t, u)) \in Nat
         /\ sent[t][u] \in Nat /\ repeats[t] \in Nat
         /\ sent[t][u] + Cardinality(Messages(t, u)) + Cardinality(Sending(t, u))
              + (IF Pending(t, u) THEN 1 ELSE 0) <= 1 + repeats[t]
<1>1. TypesOK /\ Counted(t, u)
  BY InvTypes DEF Inv
<1>2. Cardinality(Messages(t, u)) \in Nat /\ Cardinality(Sending(t, u)) \in Nat
  BY <1>1, Finite
<1> QED BY <1>1, <1>2 DEF TypesOK, Counted

LEMMA Pusher ==
  ASSUME Inv, NEW w \in Workers, worker[w].pc \in Celery!PushPCs
  PROVE  /\ worker[w] \in Celery!Task /\ worker[w].pc \notin Celery!CheckPCs
         /\ worker[w].reading \in Times /\ Listener!Stored(worker[w].reading)
         /\ worker[w].user \in Users /\ worker[w].retries \in 0 .. MaxRetries
<1>1. TypesOK /\ Fits(worker[w]) /\ worker[w] \in Celery!Task
  BY InvTypes, TaskFits DEF TypesOK
<1> QED BY <1>1, PCs DEF Fits, Celery!Task

(* A message about t to u is taken: it is being sent. *)
LEMMA TakePushInv ==
  ASSUME Inv, NEW w \in Workers, Celery!TakePush(w), UNCHANGED listenerVars
  PROVE  Inv'
<1>1. PICK t \in Times, u \in Users, n \in 0 .. MaxRetries :
        /\ pushes[t][u][n] > 0
        /\ pushes' = [pushes EXCEPT ![t][u][n] = @ - 1]
        /\ worker' = [worker EXCEPT ![w] = [Celery!NoTask EXCEPT !.pc = "send", !.reading = t,
                                                        !.user = u, !.retries = n]]
  BY DEF Celery!TakePush
<1>2. /\ worker[w].pc = "idle" /\ UNCHANGED <<queue, events, sent, verdict, gaveUp, repeats>>
      /\ UNCHANGED <<readings, firmware, ingest, unchecked>>
  BY DEF Celery!TakePush, listenerVars
<1>3. TypesOK
  BY InvTypes
<1> DEFINE x == [Celery!NoTask EXCEPT !.pc = "send", !.reading = t, !.user = u, !.retries = n]
<1>4. x \in Celery!Task /\ x.pc = "send" /\ x.reading = t /\ x.user = u
  BY NoTaskOK, PCs DEF Celery!NoTask, Celery!Task
<1>5. worker' = [worker EXCEPT ![w] = x]
  BY <1>1
<1> HIDE DEF x
<1>6. Moves(w, x)
  BY <1>3, <1>4, <1>5, MovesOK
<1>7. Counted(t, u) /\ Traced(t, u) /\ Listener!Stored(t)
  BY <1>1 DEF Inv, AboutStored
<1>8. /\ pushes' \in [Times -> [Users -> [0 .. MaxRetries -> Nat]]]
      /\ \A t2 \in Times, u2 \in Users : t2 # t \/ u2 # u => pushes'[t2][u2] = pushes[t2][u2]
      /\ IsFiniteSet(Messages(t, u)')
      /\ Cardinality(Messages(t, u)') = Cardinality(Messages(t, u)) - 1
  BY <1>1, <1>3, <1>7, Taken DEF Counted
<1>9. TypesOK'
  BY <1>2, <1>3, <1>6, <1>8 DEF TypesOK, Moves
<1>10. Fits(x)
  BY <1>4, <1>7, PCs DEF Fits
<1>11. Traced(t, u)'
  <2>1. Sends(w, t, u)'
    BY <1>4, <1>6 DEF Sends, Moves
  <2> QED BY <2>1 DEF Traced
<1>12. ASSUME Pending(t, u)' <=> Pending(t, u) PROVE Counted(t, u)'
  <2>1. Sending(t, u)' = Sending(t, u) \cup {w} /\ w \notin Sending(t, u)
    BY <1>2, <1>4, <1>6, SendersChange DEF Sending, Sends
  <2>2. /\ IsFiniteSet(Sending(t, u)')
        /\ Cardinality(Sending(t, u)') = Cardinality(Sending(t, u)) + 1
    BY <2>1, <1>7, FS_AddElement DEF Counted
  <2>3. /\ Cardinality(Messages(t, u)) \in Nat /\ Cardinality(Sending(t, u)) \in Nat
        /\ sent[t][u] \in Nat /\ repeats[t] \in Nat
        /\ sent[t][u] + Cardinality(Messages(t, u)) + Cardinality(Sending(t, u))
             + (IF Pending(t, u) THEN 1 ELSE 0) <= 1 + repeats[t]
    BY Counts
  <2>4. sent'[t][u] + Cardinality(Messages(t, u)') + Cardinality(Sending(t, u)')
          + (IF Pending(t, u)' THEN 1 ELSE 0) <= 1 + repeats'[t]
    <3>1. /\ sent'[t][u] = sent[t][u] /\ repeats'[t] = repeats[t]
          /\ Cardinality(Messages(t, u)') = Cardinality(Messages(t, u)) - 1
      BY <1>2, <1>8
    <3>2. CASE Pending(t, u)
      BY <1>12, <2>2, <2>3, <3>1, <3>2
    <3>3. CASE ~Pending(t, u)
      BY <1>12, <2>2, <2>3, <3>1, <3>3
    <3> QED BY <3>2, <3>3
  <2> QED BY <1>8, <2>2, <2>4 DEF Counted
<1> QED BY <1>2, <1>4, <1>6, <1>7, <1>8, <1>9, <1>10, <1>11, <1>12, PCs, PushStep

LEMMA Accepted ==
  ASSUME Inv, NEW w \in Workers, worker[w].pc \in Celery!PushPCs, Celery!Accept(w),
         NEW t \in Times, worker[w].reading = t, NEW u \in Users, worker[w].user = u
  PROVE  /\ sent' \in [Times -> [Users -> Nat]] /\ sent'[t][u] = sent[t][u] + 1
         /\ \A t2 \in Times, u2 \in Users : t2 # t \/ u2 # u => sent'[t2][u2] = sent[t2][u2]
<1>1. t \in Times /\ u \in Users /\ sent \in [Times -> [Users -> Nat]]
  BY InvTypes, Pusher DEF TypesOK
<1> DEFINE f == [sent[t] EXCEPT ![u] = @ + 1]
<1>2. /\ f \in [Users -> Nat] /\ f[u] = sent[t][u] + 1
      /\ \A u2 \in Users : u2 # u => f[u2] = sent[t][u2]
  BY <1>1
<1>3. sent' = [sent EXCEPT ![t] = f]
  BY DEF Celery!Accept
<1> HIDE DEF f
<1> QED BY <1>1, <1>2, <1>3

(* The send has an outcome: FCM has the notification, or the push is given up, or it
   will be sent again; a notification more counts as a repetition if w goes on. *)
LEMMA SendStep ==
  ASSUME Inv, NEW w \in Workers, worker[w].pc \in {"send", "retry"},
         NEW pc \in {"retry", "acknowledge"}, worker' = [worker EXCEPT ![w].pc = pc],
         pc = "retry" => worker[w].retries < MaxRetries,
         NEW t \in Times, worker[w].reading = t, NEW u \in Users, worker[w].user = u,
         UNCHANGED <<listenerVars, queue, pushes, events, verdict>>,
         sent' \in [Times -> [Users -> Nat]],
         \A t2 \in Times, u2 \in Users : t2 # t \/ u2 # u => sent'[t2][u2] = sent[t2][u2],
         gaveUp \subseteq gaveUp', gaveUp' \in SUBSET (Times \X Users),
         repeats' \in [Times -> 0 .. MaxRepeats],
         \A t2 \in Times : \/ repeats'[t2] = repeats[t2]
                           \/ repeats'[t2] = repeats[t2] + 1,
         sent'[t][u] > 0 \/ <<t, u>> \in gaveUp' \/ pc = "retry",
         sent'[t][u] + (IF pc = "retry" THEN 1 ELSE 0) + repeats[t]
           <= sent[t][u] + 1 + repeats'[t]
  PROVE  Inv'
<1>1. /\ worker[w] \in Celery!Task /\ worker[w].pc \notin Celery!CheckPCs
      /\ t \in Times /\ Listener!Stored(t) /\ u \in Users
  BY Pusher, PCs
<1>2. TypesOK
  BY InvTypes
<1>3. PICK x \in Celery!Task :
        /\ Moves(w, x) /\ x.pc = pc /\ x.reading = t /\ x.user = u
        /\ x.retries = worker[w].retries
  <2>1. pc \in {"idle"} \cup Celery!CheckPCs \cup Celery!PushPCs
    BY PCs
  <2>2. \E x \in Celery!Task :
          /\ Moves(w, x) /\ x.pc = pc /\ x.reading = worker[w].reading
          /\ x.user = worker[w].user /\ x.retries = worker[w].retries
          /\ x.todo = worker[w].todo /\ x.done = worker[w].done
    BY <1>2, <2>1, PcChanges
  <2> QED BY <2>2
<1>4. TypesOK'
  BY <1>2, <1>3 DEF TypesOK, Moves, listenerVars
<1>5. Fits(x) /\ x.pc \notin Celery!CheckPCs
  BY <1>1, <1>3, PCs DEF Fits
<1>6. Sending(t, u)' = IF pc = "retry" THEN Sending(t, u) ELSE Sending(t, u) \ {w}
  <2>1. w \in Sending(t, u)
    BY DEF Sending, Sends
  <2>2. Sending(t, u)' = IF x.pc \in {"send", "retry"} THEN Sending(t, u) \cup {w}
                         ELSE Sending(t, u) \ {w}
    BY <1>1, <1>3, SendersChange
  <2> QED BY <1>3, <2>1, <2>2
<1>7. Messages(t, u)' = Messages(t, u)
  BY DEF Messages
<1>8. Traced(t, u)'
  <2>1. pc = "retry" => Sends(w, t, u)'
    BY <1>3 DEF Sends, Moves
  <2> QED BY <2>1 DEF Traced
<1>9. ASSUME Pending(t, u)' <=> Pending(t, u) PROVE Counted(t, u)'
  <2>1. /\ IsFiniteSet(Messages(t, u)) /\ Cardinality(Messages(t, u)) \in Nat
        /\ IsFiniteSet(Sending(t, u)) /\ Cardinality(Sending(t, u)) \in Nat
        /\ sent[t][u] \in Nat /\ repeats[t] \in Nat
        /\ sent[t][u] + Cardinality(Messages(t, u)) + Cardinality(Sending(t, u))
             + (IF Pending(t, u) THEN 1 ELSE 0) <= 1 + repeats[t]
    BY <1>1, Counts
  <2>2. /\ IsFiniteSet(Sending(t, u)')
        /\ Cardinality(Sending(t, u)')
             = Cardinality(Sending(t, u)) - (IF pc = "retry" THEN 0 ELSE 1)
    <3>1. CASE pc = "retry"
      BY <1>6, <2>1, <3>1
    <3>2. CASE pc # "retry"
      <4>1. w \in Sending(t, u)
        BY DEF Sending, Sends
      <4> QED BY <1>6, <2>1, <3>2, <4>1, FS_RemoveElement
    <3> QED BY <3>1, <3>2
  <2>3. sent'[t][u] \in Nat /\ repeats'[t] \in Nat
    BY <1>1, <1>4 DEF TypesOK
  <2>4. sent'[t][u] + Cardinality(Messages(t, u)') + Cardinality(Sending(t, u)')
          + (IF Pending(t, u)' THEN 1 ELSE 0) <= 1 + repeats'[t]
    <3>1. CASE pc = "retry"
      BY <1>7, <1>9, <2>1, <2>2, <2>3, <3>1
    <3>2. CASE pc # "retry"
      BY <1>7, <1>9, <2>1, <2>2, <2>3, <3>2
    <3> QED BY <3>1, <3>2
  <2> QED BY <1>7, <2>1, <2>2, <2>4 DEF Counted
<1> QED BY <1>1, <1>3, <1>4, <1>5, <1>8, <1>9, PushStep

LEMMA SendSucceedsInv ==
  ASSUME Inv, NEW w \in Workers, Celery!SendSucceeds(w), UNCHANGED listenerVars
  PROVE  Inv'
<1>0. PICK t \in Times : worker[w].reading = t
  BY PCs, Pusher DEF Celery!SendSucceeds
<1>1. PICK u \in Users : worker[w].user = u
  BY PCs, Pusher DEF Celery!SendSucceeds
<1>2. /\ worker[w].pc = "send" /\ Celery!Accept(w)
      /\ worker' = [worker EXCEPT ![w].pc = "acknowledge"]
      /\ UNCHANGED <<queue, pushes, events, verdict, gaveUp, repeats>>
  BY DEF Celery!SendSucceeds
<1>3. /\ sent' \in [Times -> [Users -> Nat]] /\ sent'[t][u] = sent[t][u] + 1
      /\ \A t2 \in Times, u2 \in Users : t2 # t \/ u2 # u => sent'[t2][u2] = sent[t2][u2]
  BY <1>0, <1>1, <1>2, PCs, Accepted
<1>5. TypesOK
  BY InvTypes
<1>6. sent[t][u] \in Nat /\ repeats[t] \in Nat
  BY Counts
<1>7. PICK pc \in {"retry", "acknowledge"} : pc = "acknowledge"
  OBVIOUS
<1>8. /\ worker' = [worker EXCEPT ![w].pc = pc] /\ pc # "retry"
      /\ sent'[t][u] > 0
      /\ sent'[t][u] + (IF pc = "retry" THEN 1 ELSE 0) + repeats[t]
           <= sent[t][u] + 1 + repeats'[t]
  BY <1>2, <1>3, <1>6, <1>7
<1>9. /\ gaveUp' \in SUBSET (Times \X Users) /\ gaveUp \subseteq gaveUp'
      /\ repeats' \in [Times -> 0 .. MaxRepeats] /\ \A t2 \in Times : repeats'[t2] = repeats[t2]
  BY <1>2, <1>5 DEF TypesOK
<1>10. worker[w].pc = "send" /\ UNCHANGED <<listenerVars, queue, pushes, events, verdict>>
  BY <1>2
<1>11. \A t2 \in Times, u2 \in Users : t2 # t \/ u2 # u => sent'[t2][u2] = sent[t2][u2]
  BY <1>3
<1> QED BY <1>0, <1>1, <1>3, <1>8, <1>9, <1>10, <1>11, SendStep

LEMMA SendRejectedInv ==
  ASSUME Inv, NEW w \in Workers, Celery!SendRejected(w), UNCHANGED listenerVars
  PROVE  Inv'
<1>0. PICK t \in Times : worker[w].reading = t
  BY PCs, Pusher DEF Celery!SendRejected
<1>1. PICK u \in Users : worker[w].user = u
  BY PCs, Pusher DEF Celery!SendRejected
<1>2. /\ worker[w].pc = "send" /\ gaveUp' = gaveUp \cup {<<t, u>>}
      /\ worker' = [worker EXCEPT ![w].pc = "acknowledge"]
      /\ UNCHANGED <<queue, pushes, events, sent, verdict, repeats>>
  BY <1>0, <1>1 DEF Celery!SendRejected, Celery!GiveUp
<1>4. TypesOK
  BY InvTypes
<1>5. sent[t][u] \in Nat /\ repeats[t] \in Nat
  BY Counts
<1>6. gaveUp' \in SUBSET (Times \X Users)
  BY <1>2, <1>4 DEF TypesOK
<1>7. PICK pc \in {"retry", "acknowledge"} : pc = "acknowledge"
  OBVIOUS
<1>8. /\ worker' = [worker EXCEPT ![w].pc = pc] /\ pc # "retry"
      /\ <<t, u>> \in gaveUp' /\ gaveUp \subseteq gaveUp'
      /\ sent'[t][u] + (IF pc = "retry" THEN 1 ELSE 0) + repeats[t]
           <= sent[t][u] + 1 + repeats'[t]
  BY <1>2, <1>5, <1>7
<1>9. /\ sent' \in [Times -> [Users -> Nat]]
      /\ \A t2 \in Times, u2 \in Users : sent'[t2][u2] = sent[t2][u2]
      /\ repeats' \in [Times -> 0 .. MaxRepeats] /\ \A t2 \in Times : repeats'[t2] = repeats[t2]
  BY <1>2, <1>4 DEF TypesOK
<1> QED BY <1>0, <1>1, <1>2, <1>6, <1>8, <1>9, SendStep

(* Whatever RetryOrGiveUp does, w goes on to pc, and gives up unless it retries. *)
LEMMA RetryStep ==
  ASSUME Inv, NEW w \in Workers, worker[w].pc = "send", Celery!RetryOrGiveUp(w)
  PROVE  \E pc \in {"retry", "acknowledge"} :
           /\ worker' = [worker EXCEPT ![w].pc = pc]
           /\ pc = "retry" => worker[w].retries < MaxRetries
           /\ gaveUp' = IF pc = "retry" THEN gaveUp
                        ELSE gaveUp \cup {<<worker[w].reading, worker[w].user>>}
           /\ gaveUp \subseteq gaveUp' /\ gaveUp' \in SUBSET (Times \X Users)
           /\ <<worker[w].reading, worker[w].user>> \in gaveUp' \/ pc = "retry"
<1>1. gaveUp \in SUBSET (Times \X Users) /\ worker[w].reading \in Times /\ worker[w].user \in Users
  BY InvTypes, Pusher, PCs DEF TypesOK
<1>2. CASE worker[w].retries < MaxRetries
  BY <1>1, <1>2 DEF Celery!RetryOrGiveUp
<1>3. CASE ~(worker[w].retries < MaxRetries)
  BY <1>1, <1>3 DEF Celery!RetryOrGiveUp, Celery!GiveUp
<1> QED BY <1>2, <1>3

LEMMA SendFailsInv ==
  ASSUME Inv, NEW w \in Workers, Celery!SendFails(w), UNCHANGED listenerVars
  PROVE  Inv'
<1>0. PICK t \in Times : worker[w].reading = t
  BY PCs, Pusher DEF Celery!SendFails
<1>1. PICK u \in Users : worker[w].user = u
  BY PCs, Pusher DEF Celery!SendFails
<1>2. /\ worker[w].pc = "send" /\ Celery!RetryOrGiveUp(w)
      /\ UNCHANGED <<queue, pushes, events, sent, verdict, repeats>>
  BY DEF Celery!SendFails
<1>3. PICK pc \in {"retry", "acknowledge"} :
        /\ worker' = [worker EXCEPT ![w].pc = pc]
        /\ pc = "retry" => worker[w].retries < MaxRetries
        /\ gaveUp \subseteq gaveUp' /\ gaveUp' \in SUBSET (Times \X Users)
        /\ <<t, u>> \in gaveUp' \/ pc = "retry"
  BY <1>0, <1>1, <1>2, RetryStep
<1>5. TypesOK
  BY InvTypes
<1>6. sent[t][u] \in Nat /\ repeats[t] \in Nat
  BY Counts
<1>7. sent'[t][u] + (IF pc = "retry" THEN 1 ELSE 0) + repeats[t]
        <= sent[t][u] + 1 + repeats'[t]
  BY <1>2, <1>6
<1> QED BY <1>0, <1>1, <1>2, <1>3, <1>5, <1>7, SendStep DEF TypesOK

LEMMA Repeated ==
  ASSUME TypesOK, NEW t \in Times, Celery!Repeat(t)
  PROVE  /\ repeats' \in [Times -> 0 .. MaxRepeats] /\ repeats'[t] = repeats[t] + 1
         /\ \A t2 \in Times : t2 # t => repeats'[t2] = repeats[t2]
BY RepeatsAssumption DEF TypesOK, Celery!Repeat

LEMMA AnswerLostInv ==
  ASSUME Inv, NEW w \in Workers, Celery!AnswerLost(w), UNCHANGED listenerVars
  PROVE  Inv'
<1>0. PICK t \in Times : worker[w].reading = t
  BY PCs, Pusher DEF Celery!AnswerLost
<1>1. PICK u \in Users : worker[w].user = u
  BY PCs, Pusher DEF Celery!AnswerLost
<1>2. /\ worker[w].pc = "send" /\ Celery!Accept(w) /\ Celery!Repeat(t)
      /\ Celery!RetryOrGiveUp(w) /\ UNCHANGED <<queue, pushes, events, verdict>>
  BY <1>0 DEF Celery!AnswerLost
<1>3. PICK pc \in {"retry", "acknowledge"} :
        /\ worker' = [worker EXCEPT ![w].pc = pc]
        /\ pc = "retry" => worker[w].retries < MaxRetries
        /\ gaveUp \subseteq gaveUp' /\ gaveUp' \in SUBSET (Times \X Users)
        /\ <<t, u>> \in gaveUp' \/ pc = "retry"
  BY <1>0, <1>1, <1>2, RetryStep
<1>4. /\ sent' \in [Times -> [Users -> Nat]] /\ sent'[t][u] = sent[t][u] + 1
      /\ \A t2 \in Times, u2 \in Users : t2 # t \/ u2 # u => sent'[t2][u2] = sent[t2][u2]
  BY <1>0, <1>1, <1>2, PCs, Accepted
<1>6. /\ repeats' \in [Times -> 0 .. MaxRepeats] /\ repeats'[t] = repeats[t] + 1
      /\ \A t2 \in Times : t2 # t => repeats'[t2] = repeats[t2]
  BY <1>2, InvTypes, Repeated
<1>7. sent[t][u] \in Nat /\ repeats[t] \in Nat
  BY Counts
<1>8. \A t2 \in Times : \/ repeats'[t2] = repeats[t2]
                        \/ repeats'[t2] = repeats[t2] + 1
  BY <1>6
<1>9. sent'[t][u] + (IF pc = "retry" THEN 1 ELSE 0) + repeats[t]
        <= sent[t][u] + 1 + repeats'[t]
  BY <1>4, <1>6, <1>7
<1> QED BY <1>0, <1>1, <1>2, <1>3, <1>4, <1>6, <1>8, <1>9, SendStep

(* A retry that cannot be published is given up. *)
LEMMA RetryFailsInv ==
  ASSUME Inv, NEW w \in Workers, Celery!RetryFails(w), UNCHANGED listenerVars
  PROVE  Inv'
<1>0. PICK t \in Times : worker[w].reading = t
  BY PCs, Pusher DEF Celery!RetryFails
<1>1. PICK u \in Users : worker[w].user = u
  BY PCs, Pusher DEF Celery!RetryFails
<1>2. /\ worker[w].pc = "retry" /\ gaveUp' = gaveUp \cup {<<t, u>>}
      /\ worker' = [worker EXCEPT ![w].pc = "acknowledge"]
      /\ UNCHANGED <<queue, pushes, events, sent, verdict, repeats>>
  BY <1>0, <1>1 DEF Celery!RetryFails, Celery!GiveUp
<1>4. TypesOK
  BY InvTypes
<1>5. sent[t][u] \in Nat /\ repeats[t] \in Nat
  BY Counts
<1>6. gaveUp' \in SUBSET (Times \X Users)
  BY <1>2, <1>4 DEF TypesOK
<1>7. PICK pc \in {"retry", "acknowledge"} : pc = "acknowledge"
  OBVIOUS
<1>8. /\ worker' = [worker EXCEPT ![w].pc = pc] /\ pc # "retry"
      /\ <<t, u>> \in gaveUp' /\ gaveUp \subseteq gaveUp'
      /\ sent'[t][u] + (IF pc = "retry" THEN 1 ELSE 0) + repeats[t]
           <= sent[t][u] + 1 + repeats'[t]
  BY <1>2, <1>5, <1>7
<1>9. /\ sent' \in [Times -> [Users -> Nat]]
      /\ \A t2 \in Times, u2 \in Users : sent'[t2][u2] = sent[t2][u2]
      /\ repeats' \in [Times -> 0 .. MaxRepeats] /\ \A t2 \in Times : repeats'[t2] = repeats[t2]
  BY <1>2, <1>4 DEF TypesOK
<1> QED BY <1>0, <1>1, <1>2, <1>6, <1>8, <1>9, SendStep

(* The message is sent again with one retry more. *)
LEMMA PublishRetryInv ==
  ASSUME Inv, NEW w \in Workers, Celery!PublishRetry(w), UNCHANGED listenerVars
  PROVE  Inv'
<1>0. PICK t \in Times : worker[w].reading = t
  BY PCs, Pusher DEF Celery!PublishRetry
<1>1. PICK u \in Users : worker[w].user = u
  BY PCs, Pusher DEF Celery!PublishRetry
<1>2. /\ worker[w].pc = "retry" /\ Celery!Publish(t, u, worker[w].retries + 1)
      /\ worker' = [worker EXCEPT ![w].pc = "acknowledge"]
      /\ UNCHANGED <<queue, events, sent, verdict, gaveUp, repeats>>
  BY <1>0, <1>1 DEF Celery!PublishRetry
<1>3. TypesOK /\ Fits(worker[w])
  BY InvTypes, TaskFits
<1>4. PICK n \in 0 .. MaxRetries : n = worker[w].retries + 1
  <2>1. worker[w].retries \in 0 .. MaxRetries /\ worker[w].retries < MaxRetries
    BY <1>2, <1>3, PCs, Pusher DEF Fits
  <2> QED BY <2>1, RetriesAssumption
<1>5. /\ IsFiniteSet(Messages(t, u)) /\ Cardinality(Messages(t, u)) \in Nat
      /\ IsFiniteSet(Sending(t, u)) /\ Cardinality(Sending(t, u)) \in Nat
      /\ sent[t][u] \in Nat /\ repeats[t] \in Nat
      /\ sent[t][u] + Cardinality(Messages(t, u)) + Cardinality(Sending(t, u))
           + (IF Pending(t, u) THEN 1 ELSE 0) <= 1 + repeats[t]
  BY Counts
<1>6. /\ pushes' \in [Times -> [Users -> [0 .. MaxRetries -> Nat]]]
      /\ \A t2 \in Times, u2 \in Users : t2 # t \/ u2 # u => pushes'[t2][u2] = pushes[t2][u2]
      /\ pushes'[t][u][n] > 0
      /\ IsFiniteSet(Messages(t, u)')
      /\ Cardinality(Messages(t, u)') = Cardinality(Messages(t, u)) + 1
  BY <1>2, <1>3, <1>4, <1>5, Published
<1>7. PICK x \in Celery!Task :
        Moves(w, x) /\ x.pc = "acknowledge" /\ x.reading = t /\ x.user = u
  <2>1. "acknowledge" \in {"idle"} \cup Celery!CheckPCs \cup Celery!PushPCs
    BY PCs
  <2>2. \E x \in Celery!Task :
          /\ Moves(w, x) /\ x.pc = "acknowledge" /\ x.reading = worker[w].reading
          /\ x.user = worker[w].user /\ x.retries = worker[w].retries
          /\ x.todo = worker[w].todo /\ x.done = worker[w].done
    BY <1>2, <1>3, <2>1, PcChanges
  <2> QED BY <1>0, <1>1, <2>2
<1>8. TypesOK'
  BY <1>2, <1>3, <1>6, <1>7 DEF TypesOK, Moves, listenerVars
<1>9. Listener!Stored(t) /\ Fits(x)
  BY <1>0, <1>2, <1>3, <1>7, PCs DEF Fits
<1>10. Traced(t, u)'
  BY <1>6 DEF Traced
<1>11. ASSUME Pending(t, u)' <=> Pending(t, u) PROVE Counted(t, u)'
  <2>1. w \in Sending(t, u)
    BY <1>0, <1>1, <1>2 DEF Sending, Sends
  <2>2. Sending(t, u)' = Sending(t, u) \ {w}
    BY <1>0, <1>1, <1>7, SendersChange
  <2>3. /\ IsFiniteSet(Sending(t, u)')
        /\ Cardinality(Sending(t, u)') = Cardinality(Sending(t, u)) - 1
    BY <1>5, <2>1, <2>2, FS_RemoveElement
  <2>4. sent'[t][u] = sent[t][u] /\ repeats'[t] = repeats[t]
    BY <1>2
  <2>5. sent'[t][u] + Cardinality(Messages(t, u)') + Cardinality(Sending(t, u)')
          + (IF Pending(t, u)' THEN 1 ELSE 0) <= 1 + repeats'[t]
    <3> DEFINE m == Cardinality(Messages(t, u))
               k == Cardinality(Sending(t, u))
               e == IF Pending(t, u) THEN 1 ELSE 0
    <3>1. /\ Cardinality(Messages(t, u)') = m + 1
          /\ Cardinality(Sending(t, u)') = k - 1
          /\ (IF Pending(t, u)' THEN 1 ELSE 0) = e
      BY <1>6, <1>11, <2>3
    <3>2. /\ sent[t][u] \in Nat /\ m \in Nat /\ k \in Nat /\ e \in Nat /\ repeats[t] \in Nat
          /\ sent[t][u] + m + k + e <= 1 + repeats[t]
      BY <1>5
    <3> HIDE DEF m, k, e
    <3>3. sent[t][u] + (m + 1) + (k - 1) + e <= 1 + repeats[t]
      BY <3>2
    <3> QED BY <2>4, <3>1, <3>3
  <2> QED BY <1>6, <2>3, <2>5 DEF Counted
<1>12. worker[w].pc \notin Celery!CheckPCs /\ x.pc \notin Celery!CheckPCs
  BY <1>2, <1>7, PCs
<1>13. \A t2 \in Times, u2 \in Users : t2 # t \/ u2 # u =>
         pushes'[t2][u2] = pushes[t2][u2] /\ sent'[t2][u2] = sent[t2][u2]
  BY <1>2, <1>6
<1>14. UNCHANGED <<listenerVars, queue, events, verdict>> /\ gaveUp \subseteq gaveUp'
       /\ \A t2 \in Times : repeats'[t2] = repeats[t2]
  BY <1>2
<1> QED BY <1>0, <1>1, <1>7, <1>8, <1>9, <1>10, <1>11, <1>12, <1>13, <1>14, PushStep

LEMMA AcknowledgePushInv ==
  ASSUME Inv, NEW w \in Workers, Celery!AcknowledgePush(w), UNCHANGED listenerVars
  PROVE  Inv'
<1>0. PICK t \in Times : worker[w].reading = t
  BY PCs, Pusher DEF Celery!AcknowledgePush
<1>1. PICK u \in Users : worker[w].user = u
  BY PCs, Pusher DEF Celery!AcknowledgePush
<1> DEFINE x == Celery!NoTask
<1>2. /\ worker[w].pc = "acknowledge" /\ worker' = [worker EXCEPT ![w] = x]
      /\ UNCHANGED <<queue, pushes, events, sent, verdict, gaveUp, repeats>>
  BY DEF Celery!AcknowledgePush
<1>3. TypesOK /\ Fits(worker[w])
  BY InvTypes, TaskFits
<1>4. x \in Celery!Task /\ x.pc = "idle"
  BY NoTaskOK
<1> HIDE DEF x
<1>5. Moves(w, x)
  BY <1>2, <1>3, <1>4, MovesOK
<1>6. TypesOK'
  BY <1>2, <1>3, <1>5 DEF TypesOK, Moves, listenerVars
<1>7. Listener!Stored(t) /\ Fits(x)
  BY <1>0, <1>2, <1>3, <1>4, PCs DEF Fits
<1>8. \A v \in Workers : Sends(v, t, u)' <=> Sends(v, t, u)
  <2> TAKE v \in Workers
  <2>1. CASE v = w
    BY <1>2, <1>4, <1>5, <2>1 DEF Moves, Sends
  <2>2. CASE v # w
    BY <1>5, <2>2 DEF Moves, Sends
  <2> QED BY <2>1, <2>2
<1>9. ASSUME Reached(t, u)' <=> Reached(t, u), Pending(t, u)' <=> Pending(t, u)
      PROVE  Traced(t, u)' /\ Counted(t, u)'
  <2>1. Traced(t, u) /\ Counted(t, u)
    BY DEF Inv
  <2> QED BY <1>2, <1>3, <1>6, <1>8, <1>9, <2>1, PushesKept
<1>10. worker[w].pc \notin Celery!CheckPCs /\ x.pc \notin Celery!CheckPCs
  BY <1>2, <1>4, PCs
<1> QED BY <1>0, <1>1, <1>2, <1>4, <1>5, <1>6, <1>7, <1>9, <1>10, PushStep

(* A push whose worker is lost waits again, whether or not it was sent. *)
LEMMA LosePushInv ==
  ASSUME Inv, NEW w \in Workers, Celery!LoseWorker(w), worker[w].pc \in Celery!PushPCs,
         UNCHANGED listenerVars
  PROVE  Inv'
<1>0. PICK t \in Times : worker[w].reading = t
  BY Pusher
<1>1. PICK u \in Users : worker[w].user = u
  BY Pusher
<1>2. PICK n \in 0 .. MaxRetries : worker[w].retries = n
  BY Pusher
<1> DEFINE x == Celery!NoTask
<1>3. /\ Celery!Repeat(t) /\ Celery!Publish(t, u, n)
      /\ worker' = [worker EXCEPT ![w] = x] /\ UNCHANGED <<queue, events, sent, verdict, gaveUp>>
  <2>1. worker[w].pc \notin Celery!CheckPCs
    BY Pusher
  <2> QED BY <1>0, <1>1, <1>2, <2>1 DEF Celery!LoseWorker
<1>4. TypesOK /\ Fits(worker[w])
  BY InvTypes, TaskFits
<1>5. x \in Celery!Task /\ x.pc = "idle"
  BY NoTaskOK
<1> HIDE DEF x
<1>6. Moves(w, x)
  BY <1>3, <1>4, <1>5, MovesOK
<1>7. /\ IsFiniteSet(Messages(t, u)) /\ Cardinality(Messages(t, u)) \in Nat
      /\ IsFiniteSet(Sending(t, u)) /\ Cardinality(Sending(t, u)) \in Nat
      /\ sent[t][u] \in Nat /\ repeats[t] \in Nat
      /\ sent[t][u] + Cardinality(Messages(t, u)) + Cardinality(Sending(t, u))
           + (IF Pending(t, u) THEN 1 ELSE 0) <= 1 + repeats[t]
  BY Counts
<1>8. /\ pushes' \in [Times -> [Users -> [0 .. MaxRetries -> Nat]]]
      /\ \A t2 \in Times, u2 \in Users : t2 # t \/ u2 # u => pushes'[t2][u2] = pushes[t2][u2]
      /\ pushes'[t][u][n] > 0
      /\ IsFiniteSet(Messages(t, u)')
      /\ Cardinality(Messages(t, u)') = Cardinality(Messages(t, u)) + 1
  BY <1>3, <1>4, <1>7, Published
<1>9. /\ repeats' \in [Times -> 0 .. MaxRepeats] /\ repeats'[t] = repeats[t] + 1
      /\ \A t2 \in Times : t2 # t => repeats'[t2] = repeats[t2]
  BY <1>3, <1>4, Repeated
<1>10. TypesOK'
  BY <1>3, <1>4, <1>6, <1>8, <1>9 DEF TypesOK, Moves, listenerVars
<1>11. Listener!Stored(t) /\ Fits(x)
  BY <1>0, <1>5, Pusher, PCs DEF Fits
<1>12. Traced(t, u)'
  BY <1>8 DEF Traced
<1>13. ASSUME Pending(t, u)' <=> Pending(t, u) PROVE Counted(t, u)'
  <2>1. Sending(t, u)' = Sending(t, u) \ {w}
    BY <1>0, <1>1, <1>5, <1>6, SendersChange
  <2>2. /\ IsFiniteSet(Sending(t, u)') /\ Cardinality(Sending(t, u)') \in Nat
        /\ Cardinality(Sending(t, u)') <= Cardinality(Sending(t, u))
    <3>1. Sending(t, u)' \subseteq Sending(t, u)
      BY <2>1
    <3> QED BY <1>7, <3>1, FS_Subset, FS_CardinalityType
  <2>3. /\ sent'[t][u] = sent[t][u] /\ repeats'[t] = repeats[t] + 1
        /\ Cardinality(Messages(t, u)') = Cardinality(Messages(t, u)) + 1
    BY <1>3, <1>8, <1>9
  <2>4. sent'[t][u] + Cardinality(Messages(t, u)') + Cardinality(Sending(t, u)')
          + (IF Pending(t, u)' THEN 1 ELSE 0) <= 1 + repeats'[t]
    <3>1. CASE Pending(t, u)
      BY <1>7, <1>13, <2>2, <2>3, <3>1
    <3>2. CASE ~Pending(t, u)
      BY <1>7, <1>13, <2>2, <2>3, <3>2
    <3> QED BY <3>1, <3>2
  <2> QED BY <1>8, <2>2, <2>4 DEF Counted
<1>14. worker[w].pc \notin Celery!CheckPCs /\ x.pc \notin Celery!CheckPCs
  BY <1>5, Pusher, PCs
<1>15. \A t2 \in Times, u2 \in Users : t2 # t \/ u2 # u =>
         pushes'[t2][u2] = pushes[t2][u2] /\ sent'[t2][u2] = sent[t2][u2]
  BY <1>3, <1>8
<1>16. /\ UNCHANGED <<listenerVars, queue, events, verdict>> /\ gaveUp \subseteq gaveUp'
       /\ \A t2 \in Times : repeats'[t2] = repeats[t2] \/ repeats'[t2] = repeats[t2] + 1
  BY <1>3, <1>9
<1> QED BY <1>0, <1>1, <1>5, <1>6, <1>10, <1>11, <1>12, <1>13, <1>14, <1>15, <1>16, PushStep

----------------------------------------------------------------------------
(* Steps of the listener *)

LEMMA ListenerStep ==
  ASSUME Inv, UNCHANGED celeryVars, TypeOK', readings \subseteq readings',
         \A t \in Times : OnePlace(t)' /\ Somewhere(t)'
  PROVE  Inv'
<1>1. \A t : Listener!Stored(t) => Listener!Stored(t)'
  BY DEF Listener!Stored
<1>2. UNCHANGED <<pushes, worker, events, sent, verdict, gaveUp, repeats>>
  BY DEF celeryVars
<1>3. Tasks'
  BY <1>1, <1>2 DEF Inv, Tasks
<1>4. AboutStored'
  BY <1>1, <1>2 DEF Inv, AboutStored
<1>5. \A w \in Workers, t \in Times : Checks(w, t)' <=> Checks(w, t)
  BY <1>2 DEF Checks
<1>6. ASSUME NEW t \in Times PROVE EventsRight(t)'
  <2>1. Persisted(t)' <=> Persisted(t)
    BY <1>2, <1>5 DEF Persisted
  <2> QED BY <1>2, <1>5, <2>1 DEF Inv, EventsRight
<1>7. ASSUME NEW t \in Times, NEW u \in Users PROVE Traced(t, u)' /\ Counted(t, u)'
  <2>1. Reached(t, u)' <=> Reached(t, u)
    BY <1>2, <1>5 DEF Reached
  <2>2. Pending(t, u)' <=> Pending(t, u)
    BY <1>2, <2>1 DEF Pending
  <2>3. \A w \in Workers : Sends(w, t, u)' <=> Sends(w, t, u)
    BY <1>2 DEF Sends
  <2>4. Messages(t, u)' = Messages(t, u) /\ Sending(t, u)' = Sending(t, u)
    BY <1>2, <2>3 DEF Messages, Sending
  <2>5. Traced(t, u)'
    BY <1>2, <2>1, <2>3 DEF Inv, Traced
  <2>6. Counted(t, u)'
    BY <1>2, <2>2, <2>4 DEF Inv, Counted
  <2> QED BY <2>5, <2>6
<1> QED BY <1>3, <1>4, <1>6, <1>7 DEF Inv

(* The step does not move the check of t. *)
LEMMA HandsKept ==
  ASSUME NEW t \in Times, OnePlace(t), Somewhere(t), UNCHANGED celeryVars,
         \A s \in Slots : Hands(s, t)' <=> Hands(s, t),
         Listener!Stored(t)' <=> Listener!Stored(t),
         t \in unchecked' <=> t \in unchecked, queue'[t] = queue[t]
  PROVE  OnePlace(t)' /\ Somewhere(t)'
<1>1. UNCHANGED <<worker, verdict>>
  BY DEF celeryVars
<1>2. \A w \in Workers : Checks(w, t)' <=> Checks(w, t)
  BY <1>1 DEF Checks
<1>3. OnePlace(t)'
  BY <1>1, <1>2 DEF OnePlace
<1>4. Somewhere(t)'
  BY <1>1, <1>2 DEF Somewhere
<1> QED BY <1>3, <1>4

LEMMA ListenerTypes ==
  ASSUME Inv, UNCHANGED celeryVars,
         readings' \in SUBSET Listener!Reading, firmware' \in Versions \cup {None},
         ingest' \in [Slots -> Listener!Coroutine],
         \A s \in Slots : ingest'[s].pc # "idle" => ingest'[s].time \in Times,
         queue' \in [Times -> Nat], unchecked' \in SUBSET Times
  PROVE  TypeOK'
<1>1. TypesOK'
  BY InvTypes DEF TypesOK, celeryVars
<1> QED BY <1>1, TypesNext

(* Slot s is freed. *)
LEMMA Freed ==
  ASSUME Inv, NEW s \in Slots, ingest' = [ingest EXCEPT ![s] = Listener!NoCoroutine]
  PROVE  /\ ingest' \in [Slots -> Listener!Coroutine]
         /\ \A q \in Slots : ingest'[q].pc # "idle" => ingest'[q].time \in Times
         /\ \A q \in Slots, t \in Times : Hands(q, t)' <=> q # s /\ Hands(q, t)
<1>1. TypesOK
  BY InvTypes
<1>2. Listener!NoCoroutine \in Listener!Coroutine /\ Listener!NoCoroutine.pc = "idle"
  BY DEF Listener!NoCoroutine, Listener!Coroutine
<1>3. /\ ingest' \in [Slots -> Listener!Coroutine] /\ ingest'[s].pc = "idle"
      /\ \A q \in Slots : q # s => ingest'[q] = ingest[q]
  BY <1>1, <1>2 DEF TypesOK
<1> QED BY <1>1, <1>3 DEF TypesOK, Hands

LEMMA ReceiveInv ==
  ASSUME Inv, NEW s \in Slots, Listener!Receive(s), UNCHANGED celeryVars
  PROVE  Inv'
<1>1. PICK row \in Listener!Reading :
        ingest' = [ingest EXCEPT ![s] = [pc |-> "commit", time |-> row.time,
                                         version |-> row.version, seen |-> firmware,
                                         raced |-> FALSE]]
  BY DEF Listener!Receive
<1>2. ingest[s].pc = "idle" /\ UNCHANGED <<readings, firmware, queue, unchecked>>
  BY DEF Listener!Receive
<1>3. TypesOK /\ firmware \in Versions \cup {None}
  BY InvTypes
<1> DEFINE c == [pc |-> "commit", time |-> row.time, version |-> row.version,
                 seen |-> firmware, raced |-> FALSE]
<1>4. c \in Listener!Coroutine /\ c.pc = "commit" /\ c.time \in Times
  BY <1>3 DEF Listener!Coroutine, Listener!Reading
<1>5. ingest' = [ingest EXCEPT ![s] = c]
  BY <1>1
<1> HIDE DEF c
<1>6. /\ ingest' \in [Slots -> Listener!Coroutine] /\ ingest'[s] = c
      /\ \A q \in Slots : q # s => ingest'[q] = ingest[q]
  BY <1>3, <1>4, <1>5 DEF TypesOK
<1>7. TypeOK'
  BY <1>2, <1>3, <1>4, <1>6, ListenerTypes DEF TypesOK
<1>8. ASSUME NEW t \in Times PROVE OnePlace(t)' /\ Somewhere(t)'
  <2>1. \A q \in Slots : Hands(q, t)' <=> Hands(q, t)
    BY <1>2, <1>4, <1>6 DEF Hands
  <2> QED BY <1>2, <2>1, HandsKept DEF Inv, Listener!Stored
<1> QED BY <1>2, <1>7, <1>8, ListenerStep

(* The reading of s is stored, and its check is with s; nobody knew of it before. *)
LEMMA CommitReadingInv ==
  ASSUME Inv, NEW s \in Slots, Listener!CommitReading(s), UNCHANGED celeryVars
  PROVE  Inv'
<1>1. /\ ingest[s].pc = "commit" /\ ~Listener!Stored(ingest[s].time)
      /\ readings' = readings \cup {Listener!Row(s)}
      /\ firmware' = IF Listener!Writes(s) THEN ingest[s].version ELSE firmware
      /\ Listener!Goto(s, "enqueue") /\ UNCHANGED <<queue, unchecked>>
  BY DEF Listener!CommitReading
<1>2. TypesOK /\ firmware \in Versions \cup {None}
  BY InvTypes
<1>3. PICK t1 \in Times : ingest[s].time = t1
  BY <1>1, <1>2 DEF TypesOK
<1>4. /\ Listener!Row(s) \in Listener!Reading /\ Listener!Row(s).time = t1
      /\ ingest[s].version \in Versions \cup {None}
  BY <1>2, <1>3 DEF TypesOK, Listener!Row, Listener!Reading, Listener!Coroutine
<1>5. ASSUME NEW q \in Slots
      PROVE  /\ ingest'[q] \in Listener!Coroutine /\ ingest'[q].time = ingest[q].time
             /\ ingest'[q].pc = IF q = s THEN "enqueue" ELSE ingest[q].pc
  <2>1. ingest[q] \in Listener!Coroutine
    BY <1>2 DEF TypesOK
  <2>2. CASE q = s
    BY <1>1, <2>1, <2>2 DEF Listener!Goto, Listener!Coroutine
  <2>3. CASE q # s /\ Listener!Writes(s) /\ ingest[q].pc = "commit"
    BY <1>1, <2>1, <2>3 DEF Listener!Goto, Listener!Coroutine
  <2>4. CASE q # s /\ ~(Listener!Writes(s) /\ ingest[q].pc = "commit")
    <3>1. ingest'[q] = ingest[q]
      BY <1>1, <2>4 DEF Listener!Goto
    <3> QED BY <2>1, <2>4, <3>1
  <2> QED BY <2>2, <2>3, <2>4
<1>6. TypeOK'
  <2>1. ingest' \in [Slots -> Listener!Coroutine]
    <3>1. DOMAIN ingest' = Slots
      BY <1>1 DEF Listener!Goto
    <3>2. ingest' = [q \in Slots |-> ingest'[q]]
      BY <1>1 DEF Listener!Goto
    <3> QED BY <1>5, <3>1, <3>2
  <2>2. \A q \in Slots : ingest'[q].pc # "idle" => ingest'[q].time \in Times
    BY <1>1, <1>2, <1>3, <1>5 DEF TypesOK
  <2>3. readings' \in SUBSET Listener!Reading /\ firmware' \in Versions \cup {None}
    BY <1>1, <1>2, <1>4 DEF TypesOK
  <2> QED BY <1>1, <1>2, <2>1, <2>2, <2>3, ListenerTypes DEF TypesOK
<1>7. \A t : Listener!Stored(t)' <=> Listener!Stored(t) \/ t = t1
  BY <1>1, <1>4 DEF Listener!Stored
<1>8. ASSUME NEW t \in Times, t # t1 PROVE OnePlace(t)' /\ Somewhere(t)'
  <2>1. \A q \in Slots : Hands(q, t)' <=> Hands(q, t)
    BY <1>1, <1>3, <1>5, <1>8 DEF Hands
  <2> QED BY <1>1, <1>7, <1>8, <2>1, HandsKept DEF Inv
<1>9. OnePlace(t1)' /\ Somewhere(t1)'
  <2>1. OnePlace(t1) /\ ~Listener!Stored(t1)
    BY <1>1, <1>3 DEF Inv
  <2>2. /\ \A q \in Slots : ~Hands(q, t1)
        /\ ~(queue[t1] > 0) /\ verdict[t1] = None /\ t1 \notin unchecked
        /\ \A w \in Workers : ~Checks(w, t1)
    BY <2>1 DEF OnePlace
  <2>3. queue[t1] = 0
    BY <1>2, <2>2 DEF TypesOK
  <2>4. UNCHANGED <<worker, verdict>>
    BY DEF celeryVars
  <2>5. \A w \in Workers : ~Checks(w, t1)'
    BY <2>2, <2>4 DEF Checks
  <2>6. \A q \in Slots : Hands(q, t1)' <=> q = s
    BY <1>3, <1>5, <2>2 DEF Hands
  <2> QED BY <1>1, <1>7, <2>2, <2>3, <2>4, <2>5, <2>6 DEF OnePlace, Somewhere
<1>10. \A t \in Times : OnePlace(t)' /\ Somewhere(t)'
  BY <1>8, <1>9
<1> QED BY <1>1, <1>6, <1>10, ListenerStep

LEMMA RejectDuplicateInv ==
  ASSUME Inv, NEW s \in Slots, Listener!RejectDuplicate(s), UNCHANGED celeryVars
  PROVE  Inv'
<1>1. /\ ingest[s].pc = "commit" /\ ingest' = [ingest EXCEPT ![s] = Listener!NoCoroutine]
      /\ UNCHANGED <<readings, firmware, queue, unchecked>>
  BY DEF Listener!RejectDuplicate
<1>2. TypeOK'
  BY <1>1, InvTypes, Freed, ListenerTypes DEF TypesOK
<1>3. ASSUME NEW t \in Times PROVE OnePlace(t)' /\ Somewhere(t)'
  <2>1. ~Hands(s, t)
    BY <1>1 DEF Hands
  <2>2. \A q \in Slots : Hands(q, t)' <=> Hands(q, t)
    BY <1>1, <2>1, Freed
  <2> QED BY <1>1, <2>2, HandsKept DEF Inv, Listener!Stored
<1> QED BY <1>1, <1>2, <1>3, ListenerStep

(* The check passes from s to the queue. *)
LEMMA EnqueueInv ==
  ASSUME Inv, NEW s \in Slots, Listener!Enqueue(s), UNCHANGED celeryVars
  PROVE  Inv'
<1>1. /\ ingest[s].pc = "enqueue" /\ queue' = [queue EXCEPT ![ingest[s].time] = @ + 1]
      /\ ingest' = [ingest EXCEPT ![s] = Listener!NoCoroutine]
      /\ UNCHANGED <<readings, firmware, unchecked>>
  BY DEF Listener!Enqueue
<1>2. TypesOK /\ firmware \in Versions \cup {None}
  BY InvTypes
<1>3. PICK t1 \in Times : ingest[s].time = t1
  BY <1>1, <1>2 DEF TypesOK
<1>4. /\ Listener!Stored(t1) /\ t1 \notin unchecked /\ queue[t1] = 0 /\ verdict[t1] = None
      /\ \A w \in Workers : ~Checks(w, t1)
      /\ \A q \in Slots : Hands(q, t1) => q = s
  BY <1>1, <1>3 DEF Inv, OnePlace, Hands
<1>5. /\ queue' \in [Times -> Nat] /\ queue'[t1] = 1
      /\ \A t \in Times : t # t1 => queue'[t] = queue[t]
  BY <1>1, <1>2, <1>3, <1>4 DEF TypesOK
<1>6. TypeOK'
  BY <1>1, <1>2, <1>5, Freed, ListenerTypes DEF TypesOK
<1>7. \A t : Listener!Stored(t)' <=> Listener!Stored(t)
  BY <1>1 DEF Listener!Stored
<1>8. ASSUME NEW t \in Times, t # t1 PROVE OnePlace(t)' /\ Somewhere(t)'
  <2>1. ~Hands(s, t)
    BY <1>3, <1>8 DEF Hands
  <2>2. \A q \in Slots : Hands(q, t)' <=> Hands(q, t)
    BY <1>1, <2>1, Freed
  <2> QED BY <1>1, <1>5, <1>7, <1>8, <2>2, HandsKept DEF Inv
<1>9. OnePlace(t1)' /\ Somewhere(t1)'
  <2>1. UNCHANGED <<worker, verdict>>
    BY DEF celeryVars
  <2>2. \A w \in Workers : ~Checks(w, t1)'
    BY <1>4, <2>1 DEF Checks
  <2>3. \A q \in Slots : ~Hands(q, t1)'
    BY <1>1, <1>4, Freed
  <2> QED BY <1>1, <1>4, <1>5, <1>7, <2>1, <2>2, <2>3 DEF OnePlace, Somewhere
<1>10. \A t \in Times : OnePlace(t)' /\ Somewhere(t)'
  BY <1>8, <1>9
<1> QED BY <1>1, <1>6, <1>10, ListenerStep

(* A coroutine that fails after its COMMIT leaves its reading unchecked. *)
LEMMA DropInv ==
  ASSUME Inv, NEW s \in Slots, Listener!Drop(s), UNCHANGED celeryVars
  PROVE  Inv'
<1>1. /\ ingest[s].pc # "idle" /\ ingest' = [ingest EXCEPT ![s] = Listener!NoCoroutine]
      /\ unchecked' = IF ingest[s].pc = "enqueue" THEN unchecked \cup {ingest[s].time}
                                                  ELSE unchecked
      /\ UNCHANGED <<readings, firmware, queue>>
  BY DEF Listener!Drop
<1>2. TypesOK /\ firmware \in Versions \cup {None}
  BY InvTypes
<1>3. PICK t1 \in Times : ingest[s].time = t1
  BY <1>1, <1>2 DEF TypesOK
<1>4. TypeOK'
  <2>1. unchecked' \in SUBSET Times
    BY <1>1, <1>2, <1>3 DEF TypesOK
  <2> QED BY <1>1, <1>2, <2>1, Freed, ListenerTypes DEF TypesOK
<1>5. \A t : Listener!Stored(t)' <=> Listener!Stored(t)
  BY <1>1 DEF Listener!Stored
<1>6. ASSUME NEW t \in Times, ~Hands(s, t) PROVE OnePlace(t)' /\ Somewhere(t)'
  <2>1. t \in unchecked' <=> t \in unchecked
    BY <1>1, <1>6 DEF Hands
  <2>2. \A q \in Slots : Hands(q, t)' <=> Hands(q, t)
    BY <1>1, <1>6, Freed
  <2> QED BY <1>1, <1>5, <2>1, <2>2, HandsKept DEF Inv
<1>7. ASSUME NEW t \in Times, Hands(s, t) PROVE OnePlace(t)' /\ Somewhere(t)'
  <2>1. /\ Listener!Stored(t) /\ queue[t] = 0 /\ verdict[t] = None
        /\ \A w \in Workers : ~Checks(w, t)
        /\ \A q \in Slots : Hands(q, t) => q = s
    BY <1>7 DEF Inv, OnePlace
  <2>2. t \in unchecked'
    BY <1>1, <1>7 DEF Hands
  <2>3. UNCHANGED <<worker, verdict>>
    BY DEF celeryVars
  <2>4. \A w \in Workers : ~Checks(w, t)'
    BY <2>1, <2>3 DEF Checks
  <2>5. \A q \in Slots : ~Hands(q, t)'
    BY <1>1, <2>1, Freed
  <2> QED BY <1>1, <1>5, <2>1, <2>2, <2>3, <2>4, <2>5 DEF OnePlace, Somewhere
<1>8. \A t \in Times : OnePlace(t)' /\ Somewhere(t)'
  BY <1>6, <1>7
<1> QED BY <1>1, <1>4, <1>8, ListenerStep

----------------------------------------------------------------------------
(* The invariant holds *)

LEMMA InitInv == Init => Inv
<1> SUFFICES ASSUME Init PROVE Inv
  OBVIOUS
<1>1. /\ readings = {} /\ firmware = None /\ ingest = [s \in Slots |-> Listener!NoCoroutine]
      /\ queue = [t \in Times |-> 0] /\ unchecked = {}
      /\ pushes = [t \in Times |-> [u \in Users |-> [n \in 0 .. MaxRetries |-> 0]]]
      /\ worker = [w \in Workers |-> Celery!NoTask] /\ events = [t \in Times |-> 0]
      /\ sent = [t \in Times |-> [u \in Users |-> 0]] /\ verdict = [t \in Times |-> None]
      /\ gaveUp = {} /\ repeats = [t \in Times |-> 0]
  BY DEF Init, Listener!Init, Celery!Init
<1>2. /\ Listener!NoCoroutine \in Listener!Coroutine /\ Listener!NoCoroutine.pc = "idle"
  BY DEF Listener!NoCoroutine, Listener!Coroutine
<1>3. TypeOK
  <2>1. pushes \in [Times -> [Users -> [0 .. MaxRetries -> Nat]]]
    BY <1>1
  <2>2. worker \in [Workers -> Celery!Task] /\ repeats \in [Times -> 0 .. MaxRepeats]
    BY <1>1, NoTaskOK, RepeatsAssumption
  <2>3. /\ ingest \in [Slots -> Listener!Coroutine]
        /\ \A s \in Slots : ingest[s].pc # "idle" => ingest[s].time \in Times
    BY <1>1, <1>2
  <2>4. TypesOK
    BY <1>1, <2>1, <2>2, <2>3 DEF TypesOK
  <2> QED BY <1>1, <2>4, Types
<1>4. \A w \in Workers : worker[w].pc = "idle"
  BY <1>1, NoTaskOK
<1>5. /\ \A w \in Workers, t \in Times : ~Checks(w, t)
      /\ \A w \in Workers, t \in Times, u \in Users : ~Sends(w, t, u)
      /\ \A s \in Slots, t \in Times : ~Hands(s, t)
  BY <1>1, <1>2, <1>4, PCs DEF Checks, Sends, Hands
<1>6. Tasks
  BY <1>4, PCs DEF Tasks
<1>7. AboutStored
  <2>1. ASSUME NEW t \in Times, NEW u \in Users, NEW n \in 0 .. MaxRetries
        PROVE  pushes[t][u][n] = 0
    BY <1>1
  <2>2. \A t \in Times : events[t] = 0 /\ \A u \in Users : sent[t][u] = 0
    BY <1>1
  <2>3. /\ \A t \in Times : ~(events[t] > 0)
        /\ \A t \in Times, u \in Users : ~(sent[t][u] > 0)
    BY <2>2
  <2>4. \A t \in Times, u \in Users, n \in 0 .. MaxRetries : ~(pushes[t][u][n] > 0)
    BY <2>1
  <2> QED BY <2>3, <2>4 DEF AboutStored
<1>8. ASSUME NEW t \in Times PROVE OnePlace(t) /\ Somewhere(t) /\ EventsRight(t)
  <2>1. ~Listener!Stored(t)
    BY <1>1 DEF Listener!Stored
  <2> QED BY <1>1, <1>5, <2>1 DEF OnePlace, Somewhere, EventsRight, Persisted
<1>9. ASSUME NEW t \in Times, NEW u \in Users PROVE Traced(t, u) /\ Counted(t, u)
  <2>1. ~Reached(t, u)
    BY <1>1, <1>5 DEF Reached
  <2>2. Messages(t, u) = {}
    <3> SUFFICES ASSUME NEW p \in Messages(t, u) PROVE FALSE
      OBVIOUS
    <3>1. PICK n \in 0 .. MaxRetries : p \in {n} \X (1 .. pushes[t][u][n])
      BY DEF Messages
    <3> QED BY <1>1, <3>1
  <2>3. Sending(t, u) = {}
    BY <1>5 DEF Sending
  <2>4. sent[t][u] = 0 /\ repeats[t] = 0
    BY <1>1
  <2> QED BY <2>1, <2>2, <2>3, <2>4, FS_EmptySet DEF Traced, Counted
<1> QED BY <1>3, <1>6, <1>7, <1>8, <1>9 DEF Inv

LEMMA UnchangedInv == Inv /\ UNCHANGED vars => Inv'
<1> SUFFICES ASSUME Inv, UNCHANGED vars PROVE Inv'
  OBVIOUS
<1>1. UNCHANGED celeryVars /\ UNCHANGED <<readings, firmware, ingest, unchecked, queue>>
  BY DEF vars, listenerVars
<1>2. TypeOK'
  BY <1>1, InvTypes, ListenerTypes DEF TypesOK
<1>3. ASSUME NEW t \in Times PROVE OnePlace(t)' /\ Somewhere(t)'
  BY <1>1, HandsKept DEF Inv, Hands, Listener!Stored
<1> QED BY <1>1, <1>2, <1>3, ListenerStep

LEMMA NextInv == Inv /\ [Next]_vars => Inv'
<1> SUFFICES ASSUME Inv, [Next]_vars PROVE Inv'
  OBVIOUS
<1>1. CASE Listener!Next /\ UNCHANGED celeryVars
  <2>1. PICK s \in Slots : Listener!Receive(s) \/ Listener!Continue(s) \/ Listener!Drop(s)
    BY <1>1 DEF Listener!Next
  <2>2. CASE Listener!Receive(s)
    BY <1>1, <2>2, ReceiveInv
  <2>3. CASE Listener!CommitReading(s)
    BY <1>1, <2>3, CommitReadingInv
  <2>4. CASE Listener!RejectDuplicate(s)
    BY <1>1, <2>4, RejectDuplicateInv
  <2>5. CASE Listener!Enqueue(s)
    BY <1>1, <2>5, EnqueueInv
  <2>6. CASE Listener!Drop(s)
    BY <1>1, <2>6, DropInv
  <2> QED BY <2>1, <2>2, <2>3, <2>4, <2>5, <2>6 DEF Listener!Continue
<1>2. CASE Celery!Next /\ UNCHANGED listenerVars
  <2>1. PICK w \in Workers : Celery!Take(w) \/ Celery!Work(w) \/ Celery!LoseWorker(w)
    BY <1>2 DEF Celery!Next
  <2>2. CASE Celery!TakeCheck(w)
    BY <1>2, <2>2, TakeCheckInv
  <2>3. CASE Celery!TakePush(w)
    BY <1>2, <2>3, TakePushInv
  <2>4. CASE Celery!Evaluate(w)
    BY <1>2, <2>4, EvaluateInv
  <2>5. CASE Celery!Persist(w)
    BY <1>2, <2>5, PersistInv
  <2>6. CASE Celery!PersistFails(w)
    BY <1>2, <2>6, PersistFailsInv
  <2>7. CASE Celery!SelectMembers(w)
    BY <1>2, <2>7, SelectMembersInv
  <2>8. CASE Celery!DispatchPush(w)
    BY <1>2, <2>8, DispatchPushInv
  <2>9. CASE Celery!DispatchFails(w)
    BY <1>2, <2>9, DispatchFailsInv
  <2>10. CASE Celery!AcknowledgeCheck(w)
    BY <1>2, <2>10, AcknowledgeCheckInv
  <2>11. CASE Celery!SendSucceeds(w)
    BY <1>2, <2>11, SendSucceedsInv
  <2>12. CASE Celery!SendRejected(w)
    BY <1>2, <2>12, SendRejectedInv
  <2>13. CASE Celery!SendFails(w)
    BY <1>2, <2>13, SendFailsInv
  <2>14. CASE Celery!AnswerLost(w)
    BY <1>2, <2>14, AnswerLostInv
  <2>15. CASE Celery!PublishRetry(w)
    BY <1>2, <2>15, PublishRetryInv
  <2>16. CASE Celery!RetryFails(w)
    BY <1>2, <2>16, RetryFailsInv
  <2>17. CASE Celery!AcknowledgePush(w)
    BY <1>2, <2>17, AcknowledgePushInv
  <2>18. CASE Celery!LoseWorker(w)
    <3>1. worker[w].pc \in Celery!CheckPCs \/ worker[w].pc \in Celery!PushPCs
      <4>1. worker[w].pc # "idle"
        BY <2>18 DEF Celery!LoseWorker
      <4>2. worker[w] \in Celery!Task
        BY InvTypes DEF TypesOK
      <4> QED BY <4>1, <4>2 DEF Celery!Task
    <3> QED BY <1>2, <2>18, <3>1, LoseCheckInv, LosePushInv
  <2> QED BY <2>1, <2>2, <2>3, <2>4, <2>5, <2>6, <2>7, <2>8, <2>9, <2>10, <2>11, <2>12,
             <2>13, <2>14, <2>15, <2>16, <2>17, <2>18 DEF Celery!Take, Celery!Work
<1>3. CASE UNCHANGED vars
  BY <1>3, UnchangedInv
<1> QED BY <1>1, <1>2, <1>3 DEF Next

LEMMA Invariance == Spec => []Inv
BY InitInv, NextInv, PTL DEF Spec

(***************************************************************************)
(* The promise: each step of the pipeline is one of AlertPromise, or none  *)
(***************************************************************************)

(* The check of t has not been handed over. *)
NotYet(t) == \/ ~Listener!Stored(t) \/ t \in unchecked
             \/ \E s \in Slots : Hands(s, t)

(* A push that only has to be acknowledged has been answered, or is owed again. *)
Resolved(t, u) == sent[t][u] > 0 \/ <<t, u>> \in gaveUp \/ Owes(t, u)

PromiseInv ==
  /\ \A t \in Times : NotYet(t) => repeats[t] = 0
  /\ \A w \in Workers : worker[w].pc = "acknowledge" =>
       /\ ~NotYet(worker[w].reading)
       /\ Resolved(worker[w].reading, worker[w].user)

PromiseStep == Promise!Next \/ UNCHANGED Promise!vars

(* Only w moves. *)
Alone(w) == \A v \in Workers \ {w} : worker'[v] = worker[v]

LEMMA Owing ==
  ASSUME NEW t, NEW u
  PROVE  Owes(t, u) <=> \/ \E n \in 0 .. MaxRetries : pushes[t][u][n] > 0
                        \/ \E w \in Workers : Sends(w, t, u)
BY DEF Owes, Sends

LEMMA OwesKept ==
  ASSUME NEW t \in Times, NEW u \in Users, pushes'[t][u] = pushes[t][u],
         \A w \in Workers : Sends(w, t, u)' <=> Sends(w, t, u)
  PROVE  Owes(t, u)' <=> Owes(t, u)
<1>1. Owes(t, u)' <=> \/ \E n \in 0 .. MaxRetries : pushes'[t][u][n] > 0
                      \/ \E w \in Workers : Sends(w, t, u)'
  BY DEF Owes, Sends
<1> QED BY <1>1, Owing

LEMMA CheckKept == UNCHANGED <<readings, unchecked, verdict>> => UNCHANGED Check
BY DEF Check, CheckOf, Listener!Stored

LEMMA OwedKept ==
  ASSUME \A t \in Times, u \in Users : Owes(t, u)' <=> Owes(t, u)
  PROVE  UNCHANGED Owed
<1>1. \A p \in Times \X Users : Owes(p[1], p[2])' <=> Owes(p[1], p[2])
  OBVIOUS
<1> QED BY <1>1 DEF Owed

(* What has not been handed over is nobody's. *)
LEMMA Untouched ==
  ASSUME Inv, PromiseInv, NEW t \in Times, NotYet(t)
  PROVE  /\ repeats[t] = 0 /\ events[t] = 0 /\ verdict[t] = None
         /\ \A w \in Workers : ~Checks(w, t)
         /\ \A u \in Users : sent[t][u] = 0 /\ ~Owes(t, u)
<1>1. repeats[t] = 0
  BY DEF PromiseInv
<1>2. OnePlace(t) /\ EventsRight(t) /\ events[t] \in Nat
  BY InvTypes DEF Inv, TypesOK
<1>3. verdict[t] = None /\ \A w \in Workers : ~Checks(w, t)
  <2>1. CASE ~Listener!Stored(t)
    BY <1>2, <2>1 DEF OnePlace
  <2>2. CASE t \in unchecked
    BY <1>2, <2>2 DEF OnePlace
  <2>3. CASE \E s \in Slots : Hands(s, t)
    BY <1>2, <2>3 DEF OnePlace
  <2> QED BY <2>1, <2>2, <2>3 DEF NotYet
<1>4. events[t] = 0
  BY <1>1, <1>2, <1>3 DEF EventsRight, Persisted
<1>5. ASSUME NEW u \in Users PROVE sent[t][u] = 0 /\ ~Owes(t, u)
  <2>1. Pending(t, u)
    BY <1>3 DEF Pending, Reached
  <2>2. /\ IsFiniteSet(Messages(t, u)) /\ Cardinality(Messages(t, u)) \in Nat
        /\ IsFiniteSet(Sending(t, u)) /\ Cardinality(Sending(t, u)) \in Nat
        /\ sent[t][u] \in Nat
        /\ sent[t][u] + Cardinality(Messages(t, u)) + Cardinality(Sending(t, u)) + 1 <= 1 + 0
    BY <1>1, <2>1, Counts
  <2>3. sent[t][u] = 0 /\ Cardinality(Messages(t, u)) = 0 /\ Cardinality(Sending(t, u)) = 0
    BY <2>2
  <2>4. Messages(t, u) = {} /\ Sending(t, u) = {}
    BY <2>2, <2>3, FS_EmptySet
  <2>5. \A n \in 0 .. MaxRetries : ~(pushes[t][u][n] > 0)
    <3> SUFFICES ASSUME NEW n \in 0 .. MaxRetries, pushes[t][u][n] > 0 PROVE FALSE
      OBVIOUS
    <3>1. 1 \in 1 .. pushes[t][u][n]
      BY PushCount, InvTypes
    <3>2. <<n, 1>> \in Messages(t, u)
      BY <3>1, InMessages
    <3> QED BY <2>4, <3>2
  <2>6. \A w \in Workers : ~Sends(w, t, u)
    BY <2>4 DEF Sending
  <2> QED BY <2>3, <2>5, <2>6, Owing
<1> QED BY <1>1, <1>3, <1>4, <1>5

LEMMA PromiseKept ==
  ASSUME Inv, PromiseInv, NEW w \in Workers, Alone(w), UNCHANGED listenerVars,
         \A t \in Times : repeats'[t] = repeats[t] \/ ~NotYet(t),
         \A t \in Times, u \in Users : Resolved(t, u) => Resolved(t, u)',
         worker'[w].pc = "acknowledge" =>
           \E t \in Times, u \in Users :
             worker'[w].reading = t /\ worker'[w].user = u /\ ~NotYet(t) /\ Resolved(t, u)'
  PROVE  PromiseInv'
<1>1. \A t : NotYet(t)' <=> NotYet(t)
  BY DEF NotYet, Listener!Stored, Hands, listenerVars
<1>2. ASSUME NEW t \in Times, NotYet(t) PROVE repeats'[t] = 0
  BY <1>2 DEF PromiseInv
<1>3. ASSUME NEW v \in Workers, worker'[v].pc = "acknowledge"
      PROVE  ~NotYet(worker'[v].reading) /\ Resolved(worker[v].reading, worker[v].user)'
  <2>1. CASE v = w
    <3>1. PICK t \in Times, u \in Users :
            worker'[w].reading = t /\ worker'[w].user = u /\ ~NotYet(t) /\ Resolved(t, u)'
      BY <1>3, <2>1
    <3> QED BY <2>1, <3>1 DEF Resolved, Owes
  <2>2. CASE v # w
    <3>1. worker'[v] = worker[v]
      BY <2>2 DEF Alone
    <3>2. PICK t \in Times : worker[v].reading = t
      BY <1>3, <3>1, PCs, Pusher
    <3>3. PICK u \in Users : worker[v].user = u
      BY <1>3, <3>1, PCs, Pusher
    <3>4. ~NotYet(t) /\ Resolved(t, u)'
      BY <1>3, <3>1, <3>2, <3>3 DEF PromiseInv
    <3> QED BY <3>1, <3>2, <3>3, <3>4 DEF Resolved, Owes
  <2> QED BY <2>1, <2>2
<1> QED BY <1>1, <1>2, <1>3 DEF PromiseInv

(* A worker's step that ends no push and begins none *)
LEMMA QuietPromise ==
  ASSUME Inv, PromiseInv, NEW w \in Workers, Alone(w), UNCHANGED listenerVars,
         worker'[w].pc # "acknowledge",
         \A t \in Times : repeats'[t] = repeats[t] \/ ~NotYet(t),
         \A t \in Times, u \in Users : Owes(t, u) => Owes(t, u)',
         UNCHANGED <<sent, gaveUp>>
  PROVE  PromiseInv'
<1>1. \A t \in Times, u \in Users : Resolved(t, u) => Resolved(t, u)'
  BY DEF Resolved
<1> QED BY <1>1, PromiseKept

(* w is concerned with a check, before or after, and with no push. *)
LEMMA CheckPromise ==
  ASSUME Inv, PromiseInv, NEW w \in Workers, Alone(w), UNCHANGED listenerVars,
         worker[w].pc \in {"idle"} \cup Celery!CheckPCs,
         worker'[w].pc \in {"idle"} \cup Celery!CheckPCs,
         \A t \in Times : repeats'[t] = repeats[t] \/ ~NotYet(t),
         UNCHANGED <<pushes, sent, gaveUp>>
  PROVE  PromiseInv' /\ UNCHANGED Owed
<1>1. ASSUME NEW v \in Workers, NEW t \in Times, NEW u \in Users
      PROVE  Sends(v, t, u)' <=> Sends(v, t, u)
  <2>1. CASE v = w
    BY <2>1, PCs DEF Sends
  <2>2. CASE v # w
    BY <2>2 DEF Alone, Sends
  <2> QED BY <2>1, <2>2
<1>2. \A t \in Times, u \in Users : Owes(t, u)' <=> Owes(t, u)
  BY <1>1, OwesKept
<1>3. worker'[w].pc # "acknowledge"
  BY PCs
<1> QED BY <1>2, <1>3, OwedKept, QuietPromise

(* The check in hand is due. *)
LEMMA Due ==
  ASSUME Inv, PromiseInv, NEW w \in Workers, worker[w].pc \in Celery!CheckPCs
  PROVE  \E t \in Times : /\ worker[w].reading = t /\ Checks(w, t) /\ ~NotYet(t)
                          /\ verdict[t] = None /\ Check[t] = "due"
<1>1. PICK t \in Times : worker[w].reading = t
  BY PCs DEF Inv, Tasks
<1>2. Checks(w, t)
  BY <1>1 DEF Checks
<1>3. ~NotYet(t)
  BY <1>2, Untouched
<1>4. verdict[t] = None
  BY <1>2 DEF Inv, OnePlace
<1>5. Check[t] = "due"
  BY <1>3, <1>4 DEF Check, CheckOf, NotYet
<1> QED BY <1>1, <1>2, <1>3, <1>4, <1>5

LEMMA TakeCheckPromise ==
  ASSUME Inv, PromiseInv, NEW w \in Workers, Celery!TakeCheck(w), UNCHANGED listenerVars
  PROVE  PromiseInv' /\ PromiseStep
<1>1. PICK t \in Times :
        worker' = [worker EXCEPT ![w] = [Celery!NoTask EXCEPT !.pc = "evaluate", !.reading = t]]
  BY DEF Celery!TakeCheck
<1>2. /\ worker[w].pc = "idle"
      /\ UNCHANGED <<pushes, events, sent, verdict, gaveUp, repeats>>
  BY DEF Celery!TakeCheck
<1>3. Alone(w) /\ worker'[w].pc = "evaluate"
  BY <1>1, InvTypes DEF Alone, TypesOK, Celery!NoTask
<1>4. PromiseInv' /\ UNCHANGED Owed
  BY <1>2, <1>3, PCs, CheckPromise
<1>5. UNCHANGED Check
  BY <1>2, CheckKept DEF listenerVars
<1> QED BY <1>2, <1>4, <1>5 DEF PromiseStep, Promise!vars

(* Steps of a check that leave no trace outside the worker *)
LEMMA InnerPromise ==
  ASSUME Inv, PromiseInv, NEW w \in Workers, UNCHANGED listenerVars,
         \/ Celery!Evaluate(w) \/ Celery!PersistFails(w)
         \/ Celery!SelectMembers(w) \/ Celery!DispatchFails(w)
  PROVE  PromiseInv' /\ PromiseStep
<1>1. /\ worker[w].pc \in Celery!CheckPCs
      /\ UNCHANGED <<pushes, events, sent, verdict, gaveUp, repeats>>
  BY PCs DEF Celery!Evaluate, Celery!PersistFails, Celery!SelectMembers, Celery!DispatchFails
<1>2. worker \in [Workers -> Celery!Task]
  BY InvTypes DEF TypesOK
<1>3. Alone(w) /\ worker'[w].pc \in Celery!CheckPCs
  <2>1. CASE Celery!Evaluate(w)
    BY <1>2, <2>1, PCs DEF Celery!Evaluate, Alone, Celery!Task
  <2>2. CASE Celery!PersistFails(w)
    BY <1>2, <2>2, PCs DEF Celery!PersistFails, Alone, Celery!Task
  <2>3. CASE Celery!SelectMembers(w)
    BY <1>2, <2>3, PCs DEF Celery!SelectMembers, Alone, Celery!Task
  <2>4. CASE Celery!DispatchFails(w)
    BY <1>1, <1>2, <2>4, PCs DEF Celery!DispatchFails, Alone, Celery!Task
  <2> QED BY <2>1, <2>2, <2>3, <2>4
<1>4. PromiseInv' /\ UNCHANGED Owed
  BY <1>1, <1>3, CheckPromise
<1>5. UNCHANGED Check
  BY <1>1, CheckKept DEF listenerVars
<1> QED BY <1>1, <1>4, <1>5 DEF PromiseStep, Promise!vars

LEMMA PersistPromise ==
  ASSUME Inv, PromiseInv, NEW w \in Workers, Celery!Persist(w), UNCHANGED listenerVars
  PROVE  PromiseInv' /\ PromiseStep
<1>1. /\ worker[w].pc = "persist" /\ worker[w].pc \in Celery!CheckPCs
      /\ UNCHANGED <<pushes, sent, verdict, gaveUp, repeats>>
  BY PCs DEF Celery!Persist
<1>2. worker \in [Workers -> Celery!Task]
  BY InvTypes DEF TypesOK
<1>3. Alone(w) /\ worker'[w].pc \in Celery!CheckPCs
  BY <1>2, PCs DEF Celery!Persist, Alone, Celery!Task
<1>4. PromiseInv' /\ UNCHANGED Owed
  BY <1>1, <1>3, CheckPromise
<1>5. UNCHANGED Check
  BY <1>1, CheckKept DEF listenerVars
<1>6. PICK t \in Times : /\ worker[w].reading = t /\ Checks(w, t)
                         /\ verdict[t] = None /\ Check[t] = "due"
  BY <1>1, Due
<1>7. events[t] <= repeats[t]
  <2>1. ~Persisted(t)
    BY <1>1, <1>6 DEF Persisted, Inv, OnePlace
  <2>2. events[t] \in Nat /\ repeats[t] \in Nat
    BY InvTypes DEF TypesOK
  <2> QED BY <2>1, <2>2 DEF Inv, EventsRight
<1>8. Promise!Record(t)
  BY <1>1, <1>4, <1>5, <1>6, <1>7 DEF Promise!Record, Celery!Persist
<1> QED BY <1>4, <1>8 DEF PromiseStep, Promise!Next

LEMMA AcknowledgeCheckPromise ==
  ASSUME Inv, PromiseInv, NEW w \in Workers, Celery!AcknowledgeCheck(w), UNCHANGED listenerVars
  PROVE  PromiseInv' /\ PromiseStep
<1>1. /\ worker[w].pc \in Celery!CheckPCs
      /\ UNCHANGED <<pushes, events, sent, gaveUp, repeats>>
  BY PCs DEF Celery!AcknowledgeCheck
<1>2. worker \in [Workers -> Celery!Task] /\ verdict \in [Times -> Celery!Verdict \cup {None}]
  BY InvTypes DEF TypesOK
<1>3. Alone(w) /\ worker'[w].pc = "idle"
  BY <1>2 DEF Celery!AcknowledgeCheck, Alone, Celery!NoTask
<1>4. PromiseInv' /\ UNCHANGED Owed
  BY <1>1, <1>3, CheckPromise
<1>5. PICK t \in Times : /\ worker[w].reading = t /\ ~NotYet(t) /\ Check[t] = "due"
  BY <1>1, Due
<1>6. verdict' = [verdict EXCEPT ![t] = worker[w].done] /\ worker[w].done # None
  BY <1>2, <1>5, NoVerdictAssumption DEF Celery!AcknowledgeCheck, Celery!Task
<1>7. Check' = [Check EXCEPT ![t] = "made"]
  <2>1. \A q \in Times : CheckOf(q)' = IF q = t THEN "made" ELSE CheckOf(q)
    <3> TAKE q \in Times
    <3>1. verdict'[q] = IF q = t THEN worker[w].done ELSE verdict[q]
      BY <1>2, <1>6
    <3>2. (Listener!Stored(q)' <=> Listener!Stored(q)) /\ UNCHANGED unchecked
      BY DEF listenerVars, Listener!Stored
    <3> QED BY <1>5, <1>6, <3>1, <3>2 DEF CheckOf, NotYet
  <2> QED BY <2>1 DEF Check
<1>8. Promise!Finish(t)
  BY <1>1, <1>4, <1>5, <1>7 DEF Promise!Finish
<1> QED BY <1>4, <1>8 DEF PromiseStep, Promise!Next

LEMMA LoseCheckPromise ==
  ASSUME Inv, PromiseInv, NEW w \in Workers, Celery!LoseWorker(w),
         worker[w].pc \in Celery!CheckPCs, UNCHANGED listenerVars
  PROVE  PromiseInv' /\ PromiseStep
<1>1. /\ UNCHANGED <<pushes, events, sent, gaveUp, verdict>>
      /\ worker' = [worker EXCEPT ![w] = Celery!NoTask]
  BY DEF Celery!LoseWorker
<1>2. Alone(w) /\ worker'[w].pc = "idle"
  BY <1>1, InvTypes DEF Alone, Celery!NoTask, TypesOK
<1>3. PICK t \in Times : worker[w].reading = t /\ ~NotYet(t) /\ Check[t] = "due"
  BY Due
<1>4. /\ repeats' = [repeats EXCEPT ![t] = @ + 1]
      /\ \A q \in Times : repeats'[q] = repeats[q] \/ ~NotYet(q)
  BY <1>3, InvTypes DEF Celery!LoseWorker, Celery!Repeat, TypesOK
<1>5. PromiseInv' /\ UNCHANGED Owed
  BY <1>1, <1>2, <1>4, CheckPromise
<1>6. UNCHANGED Check
  BY <1>1, CheckKept DEF listenerVars
<1>7. Promise!Redeliver(t)
  BY <1>1, <1>3, <1>4, <1>5, <1>6 DEF Promise!Redeliver
<1> QED BY <1>5, <1>7 DEF PromiseStep, Promise!Next

(* What is owed changes for a push about t to u only. *)
LEMMA OwedChanges ==
  ASSUME NEW t \in Times, NEW u \in Users,
         \A r \in Times, q \in Users : r # t \/ q # u => (Owes(r, q)' <=> Owes(r, q))
  PROVE  /\ <<t, u>> \in Owed <=> Owes(t, u)
         /\ Owed' = IF Owes(t, u)' THEN Owed \cup {<<t, u>>} ELSE Owed \ {<<t, u>>}
<1>1. \A r \in Times, q \in Users : <<r, q>> \in Owed <=> Owes(r, q)
  BY DEF Owed
<1>2. \A r \in Times, q \in Users : <<r, q>> \in Owed' <=> Owes(r, q)'
  BY DEF Owed
<1>3. Owed \in SUBSET (Times \X Users) /\ Owed' \in SUBSET (Times \X Users)
  BY DEF Owed
<1>4. ASSUME NEW p \in Times \X Users
      PROVE  p \in Owed' <=> p \in IF Owes(t, u)' THEN Owed \cup {<<t, u>>}
                                   ELSE Owed \ {<<t, u>>}
  <2>1. PICK r \in Times, q \in Users : p = <<r, q>>
    OBVIOUS
  <2>2. CASE r = t /\ q = u
    BY <1>2, <2>1, <2>2
  <2>3. CASE r # t \/ q # u
    BY <1>1, <1>2, <2>1, <2>3
  <2> QED BY <2>2, <2>3
<1> QED BY <1>1, <1>3, <1>4

(* The step is about the push about t to u, if about any. *)
OnlyAbout(t, u) ==
  /\ \A r \in Times, q \in Users : r # t \/ q # u =>
       pushes'[r][q] = pushes[r][q] /\ sent'[r][q] = sent[r][q]
  /\ \A r \in Times : r # t => repeats'[r] = repeats[r]

(* w takes the push about t to u, goes on with it or leaves it. *)
LEMMA PushPromise ==
  ASSUME Inv, PromiseInv, NEW w \in Workers, Alone(w), UNCHANGED listenerVars,
         NEW t \in Times, NEW u \in Users,
         worker[w].pc \notin Celery!CheckPCs, worker'[w].pc \notin Celery!CheckPCs,
         worker[w].pc = "idle" \/ (worker[w].reading = t /\ worker[w].user = u),
         worker'[w].pc = "idle" \/ (worker'[w].reading = t /\ worker'[w].user = u),
         OnlyAbout(t, u), gaveUp \subseteq gaveUp', UNCHANGED verdict,
         Owes(t, u) \/ worker[w].pc = "acknowledge", Resolved(t, u)'
  PROVE  /\ PromiseInv' /\ UNCHANGED Check /\ Check[t] \in {"due", "made"}
         /\ Resolved(t, u) /\ (<<t, u>> \in Owed <=> Owes(t, u))
         /\ Owed' = IF Owes(t, u)' THEN Owed \cup {<<t, u>>} ELSE Owed \ {<<t, u>>}
<1>1. ~NotYet(t) /\ Resolved(t, u)
  <2>1. CASE Owes(t, u)
    BY <2>1, Untouched DEF Resolved
  <2>2. CASE worker[w].pc = "acknowledge"
    BY <2>2 DEF PromiseInv
  <2> QED BY <2>1, <2>2
<1>2. ASSUME NEW r \in Times, NEW q \in Users, r # t \/ q # u
      PROVE  (Owes(r, q)' <=> Owes(r, q)) /\ (Resolved(r, q) => Resolved(r, q)')
  <2>1. ASSUME NEW v \in Workers PROVE Sends(v, r, q)' <=> Sends(v, r, q)
    <3>1. CASE v = w
      BY <1>2, <3>1 DEF Sends
    <3>2. CASE v # w
      BY <3>2 DEF Alone, Sends
    <3> QED BY <3>1, <3>2
  <2>2. Owes(r, q)' <=> Owes(r, q)
    BY <1>2, <2>1, OwesKept DEF OnlyAbout
  <2> QED BY <1>2, <2>2 DEF Resolved, OnlyAbout
<1>3. PromiseInv'
  <2>1. \A r \in Times, q \in Users : Resolved(r, q) => Resolved(r, q)'
    BY <1>2
  <2>2. \A r \in Times : repeats'[r] = repeats[r] \/ ~NotYet(r)
    BY <1>1 DEF OnlyAbout
  <2> QED BY <1>1, <2>1, <2>2, PromiseKept
<1>4. UNCHANGED Check /\ Check[t] \in {"due", "made"}
  BY <1>1, CheckKept DEF Check, CheckOf, NotYet, listenerVars
<1> QED BY <1>1, <1>2, <1>3, <1>4, OwedChanges

(* Whoever sends a push has not spent its repetitions. *)
LEMMA SendAllowed ==
  ASSUME Inv, NEW w \in Workers, NEW t \in Times, NEW u \in Users, Sends(w, t, u)
  PROVE  sent[t][u] \in Nat /\ repeats[t] \in Nat /\ sent[t][u] <= repeats[t]
<1>1. /\ IsFiniteSet(Sending(t, u)) /\ Cardinality(Sending(t, u)) \in Nat
      /\ Cardinality(Messages(t, u)) \in Nat /\ sent[t][u] \in Nat /\ repeats[t] \in Nat
      /\ sent[t][u] + Cardinality(Messages(t, u)) + Cardinality(Sending(t, u))
           + (IF Pending(t, u) THEN 1 ELSE 0) <= 1 + repeats[t]
  BY Counts
<1>2. Sending(t, u) # {}
  BY DEF Sending
<1>3. Cardinality(Sending(t, u)) # 0
  BY <1>1, <1>2, FS_EmptySet
<1> DEFINE m == Cardinality(Messages(t, u))
           k == Cardinality(Sending(t, u))
           e == IF Pending(t, u) THEN 1 ELSE 0
<1>4. m \in Nat /\ k \in Nat \ {0} /\ e \in Nat /\ sent[t][u] + m + k + e <= 1 + repeats[t]
  BY <1>1, <1>3
<1> HIDE DEF m, k, e
<1> QED BY <1>1, <1>4

LEMMA TakePushPromise ==
  ASSUME Inv, PromiseInv, NEW w \in Workers, Celery!TakePush(w), UNCHANGED listenerVars
  PROVE  PromiseInv' /\ PromiseStep
<1>1. PICK t \in Times, u \in Users, n \in 0 .. MaxRetries :
        /\ pushes[t][u][n] > 0
        /\ pushes' = [pushes EXCEPT ![t][u][n] = @ - 1]
        /\ worker' = [worker EXCEPT ![w] = [Celery!NoTask EXCEPT !.pc = "send", !.reading = t,
                                              !.user = u, !.retries = n]]
  BY DEF Celery!TakePush
<1>2. /\ worker[w].pc = "idle"
      /\ UNCHANGED <<events, sent, verdict, gaveUp, repeats>>
  BY DEF Celery!TakePush
<1>3. /\ Alone(w) /\ worker'[w].pc = "send" /\ worker'[w].reading = t /\ worker'[w].user = u
  BY <1>1, InvTypes DEF Alone, TypesOK, Celery!NoTask
<1>4. Owes(t, u)
  BY <1>1 DEF Owes
<1>5. Owes(t, u)'
  BY <1>3 DEF Owes
<1>6. OnlyAbout(t, u)
  <2>1. \A r \in Times, q \in Users : r # t \/ q # u => pushes'[r][q] = pushes[r][q]
    BY <1>1, InvTypes, Taken, Counts
  <2> QED BY <1>2, <2>1 DEF OnlyAbout
<1>7. /\ PromiseInv' /\ UNCHANGED Check /\ (<<t, u>> \in Owed <=> Owes(t, u))
      /\ Owed' = IF Owes(t, u)' THEN Owed \cup {<<t, u>>} ELSE Owed \ {<<t, u>>}
  BY <1>2, <1>3, <1>4, <1>5, <1>6, PCs, PushPromise DEF Resolved
<1>8. UNCHANGED Owed
  BY <1>4, <1>5, <1>7
<1> QED BY <1>2, <1>7, <1>8 DEF PromiseStep, Promise!vars

(* w sends the push about t to u, and goes on to pc. *)
LEMMA SendPromise ==
  ASSUME Inv, PromiseInv, NEW w \in Workers, worker[w].pc \in {"send", "retry"},
         UNCHANGED listenerVars,
         NEW pc \in {"retry", "acknowledge"}, worker' = [worker EXCEPT ![w].pc = pc],
         NEW t \in Times, worker[w].reading = t, NEW u \in Users, worker[w].user = u,
         OnlyAbout(t, u), gaveUp \subseteq gaveUp', UNCHANGED verdict,
         sent'[t][u] > 0 \/ <<t, u>> \in gaveUp' \/ pc = "retry"
  PROVE  /\ PromiseInv' /\ UNCHANGED Check
         /\ <<t, u>> \in Owed /\ Owed' \in {Owed, Owed \ {<<t, u>>}}
         /\ pc = "retry" => UNCHANGED Owed
<1>1. worker \in [Workers -> Celery!Task]
  BY InvTypes DEF TypesOK
<1>2. Alone(w) /\ worker'[w].pc = pc /\ worker'[w].reading = t /\ worker'[w].user = u
  BY <1>1 DEF Alone, Celery!Task
<1>3. Owes(t, u)
  BY DEF Owes
<1>4. pc = "retry" => Owes(t, u)'
  BY <1>2 DEF Owes
<1>5. Resolved(t, u)'
  BY <1>4 DEF Resolved
<1>6. /\ PromiseInv' /\ UNCHANGED Check /\ (<<t, u>> \in Owed <=> Owes(t, u))
      /\ Owed' = IF Owes(t, u)' THEN Owed \cup {<<t, u>>} ELSE Owed \ {<<t, u>>}
  <2>1. worker[w].pc \notin Celery!CheckPCs /\ worker'[w].pc \notin Celery!CheckPCs
    BY <1>2, PCs
  <2> QED BY <1>2, <1>3, <1>5, <2>1, PushPromise
<1> QED BY <1>3, <1>4, <1>6

LEMMA DispatchPushPromise ==
  ASSUME Inv, PromiseInv, NEW w \in Workers, Celery!DispatchPush(w), UNCHANGED listenerVars
  PROVE  PromiseInv' /\ PromiseStep
<1>1. /\ worker[w].pc = "dispatch" /\ worker[w].pc \in Celery!CheckPCs
      /\ UNCHANGED <<events, sent, verdict, gaveUp, repeats>>
  BY PCs DEF Celery!DispatchPush
<1>2. PICK t \in Times : worker[w].reading = t /\ Check[t] = "due"
  BY <1>1, Due
<1>3. TypesOK /\ worker \in [Workers -> Celery!Task] /\ worker[w] \in Celery!Task
  BY InvTypes DEF TypesOK
<1>4. PICK u \in Users :
        /\ Celery!Publish(t, u, 0)
        /\ worker' = [worker EXCEPT ![w].todo = @ \ {u}, ![w].done.reached = @ \cup {u}]
  BY <1>2, <1>3 DEF Celery!DispatchPush, Celery!Publish, Celery!Task
<1>5. Alone(w) /\ worker'[w].pc = "dispatch"
  BY <1>1, <1>3, <1>4 DEF Alone, Celery!Task
<1>6. /\ \A r \in Times, q \in Users : r # t \/ q # u => pushes'[r][q] = pushes[r][q]
      /\ \E n \in 0 .. MaxRetries : pushes'[t][u][n] > 0
  <2>1. 0 \in 0 .. MaxRetries
    BY RetriesAssumption
  <2> QED BY <1>3, <1>4, <2>1, Counts, Published
<1>7. Owes(t, u)'
  BY <1>6 DEF Owes
<1>8. ASSUME NEW r \in Times, NEW q \in Users, r # t \/ q # u
      PROVE  Owes(r, q)' <=> Owes(r, q)
  <2>1. ASSUME NEW v \in Workers PROVE Sends(v, r, q)' <=> Sends(v, r, q)
    <3>1. CASE v = w
      BY <1>1, <1>5, <3>1 DEF Sends
    <3>2. CASE v # w
      BY <1>5, <3>2 DEF Alone, Sends
    <3> QED BY <3>1, <3>2
  <2> QED BY <1>6, <1>8, <2>1, OwesKept
<1>9. PromiseInv'
  <2>1. \A r \in Times, q \in Users : Owes(r, q) => Owes(r, q)'
    BY <1>7, <1>8
  <2>2. worker'[w].pc # "acknowledge" /\ \A r \in Times : repeats'[r] = repeats[r]
    BY <1>1, <1>5
  <2> QED BY <1>1, <1>5, <2>1, <2>2, QuietPromise
<1>10. UNCHANGED Check
  BY <1>1, CheckKept DEF listenerVars
<1>11. Owed' = Owed \cup {<<t, u>>}
  BY <1>7, <1>8, OwedChanges
<1>12. Promise!Dispatch(t, u)
  BY <1>1, <1>2, <1>10, <1>11 DEF Promise!Dispatch
<1> QED BY <1>9, <1>12 DEF PromiseStep, Promise!Next

LEMMA SendSucceedsPromise ==
  ASSUME Inv, PromiseInv, NEW w \in Workers, Celery!SendSucceeds(w), UNCHANGED listenerVars
  PROVE  PromiseInv' /\ PromiseStep
<1>0. PICK t \in Times : worker[w].reading = t
  BY PCs, Pusher DEF Celery!SendSucceeds
<1>1. PICK u \in Users : worker[w].user = u
  BY PCs, Pusher DEF Celery!SendSucceeds
<1>2. PICK pc \in {"retry", "acknowledge"} :
        pc = "acknowledge" /\ worker' = [worker EXCEPT ![w].pc = pc]
  BY DEF Celery!SendSucceeds
<1>3. /\ worker[w].pc = "send" /\ Celery!Accept(w)
      /\ UNCHANGED <<pushes, events, verdict, gaveUp, repeats>>
  BY DEF Celery!SendSucceeds
<1>4. /\ sent'[t][u] = sent[t][u] + 1
      /\ \A r \in Times, q \in Users : r # t \/ q # u => sent'[r][q] = sent[r][q]
  BY <1>0, <1>1, <1>3, PCs, Accepted
<1>5. sent[t][u] \in Nat /\ sent[t][u] <= repeats[t]
  BY <1>0, <1>1, <1>3, SendAllowed DEF Sends
<1>6. sent'[t][u] > 0
  BY <1>4, <1>5
<1>7. /\ PromiseInv' /\ UNCHANGED Check
      /\ <<t, u>> \in Owed /\ Owed' \in {Owed, Owed \ {<<t, u>>}}
  <2>1. OnlyAbout(t, u)
    BY <1>3, <1>4 DEF OnlyAbout
  <2> QED BY <1>0, <1>1, <1>2, <1>3, <1>6, <2>1, SendPromise
<1>8. Promise!Notify(t, u)
  BY <1>0, <1>1, <1>3, <1>5, <1>7 DEF Promise!Notify, Promise!Resolves, Celery!Accept
<1> QED BY <1>7, <1>8 DEF PromiseStep, Promise!Next

LEMMA SendRejectedPromise ==
  ASSUME Inv, PromiseInv, NEW w \in Workers, Celery!SendRejected(w), UNCHANGED listenerVars
  PROVE  PromiseInv' /\ PromiseStep
<1>0. PICK t \in Times : worker[w].reading = t
  BY PCs, Pusher DEF Celery!SendRejected
<1>1. PICK u \in Users : worker[w].user = u
  BY PCs, Pusher DEF Celery!SendRejected
<1>2. PICK pc \in {"retry", "acknowledge"} :
        pc = "acknowledge" /\ worker' = [worker EXCEPT ![w].pc = pc]
  BY DEF Celery!SendRejected
<1>3. /\ worker[w].pc = "send" /\ gaveUp' = gaveUp \cup {<<t, u>>}
      /\ UNCHANGED <<pushes, events, sent, verdict, repeats>>
  BY <1>0, <1>1 DEF Celery!SendRejected, Celery!GiveUp
<1>4. /\ PromiseInv' /\ UNCHANGED Check
      /\ <<t, u>> \in Owed /\ Owed' \in {Owed, Owed \ {<<t, u>>}}
  BY <1>0, <1>1, <1>2, <1>3, SendPromise DEF OnlyAbout
<1>5. Promise!GiveUp(t, u)
  BY <1>3, <1>4 DEF Promise!GiveUp, Promise!Resolves
<1> QED BY <1>4, <1>5 DEF PromiseStep, Promise!Next

LEMMA SendFailsPromise ==
  ASSUME Inv, PromiseInv, NEW w \in Workers, Celery!SendFails(w), UNCHANGED listenerVars
  PROVE  PromiseInv' /\ PromiseStep
<1>0. PICK t \in Times : worker[w].reading = t
  BY PCs, Pusher DEF Celery!SendFails
<1>1. PICK u \in Users : worker[w].user = u
  BY PCs, Pusher DEF Celery!SendFails
<1>2. /\ worker[w].pc = "send" /\ Celery!RetryOrGiveUp(w)
      /\ UNCHANGED <<pushes, events, sent, verdict, repeats>>
  BY DEF Celery!SendFails
<1>3. PICK pc \in {"retry", "acknowledge"} :
        /\ worker' = [worker EXCEPT ![w].pc = pc]
        /\ gaveUp' = IF pc = "retry" THEN gaveUp ELSE gaveUp \cup {<<t, u>>}
  BY <1>0, <1>1, <1>2, RetryStep
<1>4. gaveUp \subseteq gaveUp' /\ (<<t, u>> \in gaveUp' \/ pc = "retry")
  BY <1>3
<1>5. /\ PromiseInv' /\ UNCHANGED Check
      /\ <<t, u>> \in Owed /\ Owed' \in {Owed, Owed \ {<<t, u>>}}
      /\ pc = "retry" => UNCHANGED Owed
  BY <1>0, <1>1, <1>2, <1>3, <1>4, SendPromise DEF OnlyAbout
<1>6. CASE pc = "retry"
  BY <1>2, <1>3, <1>5, <1>6 DEF PromiseStep, Promise!vars
<1>7. CASE pc = "acknowledge"
  <2>1. Promise!GiveUp(t, u)
    BY <1>2, <1>3, <1>5, <1>7 DEF Promise!GiveUp, Promise!Resolves
  <2> QED BY <1>5, <2>1 DEF PromiseStep, Promise!Next
<1> QED BY <1>6, <1>7

LEMMA AnswerLostPromise ==
  ASSUME Inv, PromiseInv, NEW w \in Workers, Celery!AnswerLost(w), UNCHANGED listenerVars
  PROVE  PromiseInv' /\ PromiseStep
<1>0. PICK t \in Times : worker[w].reading = t
  BY PCs, Pusher DEF Celery!AnswerLost
<1>1. PICK u \in Users : worker[w].user = u
  BY PCs, Pusher DEF Celery!AnswerLost
<1>2. /\ worker[w].pc = "send" /\ Celery!Accept(w) /\ Celery!Repeat(t)
      /\ Celery!RetryOrGiveUp(w) /\ UNCHANGED <<pushes, events, verdict>>
  BY <1>0 DEF Celery!AnswerLost
<1>3. PICK pc \in {"retry", "acknowledge"} :
        /\ worker' = [worker EXCEPT ![w].pc = pc]
        /\ gaveUp' = IF pc = "retry" THEN gaveUp ELSE gaveUp \cup {<<t, u>>}
  BY <1>0, <1>1, <1>2, RetryStep
<1>4. gaveUp \subseteq gaveUp' /\ gaveUp' \in {gaveUp, gaveUp \cup {<<t, u>>}}
  BY <1>3
<1>5. /\ sent'[t][u] = sent[t][u] + 1
      /\ \A r \in Times, q \in Users : r # t \/ q # u => sent'[r][q] = sent[r][q]
  BY <1>0, <1>1, <1>2, PCs, Accepted
<1>6. /\ repeats' = [repeats EXCEPT ![t] = @ + 1] /\ repeats'[t] = repeats[t] + 1
      /\ \A r \in Times : r # t => repeats'[r] = repeats[r]
  BY <1>2, InvTypes, Repeated DEF Celery!Repeat
<1>7. sent[t][u] \in Nat /\ repeats[t] \in Nat /\ sent[t][u] <= repeats[t]
  BY <1>0, <1>1, <1>2, SendAllowed DEF Sends
<1>8. sent'[t][u] > 0 /\ sent[t][u] <= repeats'[t]
  BY <1>5, <1>6, <1>7
<1>9. /\ PromiseInv' /\ UNCHANGED Check
      /\ <<t, u>> \in Owed /\ Owed' \in {Owed, Owed \ {<<t, u>>}}
  <2>1. OnlyAbout(t, u)
    BY <1>2, <1>5, <1>6 DEF OnlyAbout
  <2> QED BY <1>0, <1>1, <1>2, <1>3, <1>4, <1>8, <2>1, SendPromise
<1>10. Promise!Notify(t, u)
  BY <1>0, <1>1, <1>2, <1>4, <1>6, <1>8, <1>9
     DEF Promise!Notify, Promise!Resolves, Celery!Accept
<1> QED BY <1>9, <1>10 DEF PromiseStep, Promise!Next

LEMMA RetryFailsPromise ==
  ASSUME Inv, PromiseInv, NEW w \in Workers, Celery!RetryFails(w), UNCHANGED listenerVars
  PROVE  PromiseInv' /\ PromiseStep
<1>0. PICK t \in Times : worker[w].reading = t
  BY PCs, Pusher DEF Celery!RetryFails
<1>1. PICK u \in Users : worker[w].user = u
  BY PCs, Pusher DEF Celery!RetryFails
<1>2. PICK pc \in {"retry", "acknowledge"} :
        pc = "acknowledge" /\ worker' = [worker EXCEPT ![w].pc = pc]
  BY DEF Celery!RetryFails
<1>3. /\ worker[w].pc = "retry" /\ gaveUp' = gaveUp \cup {<<t, u>>}
      /\ UNCHANGED <<pushes, events, sent, verdict, repeats>>
  BY <1>0, <1>1 DEF Celery!RetryFails, Celery!GiveUp
<1>4. /\ PromiseInv' /\ UNCHANGED Check
      /\ <<t, u>> \in Owed /\ Owed' \in {Owed, Owed \ {<<t, u>>}}
  BY <1>0, <1>1, <1>2, <1>3, SendPromise DEF OnlyAbout
<1>5. Promise!GiveUp(t, u)
  BY <1>3, <1>4 DEF Promise!GiveUp, Promise!Resolves
<1> QED BY <1>4, <1>5 DEF PromiseStep, Promise!Next

(* The retry is owed in place of the push it repeats. *)
LEMMA PublishRetryPromise ==
  ASSUME Inv, PromiseInv, NEW w \in Workers, Celery!PublishRetry(w), UNCHANGED listenerVars
  PROVE  PromiseInv' /\ PromiseStep
<1>0. PICK t \in Times : worker[w].reading = t
  BY PCs, Pusher DEF Celery!PublishRetry
<1>1. PICK u \in Users : worker[w].user = u
  BY PCs, Pusher DEF Celery!PublishRetry
<1>2. /\ worker[w].pc = "retry" /\ Celery!Publish(t, u, worker[w].retries + 1)
      /\ worker' = [worker EXCEPT ![w].pc = "acknowledge"]
      /\ UNCHANGED <<events, sent, verdict, gaveUp, repeats>>
  BY <1>0, <1>1 DEF Celery!PublishRetry
<1>3. TypesOK /\ worker \in [Workers -> Celery!Task] /\ worker[w] \in Celery!Task
  BY InvTypes DEF TypesOK
<1>4. worker[w].retries + 1 \in 0 .. MaxRetries
  <2>1. worker[w].retries \in 0 .. MaxRetries /\ worker[w].retries < MaxRetries
    BY <1>2, <1>3, PCs, Pusher DEF Inv, Tasks
  <2> QED BY <2>1, RetriesAssumption
<1>5. /\ \A r \in Times, q \in Users : r # t \/ q # u => pushes'[r][q] = pushes[r][q]
      /\ pushes'[t][u][worker[w].retries + 1] > 0
  BY <1>2, <1>3, <1>4, Counts, Published
<1>6. /\ Alone(w) /\ worker'[w].pc = "acknowledge"
      /\ worker'[w].reading = t /\ worker'[w].user = u
  BY <1>0, <1>1, <1>2, <1>3 DEF Alone, Celery!Task
<1>7. Owes(t, u) /\ Owes(t, u)' /\ OnlyAbout(t, u)
  BY <1>0, <1>1, <1>2, <1>4, <1>5 DEF Owes, OnlyAbout
<1>8. /\ PromiseInv' /\ UNCHANGED Check /\ (<<t, u>> \in Owed <=> Owes(t, u))
      /\ Owed' = IF Owes(t, u)' THEN Owed \cup {<<t, u>>} ELSE Owed \ {<<t, u>>}
  BY <1>0, <1>1, <1>2, <1>6, <1>7, PCs, PushPromise DEF Resolved
<1>9. UNCHANGED Owed
  BY <1>7, <1>8
<1> QED BY <1>2, <1>8, <1>9 DEF PromiseStep, Promise!vars

LEMMA AcknowledgePushPromise ==
  ASSUME Inv, PromiseInv, NEW w \in Workers, Celery!AcknowledgePush(w), UNCHANGED listenerVars
  PROVE  PromiseInv' /\ PromiseStep
<1>0. PICK t \in Times : worker[w].reading = t
  BY PCs, Pusher DEF Celery!AcknowledgePush
<1>1. PICK u \in Users : worker[w].user = u
  BY PCs, Pusher DEF Celery!AcknowledgePush
<1>2. /\ worker[w].pc = "acknowledge" /\ worker' = [worker EXCEPT ![w] = Celery!NoTask]
      /\ UNCHANGED <<pushes, events, sent, verdict, gaveUp, repeats>>
  BY DEF Celery!AcknowledgePush
<1>3. Alone(w) /\ worker'[w].pc = "idle"
  BY <1>2, InvTypes DEF Alone, TypesOK, Celery!NoTask
<1>4. Owes(t, u)' <=> Owes(t, u)
  <2>1. ASSUME NEW v \in Workers PROVE Sends(v, t, u)' <=> Sends(v, t, u)
    <3>1. CASE v = w
      BY <1>2, <1>3, <3>1 DEF Sends
    <3>2. CASE v # w
      BY <1>3, <3>2 DEF Alone, Sends
    <3> QED BY <3>1, <3>2
  <2> QED BY <1>2, <2>1, OwesKept
<1>5. Resolved(t, u)'
  <2>1. Resolved(t, u)
    BY <1>0, <1>1, <1>2 DEF PromiseInv
  <2> QED BY <1>2, <1>4, <2>1 DEF Resolved
<1>6. /\ PromiseInv' /\ UNCHANGED Check /\ (<<t, u>> \in Owed <=> Owes(t, u))
      /\ Owed' = IF Owes(t, u)' THEN Owed \cup {<<t, u>>} ELSE Owed \ {<<t, u>>}
  BY <1>0, <1>1, <1>2, <1>3, <1>5, PCs, PushPromise DEF OnlyAbout
<1>7. UNCHANGED Owed
  BY <1>4, <1>6
<1> QED BY <1>2, <1>6, <1>7 DEF PromiseStep, Promise!vars

(* The push in hand is owed again, sent or not. *)
LEMMA LosePushPromise ==
  ASSUME Inv, PromiseInv, NEW w \in Workers, Celery!LoseWorker(w),
         worker[w].pc \in Celery!PushPCs, UNCHANGED listenerVars
  PROVE  PromiseInv' /\ PromiseStep
<1>0. PICK t \in Times : worker[w].reading = t
  BY Pusher
<1>1. PICK u \in Users : worker[w].user = u
  BY Pusher
<1>2. PICK n \in 0 .. MaxRetries : worker[w].retries = n
  BY Pusher
<1>3. /\ Celery!Repeat(t) /\ Celery!Publish(t, u, n)
      /\ worker' = [worker EXCEPT ![w] = Celery!NoTask]
      /\ UNCHANGED <<events, sent, verdict, gaveUp>>
  <2>1. worker[w].pc \notin Celery!CheckPCs
    BY Pusher
  <2> QED BY <1>0, <1>1, <1>2, <2>1 DEF Celery!LoseWorker
<1>4. Alone(w) /\ worker'[w].pc = "idle"
  BY <1>3, InvTypes DEF Alone, TypesOK, Celery!NoTask
<1>5. /\ \A r \in Times, q \in Users : r # t \/ q # u => pushes'[r][q] = pushes[r][q]
      /\ pushes'[t][u][n] > 0
  BY <1>3, InvTypes, Counts, Published
<1>6. Owes(t, u)'
  BY <1>5 DEF Owes
<1>7. Owes(t, u) \/ worker[w].pc = "acknowledge"
  BY <1>0, <1>1, PCs DEF Owes
<1>8. /\ repeats' = [repeats EXCEPT ![t] = @ + 1]
      /\ \A r \in Times : r # t => repeats'[r] = repeats[r]
  BY <1>3, InvTypes, Repeated DEF Celery!Repeat
<1>9. /\ PromiseInv' /\ UNCHANGED Check /\ Check[t] \in {"due", "made"}
      /\ Resolved(t, u) /\ (<<t, u>> \in Owed <=> Owes(t, u))
      /\ Owed' = IF Owes(t, u)' THEN Owed \cup {<<t, u>>} ELSE Owed \ {<<t, u>>}
  <2>1. worker[w].pc \notin Celery!CheckPCs /\ worker'[w].pc \notin Celery!CheckPCs
    BY <1>4, Pusher, PCs
  <2>2. OnlyAbout(t, u)
    BY <1>3, <1>5, <1>8 DEF OnlyAbout
  <2>3. Resolved(t, u)'
    BY <1>6 DEF Resolved
  <2> QED BY <1>0, <1>1, <1>3, <1>4, <1>7, <2>1, <2>2, <2>3, PushPromise
<1>10. Promise!Redeliver(t)
  <2>1. CASE Owes(t, u)
    <3>1. UNCHANGED Owed
      BY <1>6, <1>9, <2>1
    <3> QED BY <1>3, <1>8, <1>9, <3>1 DEF Promise!Redeliver
  <2>2. CASE sent[t][u] > 0 \/ <<t, u>> \in gaveUp
    <3>1. Owed' = Owed \cup {<<t, u>>}
      BY <1>6, <1>9
    <3> QED BY <1>3, <1>8, <1>9, <2>2, <3>1 DEF Promise!Redeliver
  <2> QED BY <1>9, <2>1, <2>2 DEF Resolved
<1> QED BY <1>9, <1>10 DEF PromiseStep, Promise!Next

----------------------------------------------------------------------------
(* The promise: steps of the listener *)

(* The listener hands checks over and takes none back. *)
LEMMA ListenerPromise ==
  ASSUME Inv, PromiseInv, UNCHANGED celeryVars, \A t \in Times : NotYet(t)' => NotYet(t)
  PROVE  PromiseInv' /\ UNCHANGED Owed
<1>1. UNCHANGED <<pushes, worker, events, sent, verdict, gaveUp, repeats>>
  BY DEF celeryVars
<1>2. ASSUME NEW t, NEW u PROVE (Owes(t, u)' <=> Owes(t, u)) /\ (Resolved(t, u)' <=> Resolved(t, u))
  BY <1>1 DEF Owes, Resolved
<1>3. UNCHANGED Owed
  BY <1>2, OwedKept
<1>4. ASSUME NEW t \in Times, NotYet(t)' PROVE repeats'[t] = 0
  BY <1>1, <1>4 DEF PromiseInv
<1>5. ASSUME NEW w \in Workers, worker[w].pc = "acknowledge"
      PROVE  ~NotYet(worker[w].reading)' /\ Resolved(worker[w].reading, worker[w].user)'
  <2>1. PICK t \in Times : worker[w].reading = t
    BY <1>5, PCs, Pusher
  <2>2. PICK u \in Users : worker[w].user = u
    BY <1>5, PCs, Pusher
  <2>3. ~NotYet(t) /\ Resolved(t, u)
    BY <1>5, <2>1, <2>2 DEF PromiseInv
  <2>4. ~NotYet(t)' /\ Resolved(t, u)'
    BY <1>2, <2>3
  <2>5. worker'[w].reading = t /\ worker'[w].user = u
    BY <1>1, <2>1, <2>2
  <2> QED BY <2>4, <2>5 DEF NotYet, Hands, Resolved, Owes, Listener!Stored
<1>6. PromiseInv'
  BY <1>1, <1>4, <1>5 DEF PromiseInv
<1> QED BY <1>3, <1>6

(* Steps of a coroutine that store nothing and let no stored reading go unchecked *)
LEMMA ListenerQuiet ==
  ASSUME Inv, PromiseInv, UNCHANGED celeryVars, UNCHANGED <<readings, unchecked>>,
         \A s \in Slots, t \in Times : Hands(s, t)' => Hands(s, t)
  PROVE  PromiseInv' /\ PromiseStep
<1>1. \A t \in Times : NotYet(t)' => NotYet(t)
  BY DEF NotYet, Listener!Stored
<1>2. PromiseInv' /\ UNCHANGED Owed
  BY <1>1, ListenerPromise
<1>3. UNCHANGED <<events, sent, verdict, gaveUp, repeats>>
  BY DEF celeryVars
<1>4. UNCHANGED Check
  BY <1>3, CheckKept
<1> QED BY <1>2, <1>3, <1>4 DEF PromiseStep, Promise!vars

LEMMA ReceivePromise ==
  ASSUME Inv, PromiseInv, NEW s \in Slots, Listener!Receive(s), UNCHANGED celeryVars
  PROVE  PromiseInv' /\ PromiseStep
<1>1. PICK row \in Listener!Reading :
        ingest' = [ingest EXCEPT ![s] = [pc |-> "commit", time |-> row.time,
                                         version |-> row.version, seen |-> firmware,
                                         raced |-> FALSE]]
  BY DEF Listener!Receive
<1>2. \A q \in Slots, t \in Times : Hands(q, t)' => Hands(q, t)
  <2>1. ingest'[s].pc = "commit" /\ \A q \in Slots : q # s => ingest'[q] = ingest[q]
    BY <1>1, InvTypes DEF TypesOK
  <2> QED BY <2>1 DEF Hands
<1> QED BY <1>2, ListenerQuiet DEF Listener!Receive

LEMMA FreePromise ==
  ASSUME Inv, PromiseInv, NEW s \in Slots, UNCHANGED celeryVars,
         Listener!RejectDuplicate(s) \/ Listener!Enqueue(s)
  PROVE  PromiseInv' /\ PromiseStep
<1>1. /\ ingest' = [ingest EXCEPT ![s] = Listener!NoCoroutine]
      /\ UNCHANGED <<readings, unchecked>>
  BY DEF Listener!RejectDuplicate, Listener!Enqueue
<1>2. \A q \in Slots, t \in Times : Hands(q, t)' => Hands(q, t)
  BY <1>1, Freed
<1> QED BY <1>1, <1>2, ListenerQuiet

LEMMA CommitReadingPromise ==
  ASSUME Inv, PromiseInv, NEW s \in Slots, Listener!CommitReading(s), UNCHANGED celeryVars
  PROVE  PromiseInv' /\ PromiseStep
<1>1. /\ ingest[s].pc = "commit" /\ ~Listener!Stored(ingest[s].time)
      /\ readings' = readings \cup {Listener!Row(s)}
      /\ Listener!Goto(s, "enqueue") /\ UNCHANGED unchecked
  BY DEF Listener!CommitReading
<1>2. PICK t1 \in Times : ingest[s].time = t1
  BY <1>1, InvTypes DEF TypesOK
<1>3. \A t : Listener!Stored(t)' <=> Listener!Stored(t) \/ t = t1
  <2>1. Listener!Row(s).time = t1
    BY <1>2 DEF Listener!Row
  <2> QED BY <1>1, <2>1 DEF Listener!Stored
<1>4. UNCHANGED <<events, sent, verdict, gaveUp, repeats>>
  BY DEF celeryVars
<1>5. t1 \notin unchecked /\ verdict[t1] = None /\ ~Listener!Stored(t1)
  BY <1>1, <1>2 DEF Inv, OnePlace
<1>6. ASSUME NEW t \in Times, NotYet(t)' PROVE NotYet(t)
  <2>1. ASSUME NEW q \in Slots, Hands(q, t)' PROVE Hands(q, t) \/ t = t1
    <3>0. ingest[q] \in Listener!Coroutine /\ ingest[s] \in Listener!Coroutine
      BY InvTypes DEF TypesOK
    <3>1. CASE q = s
      <4>1. ingest'[q].time = t1
        BY <1>1, <1>2, <3>0, <3>1 DEF Listener!Goto, Listener!Coroutine
      <4> QED BY <2>1, <4>1 DEF Hands
    <3>2. CASE q # s
      <4>1. ingest'[q].pc = ingest[q].pc /\ ingest'[q].time = ingest[q].time
        BY <1>1, <3>0, <3>2 DEF Listener!Goto, Listener!Coroutine
      <4> QED BY <2>1, <4>1 DEF Hands
    <3> QED BY <3>1, <3>2
  <2> QED BY <1>1, <1>3, <1>5, <1>6, <2>1 DEF NotYet
<1>7. PromiseInv' /\ UNCHANGED Owed
  BY <1>6, ListenerPromise
<1>8. Check' = [Check EXCEPT ![t1] = "due"] /\ Check[t1] = "none"
  <2>1. ASSUME NEW t \in Times
        PROVE  CheckOf(t)' = IF t = t1 THEN "due" ELSE CheckOf(t)
    <3>1. Listener!Stored(t)' <=> Listener!Stored(t) \/ t = t1
      BY <1>3
    <3> QED BY <1>1, <1>4, <1>5, <3>1 DEF CheckOf
  <2> QED BY <1>5, <2>1 DEF Check, CheckOf
<1>9. Promise!Store(t1)
  BY <1>4, <1>7, <1>8 DEF Promise!Store
<1> QED BY <1>7, <1>9 DEF PromiseStep, Promise!Next

(* A coroutine that fails after its COMMIT has done nothing for its check. *)
LEMMA DropPromise ==
  ASSUME Inv, PromiseInv, NEW s \in Slots, Listener!Drop(s), UNCHANGED celeryVars
  PROVE  PromiseInv' /\ PromiseStep
<1>1. /\ ingest[s].pc # "idle" /\ ingest' = [ingest EXCEPT ![s] = Listener!NoCoroutine]
      /\ unchecked' = IF ingest[s].pc = "enqueue" THEN unchecked \cup {ingest[s].time}
                                                  ELSE unchecked
      /\ UNCHANGED readings
  BY DEF Listener!Drop
<1>2. \A q \in Slots, t \in Times : Hands(q, t)' => Hands(q, t)
  BY <1>1, Freed
<1>3. CASE ingest[s].pc # "enqueue"
  BY <1>1, <1>2, <1>3, ListenerQuiet
<1>4. CASE ingest[s].pc = "enqueue"
  <2>1. PICK t1 \in Times : ingest[s].time = t1
    BY <1>1, InvTypes DEF TypesOK
  <2>2. NotYet(t1) /\ unchecked' = unchecked \cup {t1}
    BY <1>1, <1>4, <2>1 DEF NotYet, Hands
  <2>3. \A t : Listener!Stored(t)' <=> Listener!Stored(t)
    BY <1>1 DEF Listener!Stored
  <2>4. \A t \in Times : NotYet(t)' => NotYet(t)
    BY <1>2, <2>2, <2>3 DEF NotYet
  <2>5. PromiseInv' /\ UNCHANGED Owed
    BY <2>4, ListenerPromise
  <2>6. UNCHANGED <<events, sent, verdict, gaveUp, repeats>>
    BY DEF celeryVars
  <2>7. Listener!Stored(t1) /\ t1 \notin unchecked /\ verdict[t1] = None
    BY <1>4, <2>1 DEF Inv, OnePlace, Hands
  <2>8. Check' = [Check EXCEPT ![t1] = "excused"] /\ Check[t1] = "due"
    <3>1. ASSUME NEW t \in Times
          PROVE  CheckOf(t)' = IF t = t1 THEN "excused" ELSE CheckOf(t)
      BY <2>2, <2>3, <2>6, <2>7 DEF CheckOf
    <3> QED BY <2>7, <3>1 DEF Check, CheckOf
  <2>9. /\ repeats[t1] = 0 /\ events[t1] = 0
        /\ \A u \in Users : sent[t1][u] = 0 /\ <<t1, u>> \notin Owed
    BY <2>2, Untouched DEF Owed
  <2>10. Promise!Excuse(t1)
    BY <2>5, <2>6, <2>8, <2>9 DEF Promise!Excuse
  <2> QED BY <2>5, <2>10 DEF PromiseStep, Promise!Next
<1> QED BY <1>3, <1>4

----------------------------------------------------------------------------
(* The promise is kept *)

LEMMA PromiseInit == Init => PromiseInv /\ Promise!Init
<1> SUFFICES ASSUME Init PROVE PromiseInv /\ Promise!Init
  OBVIOUS
<1>1. /\ readings = {}
      /\ pushes = [t \in Times |-> [u \in Users |-> [n \in 0 .. MaxRetries |-> 0]]]
      /\ worker = [w \in Workers |-> Celery!NoTask] /\ events = [t \in Times |-> 0]
      /\ sent = [t \in Times |-> [u \in Users |-> 0]]
      /\ gaveUp = {} /\ repeats = [t \in Times |-> 0]
  BY DEF Init, Listener!Init, Celery!Init
<1>2. \A w \in Workers : worker[w].pc = "idle"
  BY <1>1, NoTaskOK
<1>3. PromiseInv
  BY <1>1, <1>2 DEF PromiseInv
<1>4. Check = [t \in Times |-> "none"]
  BY <1>1 DEF Check, CheckOf, Listener!Stored
<1>5. \A t \in Times, u \in Users : ~Owes(t, u)
  <2> TAKE t \in Times, u \in Users
  <2>1. \A n \in 0 .. MaxRetries : pushes[t][u][n] = 0
    BY <1>1
  <2> QED BY <1>2, <2>1 DEF Owes
<1>6. Owed = {}
  <2> SUFFICES ASSUME NEW p \in Owed PROVE FALSE
    OBVIOUS
  <2>1. p \in Times \X Users /\ Owes(p[1], p[2])
    BY DEF Owed
  <2>2. p[1] \in Times /\ p[2] \in Users
    BY <2>1
  <2> QED BY <1>5, <2>1, <2>2
<1> QED BY <1>1, <1>3, <1>4, <1>6 DEF Promise!Init

LEMMA PromiseNext == Inv /\ PromiseInv /\ [Next]_vars => PromiseInv' /\ PromiseStep
<1> SUFFICES ASSUME Inv, PromiseInv, [Next]_vars PROVE PromiseInv' /\ PromiseStep
  OBVIOUS
<1>1. CASE Listener!Next /\ UNCHANGED celeryVars
  <2>1. PICK s \in Slots : Listener!Receive(s) \/ Listener!Continue(s) \/ Listener!Drop(s)
    BY <1>1 DEF Listener!Next
  <2>2. CASE Listener!Receive(s)
    BY <1>1, <2>2, ReceivePromise
  <2>3. CASE Listener!CommitReading(s)
    BY <1>1, <2>3, CommitReadingPromise
  <2>4. CASE Listener!RejectDuplicate(s) \/ Listener!Enqueue(s)
    BY <1>1, <2>4, FreePromise
  <2>5. CASE Listener!Drop(s)
    BY <1>1, <2>5, DropPromise
  <2> QED BY <2>1, <2>2, <2>3, <2>4, <2>5 DEF Listener!Continue
<1>2. CASE Celery!Next /\ UNCHANGED listenerVars
  <2>1. PICK w \in Workers : Celery!Take(w) \/ Celery!Work(w) \/ Celery!LoseWorker(w)
    BY <1>2 DEF Celery!Next
  <2>2. CASE Celery!TakeCheck(w)
    BY <1>2, <2>2, TakeCheckPromise
  <2>3. CASE Celery!TakePush(w)
    BY <1>2, <2>3, TakePushPromise
  <2>4. CASE \/ Celery!Evaluate(w) \/ Celery!PersistFails(w)
             \/ Celery!SelectMembers(w) \/ Celery!DispatchFails(w)
    BY <1>2, <2>4, InnerPromise
  <2>5. CASE Celery!Persist(w)
    BY <1>2, <2>5, PersistPromise
  <2>6. CASE Celery!DispatchPush(w)
    BY <1>2, <2>6, DispatchPushPromise
  <2>7. CASE Celery!AcknowledgeCheck(w)
    BY <1>2, <2>7, AcknowledgeCheckPromise
  <2>8. CASE Celery!SendSucceeds(w)
    BY <1>2, <2>8, SendSucceedsPromise
  <2>9. CASE Celery!SendRejected(w)
    BY <1>2, <2>9, SendRejectedPromise
  <2>10. CASE Celery!SendFails(w)
    BY <1>2, <2>10, SendFailsPromise
  <2>11. CASE Celery!AnswerLost(w)
    BY <1>2, <2>11, AnswerLostPromise
  <2>12. CASE Celery!PublishRetry(w)
    BY <1>2, <2>12, PublishRetryPromise
  <2>13. CASE Celery!RetryFails(w)
    BY <1>2, <2>13, RetryFailsPromise
  <2>14. CASE Celery!AcknowledgePush(w)
    BY <1>2, <2>14, AcknowledgePushPromise
  <2>15. CASE Celery!LoseWorker(w)
    <3>1. worker[w].pc \in Celery!CheckPCs \/ worker[w].pc \in Celery!PushPCs
      <4>1. worker[w].pc # "idle"
        BY <2>15 DEF Celery!LoseWorker
      <4>2. worker[w] \in Celery!Task
        BY InvTypes DEF TypesOK
      <4> QED BY <4>1, <4>2 DEF Celery!Task
    <3> QED BY <1>2, <2>15, <3>1, LoseCheckPromise, LosePushPromise
  <2> QED BY <2>1, <2>2, <2>3, <2>4, <2>5, <2>6, <2>7, <2>8, <2>9, <2>10, <2>11, <2>12,
             <2>13, <2>14, <2>15 DEF Celery!Take, Celery!Work
<1>3. CASE UNCHANGED vars
  <2>1. UNCHANGED <<celeryVars, listenerVars>>
    BY <1>3 DEF vars
  <2>2. \A s \in Slots, t \in Times : Hands(s, t)' => Hands(s, t)
    BY <2>1 DEF listenerVars, Hands
  <2> QED BY <2>1, <2>2, ListenerQuiet DEF listenerVars
<1> QED BY <1>1, <1>2, <1>3 DEF Next

----------------------------------------------------------------------------
(* Theorems *)

(* The listener's and the workers' variables keep their types, through every failure
   (mqtt.py, process_telemetry_async; workers/tasks). *)
THEOREM TypeCorrect == Spec => []TypeOK
<1>1. Inv => TypeOK
  BY DEF Inv
<1> QED BY <1>1, Invariance, PTL

(* Only stored readings have alert events or notifications. *)
AlarmsAreStored ==
  \A t \in Times :
    events[t] > 0 \/ (\E u \in Users : sent[t][u] > 0) => Listener!Stored(t)

(* No member is notified of a reading that is not in the database, and no alert event
   is about one: the check is enqueued after the COMMIT (mqtt.py,
   process_telemetry_async). *)
THEOREM AlarmsAreAboutStoredReadings == Spec => []AlarmsAreStored
<1>1. Inv => AlarmsAreStored
  BY DEF Inv, AboutStored, AlarmsAreStored
<1> QED BY <1>1, Invariance, PTL

(* A reading's alert events are written once, and a member is notified of it once,
   however often the device publishes it: every further time is a message that was
   delivered again, or an answer of FCM that was lost (celery_app.py, task_acks_late;
   notifications.py, send_push_notification). *)
THEOREM AlarmsAreNotMultiplied == Spec => []RepeatedOnlyByRedelivery
<1>1. Inv => RepeatedOnlyByRedelivery
  <2> SUFFICES ASSUME Inv, NEW t \in Times
               PROVE  /\ events[t] <= 1 + repeats[t]
                      /\ \A u \in Users : sent[t][u] <= 1 + repeats[t]
    BY DEF RepeatedOnlyByRedelivery
  <2>1. events[t] <= 1 + repeats[t]
    <3>1. events[t] \in Nat /\ repeats[t] \in Nat
      BY InvTypes DEF TypesOK
    <3>2. events[t] <= repeats[t] + (IF Persisted(t) THEN 1 ELSE 0)
      BY DEF Inv, EventsRight
    <3> QED BY <3>1, <3>2
  <2>2. ASSUME NEW u \in Users PROVE sent[t][u] <= 1 + repeats[t]
    <3>1. /\ Cardinality(Messages(t, u)) \in Nat /\ Cardinality(Sending(t, u)) \in Nat
          /\ sent[t][u] \in Nat /\ repeats[t] \in Nat
          /\ sent[t][u] + Cardinality(Messages(t, u)) + Cardinality(Sending(t, u))
               + (IF Pending(t, u) THEN 1 ELSE 0) <= 1 + repeats[t]
      BY Counts
    <3>2. CASE Pending(t, u)
      BY <3>1, <3>2
    <3>3. CASE ~Pending(t, u)
      BY <3>1, <3>3
    <3> QED BY <3>2, <3>3
  <2> QED BY <2>1, <2>2
<1> QED BY <1>1, Invariance, PTL

(* However often workers are lost: when nothing of a stored reading is in flight, its
   check has been made unless its hand-over failed, its alert events are there if the
   check says so, and each member it dispatched to was notified or given up on
   (workers/tasks; mqtt.py, _dispatch_alert_check). *)
THEOREM NothingIsLost == Spec => []NothingLost
<1>1. Inv => NothingLost
  <2> SUFFICES ASSUME Inv, NEW t \in Times, Listener!Stored(t), t \notin unchecked, Settled(t)
               PROVE  /\ verdict[t] # None
                      /\ verdict[t].recorded => events[t] > 0
                      /\ \A u \in verdict[t].reached : sent[t][u] > 0 \/ <<t, u>> \in gaveUp
    BY DEF NothingLost
  <2>1. /\ \A s \in Slots : ~Hands(s, t)
        /\ \A w \in Workers : ~Checks(w, t)
        /\ \A w \in Workers, u \in Users : ~Sends(w, t, u)
        /\ queue[t] = 0
        /\ \A u \in Users, n \in 0 .. MaxRetries : pushes[t][u][n] = 0
    BY DEF Settled, Hands, Checks, Sends
  <2>2. verdict[t] # None
    BY <2>1 DEF Inv, Somewhere
  <2>3. verdict[t].recorded => events[t] > 0
    BY <2>2 DEF Inv, EventsRight
  <2>4. ASSUME NEW u \in verdict[t].reached PROVE sent[t][u] > 0 \/ <<t, u>> \in gaveUp
    <3>1. u \in Users
      <4>1. verdict[t] \in Celery!Verdict
        BY <2>2, InvTypes DEF TypesOK
      <4> QED BY <4>1 DEF Celery!Verdict
    <3>2. Reached(t, u) /\ Traced(t, u)
      BY <2>2, <3>1 DEF Reached, Inv
    <3> QED BY <2>1, <3>1, <3>2 DEF Traced
  <2> QED BY <2>2, <2>3, <2>4
<1> QED BY <1>1, Invariance, PTL

(* From the COMMIT of a reading to FCM's answer the tasks keep the promise of
   AlertPromise, through every failure: only stored readings are checked, checks and
   pushes end only in the ways it names, and nothing is done again without a
   repetition to pay for it (mqtt.py; workers/tasks; celery_app.py, task_acks_late). *)
THEOREM ImplementsPromise == Spec => PromiseSpec
<1>1. Spec => [](Inv /\ PromiseInv)
  BY InitInv, NextInv, PromiseInit, PromiseNext, PTL DEF Spec
<1>2. Inv /\ PromiseInv /\ [Next]_vars => [Promise!Next]_(Promise!vars)
  BY PromiseNext DEF PromiseStep
<1> QED BY <1>1, <1>2, PromiseInit, PTL DEF Spec, PromiseSpec, Promise!Spec

=============================================================================
