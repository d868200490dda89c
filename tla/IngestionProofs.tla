-------------------------- MODULE IngestionProofs --------------------------
(* Proofs about Ingestion, for any readings, versions and coroutines. *)
EXTENDS Ingestion, TLAPS

(***************************************************************************)
(* The inductive invariant                                                 *)
(***************************************************************************)

(* The rows have a key. *)
OneRowPerTime == \A a, b \in readings : a.time = b.time => a = b

(* A reading that waits for its hand-over is stored, and nobody else is to hand it
   over or has done so. *)
HandOver ==
  \A s \in Slots :
    ingest[s].pc = "enqueue" =>
      /\ Stored(ingest[s].time)
      /\ queue[ingest[s].time] = 0
      /\ ingest[s].time \notin unchecked
      /\ \A q \in Slots :
           ingest[q].pc = "enqueue" /\ ingest[q].time = ingest[s].time => q = s

(* Only a reading that is stored counts as never checked. *)
UncheckedStored == \A t \in unchecked : Stored(t)

(* Unless another coroutine has written it, the version is the one s has loaded. *)
SeenCurrent ==
  \A s \in Slots :
    ingest[s].pc = "commit" /\ ~ingest[s].raced => ingest[s].seen = firmware

Inv == TypeOK /\ OneRowPerTime /\ HandOver /\ UncheckedStored /\ EnqueuedOnce /\ SeenCurrent

LEMMA NoCoroutineType == NoCoroutine \in Coroutine /\ NoCoroutine.pc = "idle"
BY DEF NoCoroutine, Coroutine

LEMMA InvInit == Init => Inv
BY NoCoroutineType
DEF Init, Inv, TypeOK, OneRowPerTime, HandOver, UncheckedStored, EnqueuedOnce, SeenCurrent, Stored

LEMMA InvNext == Inv /\ [Next]_vars => Inv'
<1> SUFFICES ASSUME Inv, [Next]_vars PROVE Inv'
    OBVIOUS
<1> USE DEF Inv
<1>1. CASE UNCHANGED vars
  BY <1>1 DEF vars, TypeOK, OneRowPerTime, HandOver, UncheckedStored, EnqueuedOnce, SeenCurrent,
              Stored
<1>2. ASSUME NEW s \in Slots, Receive(s) PROVE Inv'
  <2>1. PICK row \in Reading :
          ingest' = [ingest EXCEPT ![s] = [pc |-> "commit", time |-> row.time,
                                           version |-> row.version, seen |-> firmware,
                                           raced |-> FALSE]]
    BY <1>2 DEF Receive
  <2> DEFINE x == [pc |-> "commit", time |-> row.time, version |-> row.version,
                   seen |-> firmware, raced |-> FALSE]
  <2>2. /\ x \in Coroutine /\ x.pc = "commit" /\ x.time \in Times /\ x.seen = firmware
        /\ ~x.raced
    BY DEF Coroutine, Reading, TypeOK
  <2>3. UNCHANGED <<readings, firmware, queue, unchecked>>
    BY <1>2 DEF Receive
  <2>4. ingest' = [ingest EXCEPT ![s] = x]
    BY <2>1
  <2> HIDE DEF x
  <2>5. TypeOK'
    BY <2>2, <2>3, <2>4 DEF TypeOK
  <2>6. OneRowPerTime' /\ UncheckedStored' /\ EnqueuedOnce'
    BY <2>3 DEF OneRowPerTime, UncheckedStored, EnqueuedOnce, Stored
  <2>7. HandOver' /\ SeenCurrent'
    BY <2>2, <2>3, <2>4 DEF HandOver, SeenCurrent, Stored, TypeOK
  <2> QED BY <2>5, <2>6, <2>7
<1>3. ASSUME NEW s \in Slots, CommitReading(s) PROVE Inv'
  <2> DEFINE t == ingest[s].time
  <2>1. /\ ingest[s].pc = "commit" /\ t \in Times /\ ~Stored(t)
        /\ readings' = readings \cup {Row(s)}
        /\ firmware' = IF Writes(s) THEN ingest[s].version ELSE firmware
        /\ UNCHANGED <<queue, unchecked>>
    BY <1>3 DEF CommitReading, TypeOK
  <2>2. Row(s) \in Reading /\ Row(s).time = t
    BY <2>1 DEF Row, Reading, TypeOK, Coroutine
  <2>3. \A r \in Times : Stored(r)' <=> Stored(r) \/ r = t
    BY <2>1, <2>2 DEF Stored
  <2>4. /\ ingest' \in [Slots -> Coroutine]
        /\ ingest'[s] = [ingest[s] EXCEPT !.pc = "enqueue"]
        /\ \A q \in Slots \ {s} :
             /\ ingest'[q].pc = ingest[q].pc /\ ingest'[q].time = ingest[q].time
             /\ ingest'[q].seen = ingest[q].seen
             /\ ingest'[q].pc = "commit" /\ ~ingest'[q].raced =>
                  ~Writes(s) /\ ~ingest[q].raced
    <3>1. ingest' = [q \in Slots |->
                       IF q = s THEN [ingest[s] EXCEPT !.pc = "enqueue"]
                       ELSE IF Writes(s) /\ ingest[q].pc = "commit"
                            THEN [ingest[q] EXCEPT !.raced = TRUE]
                            ELSE ingest[q]]
      BY <1>3 DEF CommitReading, Goto
    <3>2. \A q \in Slots : /\ ingest[q] \in Coroutine
                          /\ [ingest[q] EXCEPT !.pc = "enqueue"] \in Coroutine
                          /\ [ingest[q] EXCEPT !.raced = TRUE] \in Coroutine
      BY DEF TypeOK, Coroutine
    <3>3. ingest' \in [Slots -> Coroutine]
      BY <3>1, <3>2
    <3>4. ASSUME NEW q \in Slots \ {s}
          PROVE  /\ ingest'[q].pc = ingest[q].pc /\ ingest'[q].time = ingest[q].time
                 /\ ingest'[q].seen = ingest[q].seen
                 /\ ingest'[q].pc = "commit" /\ ~ingest'[q].raced =>
                      ~Writes(s) /\ ~ingest[q].raced
      <4>1. CASE Writes(s) /\ ingest[q].pc = "commit"
        <5>1. ingest'[q] = [ingest[q] EXCEPT !.raced = TRUE]
          BY <3>1, <3>4, <4>1
        <5> QED BY <3>2, <3>4, <5>1 DEF Coroutine
      <4>2. CASE ~(Writes(s) /\ ingest[q].pc = "commit")
        <5>1. ingest'[q] = ingest[q]
          BY <3>1, <3>4, <4>2
        <5> QED BY <4>2, <5>1
      <4> QED BY <4>1, <4>2
    <3> QED BY <3>1, <3>3, <3>4
  <2>5. ingest'[s].pc = "enqueue" /\ ingest'[s].time = t
    BY <2>4 DEF TypeOK, Coroutine
  <2>6. TypeOK'
    BY <2>1, <2>2, <2>4, <2>5 DEF TypeOK, Coroutine
  <2>7. OneRowPerTime'
    BY <2>1, <2>2 DEF OneRowPerTime, Stored
  <2>8. queue[t] = 0 /\ t \notin unchecked
    BY <2>1 DEF EnqueuedOnce, UncheckedStored, TypeOK
  <2>9. \A q \in Slots \ {s} : ingest'[q].pc = "enqueue" => ingest'[q].time # t
    BY <2>1, <2>4 DEF HandOver
  <2>10. HandOver'
    <3> SUFFICES ASSUME NEW a \in Slots, ingest'[a].pc = "enqueue"
                 PROVE  /\ Stored(ingest[a].time)'
                        /\ queue'[ingest'[a].time] = 0
                        /\ ingest'[a].time \notin unchecked'
                        /\ \A q \in Slots : ingest'[q].pc = "enqueue"
                             /\ ingest'[q].time = ingest'[a].time => q = a
        BY DEF HandOver
    <3>1. CASE a = s
      BY <2>1, <2>3, <2>5, <2>8, <2>9, <3>1 DEF Stored
    <3>2. CASE a # s
      <4>1. ingest[a].pc = "enqueue" /\ ingest'[a].time = ingest[a].time
        BY <2>4, <3>2
      <4>2. Stored(ingest[a].time) /\ queue[ingest[a].time] = 0 /\ ingest[a].time \notin unchecked
        BY <4>1 DEF HandOver
      <4>3. Stored(ingest[a].time)'
        BY <2>1, <4>1, <4>2 DEF Stored
      <4>4. ASSUME NEW q \in Slots, ingest'[q].pc = "enqueue", ingest'[q].time = ingest'[a].time
            PROVE  q = a
        <5>1. q # s
          BY <2>4, <2>5, <2>9, <3>2, <4>4
        <5>2. ingest[q].pc = "enqueue" /\ ingest[q].time = ingest[a].time
          BY <2>4, <4>1, <4>4, <5>1
        <5> QED BY <4>1, <5>2 DEF HandOver
      <4> QED BY <2>1, <4>1, <4>2, <4>3, <4>4
    <3> QED BY <3>1, <3>2
  <2>11. UncheckedStored' /\ EnqueuedOnce'
    BY <2>1, <2>3 DEF UncheckedStored, EnqueuedOnce, TypeOK
  <2>12. SeenCurrent'
    BY <2>1, <2>4, <2>5 DEF SeenCurrent
  <2> QED BY <2>6, <2>7, <2>10, <2>11, <2>12
<1>4. ASSUME NEW s \in Slots, RejectDuplicate(s) PROVE Inv'
  BY <1>4, NoCoroutineType
  DEF RejectDuplicate, TypeOK, OneRowPerTime, HandOver, UncheckedStored, EnqueuedOnce,
      SeenCurrent, Stored
<1>5. ASSUME NEW s \in Slots, Enqueue(s) PROVE Inv'
  <2> DEFINE t == ingest[s].time
  <2>1. /\ t \in Times /\ Stored(t) /\ queue[t] = 0 /\ t \notin unchecked
        /\ queue' = [queue EXCEPT ![t] = 1]
        /\ ingest' = [ingest EXCEPT ![s] = NoCoroutine]
        /\ UNCHANGED <<readings, firmware, unchecked>>
    <3>1. /\ ingest[s].pc = "enqueue"
          /\ queue' = [queue EXCEPT ![t] = queue[t] + 1]
          /\ ingest' = [ingest EXCEPT ![s] = NoCoroutine]
          /\ UNCHANGED <<readings, firmware, unchecked>>
      BY <1>5 DEF Enqueue
    <3>2. t \in Times /\ Stored(t) /\ queue[t] = 0 /\ t \notin unchecked
      BY <3>1 DEF HandOver, TypeOK
    <3>3. queue[t] + 1 = 1
      BY <3>2
    <3> QED BY <3>1, <3>2, <3>3
  <2>2. TypeOK'
    BY <2>1, NoCoroutineType DEF TypeOK
  <2>3. OneRowPerTime' /\ UncheckedStored' /\ SeenCurrent'
    BY <2>1, NoCoroutineType DEF OneRowPerTime, UncheckedStored, SeenCurrent, Stored, TypeOK
  <2>4. EnqueuedOnce'
    BY <2>1 DEF EnqueuedOnce, Stored, TypeOK
  <2>5. HandOver'
    BY <1>5, <2>1, NoCoroutineType DEF Enqueue, HandOver, Stored, TypeOK
  <2> QED BY <2>2, <2>3, <2>4, <2>5
<1>6. ASSUME NEW s \in Slots, Drop(s) PROVE Inv'
  <2> DEFINE t == ingest[s].time
  <2>1. /\ t \in Times
        /\ ingest' = [ingest EXCEPT ![s] = NoCoroutine]
        /\ UNCHANGED <<readings, firmware, queue>>
    BY <1>6 DEF Drop, TypeOK
  <2>2. \/ unchecked' = unchecked
        \/ unchecked' = unchecked \cup {t} /\ ingest[s].pc = "enqueue"
    BY <1>6 DEF Drop
  <2>3. TypeOK'
    BY <2>1, <2>2, NoCoroutineType DEF TypeOK
  <2>4. OneRowPerTime' /\ SeenCurrent'
    BY <2>1, NoCoroutineType DEF OneRowPerTime, SeenCurrent, TypeOK
  <2>5. UncheckedStored' /\ EnqueuedOnce'
    BY <2>1, <2>2 DEF UncheckedStored, EnqueuedOnce, HandOver, Stored, TypeOK
  <2>6. HandOver'
    BY <2>1, <2>2, NoCoroutineType DEF HandOver, Stored, TypeOK
  <2> QED BY <2>3, <2>4, <2>5, <2>6
<1> QED BY <1>1, <1>2, <1>3, <1>4, <1>5, <1>6 DEF Next, Continue

LEMMA Invariance == Spec => []Inv
<1>1. Inv /\ [Next]_vars => Inv'
  BY InvNext
<1> QED BY InvInit, <1>1, PTL DEF Spec

(* The rows, the queue and the coroutines in flight keep their types. *)
THEOREM TypeCorrect == Spec => []TypeOK
<1>1. Inv => TypeOK
  BY DEF Inv
<1> QED BY <1>1, Invariance, PTL

(* A check is enqueued at most once for a reading, and after its COMMIT. *)
THEOREM CheckedOnce == Spec => []EnqueuedOnce
<1>1. Inv => EnqueuedOnce
  BY DEF Inv
<1> QED BY <1>1, Invariance, PTL

----------------------------------------------------------------------------

(* In order and without a race, the committed reading is the newest one and the
   column holds its version. *)
LEMMA InOrder ==
  ASSUME Inv, NEW s \in Slots, CommitReading(s), ~ingest[s].raced,
         \A row \in readings : ~(row.time > ingest[s].time),
         ~Outdated
  PROVE  ~Outdated'
<1> DEFINE new == Row(s)
<1>1. /\ readings' = readings \cup {new}
      /\ firmware' = IF Writes(s) THEN ingest[s].version ELSE firmware
      /\ ingest[s].seen = firmware
      /\ new \in Reading /\ new.version = ingest[s].version /\ new.time = ingest[s].time
  BY DEF CommitReading, Inv, SeenCurrent, Row, Reading, TypeOK, Coroutine
<1>2. \A row \in readings : row.time < new.time
  <2>1. \A row \in readings : row.time # new.time /\ ~(row.time > new.time)
    BY <1>1 DEF CommitReading, Stored
  <2>2. new.time \in Nat /\ \A row \in readings : row.time \in Nat
    BY <1>1, TimesAssumption DEF Inv, TypeOK, Reading
  <2> QED BY <2>1, <2>2
<1>3. CASE new.version = None
  <2>1. Reported' = Reported
    BY <1>1, <1>3 DEF Reported
  <2>2. LatestVersion' = LatestVersion
    BY <2>1 DEF LatestVersion
  <2> QED BY <1>1, <1>3, <2>2 DEF Outdated, Writes
<1>4. CASE new.version # None
  <2>1. Reported' = Reported \cup {new}
    BY <1>1, <1>4 DEF Reported
  <2>2. firmware' = new.version
    BY <1>1, <1>4 DEF Writes
  <2>3. \A other \in Reported' : /\ other.time <= new.time
                                 /\ other # new => ~(new.time <= other.time)
    <3>1. new.time \in Nat /\ \A row \in readings : row.time \in Nat
      BY <1>1, TimesAssumption DEF Inv, TypeOK, Reading
    <3>2. \A other \in Reported' : other = new \/ other \in readings
      BY <2>1 DEF Reported
    <3> QED BY <1>2, <3>1, <3>2
  <2> DEFINE latest == CHOOSE x \in Reported' : \A other \in Reported' : other.time <= x.time
  <2>4. latest \in Reported' /\ \A other \in Reported' : other.time <= latest.time
    BY <2>1, <2>3
  <2>5. latest = new
    BY <2>1, <2>3, <2>4
  <2>6. LatestVersion' = latest.version
    BY <2>1 DEF LatestVersion
  <2> QED BY <2>2, <2>5, <2>6 DEF Outdated
<1> QED BY <1>3, <1>4

(* devices.firmware_version falls behind the readings only by disorder or a race. *)
THEOREM FirmwareFollows == Spec => FirmwareOutdatedOnlyByDisorder
<1> DEFINE Disorder ==
      \E s \in Slots :
        /\ CommitReading(s)
        /\ ingest[s].raced \/ \E row \in readings : row.time > ingest[s].time
<1>1. ASSUME Inv, [Next]_vars, ~Outdated, Outdated' PROVE Disorder
  <2>1. ASSUME UNCHANGED <<readings, firmware>> PROVE FALSE
    BY <1>1, <2>1 DEF Outdated, LatestVersion, Reported
  <2>2. PICK s \in Slots : CommitReading(s)
    BY <1>1, <2>1 DEF Next, vars, Continue, Receive, RejectDuplicate, Enqueue, Drop
  <2> QED BY <1>1, <2>2, InOrder
<1>2. Inv /\ [Next]_vars => [ ~Outdated /\ Outdated' => Disorder ]_vars
  BY <1>1
<1> QED BY <1>2, Invariance, PTL DEF Spec, FirmwareOutdatedOnlyByDisorder
============================================================================
