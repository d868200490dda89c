--------------------------- MODULE HistoryProofs ---------------------------
(* Proofs about History, for any devices, calendar and policies. *)
EXTENDS History, FiniteSetTheorems, WellFoundedInduction, TLAPS

(***************************************************************************)
(* Time                                                                    *)
(***************************************************************************)

LEMMA Rounding ==
  ASSUME NEW t \in Nat, NEW k \in Nat \ {0}
  PROVE  /\ t - (t % k) \in Nat
         /\ t - (t % k) <= t
         /\ t < (t - (t % k)) + k
OBVIOUS

LEMMA RoundingMonotone ==
  ASSUME NEW k \in Nat \ {0}, NEW s \in Nat, NEW t \in Nat, s <= t
  PROVE  s - (s % k) <= t - (t % k)
<1>1. /\ s = k * (s \div k) + (s % k) /\ s % k \in 0 .. (k - 1) /\ s \div k \in Nat
      /\ t = k * (t \div k) + (t % k) /\ t % k \in 0 .. (k - 1) /\ t \div k \in Nat
  OBVIOUS
<1>2. k * (s \div k) < k * ((t \div k) + 1)
  BY <1>1
<1>3. s \div k <= t \div k
  BY <1>1, <1>2
<1>4. k * (s \div k) <= k * (t \div k)
  BY <1>1, <1>3
<1> QED BY <1>1, <1>4

LEMMA DayIsPositive == Hour \in Nat \ {0} /\ Day \in Nat \ {0} /\ Retention * Day \in Nat
<1>1. TicksPerHour \in Nat \ {0} /\ HoursPerDay \in Nat \ {0} /\ Retention \in Nat \ {0}
  BY TimeAssumption
<1>2. HoursPerDay * TicksPerHour \in Nat /\ HoursPerDay * TicksPerHour # 0
  BY <1>1
<1>3. Hour \in Nat \ {0} /\ Day \in Nat \ {0}
  BY <1>1, <1>2 DEF Hour, Day
<1> QED BY <1>1, <1>3

LEMMA RowTimes ==
  ASSUME NEW row \in Reading
  PROVE  /\ row.time \in Nat /\ row.time <= MaxTime
         /\ BucketOf(row) \in Nat
         /\ BucketOf(row) <= row.time
         /\ DayOf(row.time) \in Nat
         /\ row.time < DayOf(row.time) + Day
<1>1. row.time \in Nat /\ row.time <= MaxTime
  BY BoundsAssumption DEF Reading, Times
<1>2. /\ row.time - (row.time % Hour) \in Nat
      /\ row.time - (row.time % Hour) <= row.time
  BY <1>1, DayIsPositive, Rounding
<1>3. /\ row.time - (row.time % Day) \in Nat
      /\ row.time < (row.time - (row.time % Day)) + Day
  BY <1>1, DayIsPositive, Rounding
<1> QED BY <1>1, <1>2, <1>3 DEF BucketOf, Bucket, DayOf

(* Retention drops no reading of a bucket that a refresh may still replace. *)
LEMMA ExpiredIsOld ==
  ASSUME NEW row \in Reading, now \in Times, Expired(row)
  PROVE  BucketOf(row) < now - 3 * Hour
<1>1. /\ row.time \in Nat /\ BucketOf(row) \in Nat /\ BucketOf(row) <= row.time
      /\ DayOf(row.time) \in Nat /\ row.time < DayOf(row.time) + Day
  BY RowTimes
<1>2. DayOf(row.time) + Day <= now - Retention * Day
  BY DEF Expired
<1>3. now \in Nat /\ Retention * Day \in Nat /\ Hour \in Nat /\ Day \in Nat
  BY DayIsPositive, BoundsAssumption DEF Times
<1>4. now - Retention * Day <= now - 3 * Hour
  BY <1>3, RetentionAssumption
<1> QED BY <1>1, <1>2, <1>3, <1>4

(* A reading no newer than one that is dropped is dropped. *)
LEMMA ExpiresInOrder ==
  ASSUME NEW a \in Reading, NEW b \in Reading, now \in Times,
         a.time <= b.time, Expired(b)
  PROVE  Expired(a)
<1>1. DayOf(a.time) <= DayOf(b.time)
  BY RowTimes, DayIsPositive, RoundingMonotone DEF DayOf
<1>2. now \in Nat /\ Retention * Day \in Nat /\ Day \in Nat
  BY DayIsPositive, BoundsAssumption DEF Times
<1>3. DayOf(a.time) \in Nat /\ DayOf(b.time) \in Nat
  BY RowTimes
<1>4. DayOf(b.time) + Day <= now - Retention * Day
  BY DEF Expired
<1>5. DayOf(a.time) + Day <= now - Retention * Day
  BY <1>1, <1>2, <1>3, <1>4
<1> QED BY <1>5 DEF Expired

(* Times in hours: a time is past the hour h just when its hour is h at least. *)
LEMMA HoursAndTicks ==
  ASSUME NEW t \in Nat
  PROVE  /\ HourOf(t) \in Nat
         /\ Bucket(t) = HourOf(t) * Hour
         /\ \A h \in Nat : h * Hour <= t <=> h <= HourOf(t)
<1> DEFINE q == t \div Hour
<1>1. Hour \in Nat /\ Hour > 0
  BY DayIsPositive
<1>2. q \in Nat /\ t = Hour * q + (t % Hour) /\ t % Hour \in 0 .. (Hour - 1)
  BY <1>1
<1>3. Bucket(t) = q * Hour
  BY <1>1, <1>2 DEF Bucket
<1>4. ASSUME NEW h \in Nat PROVE h * Hour <= t <=> h <= q
  <2>1. ASSUME h <= q PROVE h * Hour <= t
    <3>1. h * Hour <= q * Hour
      BY <1>1, <1>2, <2>1
    <3> QED BY <1>1, <1>2, <3>1
  <2>2. ASSUME h > q PROVE ~(h * Hour <= t)
    <3>1. h * Hour >= (q + 1) * Hour
      BY <1>1, <1>2, <2>2
    <3>2. (q + 1) * Hour = q * Hour + Hour
      BY <1>1, <1>2
    <3> QED BY <1>1, <1>2, <3>1, <3>2
  <2> QED BY <1>2, <2>1, <2>2
<1> QED BY <1>2, <1>3, <1>4 DEF HourOf

(* The same of sums of hours, which the window and the lateness of readings are *)
LEMMA HourSums ==
  ASSUME NEW h \in Nat
  PROVE  /\ h * Hour \in Nat /\ h * Hour + Hour = (h + 1) * Hour
         /\ h * Hour + 2 * Hour = (h + 2) * Hour /\ h * Hour + 3 * Hour = (h + 3) * Hour
BY DayIsPositive

LEMMA HoursInOrder ==
  ASSUME NEW h \in Nat, NEW k \in Nat
  PROVE  h * Hour < k * Hour <=> h < k
<1>1. Hour \in Nat /\ Hour > 0
  BY DayIsPositive
<1>2. h < k => h * Hour < k * Hour
  <2> SUFFICES ASSUME h < k PROVE h * Hour < k * Hour
    OBVIOUS
  <2>1. h * Hour + Hour = (h + 1) * Hour /\ h * Hour \in Nat /\ k * Hour \in Nat
    BY <1>1
  <2>2. (h + 1) * Hour <= k * Hour
    BY <1>1
  <2> QED BY <1>1, <2>1, <2>2
<1>3. k <= h => k * Hour <= h * Hour
  BY <1>1
<1> QED BY <1>1, <1>2, <1>3

(* A reading's bucket and a refresh's window, in hours *)
LEMMA RowHours ==
  ASSUME NEW row \in Reading, now \in Times
  PROVE  /\ HourOf(row.time) \in Nat /\ HourOf(now) \in Nat
         /\ BucketOf(row) = HourOf(row.time) * Hour
         /\ Late(row) <=> HourOf(row.time) + 2 <= HourOf(now)
         /\ InWindow(BucketOf(row)) => HourOf(row.time) + 2 <= HourOf(now)
         /\ HourOf(row.time) + 2 = HourOf(now) => InWindow(BucketOf(row))
<1> DEFINE h == HourOf(row.time)
<1>1. row.time \in Nat /\ now \in Nat
  BY RowTimes, BoundsAssumption DEF Times
<1>2. h \in Nat /\ HourOf(now) \in Nat /\ BucketOf(row) = h * Hour
  BY <1>1, HoursAndTicks DEF BucketOf
<1>3. \A n \in Nat : n * Hour <= now <=> n <= HourOf(now)
  BY <1>1, HoursAndTicks
<1>4. ((h + 2) * Hour <= now <=> h + 2 <= HourOf(now))
      /\ ((h + 3) * Hour <= now <=> h + 3 <= HourOf(now))
  BY <1>2, <1>3
<1> HIDE DEF h
<1>5. /\ h * Hour \in Nat /\ h * Hour + Hour = (h + 1) * Hour
      /\ h * Hour + 2 * Hour = (h + 2) * Hour /\ h * Hour + 3 * Hour = (h + 3) * Hour
      /\ Hour \in Nat
  BY <1>2, HourSums, DayIsPositive
<1>6. Late(row) <=> h + 2 <= HourOf(now)
  BY <1>1, <1>2, <1>4, <1>5 DEF Late
<1>7. h * Hour + Hour <= now - Hour <=> h * Hour + 2 * Hour <= now
  BY <1>1, <1>5
<1>8. h * Hour >= now - 3 * Hour <=> h * Hour + 3 * Hour >= now
  BY <1>1, <1>5
<1>9. InWindow(BucketOf(row)) => h + 2 <= HourOf(now)
  BY <1>2, <1>4, <1>5, <1>7 DEF InWindow
<1>10. ASSUME h + 2 = HourOf(now) PROVE InWindow(BucketOf(row))
  <2>1. h + 2 <= HourOf(now) /\ ~(h + 3 <= HourOf(now))
    BY <1>2, <1>10
  <2>2. h * Hour + 2 * Hour <= now /\ h * Hour + 3 * Hour >= now
    BY <1>1, <1>4, <1>5, <2>1
  <2> QED BY <1>2, <1>7, <1>8, <2>2 DEF InWindow
<1> QED BY <1>2, <1>6, <1>9, <1>10 DEF h

(* A set of naturals with a bound has a greatest element: the finite sets s .. m
   are well-founded by inclusion. *)
LEMMA Greatest ==
  ASSUME NEW m \in Nat, NEW S, S \subseteq 0 .. m, S # {}
  PROVE  \E w \in S : \A s \in S : s <= w
<1> DEFINE T == {s .. m : s \in S}
<1>1. T \subseteq FiniteSubsetsOf(0 .. m)
  <2> SUFFICES ASSUME NEW s \in S PROVE s .. m \in FiniteSubsetsOf(0 .. m)
    OBVIOUS
  <2>1. s .. m \subseteq 0 .. m
    OBVIOUS
  <2>2. IsFiniteSet(0 .. m)
    BY FS_Interval
  <2>3. IsFiniteSet(s .. m)
    BY <2>1, <2>2, FS_Subset
  <2> QED BY <2>1, <2>3 DEF FiniteSubsetsOf
<1>2. T # {}
  OBVIOUS
<1>3. \E x \in T : \A y \in T : ~(<<y, x>> \in StrictSubsetOrdering(0 .. m))
  <2> HIDE DEF T
  <2> QED BY <1>1, <1>2, FS_StrictSubsetOrderingWellFounded, WFMin
<1>4. PICK w \in S : \A s \in S : ~(<<s .. m, w .. m>> \in StrictSubsetOrdering(0 .. m))
  BY <1>3
<1>5. ASSUME NEW s \in S, s > w PROVE FALSE
  <2>1. s \in 0 .. m /\ w \in 0 .. m
    OBVIOUS
  <2>2. s .. m \subseteq w .. m /\ w \in w .. m /\ w \notin s .. m
    BY <1>5, <2>1
  <2>3. s .. m \subseteq 0 .. m /\ w .. m \subseteq 0 .. m
    BY <2>1
  <2>4. <<s .. m, w .. m>> \in StrictSubsetOrdering(0 .. m)
    BY <2>2, <2>3 DEF StrictSubsetOrdering
  <2> QED BY <1>4, <2>4
<1>6. \A s \in S : s <= w
  BY <1>5
<1> QED BY <1>6

(***************************************************************************)
(* The inductive invariant                                                 *)
(***************************************************************************)

TablesOK == /\ now \in Times
            /\ stored \subseteq Reading
            /\ materialised \subseteq Reading

(* What a refresh may still replace is still stored. *)
ReplaceableIsStored ==
  \A row \in materialised : BucketOf(row) >= now - 3 * Hour => row \in stored

Inv == TablesOK /\ ReplaceableIsStored

LEMMA InvInit == Init => Inv
BY BoundsAssumption DEF Init, Inv, TablesOK, ReplaceableIsStored, Times

(* What the two actions that add readings have in common *)
LEMMA Inserts ==
  ASSUME Inv, Publish \/ CreateDemo
  PROVE  \E rows \in SUBSET Reading : Insert(rows)
<1>1. now \in Times
  BY DEF Inv, TablesOK
<1>2. CASE Publish
  <2>1. PICK d \in Devices, t \in 0 .. now : Insert({[device |-> d, time |-> t]})
    BY <1>2 DEF Publish
  <2>2. t \in Times
    BY <1>1, BoundsAssumption DEF Times
  <2>3. {[device |-> d, time |-> t]} \in SUBSET Reading
    BY <2>2 DEF Reading
  <2> QED BY <2>1, <2>3
<1>3. CASE CreateDemo
  <2> DEFINE rows == {[device |-> Demo, time |-> t] :
                        t \in {u \in Times : u >= now - Day /\ u < now}}
  <2>1. Insert(rows)
    BY <1>3 DEF CreateDemo
  <2>2. rows \in SUBSET Reading
    BY DEF Reading
  <2> QED BY <2>1, <2>2
<1> QED BY <1>2, <1>3

LEMMA InvNext == Inv /\ [Next]_vars => Inv'
<1> SUFFICES ASSUME Inv, [Next]_vars PROVE Inv'
  OBVIOUS
<1>1. CASE UNCHANGED vars
  BY <1>1 DEF Inv, TablesOK, ReplaceableIsStored, vars
<1>2. CASE Publish \/ CreateDemo
  <2>1. PICK rows \in SUBSET Reading : Insert(rows)
    BY <1>2, Inserts
  <2> QED BY <2>1 DEF Insert, Inv, TablesOK, ReplaceableIsStored
<1>3. CASE Refresh
  <2>1. /\ UNCHANGED <<now, stored>>
        /\ \A row \in materialised' :
             row \in stored \/ (row \in materialised /\ ~InWindow(BucketOf(row)))
    BY <1>3 DEF Refresh
  <2> QED BY <2>1 DEF Inv, TablesOK, ReplaceableIsStored
<1>4. CASE Tick
  <2>1. now \in Nat /\ MaxTime \in Nat /\ now' = now + 1 /\ now < MaxTime
    BY <1>4, BoundsAssumption DEF Tick, Inv, TablesOK, Times
  <2>2. UNCHANGED <<stored, materialised>>
    BY <1>4 DEF Tick
  <2>3. TablesOK'
    BY <2>1, <2>2 DEF Inv, TablesOK, Times
  <2>4. ASSUME NEW row \in materialised, BucketOf(row) >= now' - 3 * Hour
        PROVE  row \in stored
    <3>1. BucketOf(row) \in Nat /\ Hour \in Nat
      BY RowTimes, DayIsPositive DEF Inv, TablesOK
    <3>2. BucketOf(row) >= now - 3 * Hour
      BY <2>1, <2>4, <3>1
    <3> QED BY <3>2 DEF Inv, ReplaceableIsStored
  <2> QED BY <2>2, <2>3, <2>4 DEF Inv, ReplaceableIsStored
<1>5. CASE DropChunks
  <2>1. /\ stored' = {row \in stored : ~Expired(row)}
        /\ UNCHANGED <<now, materialised>>
    BY <1>5 DEF DropChunks
  <2>2. ASSUME NEW row \in materialised, BucketOf(row) >= now - 3 * Hour
        PROVE  row \in stored'
    <3>1. row \in stored /\ row \in Reading /\ now \in Times
      BY <2>2 DEF Inv, TablesOK, ReplaceableIsStored
    <3>2. BucketOf(row) \in Nat /\ now \in Nat /\ Hour \in Nat
      BY <3>1, RowTimes, DayIsPositive, BoundsAssumption DEF Times
    <3>3. ~Expired(row)
      BY <2>2, <3>1, <3>2, ExpiredIsOld
    <3> QED BY <2>1, <3>1, <3>3
  <2> QED BY <2>1, <2>2 DEF Inv, TablesOK, ReplaceableIsStored
<1> QED BY <1>1, <1>2, <1>3, <1>4, <1>5 DEF Next

LEMMA Invariance == Spec => []Inv
<1> QED BY InvInit, InvNext, PTL DEF Spec

(***************************************************************************)
(* What the view shows                                                     *)
(***************************************************************************)

(* The watermark is the start of an hour that is over. *)
WatermarkBehind == \E k \in Nat : watermark = k * Hour /\ (k = 0 \/ k < HourOf(now))

(* A reading that was not late has been taken into the view once the hour of its
   refresh is over, or the refresh has run, or the watermark has passed it. *)
TakenIn ==
  \A row \in stored \ excused :
    \/ HourOf(row.time) + 3 <= HourOf(now)
    \/ refreshed /\ HourOf(row.time) + 2 <= HourOf(now)
    \/ BucketOf(row) < watermark
    => row \in materialised

ViewInv == /\ refreshed \in BOOLEAN /\ excused \in SUBSET Reading
           /\ WatermarkBehind /\ TakenIn

LEMMA ViewInit == Init => ViewInv
<1> SUFFICES ASSUME Init PROVE ViewInv
  OBVIOUS
<1>1. watermark = 0 * Hour
  BY DayIsPositive DEF Init
<1> QED BY <1>1 DEF Init, ViewInv, WatermarkBehind, TakenIn

(* The watermark's hour *)
LEMMA WatermarkHour ==
  ASSUME Inv, NEW k \in Nat, watermark = k * Hour, NEW row \in Reading
  PROVE  BucketOf(row) < watermark <=> HourOf(row.time) < k
BY RowHours, HoursInOrder DEF Inv, TablesOK

LEMMA InsertView ==
  ASSUME Inv, ViewInv, NEW rows \in SUBSET Reading, Insert(rows)
  PROVE  ViewInv'
<1>1. /\ stored' = stored \cup rows /\ excused' = excused \cup {row \in rows : Late(row)}
      /\ UNCHANGED <<now, materialised, watermark, refreshed>>
  BY DEF Insert
<1>2. now \in Times /\ stored \subseteq Reading
  BY DEF Inv, TablesOK
<1>3. PICK k \in Nat : watermark = k * Hour /\ (k = 0 \/ k < HourOf(now))
  BY DEF ViewInv, WatermarkBehind
<1>4. WatermarkBehind'
  BY <1>1, <1>3 DEF WatermarkBehind
<1>5. ASSUME NEW row \in stored' \ excused',
             \/ HourOf(row.time) + 3 <= HourOf(now)
             \/ refreshed /\ HourOf(row.time) + 2 <= HourOf(now)
             \/ BucketOf(row) < watermark
      PROVE  row \in materialised
  <2>1. CASE row \in stored
    BY <1>1, <1>5, <2>1 DEF ViewInv, TakenIn
  <2>2. CASE row \in rows
    <3>1. ~Late(row) /\ row \in Reading
      BY <1>1, <2>2
    <3>2. /\ HourOf(row.time) \in Nat /\ HourOf(now) \in Nat
          /\ ~(HourOf(row.time) + 2 <= HourOf(now))
      BY <1>2, <3>1, RowHours
    <3>3. BucketOf(row) < watermark <=> HourOf(row.time) < k
      BY <1>3, <3>1, WatermarkHour
    <3> QED BY <1>3, <1>5, <3>2, <3>3
  <2> QED BY <1>1, <2>1, <2>2
<1>6. TakenIn'
  BY <1>1, <1>5 DEF TakenIn
<1>7. refreshed' \in BOOLEAN /\ excused' \in SUBSET Reading
  BY <1>1 DEF ViewInv
<1> QED BY <1>4, <1>6, <1>7 DEF ViewInv

LEMMA RefreshView ==
  ASSUME Inv, ViewInv, Refresh
  PROVE  ViewInv'
<1> DEFINE kept == {row \in materialised : ~InWindow(BucketOf(row))}
           new == {row \in stored : InWindow(BucketOf(row))}
           ends == {BucketOf(row) + Hour : row \in new}
           newest == CHOOSE w \in ends : \A row \in new : BucketOf(row) + Hour <= w
<1>1. /\ materialised' = kept \cup new
      /\ watermark' = IF \E row \in new : BucketOf(row) + Hour > watermark
                      THEN newest ELSE watermark
      /\ refreshed' = TRUE /\ UNCHANGED <<now, stored, excused>>
  BY DEF Refresh
<1>2. now \in Times /\ stored \subseteq Reading /\ materialised \subseteq Reading
  BY DEF Inv, TablesOK
<1>3. PICK k \in Nat : watermark = k * Hour /\ (k = 0 \/ k < HourOf(now))
  BY DEF ViewInv, WatermarkBehind
(* The newest bucket that was taken in, if it is beyond the watermark *)
<1>4. PICK k2 \in Nat : watermark' = k2 * Hour /\ (k2 = k \/ k2 < HourOf(now))
  <2>1. CASE ~\E row \in new : BucketOf(row) + Hour > watermark
    BY <1>1, <1>3, <2>1
  <2>2. CASE \E row \in new : BucketOf(row) + Hour > watermark
    <3>1. ends \subseteq 0 .. (MaxTime + Hour) /\ MaxTime + Hour \in Nat
      <4>1. \A row \in new : /\ BucketOf(row) \in Nat /\ BucketOf(row) <= row.time
                             /\ row.time \in Nat /\ row.time <= MaxTime
        BY <1>2, RowTimes
      <4> QED BY <4>1, DayIsPositive, BoundsAssumption
    <3>2. ends # {}
      BY <2>2
    <3>3. \E w \in ends : \A s \in ends : s <= w
      <4> HIDE DEF ends
      <4> QED BY <3>1, <3>2, Greatest
    <3>4. newest \in ends
      BY <3>3
    <3> HIDE DEF newest
    <3>5. PICK row \in new : newest = BucketOf(row) + Hour
      BY <3>4
    <3>6. /\ HourOf(row.time) \in Nat /\ BucketOf(row) = HourOf(row.time) * Hour
          /\ HourOf(row.time) + 2 <= HourOf(now) /\ HourOf(now) \in Nat
      BY <1>2, RowHours
    <3>7. newest = (HourOf(row.time) + 1) * Hour
      BY <3>5, <3>6, HourSums
    <3>8. HourOf(row.time) + 1 \in Nat /\ HourOf(row.time) + 1 < HourOf(now)
      BY <3>6
    <3>9. watermark' = newest
      BY <1>1, <2>2
    <3> QED BY <3>7, <3>8, <3>9
  <2> QED BY <2>1, <2>2
<1>5. WatermarkBehind'
  BY <1>1, <1>3, <1>4 DEF WatermarkBehind
<1>6. ASSUME NEW row \in stored \ excused,
             \/ HourOf(row.time) + 2 <= HourOf(now)
             \/ BucketOf(row) < watermark'
      PROVE  row \in kept \cup new
  <2>1. /\ HourOf(row.time) \in Nat /\ HourOf(now) \in Nat /\ row \in Reading
        /\ HourOf(row.time) + 2 = HourOf(now) => InWindow(BucketOf(row))
    BY <1>2, RowHours
  <2>2. BucketOf(row) < watermark' <=> HourOf(row.time) < k2
    <3>1. HourOf(row.time) * Hour < k2 * Hour <=> HourOf(row.time) < k2
      BY <2>1, HoursInOrder
    <3> QED BY <1>2, <1>4, <2>1, <3>1, RowHours
  <2>3. BucketOf(row) < watermark <=> HourOf(row.time) < k
    BY <1>3, <2>1, WatermarkHour
  <2>4. CASE InWindow(BucketOf(row))
    BY <2>4
  <2>5. CASE ~InWindow(BucketOf(row))
    <3>1. HourOf(row.time) + 3 <= HourOf(now) \/ BucketOf(row) < watermark
      BY <1>4, <1>6, <2>1, <2>2, <2>3, <2>5
    <3>2. row \in materialised
      BY <3>1 DEF ViewInv, TakenIn
    <3> QED BY <2>5, <3>2
  <2> QED BY <2>4, <2>5
<1>7. TakenIn'
  <2>1. ASSUME NEW row \in stored \ excused,
               \/ HourOf(row.time) + 3 <= HourOf(now)
               \/ HourOf(row.time) + 2 <= HourOf(now)
               \/ BucketOf(row) < watermark'
        PROVE  row \in kept \cup new
    <3>1. HourOf(row.time) \in Nat /\ HourOf(now) \in Nat
      BY <1>2, RowHours
    <3>2. HourOf(row.time) + 2 <= HourOf(now) \/ BucketOf(row) < watermark'
      BY <2>1, <3>1
    <3> QED BY <1>6, <3>2
  <2> HIDE DEF kept, new
  <2> QED BY <1>1, <2>1 DEF TakenIn
<1>8. refreshed' \in BOOLEAN /\ excused' \in SUBSET Reading
  BY <1>1 DEF ViewInv
<1> QED BY <1>5, <1>7, <1>8 DEF ViewInv

LEMMA TickView ==
  ASSUME Inv, ViewInv, Tick
  PROVE  ViewInv'
<1>1. /\ now < MaxTime /\ now' = now + 1
      /\ UNCHANGED <<stored, materialised, watermark>>
  BY DEF Tick
<1>2. now \in Nat /\ now \in Times /\ stored \subseteq Reading
  BY BoundsAssumption DEF Inv, TablesOK, Times
<1>3. /\ HourOf(now) \in Nat /\ HourOf(now') \in Nat
      /\ HourOf(now') = HourOf(now) \/ HourOf(now') = HourOf(now) + 1
  <2>1. /\ HourOf(now) \in Nat /\ HourOf(now + 1) \in Nat
        /\ \A h \in Nat : h * Hour <= now <=> h <= HourOf(now)
        /\ \A h \in Nat : h * Hour <= now + 1 <=> h <= HourOf(now + 1)
    BY <1>2, HoursAndTicks
  <2> DEFINE h == HourOf(now)
  <2>2. h * Hour <= now /\ ~((h + 1) * Hour <= now)
    BY <2>1
  <2>3. h * Hour <= now + 1
    BY <1>2, <2>1, <2>2, HourSums
  <2>4. ~((h + 2) * Hour <= now + 1)
    <3> HIDE DEF h
    <3>1. h \in Nat
      BY <2>1 DEF h
    <3>2. /\ (h + 1) * Hour \in Nat /\ (h + 2) * Hour \in Nat
          /\ (h + 2) * Hour = (h + 1) * Hour + Hour /\ Hour \in Nat /\ Hour > 0
      BY <3>1, DayIsPositive
    <3> QED BY <1>2, <2>2, <3>2
  <2>5. h <= HourOf(now + 1) /\ ~(h + 2 <= HourOf(now + 1))
    BY <2>1, <2>3, <2>4
  <2> QED BY <1>1, <2>1, <2>5 DEF HourOf
<1>4. WatermarkBehind'
  <2>1. PICK k \in Nat : watermark = k * Hour /\ (k = 0 \/ k < HourOf(now))
    BY DEF ViewInv, WatermarkBehind
  <2>2. k = 0 \/ k < HourOf(now')
    BY <1>3, <2>1
  <2>3. HourOf(now') = HourOf(now)'
    BY DEF HourOf
  <2> QED BY <1>1, <2>1, <2>2, <2>3 DEF WatermarkBehind
<1>5. CASE HourOf(now + 1) = HourOf(now)
  <2>1. UNCHANGED <<refreshed, excused>> /\ HourOf(now)' = HourOf(now)
    BY <1>1, <1>5 DEF Tick, HourOf
  <2> QED BY <1>1, <1>4, <2>1 DEF ViewInv, TakenIn
<1>6. CASE HourOf(now + 1) # HourOf(now)
  <2>1. /\ refreshed' = FALSE
        /\ excused' = IF refreshed THEN excused
                      ELSE excused \cup {row \in stored : HourOf(row.time) + 2 = HourOf(now)}
        /\ HourOf(now)' = HourOf(now) + 1
    BY <1>1, <1>3, <1>6 DEF Tick, HourOf
  <2>2. ASSUME NEW row \in stored' \ excused',
               HourOf(row.time) + 3 <= HourOf(now) + 1 \/ BucketOf(row) < watermark
        PROVE  row \in materialised
    <3>1. row \in stored \ excused /\ HourOf(row.time) \in Nat
      BY <1>1, <1>2, <2>1, RowHours
    <3>2. CASE HourOf(row.time) + 3 <= HourOf(now) \/ BucketOf(row) < watermark
      BY <3>1, <3>2 DEF ViewInv, TakenIn
    <3>3. CASE HourOf(row.time) + 2 = HourOf(now)
      <4>1. refreshed
        BY <1>1, <2>1, <3>1, <3>3 DEF ViewInv
      <4>2. HourOf(row.time) + 2 <= HourOf(now)
        BY <1>3, <3>3
      <4> QED BY <3>1, <4>1, <4>2 DEF ViewInv, TakenIn
    <3> QED BY <1>3, <2>2, <3>1, <3>2, <3>3
  <2>3. TakenIn'
    BY <1>1, <2>1, <2>2 DEF TakenIn
  <2>4. excused' \in SUBSET Reading
    BY <1>2, <2>1 DEF ViewInv
  <2> QED BY <1>4, <2>1, <2>3, <2>4 DEF ViewInv
<1> QED BY <1>5, <1>6

LEMMA ViewNext == Inv /\ ViewInv /\ [Next]_vars => ViewInv'
<1> SUFFICES ASSUME Inv, ViewInv, [Next]_vars PROVE ViewInv'
  OBVIOUS
<1>1. CASE Publish \/ CreateDemo
  BY <1>1, Inserts, InsertView
<1>2. CASE Refresh
  BY <1>2, RefreshView
<1>3. CASE Tick
  BY <1>3, TickView
<1>4. CASE DropChunks
  <2>1. /\ stored' = {row \in stored : ~Expired(row)}
        /\ excused' = {row \in excused : ~Expired(row)}
        /\ UNCHANGED <<now, materialised, watermark, refreshed>>
    BY <1>4 DEF DropChunks
  <2>2. stored' \ excused' \subseteq stored \ excused
    BY <2>1
  <2> QED BY <2>1, <2>2 DEF ViewInv, WatermarkBehind, TakenIn
<1>5. CASE UNCHANGED vars
  BY <1>5 DEF ViewInv, WatermarkBehind, TakenIn, vars
<1> QED BY <1>1, <1>2, <1>3, <1>4, <1>5 DEF Next

LEMMA ViewInvariance == Spec => [](Inv /\ ViewInv)
<1>1. Init => Inv /\ ViewInv
  BY InvInit, ViewInit
<1>2. Inv /\ ViewInv /\ [Next]_vars => (Inv /\ ViewInv)'
  BY InvNext, ViewNext
<1> QED BY <1>1, <1>2, PTL DEF Spec

(***************************************************************************)
(* Theorems                                                                *)
(***************************************************************************)

(* Whatever retention drops, the hourly view keeps, as long as readings are kept
   longer than the refresh policy reaches back. *)
THEOREM AggregatesAreKept == Spec => AggregateOutlivesReadings
<1>1. Inv /\ [Next]_vars => [materialised \subseteq materialised']_vars
  <2> SUFFICES ASSUME Inv, [Next]_vars PROVE materialised \subseteq materialised'
    OBVIOUS
  <2>1. CASE Refresh
    <3>1. ASSUME NEW row \in materialised PROVE row \in materialised'
      <4>1. CASE InWindow(BucketOf(row))
        <5>1. row \in stored
          BY <4>1 DEF InWindow, Inv, ReplaceableIsStored
        <5> QED BY <2>1, <4>1, <5>1 DEF Refresh
      <4>2. CASE ~InWindow(BucketOf(row))
        BY <2>1, <4>2 DEF Refresh
      <4> QED BY <4>1, <4>2
    <3> QED BY <3>1
  <2>2. CASE UNCHANGED materialised
    BY <2>2
  <2> QED BY <2>1, <2>2 DEF Next, Publish, CreateDemo, Insert, Tick, DropChunks, vars
<1> QED BY <1>1, Invariance, PTL DEF Spec, AggregateOutlivesReadings

(* Late readings and retention never turn the snapshot of a device back. *)
THEOREM SnapshotIsMonotone == Spec => SnapshotNeverGoesBack
<1> DEFINE Forward == \A d \in Devices \cup {Demo} :
                        \A row \in Latest(d), next \in Latest(d)' : next.time >= row.time
<1>1. Inv /\ [Next]_vars => [Forward]_vars
  <2> SUFFICES ASSUME Inv, [Next]_vars,
                      NEW d \in Devices \cup {Demo}, NEW row \in Latest(d),
                      NEW next \in Latest(d)'
               PROVE  next.time >= row.time
    OBVIOUS
  <2>1. /\ row \in stored /\ row.device = d
        /\ \A other \in stored : other.device = d => other.time <= row.time
        /\ next \in stored' /\ next.device = d
        /\ \A other \in stored' : other.device = d => other.time <= next.time
    BY DEF Latest
  <2>2. row \in Reading /\ next \in Reading /\ now \in Times
    BY <2>1, InvNext DEF Inv, TablesOK
  <2>3. row.time \in Nat /\ next.time \in Nat
    BY <2>2, RowTimes
  <2>4. CASE row \in stored'
    BY <2>1, <2>3, <2>4
  <2>5. CASE row \notin stored'
    <3>1. DropChunks
      <4>1. ~(Publish \/ CreateDemo)
        BY <2>1, <2>5, Inserts DEF Insert
      <4>2. ~UNCHANGED stored
        BY <2>1, <2>5
      <4> QED BY <4>1, <4>2 DEF Next, Refresh, Tick, vars
    <3>2. Expired(row) /\ ~Expired(next) /\ next \in stored
      BY <2>1, <2>5, <3>1 DEF DropChunks
    <3>3. ~(next.time <= row.time)
      BY <2>2, <3>2, ExpiresInOrder
    <3> QED BY <2>3, <3>3
  <2> QED BY <2>4, <2>5
<1> QED BY <1>1, Invariance, PTL DEF Spec, SnapshotNeverGoesBack

(* The tables keep their types, and the watermark is never ahead of the time: what is
   materialised ends an hour before now (the policy's end_offset). *)
THEOREM TypeCorrect == Spec => []TypeOK
<1>1. Inv /\ ViewInv => TypeOK
  <2> SUFFICES ASSUME Inv, ViewInv PROVE TypeOK
    OBVIOUS
  <2>1. PICK k \in Nat : watermark = k * Hour /\ (k = 0 \/ k < HourOf(now))
    BY DEF ViewInv, WatermarkBehind
  <2>2. now \in Nat /\ now <= MaxTime /\ MaxTime \in Nat
    BY BoundsAssumption DEF Inv, TablesOK, Times
  <2>3. HourOf(now) \in Nat /\ (k <= HourOf(now) => k * Hour <= now)
    BY <2>2, HoursAndTicks
  <2>4. k * Hour <= now /\ k * Hour \in Nat
    BY <2>1, <2>3, HourSums
  <2>5. watermark \in 0 .. (MaxTime + Hour) /\ watermark <= now
    BY <2>1, <2>2, <2>4, DayIsPositive
  <2> QED BY <2>5 DEF TypeOK, Inv, ViewInv, TablesOK
<1> QED BY <1>1, ViewInvariance, PTL

(* What a raw query shows, the hourly query of the same window shows exactly if its hour
   begins in the window, but for readings that came late or whose refresh was missed
   (get_telemetry_history). *)
THEOREM OnlyLateOrCutReadingsAreHidden == Spec => []HiddenOnlyWhenLateOrCut
<1>1. Inv /\ ViewInv => HiddenOnlyWhenLateOrCut
  <2> SUFFICES ASSUME Inv, ViewInv,
                      NEW d \in Devices \cup {Demo}, NEW from \in Times, NEW to \in Times,
                      NEW row \in RawTier(d, from, to) \ excused
               PROVE  row \in HourTier(d, from, to) <=> BucketOf(row) >= from
    BY DEF HiddenOnlyWhenLateOrCut
  <2>1. row \in stored /\ row.device = d /\ row.time \in from .. to
    BY DEF RawTier
  <2>2. row \in Reading
    BY <2>1 DEF Inv, TablesOK
  <2>3. row \in View
    <3>1. BucketOf(row) \in Nat /\ watermark \in Nat
      BY <2>2, RowTimes, HourSums DEF ViewInv, WatermarkBehind
    <3>2. BucketOf(row) < watermark \/ BucketOf(row) >= watermark
      BY <3>1
    <3> QED BY <2>1, <3>2 DEF ViewInv, TakenIn, View
  <2>4. BucketOf(row) \in from .. to <=> BucketOf(row) >= from
    <3>1. /\ row.time \in Nat /\ from \in Nat /\ to \in Nat
          /\ BucketOf(row) \in Nat /\ BucketOf(row) <= row.time
      BY <2>2, RowTimes, BoundsAssumption DEF Times
    <3>2. row.time <= to
      BY <2>1, <3>1
    <3> QED BY <3>1, <3>2
  <2> QED BY <2>1, <2>3, <2>4 DEF HourTier
<1> QED BY <1>1, ViewInvariance, PTL
============================================================================
