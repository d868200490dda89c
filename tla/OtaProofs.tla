----------------------------- MODULE OtaProofs -----------------------------
(* Proofs about Ota, for any readings, coroutines and versions that a device may report. *)
EXTENDS Ota, FiniteSetTheorems, SequenceTheorems, WellFoundedInduction, TLAPS

(***************************************************************************)
(* Python's order of tuples                                                *)
(***************************************************************************)

LEMMA OlderIrreflexive ==
  ASSUME NEW a \in Seq(Int)
  PROVE  ~Older(a, a)
BY DEF Older

LEMMA OlderTransitive ==
  ASSUME NEW a \in Seq(Int), NEW b \in Seq(Int), NEW c \in Seq(Int), Older(a, b), Older(b, c)
  PROVE  Older(a, c)
<1>1. Len(a) \in Nat /\ Len(b) \in Nat /\ Len(c) \in Nat
  OBVIOUS
<1>2. PICK n \in 0 .. Len(a) :
        n < Len(b) /\ (\A i \in 1 .. n : a[i] = b[i]) /\ (n = Len(a) \/ a[n + 1] < b[n + 1])
  BY DEF Older
<1>3. PICK m \in 0 .. Len(b) :
        m < Len(c) /\ (\A i \in 1 .. m : b[i] = c[i]) /\ (m = Len(b) \/ b[m + 1] < c[m + 1])
  BY DEF Older
<1>4. CASE n < m
  <2>1. n < Len(c) /\ \A i \in 1 .. n : a[i] = c[i]
    BY <1>1, <1>2, <1>3, <1>4
  <2>2. b[n + 1] = c[n + 1]
    BY <1>1, <1>2, <1>3, <1>4
  <2> QED BY <1>2, <2>1, <2>2 DEF Older
<1>5. CASE m < n
  <2>1. m \in 0 .. Len(a) /\ \A i \in 1 .. m : a[i] = c[i]
    <3>0. m \in Nat /\ n \in Nat /\ m < n /\ n <= Len(a)
      BY <1>1, <1>5
    <3>1. m \in Nat /\ n \in Nat /\ m <= Len(a) /\ \A i \in 1 .. m : i \in 1 .. n
      BY <1>1, <3>0
    <3>2. ASSUME NEW i \in 1 .. m PROVE a[i] = c[i]
      BY <1>2, <1>3, <3>1
    <3>3. m \in 0 .. Len(a)
      BY <1>1, <3>1
    <3> QED BY <3>2, <3>3
  <2>2. a[m + 1] = b[m + 1] /\ m # Len(b)
    <3>1. m \in Nat /\ n \in Nat /\ m + 1 \in 1 .. n /\ m < Len(b)
      BY <1>1, <1>2, <1>3, <1>5
    <3> QED BY <1>2, <3>1
  <2> QED BY <1>3, <2>1, <2>2 DEF Older
<1>6. CASE n = m
  <2>1. \A i \in 1 .. n : a[i] = c[i]
    BY <1>2, <1>3, <1>6
  <2>2. n = Len(a) \/ a[n + 1] < c[n + 1]
    <3> SUFFICES ASSUME n # Len(a) PROVE a[n + 1] < c[n + 1]
      OBVIOUS
    <3>1. a[n + 1] < b[n + 1] /\ b[n + 1] < c[n + 1]
      BY <1>2, <1>3, <1>6
    <3>2. a[n + 1] \in Int /\ b[n + 1] \in Int /\ c[n + 1] \in Int
      <4>1. n + 1 \in 1 .. Len(a) /\ n + 1 \in 1 .. Len(b) /\ n + 1 \in 1 .. Len(c)
        BY <1>1, <1>2, <1>3, <1>6
      <4> QED BY <4>1
    <3> QED BY <3>1, <3>2
  <2> QED BY <1>2, <1>3, <1>6, <2>1, <2>2 DEF Older
<1> QED BY <1>1, <1>4, <1>5, <1>6

(* A set of naturals with a bound has a greatest element: the finite sets s .. m
   are well-founded by inclusion. *)
LEMMA Greatest ==
  ASSUME NEW m \in Nat, NEW S, S \subseteq 0 .. m, S # {}
  PROVE  \E w \in S : \A s \in S : s <= w
<1> DEFINE T == {s .. m : s \in S}
<1>1. T \subseteq FiniteSubsetsOf(0 .. m)
  <2> SUFFICES ASSUME NEW s \in S PROVE s .. m \in FiniteSubsetsOf(0 .. m)
    OBVIOUS
  <2>1. s .. m \subseteq 0 .. m
    OBVIOUS
  <2>2. IsFiniteSet(0 .. m)
    BY FS_Interval
  <2>3. IsFiniteSet(s .. m)
    BY <2>1, <2>2, FS_Subset
  <2> QED BY <2>1, <2>3 DEF FiniteSubsetsOf
<1>2. T # {}
  OBVIOUS
<1>3. \E x \in T : \A y \in T : ~(<<y, x>> \in StrictSubsetOrdering(0 .. m))
  <2> HIDE DEF T
  <2> QED BY <1>1, <1>2, FS_StrictSubsetOrderingWellFounded, WFMin
<1>4. PICK w \in S : \A s \in S : ~(<<s .. m, w .. m>> \in StrictSubsetOrdering(0 .. m))
  BY <1>3
<1>5. ASSUME NEW s \in S, s > w PROVE FALSE
  <2>1. s \in 0 .. m /\ w \in 0 .. m
    OBVIOUS
  <2>2. s .. m \subseteq w .. m /\ w \in w .. m /\ w \notin s .. m
    BY <1>5, <2>1
  <2>3. s .. m \subseteq 0 .. m /\ w .. m \subseteq 0 .. m
    BY <2>1
  <2>4. <<s .. m, w .. m>> \in StrictSubsetOrdering(0 .. m)
    BY <2>2, <2>3 DEF StrictSubsetOrdering
  <2> QED BY <1>4, <2>4
<1>6. \A s \in S : s <= w
  BY <1>5
<1> QED BY <1>6

(* Of two tuples that differ one is older: the end of their common beginning tells which. *)
LEMMA OlderTotal ==
  ASSUME NEW a \in Seq(Int), NEW b \in Seq(Int)
  PROVE  a = b \/ Older(a, b) \/ Older(b, a)
<1>1. Len(a) \in Nat /\ Len(b) \in Nat
  OBVIOUS
<1> DEFINE S == {n \in 0 .. Len(a) : n <= Len(b) /\ \A i \in 1 .. n : a[i] = b[i]}
<1>2. S \subseteq 0 .. Len(a) /\ 0 \in S
  BY <1>1
<1>3. \E w \in S : \A s \in S : s <= w
  <2> HIDE DEF S
  <2> QED BY <1>1, <1>2, Greatest
<1>4. PICK n \in S : \A s \in S : s <= n
  BY <1>3
<1>5. n \in 0 .. Len(a) /\ n <= Len(b) /\ \A i \in 1 .. n : a[i] = b[i]
  OBVIOUS
<1>6. CASE n = Len(a) /\ n = Len(b)
  BY <1>5, <1>6, SeqEqual
<1>7. CASE n = Len(a) /\ n # Len(b)
  BY <1>1, <1>5, <1>7 DEF Older
<1>8. CASE n # Len(a) /\ n = Len(b)
  <2>1. n \in 0 .. Len(b) /\ n < Len(a) /\ \A i \in 1 .. n : b[i] = a[i]
    BY <1>1, <1>5, <1>8
  <2> QED BY <1>8, <2>1 DEF Older
<1>9. CASE n # Len(a) /\ n # Len(b)
  <2>1. n + 1 \in 1 .. Len(a) /\ n + 1 \in 1 .. Len(b)
    BY <1>1, <1>5, <1>9
  <2>2. a[n + 1] # b[n + 1]
    <3>1. n + 1 \notin S
      <4>1. n \in Nat /\ ~(n + 1 <= n)
        BY <1>5
      <4> QED BY <1>4, <4>1
    <3>2. n + 1 \in 0 .. Len(a) /\ n + 1 <= Len(b)
      BY <1>1, <2>1
    <3>3. ~\A i \in 1 .. n + 1 : a[i] = b[i]
      BY <3>1, <3>2
    <3> QED BY <1>5, <3>3
  <2>3. a[n + 1] < b[n + 1] \/ b[n + 1] < a[n + 1]
    <3>1. a[n + 1] \in Int /\ b[n + 1] \in Int
      BY <2>1
    <3> QED BY <2>2, <3>1
  <2>4. /\ n \in 0 .. Len(a) /\ n < Len(b) /\ n \in 0 .. Len(b) /\ n < Len(a)
        /\ \A i \in 1 .. n : a[i] = b[i] /\ b[i] = a[i]
    BY <1>1, <1>5, <1>9
  <2> QED BY <2>3, <2>4 DEF Older
<1> QED BY <1>6, <1>7, <1>8, <1>9

(***************************************************************************)
(* The versions                                                            *)
(***************************************************************************)

LEMMA NumbersOK ==
  /\ DOMAIN Numbers = {"1.4.2", "v2.0.0", "2.0.0", "2.0", "10.0.0"}
  /\ \A v \in DOMAIN Numbers : Numbers[v] \in Seq(Int)
  /\ Len(Numbers["2.0.0"]) = 3
BY DEF Numbers

LEMMA Parsed ==
  ASSUME NEW v
  PROVE  ParseVersion(v) \in Seq(Int)
BY NumbersOK DEF ParseVersion

(***************************************************************************)
(* Theorems                                                                *)
(***************************************************************************)

(* A device with an older version than one that is offered the update is offered it as
   well, whatever the two report; one with the latest version is not; and of two
   versions that are read as different numbers one is older (check_ota_update). *)
THEOREM UpdatesGoUpwards ==
  ASSUME NEW v, NEW w
  PROVE  /\ UpdateAvailable(w) /\ Older(ParseVersion(v), ParseVersion(w)) => UpdateAvailable(v)
         /\ ParseVersion(v) = ParseVersion(LATEST_FIRMWARE_VERSION) => ~UpdateAvailable(v)
         /\ \/ ParseVersion(v) = ParseVersion(w)
            \/ Older(ParseVersion(v), ParseVersion(w))
            \/ Older(ParseVersion(w), ParseVersion(v))
<1>1. /\ ParseVersion(v) \in Seq(Int) /\ ParseVersion(w) \in Seq(Int)
      /\ ParseVersion(LATEST_FIRMWARE_VERSION) \in Seq(Int)
  BY Parsed
<1> QED BY <1>1, OlderIrreflexive, OlderTransitive, OlderTotal DEF UpdateAvailable

(* As long as the column is that of the newest reading, a device is offered the latest
   firmware if and only if it reports one that precedes it in the order of releases
   (check_ota_update over process_telemetry_async). *)
THEOREM SupersededAreOffered == Spec => []OfferedIffSuperseded
<1>1. ASSUME NEW v \in Semver
      PROVE  UpdateAvailable(v) <=> v \in Superseded
  <2> DEFINE a == ParseVersion(v)
             b == ParseVersion(LATEST_FIRMWARE_VERSION)
  <2>1. /\ a = Numbers[v] /\ a \in Seq(Int) /\ Len(a) = 3
        /\ b = Numbers[LATEST_FIRMWARE_VERSION] /\ b \in Seq(Int) /\ Len(b) = 3
    BY SupersededAssumption, NumbersOK, Parsed DEF ParseVersion, LATEST_FIRMWARE_VERSION
  <2> HIDE DEF a, b
  <2>2. ASSUME Older(a, b) PROVE Precedes(a, b)
    <3>0. PICK n \in 0 .. Len(a) :
            /\ n < Len(b) /\ \A i \in 1 .. n : a[i] = b[i]
            /\ n = Len(a) \/ a[n + 1] < b[n + 1]
      BY <2>2 DEF Older
    <3>1. n \in 0 .. 3 /\ n < 3 /\ (\A i \in 1 .. n : a[i] = b[i]) /\ a[n + 1] < b[n + 1]
      BY <2>1, <3>0
    <3>2. n + 1 \in 1 .. 3 /\ (n + 1) - 1 = n
      BY <3>1
    <3> QED BY <3>1, <3>2 DEF Precedes
  <2>3. ASSUME Precedes(a, b) PROVE Older(a, b)
    <3>1. PICK i \in 1 .. 3 : a[i] < b[i] /\ \A j \in 1 .. (i - 1) : a[j] = b[j]
      BY <2>3 DEF Precedes
    <3>2. i - 1 \in 0 .. 3 /\ i - 1 < 3 /\ (i - 1) + 1 = i
      OBVIOUS
    <3> QED BY <2>1, <3>1, <3>2 DEF Older
  <2> QED BY <2>1, <2>2, <2>3, SupersededAssumption DEF UpdateAvailable, a, b
<1>2. OfferedIffSuperseded
  BY <1>1 DEF OfferedIffSuperseded, Outdated
<1> QED BY <1>2, PTL
============================================================================
