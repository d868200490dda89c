----------------------- MODULE AlertThresholdsProofs -----------------------
(* Proofs about AlertThresholds, for any thresholds, values, PUTs and checks. *)
EXTENDS AlertThresholds, TLAPS

LEMMA EffectiveType ==
  ASSUME NEW row \in Config \cup {None}
  PROVE  Effective(row) \in Thresholds
BY NoneAssumption DEF Effective, Config, Thresholds

LEMMA DefaultsType == Defaults \in Thresholds /\ Effective(None) = Defaults
BY DEF Defaults, Thresholds, Effective

LEMMA NoPutType == NoPut \in PutRecord /\ NoPut.pc = "idle" /\ NoPut.seen = None
BY DEF NoPut, PutRecord, Config

LEMMA NoCheckType == NoCheck \in CheckRecord /\ NoCheck.pc = "idle" /\ NoCheck.found = Defaults
BY DefaultsType DEF NoCheck, CheckRecord

(***************************************************************************)
(* The inductive invariant                                                 *)
(***************************************************************************)

(* A PUT that has loaded a row works on one that is still there, and a row no
   other PUT has written meanwhile is the one it has loaded. *)
LoadedRow ==
  \A p \in Puts :
    put[p].pc # "idle" /\ put[p].seen # None =>
      config # None /\ (~put[p].raced => config = put[p].seen)

(* Whatever a check may answer has been in force. *)
AnswersFromPast ==
  /\ Defaults \in past
  /\ Effective(config) \in past
  /\ cache # None => cache \in past
  /\ \A c \in Checks : check[c].found \in past

(* Without a race the copy is gone when a PUT commits, and a check fills it with
   what the row holds. *)
CopyFollowsRow ==
  /\ \A p \in Puts : put[p].pc = "commit" /\ ~put[p].refilled => cache = None
  /\ \A c \in Checks : check[c].pc = "fill" /\ ~check[c].late =>
                         check[c].found = Effective(config)

Inv == TypeOK /\ LoadedRow /\ AnswersFromPast /\ CopyFollowsRow

LEMMA InvInit == Init => Inv
<1> SUFFICES ASSUME Init PROVE Inv
    OBVIOUS
<1> USE DEF Init
<1>1. TypeOK
  BY DefaultsType, NoPutType, NoCheckType DEF TypeOK
<1>2. LoadedRow
  BY NoPutType DEF LoadedRow
<1>3. AnswersFromPast
  BY DefaultsType, NoCheckType DEF AnswersFromPast
<1>4. CopyFollowsRow
  BY NoPutType, NoCheckType DEF CopyFollowsRow
<1> QED BY <1>1, <1>2, <1>3, <1>4 DEF Inv

(* The row a COMMIT leaves *)
LEMMA WrittenType ==
  ASSUME Inv, NEW p \in Puts, Commit(p)
  PROVE  /\ config' \in Config
         /\ ~put[p].raced => config' = put[p].body
<1>1. put[p].body \in Config
  BY DEF Inv, TypeOK, PutRecord
<1>2. CASE put[p].seen = None
  BY <1>1, <1>2 DEF Commit, Written
<1>3. CASE put[p].seen # None
  <2>1. config \in Config /\ (~put[p].raced => config = put[p].seen)
    BY <1>3 DEF Inv, TypeOK, LoadedRow, Commit
  <2>2. config' = [f \in Fields |-> IF f \in Dirty(p) THEN put[p].body[f] ELSE config[f]]
    BY <1>3 DEF Commit, Written
  <2>3. config' \in Config
    BY <1>1, <2>1, <2>2 DEF Config
  <2>4. ASSUME ~put[p].raced PROVE config' = put[p].body
    <3>1. \A f \in Fields : config'[f] = put[p].body[f]
      BY <2>1, <2>2, <2>4 DEF Dirty
    <3> QED BY <1>1, <2>3, <3>1 DEF Config
  <2> QED BY <2>3, <2>4
<1> QED BY <1>2, <1>3

LEMMA InvNext == Inv /\ [Next]_vars => Inv'
<1> SUFFICES ASSUME Inv, [Next]_vars PROVE Inv'
    OBVIOUS
<1> USE DEF Inv
<1>1. CASE UNCHANGED vars
  BY <1>1 DEF vars, TypeOK, LoadedRow, AnswersFromPast, CopyFollowsRow
<1>2. CASE Expire
  BY <1>2 DEF Expire, TypeOK, LoadedRow, AnswersFromPast, CopyFollowsRow
<1>3. ASSUME NEW p \in Puts, LoadConfig(p) PROVE Inv'
  <2>1. PICK body \in Config :
          put' = [put EXCEPT ![p] = [NoPut EXCEPT !.pc = "flush", !.body = body,
                                                  !.seen = config]]
    BY <1>3 DEF LoadConfig
  <2> DEFINE x == [NoPut EXCEPT !.pc = "flush", !.body = body, !.seen = config]
  <2>2. x \in PutRecord /\ x.pc = "flush" /\ x.seen = config
    BY NoPutType DEF PutRecord, TypeOK
  <2>3. UNCHANGED <<config, cache, check, past, answer>>
    BY <1>3 DEF LoadConfig
  <2>4. put' = [put EXCEPT ![p] = x]
    BY <2>1
  <2> HIDE DEF x
  <2>5. TypeOK'
    BY <2>2, <2>3, <2>4 DEF TypeOK
  <2>6. LoadedRow' /\ AnswersFromPast' /\ CopyFollowsRow'
    BY <2>2, <2>3, <2>4 DEF TypeOK, LoadedRow, AnswersFromPast, CopyFollowsRow
  <2> QED BY <2>5, <2>6
<1>4. ASSUME NEW p \in Puts, Flush(p) PROVE Inv'
  <2>1. UNCHANGED <<config, cache, check, past, answer>>
    BY <1>4 DEF Flush
  <2>2. \/ put' = [put EXCEPT ![p] = NoPut]
        \/ put' = [put EXCEPT ![p].pc = "invalidate"]
    BY <1>4 DEF Flush
  <2>3. TypeOK'
    BY <2>1, <2>2, NoPutType DEF TypeOK, PutRecord
  <2>4. LoadedRow' /\ AnswersFromPast' /\ CopyFollowsRow'
    BY <1>4, <2>1, <2>2, NoPutType
    DEF Flush, TypeOK, PutRecord, LoadedRow, AnswersFromPast, CopyFollowsRow
  <2> QED BY <2>3, <2>4
<1>5. ASSUME NEW p \in Puts, Invalidate(p) PROVE Inv'
  BY <1>5 DEF Invalidate, TypeOK, PutRecord, LoadedRow, AnswersFromPast, CopyFollowsRow
<1>6. ASSUME NEW p \in Puts, Commit(p) PROVE Inv'
  <2>1. config' \in Config /\ Effective(config') \in Thresholds
    BY <1>6, WrittenType, EffectiveType
  <2>2. TypeOK'
    <3>1. config' \in Config \cup {None} /\ past' \in SUBSET Thresholds
      BY <1>6, <2>1 DEF Commit, TypeOK
    <3>2. put' \in [Puts -> PutRecord]
      <4>1. \A q \in Puts : put[q] \in PutRecord /\ [put[q] EXCEPT !.raced = TRUE] \in PutRecord
        BY DEF TypeOK, PutRecord
      <4> QED BY <1>6, <4>1, NoPutType DEF Commit
    <3>3. check' \in [Checks -> CheckRecord]
      <4>1. \A c \in Checks : /\ check[c] \in CheckRecord
                             /\ [check[c] EXCEPT !.late = TRUE] \in CheckRecord
        BY DEF TypeOK, CheckRecord
      <4> QED BY <1>6, <4>1 DEF Commit
    <3> QED BY <1>6, <3>1, <3>2, <3>3 DEF Commit, TypeOK
  <2>3. LoadedRow'
    BY <1>6, <2>1, NoPutType, NoneAssumption DEF Commit, LoadedRow, TypeOK, PutRecord
  <2>4. AnswersFromPast'
    BY <1>6 DEF Commit, AnswersFromPast, TypeOK, CheckRecord
  <2>5. CopyFollowsRow'
    BY <1>6, NoPutType DEF Commit, CopyFollowsRow, TypeOK, PutRecord, CheckRecord
  <2> QED BY <2>2, <2>3, <2>4, <2>5
<1>7. ASSUME NEW p \in Puts, AbortPut(p) PROVE Inv'
  BY <1>7, NoPutType DEF AbortPut, TypeOK, LoadedRow, AnswersFromPast, CopyFollowsRow
<1>8. ASSUME NEW c \in Checks, Hit(c) PROVE Inv'
  BY <1>8 DEF Hit, TypeOK, LoadedRow, AnswersFromPast, CopyFollowsRow
<1>9. ASSUME NEW c \in Checks, Miss(c) PROVE Inv'
  BY <1>9 DEF Miss, TypeOK, CheckRecord, LoadedRow, AnswersFromPast, CopyFollowsRow
<1>10. ASSUME NEW c \in Checks, Query(c) PROVE Inv'
  <2>1. Effective(config) \in Thresholds
    BY EffectiveType DEF TypeOK
  <2> QED BY <1>10, <2>1 DEF Query, Found, TypeOK, CheckRecord, LoadedRow, AnswersFromPast,
             CopyFollowsRow
<1>11. ASSUME NEW c \in Checks, QueryFails(c) PROVE Inv'
  BY <1>11, DefaultsType DEF QueryFails, Found, TypeOK, CheckRecord, LoadedRow,
     AnswersFromPast, CopyFollowsRow
<1>12. ASSUME NEW c \in Checks, Fill(c) PROVE Inv'
  BY <1>12, NoCheckType DEF Fill, Finish, TypeOK, CheckRecord, PutRecord, LoadedRow,
     AnswersFromPast, CopyFollowsRow
<1>13. ASSUME NEW c \in Checks, FillFails(c) PROVE Inv'
  BY <1>13, NoCheckType DEF FillFails, Finish, TypeOK, CheckRecord, LoadedRow,
     AnswersFromPast, CopyFollowsRow
<1>14. ASSUME NEW c \in Checks, AbortCheck(c) PROVE Inv'
  BY <1>14, NoCheckType DEF AbortCheck, TypeOK, LoadedRow, AnswersFromPast, CopyFollowsRow
<1> QED BY <1>1, <1>2, <1>3, <1>4, <1>5, <1>6, <1>7, <1>8, <1>9, <1>10, <1>11, <1>12,
           <1>13, <1>14 DEF Next, ContinuePut, ContinueCheck

LEMMA Invariance == Spec => []Inv
<1>1. Inv /\ [Next]_vars => Inv'
  BY InvNext
<1> QED BY InvInit, <1>1, PTL DEF Spec

(* The row, the copy and every request and check in flight keep their types. *)
THEOREM TypeCorrect == Spec => []TypeOK
<1>1. Inv => TypeOK
  BY DEF Inv
<1> QED BY <1>1, Invariance, PTL

(* The checks use thresholds that are or were in force: neither what a failed
   PUT has flushed nor what nobody has configured. *)
THEOREM ImplementsRegister == Spec => RegisterSpec
<1>1. Init => Register!Init
  BY DefaultsType DEF Init, Register!Init
<1>2. Inv /\ [Next]_vars => [Register!Next]_(Register!vars)
  <2> SUFFICES ASSUME Inv, [Next]_vars PROVE [Register!Next]_(Register!vars)
      OBVIOUS
  <2>1. ASSUME NEW p \in Puts, Commit(p) PROVE Register!Write
    <3>1. Effective(config') \in Thresholds
      BY <2>1, WrittenType, EffectiveType
    <3> QED BY <2>1, <3>1 DEF Commit, Register!Write
  <2>2. ASSUME NEW c \in Checks, Hit(c) \/ Fill(c) \/ FillFails(c) PROVE Register!Read
    BY <2>2 DEF Hit, Fill, FillFails, Finish, Inv, AnswersFromPast, Register!Read
  <2>3. ASSUME NEW p \in Puts, LoadConfig(p) \/ Flush(p) \/ Invalidate(p) \/ AbortPut(p)
        PROVE UNCHANGED <<config, past, answer>>
    BY <2>3 DEF LoadConfig, Flush, Invalidate, AbortPut
  <2>4. ASSUME NEW c \in Checks, Miss(c) \/ Query(c) \/ QueryFails(c) \/ AbortCheck(c)
        PROVE UNCHANGED <<config, past, answer>>
    BY <2>4 DEF Miss, Query, QueryFails, Found, AbortCheck
  <2>5. Expire \/ UNCHANGED vars => UNCHANGED <<config, past, answer>>
    BY DEF Expire, vars
  <2>6. UNCHANGED <<config, past, answer>> => UNCHANGED Register!vars
    BY DEF Register!vars
  <2> QED BY <2>1, <2>2, <2>3, <2>4, <2>5, <2>6
          DEF Next, ContinuePut, ContinueCheck, Register!Next
<1> QED BY <1>1, <1>2, Invariance, PTL DEF Spec, RegisterSpec, Register!Spec

----------------------------------------------------------------------------

(* The steps that may make the copy stale *)
LEMMA StaleSteps ==
  ASSUME Inv, [Next]_vars, ~Stale, Stale'
  PROVE  \/ \E p \in Puts : Commit(p)
         \/ \E c \in Checks : Fill(c)
BY DEF Stale, Next, vars, Expire, ContinuePut, ContinueCheck, LoadConfig, Flush, Invalidate,
       AbortPut, Hit, Miss, Query, QueryFails, Found, FillFails, Finish, AbortCheck

(* The copy becomes stale only by a race of a PUT and a check, or by a check
   that could not read the row. *)
THEOREM CopyIsStaleOnlyByRace == Spec => StaleOnlyByRace
<1> DEFINE Race == \/ \E p \in Puts : Commit(p) /\ put[p].refilled
                   \/ \E c \in Checks : Fill(c) /\ check[c].late
<1>1. ASSUME Inv, [Next]_vars, ~Stale, Stale'
      PROVE  Race
  <2>1. ASSUME NEW p \in Puts, Commit(p) PROVE Race
    <3>1. cache' # None /\ cache' = cache
      BY <1>1, <2>1 DEF Commit, Stale
    <3>2. put[p].refilled
      BY <2>1, <3>1, <1>1 DEF Commit, Inv, CopyFollowsRow
    <3> QED BY <2>1, <3>2
  <2>2. ASSUME NEW c \in Checks, Fill(c) PROVE Race
    <3>1. check[c].found # Effective(config)
      BY <1>1, <2>2 DEF Fill, Stale
    <3>2. check[c].late
      BY <1>1, <2>2, <3>1 DEF Fill, Finish, Inv, CopyFollowsRow
    <3> QED BY <2>2, <3>2
  <2> QED BY <1>1, <2>1, <2>2, StaleSteps
<1>2. Inv /\ [Next]_vars => [ ~Stale /\ Stale' => Race ]_vars
  BY <1>1
<1> QED BY <1>2, Invariance, PTL DEF Spec, StaleOnlyByRace

(* Without another COMMIT in between, the row is what the PUT's body says. *)
THEOREM RowIsMixedOnlyByRace == Spec => MixedOnlyByRace
<1>1. Inv /\ [Next]_vars =>
        [ \A p \in Puts : Commit(p) /\ config' # put[p].body => put[p].raced ]_vars
  BY WrittenType
<1> QED BY <1>1, Invariance, PTL DEF Spec, MixedOnlyByRace
============================================================================
