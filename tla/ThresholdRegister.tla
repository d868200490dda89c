-------------------------- MODULE ThresholdRegister --------------------------
(***************************************************************************)
(* What the alert checks are promised about a device's thresholds: every   *)
(* check uses thresholds that were in force at some time, not necessarily  *)
(* the ones in force now, and never a set nobody has configured.           *)
(***************************************************************************)
CONSTANTS Thresholds,  \* the complete sets of thresholds
          Defaults     \* ALERT_THRESHOLDS

VARIABLES current,  \* the thresholds in force
          past,     \* those that are or were
          answer    \* those the last check has used

vars == <<current, past, answer>>

Init ==
  /\ current = Defaults
  /\ past = {Defaults}
  /\ answer = Defaults

(* A member configures the device. *)
Write ==
  /\ current' \in Thresholds
  /\ past' = past \cup {current'}
  /\ UNCHANGED answer

(* An alert check loads the thresholds it evaluates a reading with. *)
Read ==
  /\ answer' \in past
  /\ UNCHANGED <<current, past>>

Next == Write \/ Read

Spec == Init /\ [][Next]_vars
==============================================================================
