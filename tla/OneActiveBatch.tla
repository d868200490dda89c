--------------------------- MODULE OneActiveBatch ---------------------------
(***************************************************************************)
(* What cycles.py promises of one device: "At most one 'active' cycle per  *)
(* device".  A batch becomes active while no other is, and stops.          *)
(***************************************************************************)
CONSTANT Cycles

VARIABLE active     \* the active batches

Init == active = {} \/ \E c \in Cycles : active = {c}

Start == /\ active = {}
         /\ \E c \in Cycles : active' = {c}

Stop == /\ active # {}
        /\ active' = {}

Next == Start \/ Stop

Spec == Init /\ [][Next]_active
=============================================================================
