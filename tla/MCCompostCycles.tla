-------------------------- MODULE MCCompostCycles --------------------------
(* Symmetries of the instance of CompostCycles that TLC checks.  No property *)
(* tells two cycles, logs or request slots apart.                            *)
EXTENDS CompostCycles, TLC

Symmetry == Permutations(Cycles) \cup Permutations(Logs) \cup Permutations(Requests)
============================================================================
