---------------------------- MODULE MCIngestion ----------------------------
(* Symmetry of the instances of Ota that TLC checks. *)
EXTENDS Ota, TLC

Symmetry == Permutations(Slots)
============================================================================
