----------------------------- MODULE MCDevices -----------------------------
(* Symmetries of the instances of Devices that TLC checks.  No property of    *)
(* theirs tells two accounts, request slots, nonces or secrets apart.         *)
EXTENDS Devices, TLC

Symmetry ==
  Permutations(Users) \cup Permutations(Requests)
    \cup Permutations(Nonces) \cup Permutations(Secrets) \cup Permutations(Names)
=============================================================================
