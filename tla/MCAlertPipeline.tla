-------------------------- MODULE MCAlertPipeline --------------------------
(* Symmetry of the instances of AlertPipeline that TLC checks: slots, workers,  *)
(* accounts and versions are interchangeable, readings are ordered.             *)
EXTENDS AlertPipeline, TLC

Symmetry == Permutations(Versions) \cup Permutations(Slots)
              \cup Permutations(Users) \cup Permutations(Workers)
============================================================================
