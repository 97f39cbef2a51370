-------------------------- MODULE MCItemLifecycle --------------------------
(* The ids of rows and of requests are interchangeable.                    *)
EXTENDS ItemLifecycle, TLC

ItemSymmetry ==
  Permutations(Items) \cup Permutations(Links) \cup Permutations(Requests)
============================================================================
