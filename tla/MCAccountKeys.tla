--------------------------- MODULE MCAccountKeys ---------------------------
(* Finite instances of AccountKeys for TLC.                                *)
EXTENDS AccountKeys, TLC

\* Browsers, vaults, sessions and request slots are interchangeable.
KeySymmetry ==
  Permutations(Browsers) \cup Permutations(Vaults) \cup
  Permutations(Sessions) \cup Permutations(Requests)
============================================================================
