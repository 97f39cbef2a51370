------------------------- MODULE MCVaultMembership -------------------------
(* Finite instances of VaultMembership for TLC.                            *)
EXTENDS VaultMembership, TLC

\* Row ids and request slots are interchangeable, and no property names one.
RowSymmetry ==
  Permutations(Users) \cup Permutations(Vaults) \cup
  Permutations(Invites) \cup Permutations(Requests)
============================================================================
