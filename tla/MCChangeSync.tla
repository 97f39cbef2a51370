---------------------------- MODULE MCChangeSync ----------------------------
(* Finite instances of ChangeSync for TLC.                                 *)
EXTENDS ChangeSync, TLC
============================================================================
