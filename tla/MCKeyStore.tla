----------------------------- MODULE MCKeyStore -----------------------------
(* Finite instances of KeyStore for TLC.                                   *)
EXTENDS KeyStore, TLC
============================================================================
