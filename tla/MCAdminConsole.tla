--------------------------- MODULE MCAdminConsole ---------------------------
(* Finite instances of AdminConsole for TLC.                               *)
EXTENDS AdminConsole
==============================================================================
