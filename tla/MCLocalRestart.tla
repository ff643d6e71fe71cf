--------------------------- MODULE MCLocalRestart ---------------------------
(* LocalRestart for TLC: its constants are numbers the configurations give. *)
EXTENDS LocalRestart
=============================================================================
