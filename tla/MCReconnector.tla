--------------------------- MODULE MCReconnector ----------------------------
(* Reconnector for TLC. *)
EXTENDS Reconnector

=============================================================================
