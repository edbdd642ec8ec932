-------------------------- MODULE MCPacketListener --------------------------
(* PacketListener for TLC. *)
EXTENDS PacketListener

=============================================================================
