-------------------------- MODULE MCPacketHandler --------------------------
(***************************************************************************)
(* PacketHandler for TLC.  Clients and sockets are interchangeable, so the *)
(* runs that check no liveness use their permutations as symmetries.       *)
(***************************************************************************)
EXTENDS PacketSession, TLC

Symmetry == Permutations(Clients) \cup Permutations(Handles)
=============================================================================
