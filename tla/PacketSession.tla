---------------------------- MODULE PacketSession ----------------------------
(***************************************************************************)
(* PacketHandler implements Session.  A request is served from the moment  *)
(* it has been received; its replies are the entries of the out_queue of   *)
(* the connection the handling task works for.                             *)
(***************************************************************************)
EXTENDS PacketHandler

Replying == hpc \in {"release", "drain"} /\ out_queue[info] # <<>>

phase == IF ~Up THEN "down" ELSE
         CASE hpc = "dispatch" -> "serving"
           [] Replying         -> "replying"
           [] OTHER            -> "waiting"

asker   == IF phase \in {"serving", "replying"} THEN sock[hndl] ELSE None
kind    == IF phase = "serving" THEN buf[packet].type ELSE "none"
pending == IF phase = "replying"
           THEN [n \in DOMAIN out_queue[info] |-> out_queue[info][n].want] ELSE <<>>

Abstract == INSTANCE Session WITH Kinds <- MsgTypes

\* Whatever clients do, of the requests that reach the controller each is
\* replied to with what its kind allows, all of it to its client, before the
\* next one is taken (packet_handler.c:204-249).
SessionSpec == Abstract!Spec
=============================================================================
