------------------------------ MODULE MCLogging ------------------------------
(* Two updater tasks, which share one handle, and one of any other kind. *)
EXTENDS Logging, TLC

CONSTANTS u1, u2, other

MCTasks == {u1, u2, other}
MCVictims == u1 :> {u1, u2} @@ u2 :> {u1, u2} @@ other :> {other}
=============================================================================
