------------------------------- MODULE Session -------------------------------
(***************************************************************************)
(* What the device promises the clients that are connected to it: it takes *)
(* one request at a time, and sends all the replies to it, in their order  *)
(* and to the client that asked, before it takes the next; or it goes      *)
(* down and comes back without them.                                       *)
(***************************************************************************)
EXTENDS Sequences

CONSTANTS Clients, Kinds, None

VARIABLES
    phase,      \* "waiting", "serving", "replying" or "down"
    asker,      \* the client that is served, or replied to
    kind,       \* the kind of the request that is served
    pending     \* the replies that are still to be sent

vars == <<phase, asker, kind, pending>>

(***************************************************************************)
(* The replies to a request.  There may be none to a request that has the  *)
(* wrong size, or for which there is no packet; a command or a read that   *)
(* failed has an error before its answer, and either may be lost.          *)
(***************************************************************************)
Outcomes(k) ==
    CASE k = "cmd"  -> {<<>>, <<"answer">>, <<"error">>, <<"error", "answer">>}
      [] k = "read" -> {<<>>, <<"memory">>, <<"error">>, <<"error", "memory">>}
      [] k \in {"load", "prog"} -> {<<>>, <<"ack">>}
      [] OTHER -> {<<>>}

Init == phase = "waiting" /\ asker = None /\ kind = "none" /\ pending = <<>>

\* A request of a client is taken.
Take(c, k) ==
    /\ phase = "waiting" /\ phase' = "serving"
    /\ asker' = c /\ kind' = k
    /\ UNCHANGED pending

\* There is nothing left to be sent of what is pending now.
Done(replies) ==
    IF replies = <<>> THEN phase' = "waiting" /\ asker' = None
                      ELSE phase' = "replying" /\ UNCHANGED asker

Serve ==
    /\ phase = "serving"
    /\ pending' \in Outcomes(kind) /\ kind' = "none"
    /\ Done(pending')

Reply ==
    /\ phase = "replying"
    /\ pending' = Tail(pending)
    /\ Done(pending')
    /\ UNCHANGED kind

GoDown ==
    /\ phase' = "down"
    /\ asker' = None /\ kind' = "none" /\ pending' = <<>>

Restart == phase = "down" /\ phase' = "waiting" /\ UNCHANGED <<asker, kind, pending>>

Next ==
    \/ \E c \in Clients, k \in Kinds : Take(c, k)
    \/ Serve \/ Reply \/ GoDown \/ Restart

Spec == Init /\ [][Next]_vars
=============================================================================
