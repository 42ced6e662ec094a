------------------------------ MODULE Serving ------------------------------
(***************************************************************************)
(* What the controller promises a client: a request is taken, is answered  *)
(* with one of the sequences of replies its kind allows, or the device     *)
(* goes down and comes back without the request.                           *)
(***************************************************************************)
CONSTANT Kinds
VARIABLES
    state,      \* "idle", "busy" with a request, or "down"
    kind,       \* the kind of the last request, "none" after a restart
    replies     \* the replies to it

vars == <<state, kind, replies>>

\* The error about memory that could not be read is followed by a packet unless
\* its size is refused, and so is the one about a command the AVR did not echo.
Outcomes(k) ==
    CASE k = "reset" -> {<<>>}
      [] k = "load"  -> {<<"ack">>}
      [] k = "prog"  -> {<<"ack">>}
      [] k = "cmd"   -> {<<>>, <<"answer">>, <<"error", "answer">>}
      [] k = "read"  -> {<<>>, <<"memory">>, <<"error">>, <<"error", "memory">>}

Init == state = "idle" /\ kind = "none" /\ replies = <<>>

Take(k) ==
    /\ state = "idle"
    /\ state' = "busy" /\ kind' = k /\ replies' = <<>>

Answer ==
    /\ state = "busy"
    /\ state' = "idle" /\ replies' \in Outcomes(kind) /\ UNCHANGED kind

\* Only a request to program memory is given up with an error; programming
\* and reading may run into mcu_info before it is set.
Fail ==
    /\ state = "busy"
    /\ \/ kind = "prog" /\ replies' = <<"error">>
       \/ kind \in {"prog", "read"} /\ UNCHANGED replies
    /\ state' = "down" /\ UNCHANGED kind

Restart == state' = "idle" /\ kind' = "none" /\ replies' = <<>>

Next == Answer \/ Fail \/ Restart \/ \E k \in Kinds : Take(k)

Spec == Init /\ [][Next]_vars
=============================================================================
