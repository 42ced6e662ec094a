----------------------------- MODULE Controller -----------------------------
(***************************************************************************)
(* The packet handlers of src/controller.c.  Each operator gives the set   *)
(* of the stores (see PacketManager) its handler may leave when it is      *)
(* given packet p on behalf of client c.  The status of such a store is    *)
(* "restart" when the handler ran into SYS_ASSERT_CRITICAL, which does not *)
(* return; process_packet's caller ignores any other status.               *)
(*                                                                         *)
(* The answers of the AVR microcontroller, and the sizes and the bodies of *)
(* the requests, are not modelled: a handler may take every path they can  *)
(* lead to.                                                                *)
(***************************************************************************)
EXTENDS PacketManager

\* SYS_ASSERT_CRITICAL(status): restart the device on a failure.
Critical(stores) ==
    {IF st.status = "fail" THEN [st EXCEPT !.status = "restart"] ELSE st : st \in stores}

\* Mutant of ProcessSilent: the handler releases the packet itself.
ProcessSilentReleasing(st, p, c) == {[st EXCEPT !.pool = PoolRelease(st.pool, p)]}

\* The handlers that send nothing, whatever they do to the AVR's reset line.
ProcessSilent(st, p, c) == {st}

\* A command of the wrong size has no reply.  A command the AVR did not
\* echo has two: the error, whose own failure is ignored, and the answer.
ProcessCmd(st, p, c) ==
    {st} \cup CreateSendPacket(st, "answer", c)
         \cup UNION {CreateSendPacket(s, "answer", c) : s \in CreateSendPacket(st, "error", c)}

\* programmer_enable_pgm_mode returns 0 or 1, so its failure is never seen
\* and the error branch of process_load_mcu_info_packet is not reached.
ProcessLoad(st, p, c) == Critical(CreateSendPacket(st, "ack", c))

\* A failure to program is reported and then restarts the device: status
\* still holds the failure of programmer_program_memory.
ProcessProg(st, p, c) ==
    Critical(CreateSendPacket(st, "ack", c))
        \cup {[s EXCEPT !.status = "restart"] : s \in CreateSendPacket(st, "error", c)}

(***************************************************************************)
(* process_read_memory_packet takes a second packet for the bytes it       *)
(* reads, and then sends the request's packet.  The paths: a request of    *)
(* the wrong size or an empty pool; more bytes than a packet may have; the *)
(* memory read; an error, after which the packet is sent all the same if   *)
(* the error could be sent and the size is one create_packet accepts.      *)
(***************************************************************************)
ProcessRead(st, p, c) ==
    IF Exhausted(st.pool, MaxPackets)
    THEN {[st EXCEPT !.status = "fail"]}
    ELSE LET got    == [st EXCEPT !.pool = PoolGet(st.pool),
                                  !.buf[PoolItem(st.pool)].body = "memory"]
             failed == CreateSendPacket(got, "error", c)
         IN  {st, got} \cup SendPacket(got, p, "memory", c)
                       \cup failed
                       \cup UNION {SendPacket(s, p, "memory", c) :
                                      s \in {r \in failed : r.status = "ok"}}

\* The types that packet_handlers has a handler for.
Handled == {"silent", "cmd", "load", "prog", "read"}

\* process_packet, for a packet of such a type.
ProcessPacket(type, st, p, c) ==
    CASE type = "silent" -> ProcessSilent(st, p, c)
      [] type = "cmd"    -> ProcessCmd(st, p, c)
      [] type = "load"   -> ProcessLoad(st, p, c)
      [] type = "prog"   -> ProcessProg(st, p, c)
      [] type = "read"   -> ProcessRead(st, p, c)
=============================================================================
