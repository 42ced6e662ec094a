--------------------------- MODULE PacketManager ---------------------------
(***************************************************************************)
(* src/packets.c and src/packet_manager.c: packets, and the functions that *)
(* take one from the pool, fill it and put it on a connection's out_queue. *)
(*                                                                         *)
(* Only the handling task calls them, and only it uses packets_pool and    *)
(* the out_queues, so a call is a function of those three, the store       *)
(*    [pool, queue, buf, status]                                           *)
(* and not a step of its own.  A call has several results where the code   *)
(* does not determine one, so each operator gives the set of the stores    *)
(* that the call may leave.                                                *)
(***************************************************************************)
EXTENDS Pool

CONSTANTS
    MaxPackets,     \* max_pool_size of packets_pool (MSG_POOL_SIZE)
    QueueSize,      \* capacity of an out_queue (MSG_QUEUE_SIZE)
    WriteOutcomes   \* what write_packet may do with a packet, see WritePacket

(***************************************************************************)
(* PacketType, by what becomes of a packet of the type in process_packet.  *)
(* "silent" stands for the types whose handler sends nothing, "unhandled"  *)
(* for the ones that have no handler: packet_handlers holds NULL, or is    *)
(* read past its end for a -1 that does not fit the enumeration.           *)
(***************************************************************************)
MsgTypes == {"close", "silent", "cmd", "load", "prog", "read", "unhandled"}

\* A raw header that parse_header refuses, and a byte that was never written.
Bad     == "bad"
Unknown == "unknown"

\* What a reply is meant to be, and the type byte the protocol gives it.
ReplyKinds == {"answer", "ack", "error", "memory"}
TypeByte(kind) == IF kind = "answer" THEN "cmd" ELSE kind

(***************************************************************************)
(* A Packet: header.type, the type byte of raw_header, and what its        *)
(* packet_data holds.                                                      *)
(***************************************************************************)
PacketTypeSet == [ type : MsgTypes \cup {Unknown},
                   wire : MsgTypes \cup {Bad, Unknown},
                   body : {Unknown, "request"} \cup ReplyKinds ]

\* mem_Malloc leaves the bytes of a new packet as they were; the pool has
\* no constructor for packets.
Garbage == [type |-> Unknown, wire |-> Unknown, body |-> Unknown]

(***************************************************************************)
(* An entry of an out_queue is the pointer pkt.  want and to are history:  *)
(* the reply the handler meant and the client whose request it answers.    *)
(***************************************************************************)
Entry(pkt, want, to) == [pkt |-> pkt, want |-> want, to |-> to]

(***************************************************************************)
(* parse_header of a raw header whose type byte is w: what header.type may *)
(* be afterwards.  A header that is refused leaves it.                     *)
(***************************************************************************)
ParseHeader(packet, w) ==
    IF w # Bad THEN {w} ELSE IF packet.type = Unknown THEN MsgTypes ELSE {packet.type}

\* update_header: start byte, flags and size are written, the type byte is
\* not.  A header that was bad may therefore be good now.
UpdateHeader(packet) ==
    [packet EXCEPT !.wire = IF packet.wire = Bad THEN Unknown ELSE packet.wire]

\* create_packet: header.type is not written either.  The body is copied
\* unless data is NULL (Unknown).
CreatePacket(packet, body) ==
    [UpdateHeader(packet) EXCEPT !.body = IF body = Unknown THEN packet.body ELSE body]

\* Mutant of WritePacket: a write that the queue took is made once more.
WritePacketAgain(st, entry) ==
    {[st EXCEPT !.queue = IF w = "queued" /\ Len(st.queue) < QueueSize
                          THEN st.queue \o <<entry, entry>> ELSE st.queue,
                !.status = "ok"] : w \in WriteOutcomes}

(***************************************************************************)
(* write_packet, whose result every caller drops.  process_packet is given *)
(* the handle info->out_queue where a pointer to it is declared: whether   *)
(* the write reaches the queue depends on the RTOS's OsiMsgQ_t, so         *)
(* WriteOutcomes names the outcomes of the build: "queued", "lost".  A     *)
(* write to a full queue is lost whatever the build.                       *)
(***************************************************************************)
WritePacket(st, entry) ==
    {[st EXCEPT !.queue = IF w = "queued" /\ Len(st.queue) < QueueSize
                          THEN Append(st.queue, entry) ELSE st.queue,
                !.status = "ok"] : w \in WriteOutcomes}

\* create_send_packet, the body of send_ack, send_error and send_avr_cmd.
CreateSendPacket(st, kind, to) ==
    IF Exhausted(st.pool, MaxPackets)
    THEN {[st EXCEPT !.status = "fail"]}
    ELSE LET p == PoolItem(st.pool)
         IN  WritePacket([st EXCEPT !.pool = PoolGet(st.pool),
                                    !.buf[p] = CreatePacket(st.buf[p], kind)],
                         Entry(p, kind, to))

\* send_packet of packet_manager.c: a packet the caller already holds.
SendPacket(st, p, kind, to) ==
    WritePacket([st EXCEPT !.buf[p] = CreatePacket(st.buf[p], Unknown)],
                Entry(p, kind, to))
=============================================================================
