-------------------------------- MODULE Codec --------------------------------
(***************************************************************************)
(* A packet of src/packets.c and src/protocol.h from its bytes to its      *)
(* reply: recv_packet (src/packet_handler.c) reads it from a socket that   *)
(* gives bytes as they come, parse_header reads its header, update_header  *)
(* makes that of the reply as create_packet is called, and parse_header    *)
(* reads it again at whoever receives that.  Of a header every byte is     *)
(* modelled, of a body only their number.                                  *)
(***************************************************************************)
EXTENDS Integers, FiniteSetsExt

CONSTANTS
    Requests,           \* the headers that clients send, each before a body of
                        \* the size it names
    Previous,           \* what a packet from the pool may hold
    ReplySizes          \* the sizes that are replied

Byte == 0 .. 255
Word == 0 .. 2 ^ 16 - 1     \* _u16

ASSUME RequestAssumption == Requests \subseteq [0 .. 4 -> Byte]
ASSUME ReplyAssumption == ReplySizes \subseteq Word

VARIABLES
    request,    \* the header that the client has sent
    arrived,    \* how many bytes of header and body have come, ...
    taken,      \* ... and how many recv has given
    closed,     \* the client has closed the connection
    left,       \* remaining_bytes in recv_nbytes
    reach,      \* the most bytes that have been written to packet_data
    raw,        \* raw_header
    header,     \* PacketHeader
    result,     \* what the last call returned
    stage,      \* "header" and "body", which recv_nbytes reads; "received",
                \* "parsed" (what recv_packet leaves), "created" or "checked"
    NoType      \* what the -1 for an unknown type is as an _i16, by the build

socket == <<request, arrived, taken, closed>>
vars == <<socket, left, reach, raw, header, result, stage, NoType>>

PL_START_FRAME_BYTE == 27
PL_FLAGS_FIELD_OFFSET == 1
PL_TYPE_FIELD_OFFSET == 2
PL_SIZE_FIELD_OFFSET == 3
PL_MAX_DATA_LENGTH == 1029
Compression == 0    \* PL_FLAG_COMPRESSION_BIT
Encryption == 1
Sign == 2

\* PacketHeader.  The group may be what an unknown type byte was taken for.
Flags   == [{Compression, Encryption, Sign} -> {0, 1}]
Headers == [type : Int, group : {"ControlGroup", "ProgrammerGroup"},
            size : Word, flags : Flags]

ASSUME PreviousAssumption == Previous \subseteq [raw : [0 .. 4 -> Byte], header : Headers]

Bit(byte, n) == (byte \div 2 ^ n) % 2

\* get_size_from_header: the high byte first.
SizeOf(bytes) ==
    bytes[PL_SIZE_FIELD_OFFSET] * 256 + bytes[PL_SIZE_FIELD_OFFSET + 1]

FlagsOf(bytes) ==
    [flag \in {Compression, Encryption, Sign} |-> Bit(bytes[PL_FLAGS_FIELD_OFFSET], flag)]

\* The types are numbered as in PacketType.
ControlTypes ==
    [b \in {16, 17, 18, 19, 20, 21, 22, 23, 27, 28, 25, 26, 24, 29} |->
        CASE b <= 23 -> b - 16
          [] b = 27 -> 8 [] b = 28 -> 9 [] b = 25 -> 10 [] b = 26 -> 11
          [] b = 24 -> 12 [] b = 29 -> 13]

ProgrammerTypes ==
    [b \in {32, 33, 34, 35, 36, 29} |-> IF b = 29 THEN 13 ELSE b - 18]

UartTypes == [b \in {48, 49} |-> b - 29]

\* -1 in a PacketType, which is unsigned, is -1 again as an _i16 if the build
\* gives an enumeration four bytes, and 255 if it gives it one.
NoTypes == {-1, 255}

Lookup(types, b) == IF b \in DOMAIN types THEN types[b] ELSE NoType

\* The masks in the order in which they are tested: a byte with the bits of
\* PL_UART_PACKETS_MSK has that of PL_CONTROL_PACKETS_MSK.
GroupOf(b) ==
    CASE Bit(b, 4) = 1 -> "ControlGroup"
      [] Bit(b, 4) = 0 /\ Bit(b, 5) = 1 -> "ProgrammerGroup"
      [] OTHER -> "none"

TypeOf(b) ==
    CASE GroupOf(b) = "ControlGroup" -> Lookup(ControlTypes, b)
      [] GroupOf(b) = "ProgrammerGroup" -> Lookup(ProgrammerTypes, b)
      [] OTHER -> Lookup(UartTypes, b)

PL_PACKET_HEADER_SIZE == 5
Total == PL_PACKET_HEADER_SIZE + SizeOf(request)

\* select has told that there is something to read on the socket.
Init ==
    /\ request \in Requests
    /\ arrived = 0 /\ taken = 0 /\ closed = FALSE
    /\ left = PL_PACKET_HEADER_SIZE /\ reach = 0
    /\ \E p \in Previous : raw = p.raw /\ header = p.header
    /\ result = "none" /\ stage = "header" /\ NoType \in NoTypes

-----------------------------------------------------------------------------
(* The client *)

\* Bound: how many more bytes come at once; a body comes whole or in halves.
Pieces ==
    LET n == Total - arrived
    IN  (IF arrived < PL_PACKET_HEADER_SIZE THEN {2, 5, n} ELSE {n \div 2, n})
            \cap 1 .. n

\* Nothing comes while there is something to be read: recv would give it with
\* what is there, as in a larger piece.
Arrive ==
    /\ stage \in {"header", "body"} /\ arrived = taken /\ ~closed
    /\ \E n \in Pieces : arrived' = arrived + n
    /\ UNCHANGED <<request, taken, closed, left, reach, raw, header, result, stage, NoType>>

Close ==
    /\ stage \in {"header", "body"} /\ ~closed
    /\ closed' = TRUE
    /\ UNCHANGED <<request, arrived, taken, left, reach, raw, header, result, stage, NoType>>

-----------------------------------------------------------------------------
(* recv_nbytes *)

\* recv gives what has come, up to remaining_bytes.
Recv(n) ==
    /\ n = Min({left, arrived - taken}) /\ n > 0
    /\ taken' = taken + n /\ left' = left - n
    /\ UNCHANGED <<request, arrived, closed>>

\* Each piece is written to the start of the header: buf is not advanced.
RecvHeader ==
    /\ stage = "header"
    /\ \E n \in 1 .. PL_PACKET_HEADER_SIZE :
          /\ Recv(n)
          /\ raw' = [k \in 0 .. 4 |-> IF k < n THEN request[taken + k] ELSE raw[k]]
    /\ stage' = IF left' = 0 THEN "received" ELSE "header"
    /\ UNCHANGED <<reach, header, result, NoType>>

\* Mutant of RecvBody: a piece is taken for all of it.
RecvBodyOnce ==
    /\ stage = "body"
    /\ \E n \in {Min({left, arrived - taken})} : Recv(n) /\ reach' = Max({reach, n})
    /\ stage' = "parsed"
    /\ UNCHANGED <<raw, header, result, NoType>>

RecvBody ==
    /\ stage = "body"
    /\ \E n \in {Min({left, arrived - taken})} : Recv(n) /\ reach' = Max({reach, n})
    /\ stage' = IF left' = 0 THEN "parsed" ELSE "body"
    /\ UNCHANGED <<raw, header, result, NoType>>

\* Mutant of RecvClosed: 0 is waited over, as EAGAIN is.
RecvClosedWaits ==
    /\ stage \in {"header", "body"} /\ closed /\ arrived = taken
    /\ UNCHANGED vars

\* Nothing is left of a connection that was closed: recv returns 0, and so
\* does recv_nbytes, which is SUCCESS.
RecvClosed ==
    /\ stage \in {"header", "body"} /\ closed /\ arrived = taken
    /\ stage' = IF stage = "header" THEN "received" ELSE "parsed"
    /\ UNCHANGED <<socket, left, reach, raw, header, result, NoType>>

\* recv fails in another way: recv_packet returns the error.
RecvFails ==
    /\ stage \in {"header", "body"}
    /\ result' = "error" /\ stage' = "parsed"
    /\ UNCHANGED <<socket, left, reach, raw, header, NoType>>

-----------------------------------------------------------------------------

\* Mutant of Parse: the fields are written before the type is looked at.
ParseEagerly(bytes) ==
    LET b == bytes[PL_TYPE_FIELD_OFFSET]
    IN  IF bytes[0] # PL_START_FRAME_BYTE
        THEN result' = "PACKET_WRONG_START_BYTE" /\ UNCHANGED header
        ELSE IF SizeOf(bytes) > PL_MAX_DATA_LENGTH
        THEN result' = "PACKET_WRONG_SIZE" /\ UNCHANGED header
        ELSE /\ header' = [type |-> TypeOf(b), group |-> GroupOf(b),
                           size |-> SizeOf(bytes), flags |-> FlagsOf(bytes)]
             /\ result' = IF GroupOf(b) = "none" \/ TypeOf(b) < 0
                          THEN "PACKET_WRONG_TYPE" ELSE "PACKET_SUCCESS"

\* Mutant of Parse: the size is not compared.
ParseAnySize(bytes) ==
    LET b == bytes[PL_TYPE_FIELD_OFFSET]
    IN  IF bytes[0] # PL_START_FRAME_BYTE
        THEN result' = "PACKET_WRONG_START_BYTE" /\ UNCHANGED header
        ELSE IF GroupOf(b) = "none" \/ TypeOf(b) < 0
        THEN result' = "PACKET_WRONG_TYPE" /\ UNCHANGED header
        ELSE /\ result' = "PACKET_SUCCESS"
             /\ header' = [type |-> TypeOf(b), group |-> GroupOf(b),
                           size |-> SizeOf(bytes), flags |-> FlagsOf(bytes)]

\* parse_header.  A type that is not known leaves the group it seemed to have.
Parse(bytes) ==
    LET b == bytes[PL_TYPE_FIELD_OFFSET]
    IN  CASE bytes[0] # PL_START_FRAME_BYTE ->
                 result' = "PACKET_WRONG_START_BYTE" /\ UNCHANGED header
          [] bytes[0] = PL_START_FRAME_BYTE /\ SizeOf(bytes) > PL_MAX_DATA_LENGTH ->
                 result' = "PACKET_WRONG_SIZE" /\ UNCHANGED header
          [] OTHER ->
                 IF GroupOf(b) = "none" \/ TypeOf(b) < 0
                 THEN /\ result' = "PACKET_WRONG_TYPE"
                      /\ header' = [header EXCEPT !.group = IF GroupOf(b) = "none" THEN @ ELSE GroupOf(b)]
                 ELSE /\ result' = "PACKET_SUCCESS"
                      /\ header' = [type |-> TypeOf(b), group |-> GroupOf(b),
                                    size |-> SizeOf(bytes), flags |-> FlagsOf(bytes)]

\* set_flag_bit for each flag that is on, in a byte that was cleared.
FlagByte(flags) == flags[Compression] + 2 * flags[Encryption] + 4 * flags[Sign]

\* Mutant of Update: the flags that were received are not cleared.
UpdateKeepingFlags(h) ==
    [raw EXCEPT ![0] = PL_START_FRAME_BYTE,
                ![PL_SIZE_FIELD_OFFSET] = h.size \div 256,
                ![PL_SIZE_FIELD_OFFSET + 1] = h.size % 256]

\* update_header of a header of an acceptable size; the type byte stays.
Update(h) ==
    [raw EXCEPT ![0] = PL_START_FRAME_BYTE,
                ![PL_SIZE_FIELD_OFFSET] = h.size \div 256,
                ![PL_SIZE_FIELD_OFFSET + 1] = h.size % 256,
                ![PL_FLAGS_FIELD_OFFSET] = FlagByte(h.flags)]

\* The rest of recv_packet: a header that is refused leaves the body unread.
Receive ==
    /\ stage = "received"
    /\ Parse(raw)
    /\ IF result' = "PACKET_SUCCESS" /\ header'.size > 0
       THEN stage' = "body" /\ left' = header'.size
       ELSE stage' = "parsed" /\ UNCHANGED left
    /\ UNCHANGED <<socket, reach, raw, NoType>>

\* create_packet: the header is changed even if the size is refused.
Create(flags, size) ==
    /\ stage = "parsed"
    /\ header' = [header EXCEPT !.flags = flags, !.size = size]
    /\ IF size > PL_MAX_DATA_LENGTH
       THEN result' = "PACKET_WRONG_SIZE" /\ UNCHANGED raw
       ELSE result' = "PACKET_SUCCESS" /\ raw' = Update(header')
    /\ stage' = "created" /\ UNCHANGED <<socket, left, reach, NoType>>

Check ==
    /\ stage = "created" /\ result = "PACKET_SUCCESS"
    /\ Parse(raw)
    /\ stage' = "checked" /\ UNCHANGED <<socket, left, reach, raw, NoType>>

RecvNbytes == RecvHeader \/ RecvBody \/ RecvClosed

Next ==
    \/ Arrive \/ Close \/ RecvNbytes \/ RecvFails
    \/ Receive
    \/ \E flags \in Flags, size \in ReplySizes :
          Create(flags, size)
    \/ Check

\* The handling task polls the socket, and goes on with what it has read.  The
\* client owes nothing.
Fairness == WF_vars(RecvNbytes) /\ WF_vars(Receive)

Spec     == Init /\ [][Next]_vars
FairSpec == Spec /\ Fairness
-----------------------------------------------------------------------------
\* A header that update_header made is parsed into the flags and the size it
\* was made from; nothing but its type byte can make it unacceptable.
RoundTrip ==
    [][Check => /\ result' \in {"PACKET_SUCCESS", "PACKET_WRONG_TYPE"}
                /\ header'.flags = header.flags /\ header'.size = header.size]_vars

\* A header that is refused leaves the type, the size and the flags of the
\* packet's previous one, so that they still belong together (parse_header
\* writes them last).
RefusalKeeps ==
    [][result' # "PACKET_SUCCESS" /\ stage' # "created" =>
          \A field \in {"type", "size", "flags"} : header'[field] = header[field]]_vars

\* A request whose header is accepted as it was sent is taken from the socket to
\* its last byte and no further, in however many pieces its body comes, unless
\* the client closes the connection or recv fails (packet_handler.c:404): the
\* next one is read from its start.
InStep ==
    stage = "parsed" /\ result = "PACKET_SUCCESS" /\ raw = request /\ ~closed =>
        taken = Total

\* A body goes past the end of packet_data by no more than PL_MAX_DATA_LENGTH
\* allows (packets.c:66), however wrong the size that a header in pieces names.
Overrun == reach <= PL_MAX_DATA_LENGTH

\* A task is kept in recv_nbytes by nothing but a client that neither sends nor
\* closes any more.
ReadEnds ==
    \/ <>(stage \notin {"header", "body", "received"})
    \/ <>[](arrived = taken /\ ~closed)
=============================================================================
