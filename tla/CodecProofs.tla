---------------------------- MODULE CodecProofs ----------------------------
(***************************************************************************)
(* Proofs about a packet from the socket to its reply, for any requests,   *)
(* whatever packets were there before, however the bytes are cut up.       *)
(***************************************************************************)
EXTENDS Codec, TLAPS

Stages  == {"header", "body", "received", "parsed", "created", "checked"}
Results == {"none", "error", "PACKET_SUCCESS", "PACKET_WRONG_START_BYTE",
            "PACKET_WRONG_SIZE", "PACKET_WRONG_TYPE"}

\* The values of the variables; recv gives no more than has come, and that is
\* no more than the client has to send.
Types ==
    /\ request \in [0 .. 4 -> Byte] /\ raw \in [0 .. 4 -> Byte]
    /\ arrived \in Nat /\ taken \in Nat /\ left \in Nat /\ reach \in Nat
    /\ closed \in BOOLEAN
    /\ header \in Headers
    /\ result \in Results /\ stage \in Stages /\ NoType \in NoTypes
    /\ taken <= arrived /\ arrived <= Total

\* Header and body are counted down as they are taken, unless the client has
\* closed the connection, which ends either before its time.
Reading ==
    /\ stage = "header" => left > 0 /\ taken + left = PL_PACKET_HEADER_SIZE
    /\ stage = "received" => closed \/ taken = PL_PACKET_HEADER_SIZE
    /\ stage = "body" =>
           /\ result = "PACKET_SUCCESS" /\ header.size = SizeOf(raw)
           /\ left > 0 /\ left <= PL_MAX_DATA_LENGTH
           /\ closed \/ taken + left = PL_PACKET_HEADER_SIZE + header.size
    /\ stage = "parsed" /\ result = "PACKET_SUCCESS" /\ ~closed =>
           header.size = SizeOf(raw) /\ taken = PL_PACKET_HEADER_SIZE + header.size

\* What update_header leaves agrees with the header it was made from.
Created ==
    stage = "created" /\ result = "PACKET_SUCCESS" =>
        /\ raw[0] = PL_START_FRAME_BYTE
        /\ SizeOf(raw) = header.size /\ header.size <= PL_MAX_DATA_LENGTH
        /\ FlagsOf(raw) = header.flags

\* The inductive invariant.
IInv == Types /\ Reading /\ Overrun /\ Created

-----------------------------------------------------------------------------
(* The operators *)

LEMMA MinOfTwo ==
    ASSUME NEW m \in Nat, NEW n \in Nat
    PROVE  /\ Min({m, n}) \in Nat /\ Min({m, n}) <= m /\ Min({m, n}) <= n
           /\ m > 0 /\ n > 0 => Min({m, n}) > 0
<1>1. CASE m <= n
    <2>1. Min({m, n}) = m
        BY <1>1 DEF Min
    <2> QED
        BY <1>1, <2>1
<1>2. CASE n < m
    <2>1. Min({m, n}) = n
        BY <1>2 DEF Min
    <2> QED
        BY <1>2, <2>1
<1> QED
    BY <1>1, <1>2

LEMMA MaxOfTwo ==
    ASSUME NEW m \in Nat, NEW n \in Nat
    PROVE  Max({m, n}) \in {m, n}
<1>1. CASE m <= n
    BY <1>1 DEF Max
<1>2. CASE n < m
    BY <1>2 DEF Max
<1> QED
    BY <1>1, <1>2

LEMMA Interval == \A m \in Nat : \A n : n \in 0 .. m - 1 <=> n \in Nat /\ n < m
OBVIOUS

LEMMA WordSize == 2 ^ 16 = 65536
OBVIOUS

LEMMA Widths ==
    ASSUME NEW n
    PROVE  /\ n \in Byte <=> n \in Nat /\ n <= 255
           /\ n \in Word <=> n \in Nat /\ n <= 65535
<1> DEFINE m == 2 ^ 16
<1>1. n \in Byte <=> n \in Nat /\ n <= 255
    BY DEF Byte
<1>2. m \in Nat /\ Word = 0 .. m - 1
    BY WordSize DEF Word
<1> HIDE DEF m
<1>3. n \in Word <=> n \in Nat /\ n < m
    BY <1>2, Interval
<1> QED
    BY <1>1, <1>3, WordSize DEF m

\* Two bytes and a size, and a byte and the bits of three flags.
LEMMA SizeOfTwoBytes ==
    ASSUME NEW high \in Byte, NEW low \in Byte
    PROVE  high * 256 + low \in Word
<1>1. high \in Nat /\ high <= 255 /\ low \in Nat /\ low <= 255
    BY Widths
<1>2. high * 256 + low \in Nat /\ high * 256 + low <= 65535
    BY <1>1
<1> QED
    BY <1>2, Widths

LEMMA TwoBytesOfSize ==
    ASSUME NEW size \in Word
    PROVE  /\ size \div 256 \in Byte /\ size % 256 \in Byte
           /\ (size \div 256) * 256 + (size % 256) = size
<1>1. size \in Nat /\ size <= 65535
    BY Widths
<1>2. /\ size \div 256 \in Nat /\ size \div 256 <= 255
      /\ size % 256 \in Nat /\ size % 256 <= 255
      /\ (size \div 256) * 256 + (size % 256) = size
    BY <1>1
<1> QED
    BY <1>2, Widths

LEMMA BitType ==
    ASSUME NEW byte \in Byte
    PROVE  Bit(byte, 0) \in {0, 1} /\ Bit(byte, 1) \in {0, 1} /\ Bit(byte, 2) \in {0, 1}
<1>1. byte \in Nat
    BY Widths
<1> QED
    BY <1>1 DEF Bit

LEMMA BitsOfFlags ==
    ASSUME NEW a \in {0, 1}, NEW b \in {0, 1}, NEW c \in {0, 1}
    PROVE  /\ a + 2 * b + 4 * c \in Byte
           /\ Bit(a + 2 * b + 4 * c, 0) = a
           /\ Bit(a + 2 * b + 4 * c, 1) = b
           /\ Bit(a + 2 * b + 4 * c, 2) = c
<1>1. a + 2 * b + 4 * c \in Nat /\ a + 2 * b + 4 * c <= 255
    OBVIOUS
<1>2. a + 2 * b + 4 * c \in Byte
    BY <1>1, Widths
<1> QED
    BY <1>2 DEF Bit

LEMMA SizeType ==
    ASSUME NEW bytes \in [0 .. 4 -> Byte]
    PROVE  SizeOf(bytes) = bytes[3] * 256 + bytes[4] /\ SizeOf(bytes) \in Word
<1>1. bytes[3] \in Byte /\ bytes[4] \in Byte
    OBVIOUS
<1>2. SizeOf(bytes) = bytes[3] * 256 + bytes[4]
    BY DEF SizeOf, PL_SIZE_FIELD_OFFSET, Byte
<1> QED
    BY <1>1, <1>2, SizeOfTwoBytes

LEMMA FlagsType ==
    ASSUME NEW bytes \in [0 .. 4 -> Byte]
    PROVE  FlagsOf(bytes) \in Flags
<1>1. bytes[1] \in Byte
    OBVIOUS
<1> QED
    BY <1>1, BitType DEF FlagsOf, Flags, Compression, Encryption, Sign, PL_FLAGS_FIELD_OFFSET

\* Every table has numbers, and so has the value for what is in none.
LEMMA TypeType ==
    ASSUME NoType \in NoTypes, NEW b
    PROVE  TypeOf(b) \in Int
<1>1. ASSUME b \in DOMAIN ControlTypes PROVE ControlTypes[b] \in Int
    BY <1>1 DEF ControlTypes
<1>2. ASSUME b \in DOMAIN ProgrammerTypes PROVE ProgrammerTypes[b] \in Int
    BY <1>2 DEF ProgrammerTypes
<1>3. ASSUME b \in DOMAIN UartTypes PROVE UartTypes[b] \in Int
    BY <1>3 DEF UartTypes
<1>4. NoType \in Int
    BY DEF NoTypes
<1> QED
    BY <1>1, <1>2, <1>3, <1>4 DEF TypeOf, Lookup

\* update_header and get_size_from_header are inverse, and so are set_flag_bit
\* and get_flag_bit: the low byte of a size carries into the high one, and no
\* flag into another.
LEMMA UpdateRight ==
    ASSUME raw \in [0 .. 4 -> Byte], NEW h \in Headers
    PROVE  /\ Update(h) \in [0 .. 4 -> Byte]
           /\ Update(h)[0] = PL_START_FRAME_BYTE
           /\ SizeOf(Update(h)) = h.size
           /\ FlagsOf(Update(h)) = h.flags
<1> DEFINE size == h.size
           f == h.flags
           byte == f[0] + 2 * f[1] + 4 * f[2]
<1>1. size \in Word /\ f \in Flags
    BY DEF Headers
<1>2. f = [n \in {0, 1, 2} |-> f[n]] /\ f[0] \in {0, 1} /\ f[1] \in {0, 1} /\ f[2] \in {0, 1}
    BY <1>1 DEF Flags, Compression, Encryption, Sign
<1>3. Update(h) = [raw EXCEPT ![0] = 27, ![3] = size \div 256, ![4] = size % 256, ![1] = byte]
    BY DEF Update, FlagByte, Compression, Encryption, Sign,
           PL_START_FRAME_BYTE, PL_FLAGS_FIELD_OFFSET, PL_SIZE_FIELD_OFFSET
<1> HIDE DEF size, f
<1>4. byte \in Byte /\ Bit(byte, 0) = f[0] /\ Bit(byte, 1) = f[1] /\ Bit(byte, 2) = f[2]
    BY <1>2, BitsOfFlags
<1>5. /\ size \div 256 \in Byte /\ size % 256 \in Byte
      /\ (size \div 256) * 256 + (size % 256) = size
    BY <1>1, TwoBytesOfSize
<1> HIDE DEF byte
<1>6. Update(h) \in [0 .. 4 -> Byte]
    BY <1>3, <1>4, <1>5, Widths
<1>7. /\ Update(h)[0] = 27 /\ Update(h)[1] = byte
      /\ Update(h)[3] = size \div 256 /\ Update(h)[4] = size % 256
    BY <1>3
<1>8. SizeOf(Update(h)) = size
    BY <1>5, <1>6, <1>7, SizeType
<1>9. FlagsOf(Update(h)) = [n \in {0, 1, 2} |-> Bit(byte, n)]
    BY <1>7 DEF FlagsOf, Compression, Encryption, Sign, PL_FLAGS_FIELD_OFFSET
<1>10. FlagsOf(Update(h)) = f
    BY <1>2, <1>4, <1>9
<1> QED
    BY <1>6, <1>7, <1>8, <1>10 DEF size, f, PL_START_FRAME_BYTE

\* parse_header's outcomes.
LEMMA ParseRight ==
    ASSUME NoType \in NoTypes, header \in Headers,
           NEW bytes \in [0 .. 4 -> Byte], Parse(bytes)
    PROVE  /\ header' \in Headers /\ result' \in Results
           /\ result' \in {"PACKET_SUCCESS", "PACKET_WRONG_START_BYTE",
                           "PACKET_WRONG_SIZE", "PACKET_WRONG_TYPE"}
           /\ result' = "PACKET_SUCCESS" =>
                  /\ header'.size = SizeOf(bytes) /\ SizeOf(bytes) <= PL_MAX_DATA_LENGTH
                  /\ header'.flags = FlagsOf(bytes)
           /\ result' # "PACKET_SUCCESS" =>
                  /\ header'.type = header.type /\ header'.size = header.size
                  /\ header'.flags = header.flags
           /\ bytes[0] = PL_START_FRAME_BYTE /\ SizeOf(bytes) <= PL_MAX_DATA_LENGTH =>
                  result' \in {"PACKET_SUCCESS", "PACKET_WRONG_TYPE"}
<1> DEFINE b == bytes[PL_TYPE_FIELD_OFFSET]
<1>1. SizeOf(bytes) \in Word /\ SizeOf(bytes) \in Nat /\ FlagsOf(bytes) \in Flags /\ TypeOf(b) \in Int
    BY SizeType, FlagsType, TypeType, Widths
<1>2. GroupOf(b) \in {"ControlGroup", "ProgrammerGroup", "none"}
    BY DEF GroupOf
<1>3. CASE bytes[0] # PL_START_FRAME_BYTE
    BY <1>3 DEF Parse, Results
<1>4. CASE bytes[0] = PL_START_FRAME_BYTE /\ SizeOf(bytes) > PL_MAX_DATA_LENGTH
    BY <1>1, <1>4 DEF Parse, Results, PL_MAX_DATA_LENGTH
<1>5. CASE bytes[0] = PL_START_FRAME_BYTE /\ SizeOf(bytes) <= PL_MAX_DATA_LENGTH
    <2>1. CASE GroupOf(b) = "none" \/ TypeOf(b) < 0
        <3>1. /\ result' = "PACKET_WRONG_TYPE"
              /\ header' = [header EXCEPT !.group = IF GroupOf(b) = "none" THEN @ ELSE GroupOf(b)]
            BY <1>1, <1>5, <2>1 DEF Parse, PL_MAX_DATA_LENGTH
        <3> QED
            BY <1>2, <1>5, <3>1 DEF Headers, Results
    <2>2. CASE ~(GroupOf(b) = "none" \/ TypeOf(b) < 0)
        <3>1. /\ result' = "PACKET_SUCCESS"
              /\ header' = [type |-> TypeOf(b), group |-> GroupOf(b),
                            size |-> SizeOf(bytes), flags |-> FlagsOf(bytes)]
            BY <1>1, <1>5, <2>2 DEF Parse, PL_MAX_DATA_LENGTH
        <3> QED
            BY <1>1, <1>2, <1>5, <2>2, <3>1 DEF Headers, Results
    <2> QED
        BY <2>1, <2>2
<1> QED
    BY <1>1, <1>3, <1>4, <1>5 DEF PL_MAX_DATA_LENGTH
-----------------------------------------------------------------------------

LEMMA TotalType ==
    ASSUME request \in [0 .. 4 -> Byte]
    PROVE  Total \in Nat /\ Total = PL_PACKET_HEADER_SIZE + SizeOf(request)
BY SizeType, Widths DEF Total, PL_PACKET_HEADER_SIZE

LEMMA InitInv == Init => IInv
<1> SUFFICES ASSUME Init PROVE IInv
    OBVIOUS
<1>1. request \in [0 .. 4 -> Byte]
    BY RequestAssumption DEF Init
<1>2. PICK p \in Previous : raw = p.raw /\ header = p.header
    BY DEF Init
<1>3. raw \in [0 .. 4 -> Byte] /\ header \in Headers
    BY <1>2, PreviousAssumption
<1>4. Total \in Nat /\ left \in Nat
    BY <1>1, TotalType DEF Init, PL_PACKET_HEADER_SIZE
<1>5. Types
    <2>1. request \in [0 .. 4 -> Byte] /\ raw \in [0 .. 4 -> Byte]
        BY <1>1, <1>3
    <2>2. arrived \in Nat /\ taken \in Nat /\ left \in Nat /\ reach \in Nat
        BY <1>4 DEF Init
    <2>3. closed \in BOOLEAN /\ header \in Headers
        BY <1>3 DEF Init
    <2>4. result \in Results /\ stage \in Stages /\ NoType \in NoTypes
        BY DEF Init, Results, Stages
    <2>5. taken <= arrived /\ arrived <= Total
        BY <1>4 DEF Init
    <2> QED
        BY <2>1, <2>2, <2>3, <2>4, <2>5 DEF Types
<1> QED
    BY <1>5 DEF Init, IInv, Reading, Overrun, Created, PL_PACKET_HEADER_SIZE, PL_MAX_DATA_LENGTH

\* The client sends and closes.
LEMMA ClientStep ==
    ASSUME IInv, Arrive \/ Close
    PROVE  IInv'
<1> USE DEF IInv, Types, Reading, Overrun, Created
<1>1. CASE Arrive
    <2>1. PICK n \in Pieces : arrived' = arrived + n
        BY <1>1 DEF Arrive
    <2>2. n \in 1 .. Total - arrived
        BY DEF Pieces
    <2>3. Total' = Total /\ Total \in Nat
        BY <1>1, TotalType DEF Arrive, Total
    <2>4. arrived' \in Nat /\ taken <= arrived' /\ arrived' <= Total
        BY <2>1, <2>2, <2>3
    <2> QED
        BY <1>1, <2>3, <2>4 DEF Arrive
<1>2. CASE Close
    <2>1. Total' = Total
        BY <1>2 DEF Close, Total
    <2> QED
        BY <1>2, <2>1 DEF Close
<1> QED
    BY <1>1, <1>2

\* What a call of recv leaves: it has read something, and counted it down.
LEMMA RecvRight ==
    ASSUME Types, NEW n, Recv(n)
    PROVE  /\ n \in Nat /\ n > 0 /\ n <= left
           /\ taken' \in Nat /\ left' \in Nat
           /\ taken' + left' = taken + left /\ left' <= left
           /\ taken' <= arrived
           /\ UNCHANGED <<request, arrived, closed>>
<1>1. arrived - taken \in Nat /\ left \in Nat
    BY DEF Types
<1>2. n \in Nat /\ n <= left /\ n <= arrived - taken
    BY <1>1, MinOfTwo DEF Recv
<1> QED
    BY <1>2 DEF Recv, Types

LEMMA CountedDown ==
    ASSUME NEW m \in Nat, NEW n \in Nat, NEW sum, m + n = sum, ~(n > 0)
    PROVE  m = sum
OBVIOUS

LEMMA RecvHeaderStep ==
    ASSUME IInv, RecvHeader
    PROVE  IInv'
<1> USE DEF IInv
<1>1. PICK n \in 1 .. PL_PACKET_HEADER_SIZE :
          /\ Recv(n)
          /\ raw' = [k \in 0 .. 4 |-> IF k < n THEN request[taken + k] ELSE raw[k]]
    BY DEF RecvHeader
<1>2. /\ n \in Nat /\ n > 0 /\ n <= left
      /\ taken' \in Nat /\ left' \in Nat
      /\ taken' + left' = taken + left
      /\ taken' <= arrived /\ UNCHANGED <<request, arrived, closed>>
    BY <1>1, RecvRight
<1>3. /\ stage = "header" /\ taken + left = PL_PACKET_HEADER_SIZE
      /\ stage' = IF left' = 0 THEN "received" ELSE "header"
      /\ UNCHANGED <<reach, header, result, NoType>>
    BY DEF RecvHeader, Reading
<1>4. raw' \in [0 .. 4 -> Byte]
    <2>1. ASSUME NEW k \in 0 .. 4, k < n PROVE request[taken + k] \in Byte
        <3>1. taken + k \in 0 .. 4
            BY <1>2, <1>3, <2>1 DEF Types, PL_PACKET_HEADER_SIZE
        <3> QED
            BY <3>1 DEF Types
    <2> QED
        BY <1>1, <2>1 DEF Types
<1>5. Total' = Total
    BY <1>2 DEF Total
<1>6. Types'
    BY <1>2, <1>3, <1>4, <1>5 DEF Types, Stages
<1>7. Reading'
    <2>0. taken' \in Nat /\ left' \in Nat /\ taken' + left' = 5
        BY <1>2, <1>3 DEF PL_PACKET_HEADER_SIZE
    <2>1. CASE ~(left' > 0)
        <3>1. taken' = 5
            BY <2>0, <2>1, CountedDown
        <3>2. stage' = "received"
            BY <1>3, <2>0, <2>1
        <3> QED
            BY <3>1, <3>2 DEF Reading, PL_PACKET_HEADER_SIZE
    <2>2. CASE left' > 0
        <3>1. stage' = "header"
            BY <1>3, <2>0, <2>2
        <3> QED
            BY <2>0, <2>2, <3>1 DEF Reading, PL_PACKET_HEADER_SIZE
    <2> QED
        BY <2>1, <2>2
<1> QED
    BY <1>3, <1>6, <1>7 DEF Overrun, Created

LEMMA RecvBodyStep ==
    ASSUME IInv, RecvBody
    PROVE  IInv'
<1> USE DEF IInv
<1>1. PICK n : Recv(n) /\ reach' = Max({reach, n})
    BY DEF RecvBody
<1>2. /\ n \in Nat /\ n > 0 /\ n <= left
      /\ taken' \in Nat /\ left' \in Nat /\ left' <= left
      /\ taken' + left' = taken + left
      /\ taken' <= arrived /\ UNCHANGED <<request, arrived, closed>>
    BY <1>1, RecvRight
<1>3. /\ stage = "body" /\ left <= PL_MAX_DATA_LENGTH
      /\ stage' = IF left' = 0 THEN "parsed" ELSE "body"
      /\ UNCHANGED <<raw, header, result, NoType>>
    BY DEF RecvBody, Reading
<1>4. reach' \in Nat /\ reach' <= PL_MAX_DATA_LENGTH
    BY <1>1, <1>2, <1>3, MaxOfTwo DEF Types, Overrun, PL_MAX_DATA_LENGTH
<1>5. Total' = Total
    BY <1>2 DEF Total
<1>6. Types'
    BY <1>2, <1>3, <1>4, <1>5 DEF Types, Stages
<1>7. Reading'
    <2>1. SizeOf(raw)' = SizeOf(raw)
        BY <1>3
    <2>2. closed' \/ taken' + left' = PL_PACKET_HEADER_SIZE + header.size
        <3>1. closed \/ taken + left = PL_PACKET_HEADER_SIZE + header.size
            BY <1>3 DEF Reading
        <3>2. CASE closed
            BY <1>2, <3>2
        <3>3. CASE taken + left = PL_PACKET_HEADER_SIZE + header.size
            BY <1>2, <3>3
        <3> QED
            BY <3>1, <3>2, <3>3
    <2>3. header.size \in Nat
        BY Widths DEF Types, Headers
    <2>4. result = "PACKET_SUCCESS" /\ header.size = SizeOf(raw)
        BY <1>3 DEF Reading
    <2>5. CASE left' = 0
        <3>1. stage' = "parsed" /\ (closed' \/ taken' = PL_PACKET_HEADER_SIZE + header.size)
            <4>1. CASE closed'
                BY <1>3, <2>5, <4>1
            <4>2. CASE taken' + left' = PL_PACKET_HEADER_SIZE + header.size
                BY <1>2, <1>3, <2>5, <4>2
            <4> QED
                BY <2>2, <4>1, <4>2
        <3> QED
            BY <1>3, <2>1, <2>4, <3>1 DEF Reading
    <2>6. CASE left' # 0
        <3>1. stage' = "body" /\ left' > 0 /\ left' <= PL_MAX_DATA_LENGTH
            BY <1>2, <1>3, <2>6 DEF PL_MAX_DATA_LENGTH, Types
        <3> QED
            BY <1>3, <2>1, <2>2, <2>4, <3>1 DEF Reading
    <2> QED
        BY <2>5, <2>6
<1> QED
    BY <1>3, <1>4, <1>6, <1>7 DEF Overrun, Created

LEMMA RecvEndsStep ==
    ASSUME IInv, RecvClosed \/ RecvFails
    PROVE  IInv'
<1> USE DEF IInv, Types, Reading, Overrun, Created, Stages, Results
<1>1. Total' = Total
    BY DEF RecvClosed, RecvFails, Total, socket
<1>2. CASE RecvClosed
    BY <1>1, <1>2 DEF RecvClosed, socket
<1>3. CASE RecvFails
    BY <1>1, <1>3 DEF RecvFails, socket
<1> QED
    BY <1>2, <1>3

LEMMA ReceiveStep ==
    ASSUME IInv, Receive
    PROVE  IInv'
<1> USE DEF IInv
<1>1. /\ stage = "received" /\ Parse(raw)
      /\ UNCHANGED <<request, arrived, taken, closed, reach, raw, NoType>>
    BY DEF Receive, socket
<1>2. /\ header' \in Headers /\ result' \in Results
      /\ result' = "PACKET_SUCCESS" =>
             header'.size = SizeOf(raw) /\ SizeOf(raw) <= PL_MAX_DATA_LENGTH
    BY <1>1, ParseRight DEF Types
<1>3. SizeOf(raw) \in Nat /\ Total' = Total
    BY <1>1, SizeType, Widths DEF Types, Total
<1>4. CASE result' = "PACKET_SUCCESS" /\ header'.size > 0
    <2>1. stage' = "body" /\ left' = header'.size
        BY <1>4 DEF Receive
    <2>2. Types'
        BY <1>1, <1>2, <1>3, <1>4, <2>1 DEF Types, Stages
    <2>3. Reading'
        BY <1>1, <1>2, <1>3, <1>4, <2>1 DEF Reading, Types, PL_PACKET_HEADER_SIZE
    <2> QED
        BY <1>1, <2>1, <2>2, <2>3 DEF Overrun, Created
<1>5. CASE ~(result' = "PACKET_SUCCESS" /\ header'.size > 0)
    <2>1. stage' = "parsed" /\ left' = left
        BY <1>5 DEF Receive
    <2>2. Types'
        BY <1>1, <1>2, <1>3, <2>1 DEF Types, Stages
    <2>3. Reading'
        BY <1>1, <1>2, <1>3, <1>5, <2>1 DEF Reading, Types, PL_PACKET_HEADER_SIZE
    <2> QED
        BY <1>1, <2>1, <2>2, <2>3 DEF Overrun, Created
<1> QED
    BY <1>4, <1>5

LEMMA CreateStep ==
    ASSUME IInv, NEW flags \in Flags, NEW size \in ReplySizes, Create(flags, size)
    PROVE  IInv'
<1> USE DEF IInv
<1>1. header' = [header EXCEPT !.flags = flags, !.size = size]
    BY DEF Create
<1>2. header' \in Headers /\ header'.size = size /\ header'.flags = flags
    BY <1>1, ReplyAssumption DEF Types, Headers
<1>3. /\ stage' = "created"
      /\ UNCHANGED <<request, arrived, taken, closed, left, reach, NoType>>
    BY DEF Create, socket
<1>4. Total' = Total /\ size \in Nat
    BY <1>3, ReplyAssumption, Widths DEF Total
<1>5. CASE size > PL_MAX_DATA_LENGTH
    <2>1. result' = "PACKET_WRONG_SIZE" /\ raw' = raw
        BY <1>5 DEF Create
    <2> QED
        BY <1>2, <1>3, <1>4, <2>1 DEF Types, Reading, Overrun, Created, Stages, Results
<1>6. CASE size <= PL_MAX_DATA_LENGTH
    <2>1. result' = "PACKET_SUCCESS" /\ raw' = Update(header')
        BY <1>4, <1>6 DEF Create, PL_MAX_DATA_LENGTH
    <2>2. /\ raw' \in [0 .. 4 -> Byte] /\ raw'[0] = PL_START_FRAME_BYTE
          /\ SizeOf(raw') = header'.size /\ FlagsOf(raw') = header'.flags
        BY <1>2, <2>1, UpdateRight DEF Types
    <2>3. Types'
        BY <1>2, <1>3, <1>4, <2>1, <2>2 DEF Types, Stages, Results
    <2>4. Created'
        BY <1>2, <1>6, <2>2 DEF Created
    <2> QED
        BY <1>3, <2>3, <2>4 DEF Reading, Overrun
<1> QED
    BY <1>4, <1>5, <1>6 DEF PL_MAX_DATA_LENGTH

LEMMA CheckStep ==
    ASSUME IInv, Check
    PROVE  IInv'
<1> USE DEF IInv
<1>1. /\ stage' = "checked" /\ Parse(raw)
      /\ UNCHANGED <<request, arrived, taken, closed, left, reach, raw, NoType>>
    BY DEF Check, socket
<1>2. header' \in Headers /\ result' \in Results
    BY <1>1, ParseRight DEF Types
<1>3. Total' = Total
    BY <1>1 DEF Total
<1> QED
    BY <1>1, <1>2, <1>3 DEF Types, Reading, Overrun, Created, Stages

LEMMA NextInv == IInv /\ [Next]_vars => IInv'
<1> SUFFICES ASSUME IInv, [Next]_vars PROVE IInv'
    OBVIOUS
<1>1. CASE UNCHANGED vars
    <2>1. Total' = Total
        BY <1>1 DEF vars, socket, Total
    <2> QED
        BY <1>1, <2>1 DEF vars, socket, IInv, Types, Reading, Overrun, Created
<1> QED
    BY <1>1, ClientStep, RecvHeaderStep, RecvBodyStep, RecvEndsStep, ReceiveStep, CreateStep,
       CheckStep DEF Next, RecvNbytes

LEMMA Invariance == Spec => []IInv
BY InitInv, NextInv, PTL DEF Spec

-----------------------------------------------------------------------------

\* However its bytes are cut into pieces, a request whose header is accepted as
\* it was sent is read to its end and no further (recv_packet), for requests of
\* any size.
THEOREM RequestsInStep == Spec => []InStep
<1>1. IInv => InStep
    BY DEF IInv, Reading, InStep, Total
<1> QED
    BY <1>1, Invariance, PTL

\* No body is written further than PL_MAX_DATA_LENGTH, whatever size a
\* garbled header names (parse_header, recv_nbytes).
THEOREM BodiesBounded == Spec => []Overrun
<1>1. IInv => Overrun
    BY DEF IInv
<1> QED
    BY <1>1, Invariance, PTL

\* parse_header reads what update_header has written, for all flags and sizes:
\* only the type byte can make a reply's header unacceptable.
THEOREM HeadersRoundTrip == Spec => RoundTrip
<1>1. ASSUME IInv, Check
      PROVE  /\ result' \in {"PACKET_SUCCESS", "PACKET_WRONG_TYPE"}
             /\ header'.flags = header.flags /\ header'.size = header.size
    <2>1. /\ raw[0] = PL_START_FRAME_BYTE
          /\ SizeOf(raw) = header.size /\ header.size <= PL_MAX_DATA_LENGTH
          /\ FlagsOf(raw) = header.flags
        BY <1>1 DEF IInv, Created, Check
    <2> QED
        BY <1>1, <2>1, ParseRight DEF IInv, Types, Check
<1>2. IInv => (Check => /\ result' \in {"PACKET_SUCCESS", "PACKET_WRONG_TYPE"}
                        /\ header'.flags = header.flags /\ header'.size = header.size)
    BY <1>1
<1> QED
    BY <1>2, Invariance, PTL DEF RoundTrip

\* Whatever header parse_header refuses, and however recv ends, the type, size and
\* flags that the packet had before still belong together.
THEOREM RefusalsKeep == Spec => RefusalKeeps
<1> DEFINE Keeps ==
        result' # "PACKET_SUCCESS" /\ stage' # "created" =>
            \A field \in {"type", "size", "flags"} : header'[field] = header[field]
<1>1. ASSUME IInv, [Next]_vars PROVE Keeps
    <2>1. ASSUME Receive \/ Check PROVE Keeps
        BY <1>1, <2>1, ParseRight DEF IInv, Types, Receive, Check
    <2>2. ASSUME NEW flags \in Flags, NEW size \in ReplySizes, Create(flags, size)
          PROVE  Keeps
        BY <2>2 DEF Create
    <2>3. ASSUME Arrive \/ Close \/ RecvNbytes \/ RecvFails \/ UNCHANGED vars
          PROVE  Keeps
        BY <2>3 DEF Arrive, Close, RecvNbytes, RecvHeader, RecvBody, RecvClosed, RecvFails, vars
    <2> QED
        BY <1>1, <2>1, <2>2, <2>3 DEF Next
<1>2. IInv /\ [Next]_vars => Keeps
    BY <1>1
<1> QED
    BY <1>2, Invariance, PTL DEF RefusalKeeps, Spec
=============================================================================
