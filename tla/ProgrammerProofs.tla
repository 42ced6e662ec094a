-------------------------- MODULE ProgrammerProofs --------------------------
(***************************************************************************)
(* Proofs about Programmer, for every size of a byte, every set of blocks  *)
(* and ranges, and every way transfers may be lost.                        *)
(***************************************************************************)
EXTENDS Programmer, TLAPS

\* The first n bytes of the block are in place.
LoadedTo(n) ==
    \A k \in 0 .. n - 1 : avr.mem[CellOf(req, k)] = req.body[k + 1]

\* The first n bytes of the range are in buf.
ReadTo(n) ==
    \A k \in 0 .. n - 1 : buf[k] = avr.mem[SourceOf(req, k)]

Fresh == {"reset", "cmd", "load", "prog", "read"}
NoRequest == [kind |-> "none"]

\* A flash word takes two bytes: the loop has done n of them.
Flash(n) == n = 2 * (address - req.start)

LoadInv ==
    /\ pc \in {"flash_lo", "flash_hi"} =>
          /\ req.kind = "prog" /\ req.mem = "flash" /\ req.start <= address
          /\ Flash(i) /\ i + 1 < DataLen(req) /\ DataLen(req) % 2 = 0
          /\ LoadedTo(i)
    /\ pc = "flash_hi" => LoadedTo(i + 1)
    /\ pc = "eeprom" =>
          /\ req.kind = "prog" /\ req.mem = "eeprom"
          /\ address = req.start + i /\ i < DataLen(req)
          /\ LoadedTo(i)

ReadInv ==
    /\ pc \in {"read_hi", "read_lo"} =>
          /\ req.kind = "read" /\ req.mem = "flash" /\ req.start <= address
          /\ Flash(i) /\ i < req.count
    /\ pc = "read_hi" =>
          /\ answer_counter < U8
          /\ req.count <= U8 => answer_counter = i /\ ReadTo(i)
    /\ pc = "read_lo" =>
          /\ answer_counter < U8
          /\ req.count <= U8 => answer_counter = i + 1 /\ ReadTo(i + 1)
    /\ pc = "read_ee" =>
          /\ req.kind = "read" /\ req.mem = "eeprom"
          /\ address = req.start + i /\ i < req.count
          /\ answer_counter = i /\ ReadTo(i)

\* Which request each step serves.
ServesInv ==
    /\ pc \in Fresh => req.kind = pc /\ replies = <<>>
    /\ pc = "enable" => req.kind = "load" /\ replies = <<>>
    /\ pc \in {"flash_lo", "flash_hi", "eeprom", "read_hi", "read_lo", "read_ee"} => replies = <<>>

IInv == TypeOK /\ ServesInv /\ LoadInv /\ ReadInv /\ AckMeansLoaded /\ ReadFaithful
-----------------------------------------------------------------------------
\* Remainders, as _u8 counters take them.
LEMMA ModRange ==
    ASSUME NEW a \in Nat, NEW n \in Nat \ {0}
    PROVE  a % n \in 0 .. n - 1 /\ a % n <= a
BY SMT

LEMMA ModSmall ==
    ASSUME NEW a \in Nat, NEW n \in Nat \ {0}, a < n
    PROVE  a % n = a
BY SMT

\* The bytes of word x of a block, counted from 0.
LEMMA Word ==
    ASSUME NEW x \in Nat
    PROVE  /\ (2 * x) % 2 = 0 /\ (2 * x) \div 2 = x
           /\ (2 * x + 1) % 2 = 1 /\ (2 * x + 1) \div 2 = x
BY SMT

LEMMA ParityRange ==
    ASSUME NEW k \in Nat
    PROVE  k % 2 \in {0, 1} /\ k = 2 * (k \div 2) + (k % 2) /\ k \div 2 \in Nat /\ k \div 2 <= k
<1>1. k % 2 \in {0, 1}
  BY SMT
<1>2. k = 2 * (k \div 2) + (k % 2)
  BY SMT
<1>3. k \div 2 \in Nat
  BY SMT
<1> QED  BY <1>1, <1>2, <1>3

LEMMA EvenBound ==
    ASSUME NEW x \in Nat, NEW n \in Nat, n % 2 = 0, 2 * x + 2 < n
    PROVE  2 * x + 3 < n
<1>1. n = 2 * (n \div 2) + (n % 2) /\ n \div 2 \in Nat
  BY ParityRange
<1>2. n = 2 * (n \div 2)
  BY <1>1
<1> QED  BY <1>1, <1>2

LEMMA EvenBelow ==
    ASSUME NEW x \in Nat, NEW n \in Nat, n % 2 = 0, 2 * x < n
    PROVE  2 * x + 1 < n
<1>1. n = 2 * (n \div 2) + (n % 2) /\ n \div 2 \in Nat
  BY ParityRange
<1>2. n = 2 * (n \div 2)
  BY <1>1
<1> QED  BY <1>1, <1>2

LEMMA ProgRequest ==
    ASSUME NEW r \in Requests, r.kind = "prog"
    PROVE  /\ r.mem \in Memories /\ r.start \in Addresses /\ r.start \in Nat
           /\ r.body \in Seq(Byte) /\ Len(r.body) \in Nat
           /\ r.start .. r.start + Len(r.body) \subseteq Addresses
           /\ DataLen(r) \in 0 .. U8 - 1 /\ DataLen(r) <= Len(r.body)
           /\ \A k \in 0 .. DataLen(r) - 1 : r.body[k + 1] \in Byte
<1>1. PICK b \in Blocks :
         r = [kind |-> "prog", mem |-> b.mem, start |-> b.start, body |-> b.body]
  BY DEF Requests
<1>2. /\ r.mem \in Memories /\ r.start \in Addresses /\ r.start \in Nat
      /\ r.body \in Seq(Byte)
      /\ r.start .. r.start + Len(r.body) \subseteq Addresses
  BY <1>1, RequestAssumption, EnvironmentAssumption
<1>3. Len(r.body) \in Nat
  BY <1>2
<1>4. DataLen(r) \in 0 .. U8 - 1 /\ DataLen(r) <= Len(r.body)
  BY <1>3, ModRange, U8Assumption DEF DataLen
<1>5. ASSUME NEW k \in 0 .. DataLen(r) - 1
      PROVE  r.body[k + 1] \in Byte
  <2>1. DataLen(r) \in Nat
    BY <1>4, U8Assumption
  <2>2. k + 1 \in 1 .. Len(r.body)
    BY <1>3, <1>4, <2>1
  <2> QED  BY <2>2, <1>2
<1> QED  BY <1>2, <1>3, <1>4, <1>5

LEMMA ReadRequest ==
    ASSUME NEW r \in Requests, r.kind = "read"
    PROVE  /\ r.mem \in Memories /\ r.start \in Nat
           /\ r.fits \in BOOLEAN /\ r.count \in Nat
           /\ r.start .. r.start + (IF r.mem = "flash" THEN r.count \div 2 ELSE r.count)
                 \subseteq Addresses
<1>1. PICK b \in Ranges, f \in BOOLEAN :
         r = [kind |-> "read", mem |-> b.mem, start |-> b.start, count |-> b.count, fits |-> f]
  BY DEF Requests
<1> QED  BY <1>1, RequestAssumption, EnvironmentAssumption

\* Every byte of a block has a cell, and no two the same.
LEMMA CellsOfBlock ==
    ASSUME NEW r \in Requests, r.kind = "prog"
    PROVE  /\ \A k \in 0 .. DataLen(r) - 1 : CellOf(r, k) \in Cells
           /\ \A k, m \in 0 .. DataLen(r) - 1 : CellOf(r, k) = CellOf(r, m) => k = m
<1> USE ProgRequest
<1>1. ASSUME NEW k \in 0 .. DataLen(r) - 1
      PROVE  CellOf(r, k) \in Cells
  <2>1. k \in Nat /\ k <= Len(r.body)
    BY U8Assumption
  <2>2. k \div 2 \in Nat /\ k \div 2 <= k
    BY <2>1, ParityRange
  <2>3. r.start + k \div 2 \in Addresses /\ r.start + k \in Addresses
    <3>1. /\ r.start + k \div 2 \in r.start .. r.start + Len(r.body)
          /\ r.start + k \in r.start .. r.start + Len(r.body)
      BY <2>1, <2>2
    <3> QED  BY <3>1
  <2> QED  BY <2>3 DEF CellOf, Cells
<1>2. ASSUME NEW k \in 0 .. DataLen(r) - 1, NEW m \in 0 .. DataLen(r) - 1,
             CellOf(r, k) = CellOf(r, m)
      PROVE  k = m
  <2>1. k \in Nat /\ m \in Nat
    BY U8Assumption
  <2>2. /\ k % 2 \in {0, 1} /\ k = 2 * (k \div 2) + (k % 2) /\ k \div 2 \in Nat
        /\ m % 2 \in {0, 1} /\ m = 2 * (m \div 2) + (m % 2) /\ m \div 2 \in Nat
    BY <2>1, ParityRange
  <2>3. CASE r.mem = "flash"
    <3>1. k % 2 = m % 2 /\ r.start + k \div 2 = r.start + m \div 2
      BY <1>2, <2>2, <2>3 DEF CellOf
    <3> QED  BY <3>1, <2>2
  <2>4. CASE r.mem # "flash"
    BY <1>2, <2>1, <2>4 DEF CellOf
  <2> QED  BY <2>3, <2>4
<1> QED  BY <1>1, <1>2

\* A transfer that is echoed has executed its command; one that is not may
\* have.
LEMMA LoadResult ==
    ASSUME NEW op \in {"lo", "hi", "ee"}, NEW a \in Addresses, NEW b \in Byte,
           avr \in [pgm : BOOLEAN, mem : [Cells -> Byte]],
           NEW t \in LoadTransfer(<<op, a>>, MemoryCmd(op, a, b))
    PROVE  /\ t.avr \in [pgm : BOOLEAN, mem : [Cells -> Byte]]
           /\ t.avr.mem = avr.mem \/ t.avr.mem = [avr.mem EXCEPT ![<<op, a>>] = b]
           /\ CheckCmdStatus(MemoryCmd(op, a, b), t.answer) =>
                 t.avr.mem = [avr.mem EXCEPT ![<<op, a>>] = b]
<1>1. MemoryCmd(op, a, b)[4] = b /\ MemoryCmd(op, a, b)[1] = op /\ Len(MemoryCmd(op, a, b)) = 4
  BY DEF MemoryCmd
<1>2. CheckCmdStatus(MemoryCmd(op, a, b), t.answer) => t.answer[2] = op
  BY <1>1 DEF CheckCmdStatus
<1>3. Noise[2] # op
  BY DEF Noise
<1>4. \/ t.avr = [avr EXCEPT !.mem[<<op, a>>] = b]
      \/ t.avr = avr /\ t.answer = Noise
  BY <1>1 DEF LoadTransfer, Transfer
<1> QED  BY <1>2, <1>3, <1>4

LEMMA EchoLast ==
    ASSUME NEW cmd, NEW last
    PROVE  Echo(cmd, last)[4] = last
BY DEF Echo

LEMMA ReadResult ==
    ASSUME NEW op \in {"lo", "hi", "ee"}, NEW a \in Addresses,
           avr \in [pgm : BOOLEAN, mem : [Cells -> Byte]],
           NEW t \in ReadTransfer(<<op, a>>, MemoryCmd(op, a, 0)),
           CheckCmdStatus(MemoryCmd(op, a, 0), t.answer)
    PROVE  t.answer[4] = avr.mem[<<op, a>>] /\ t.answer[4] \in Byte
<1>1. MemoryCmd(op, a, 0)[1] = op /\ Len(MemoryCmd(op, a, 0)) = 4
  BY DEF MemoryCmd
<1>2. t.answer[2] = op
  BY <1>1 DEF CheckCmdStatus
<1>3. Noise[2] # op
  BY DEF Noise
<1>4. t.answer = Echo(MemoryCmd(op, a, 0), avr.mem[<<op, a>>])
  BY <1>2, <1>3 DEF ReadTransfer, Transfer
<1>5. <<op, a>> \in Cells
  BY DEF Cells
<1>6. t.answer[4] = avr.mem[<<op, a>>]
  BY <1>4, EchoLast
<1> QED  BY <1>5, <1>6
-----------------------------------------------------------------------------
AvrType == [pgm : BOOLEAN, mem : [Cells -> Byte]]
BufType == [0 .. MaxBody - 1 -> Byte \cup {Stale}]

LEMMA Initial == Init => IInv
<1> SUFFICES ASSUME Init PROVE IInv
  OBVIOUS
<1> USE DEF Init
<1>1. avr \in AvrType
  BY U8Assumption DEF AvrType, Byte
<1>2. buf \in BufType
  BY DEF BufType, NoBuf
<1>3. TypeOK
  <2>1. replies \in Replies
    BY DEF Replies
  <2>2. pc \in Steps /\ pc # "enable"
    BY DEF Steps
  <2>3. info \in BOOLEAN /\ spi \in BOOLEAN /\ line \in {"on", "off"}
    OBVIOUS
  <2>4. req \in Requests \cup {[kind |-> "none"]}
    OBVIOUS
  <2>5. i \in Nat /\ address \in Nat /\ answer_counter \in 0 .. MaxBody
    BY PacketAssumption
  <2> HIDE DEF Init
  <2> QED
    BY <1>1, <1>2, <2>1, <2>2, <2>3, <2>4, <2>5 DEF TypeOK, AvrType, BufType
<1> QED
  BY <1>3 DEF IInv, ServesInv, LoadInv, ReadInv, AckMeansLoaded, ReadFaithful,
              Replied, Fresh

\* A step that changes no memory and does not serve a request to program or
\* read memory leaves nothing to show but the types.
LEMMA Elsewhere ==
    ASSUME TypeOK', ServesInv', pc' \in {"idle", "reset", "cmd", "load", "prog", "read", "enable", "restart", "fault"},
           pc' = "idle" => /\ req'.kind \notin {"prog", "read"} \/ replies' \notin {<<"ack">>, <<"memory">>}
    PROVE  IInv'
BY DEF IInv, LoadInv, ReadInv, AckMeansLoaded, ReadFaithful, Replied

LEMMA ReceiveInv ==
    ASSUME IInv, NEW r \in Requests, Receive(r)
    PROVE  IInv'
<1> USE DEF IInv, Receive
<1>1. r.kind \in Fresh
  BY DEF Requests, Fresh
<1>2. buf' \in BufType
  BY DEF ResetLoop, NoBuf, BufType
<1>3. TypeOK'
  BY <1>1, <1>2, PacketAssumption DEF TypeOK, Replies, dev, ResetLoop, BufType, Steps, Fresh
<1>4. ServesInv'
  BY <1>1 DEF ServesInv, Fresh
<1> QED
  BY <1>1, <1>3, <1>4, Elsewhere DEF Fresh

LEMMA RestartInv ==
    ASSUME IInv, Restart
    PROVE  IInv'
<1> USE DEF IInv, Restart
<1>1. buf' \in BufType
  BY DEF ResetLoop, NoBuf, BufType
<1>2. TypeOK'
  <2>1. avr' \in AvrType
    BY DEF TypeOK, AvrType, ResetOff
  <2>2. replies' \in Replies
    BY DEF Replies
  <2>3. pc' \in Steps /\ pc' # "enable"
    BY DEF Steps
  <2>4. info' \in BOOLEAN /\ spi' \in BOOLEAN /\ line' \in {"on", "off"}
    OBVIOUS
  <2>5. req' \in Requests \cup {[kind |-> "none"]}
    OBVIOUS
  <2>6. i' \in Nat /\ address' \in Nat /\ answer_counter' \in 0 .. MaxBody
    BY PacketAssumption DEF ResetLoop
  <2> HIDE DEF Restart, IInv
  <2> QED
    BY <1>1, <2>1, <2>2, <2>3, <2>4, <2>5, <2>6 DEF TypeOK, AvrType, BufType
<1>3. ServesInv'
  BY DEF ServesInv, Fresh
<1> QED
  BY <1>2, <1>3, Elsewhere

LEMMA ResetInv ==
    ASSUME IInv, ProcessReset
    PROVE  IInv'
<1> USE DEF IInv, ProcessReset, Return
<1>1. TypeOK'
  BY DEF TypeOK, Replies, loop, Steps, ResetOff
<1>2. ServesInv'
  BY DEF ServesInv, Fresh
<1> QED
  BY <1>1, <1>2, Elsewhere

LEMMA CmdInv ==
    ASSUME IInv, ProcessCmd
    PROVE  IInv'
<1> USE DEF IInv, ProcessCmd, Return
<1>1. avr' = avr
  BY DEF Transfer
<1>2. replies' \in {<<>>, <<"answer">>, <<"error", "answer">>} /\ pc' = "idle" /\ UNCHANGED loop
  OBVIOUS
<1>3. TypeOK'
  BY <1>1, <1>2 DEF TypeOK, Replies, loop, dev, Steps
<1>4. ServesInv'
  BY <1>2 DEF ServesInv, Fresh
<1>5. req'.kind = "cmd"
  BY DEF ServesInv, Fresh
<1> QED
  BY <1>2, <1>3, <1>4, <1>5, Elsewhere

LEMMA LoadRequestInv ==
    ASSUME IInv, ProcessLoad
    PROVE  IInv'
<1> USE DEF IInv, ProcessLoad
<1>1. TypeOK'
  BY RetriesAssumption DEF TypeOK, Steps
<1>2. ServesInv'
  BY DEF ServesInv, Fresh
<1> QED
  BY <1>1, <1>2, Elsewhere

LEMMA EnableInv ==
    ASSUME IInv, EnablePgmMode
    PROVE  IInv'
<1> USE DEF IInv, EnablePgmMode
<1>1. PICK t \in Transfer(PgmEnable, TRUE, [avr EXCEPT !.pgm = TRUE], 0) : EnableTurn(t)
  OBVIOUS
<1>2. t.avr \in {avr, [avr EXCEPT !.pgm = TRUE]}
  BY <1>1 DEF Transfer
<1>3. t.avr \in AvrType /\ ResetOff \in AvrType
  BY <1>2 DEF TypeOK, AvrType, ResetOff
<1>4. /\ avr' \in AvrType /\ spi' \in {spi, FALSE}
      /\ UNCHANGED <<info, line, req, address, answer_counter, buf>>
      /\ \/ pc' = "idle" /\ replies' = <<"ack">> /\ i' = i
         \/ pc' = pc /\ replies' = replies /\ i' = i + 1 /\ i + 1 < Retries
  BY <1>1, <1>3 DEF EnableTurn, Return, loop
<1>5. TypeOK'
  <2> HIDE DEF EnablePgmMode
  <2>1. /\ replies' \in Replies /\ pc' \in Steps
        /\ pc' = "enable" => i' < Retries
    BY <1>4 DEF TypeOK, Replies, Steps
  <2>2. i' \in Nat
    BY <1>4 DEF TypeOK
  <2>3. info' \in BOOLEAN /\ spi' \in BOOLEAN /\ line' \in {"on", "off"}
    BY <1>4 DEF TypeOK
  <2> QED
    BY <1>4, <2>1, <2>2, <2>3 DEF TypeOK, AvrType
<1>6. ServesInv' /\ req'.kind = "load"
  BY <1>4 DEF ServesInv, Fresh
<1> QED
  BY <1>4, <1>5, <1>6, Elsewhere

LEMMA ProgInv ==
    ASSUME IInv, ProcessProg
    PROVE  IInv'
<1> USE DEF IInv, ProcessProg
<1>1. req \in Requests /\ req.kind = "prog" /\ replies = <<>>
  BY DEF TypeOK, ServesInv, Fresh
<1>2. DataLen(req) \in Nat /\ req.start \in Nat
  BY <1>1, ProgRequest, U8Assumption
<1>3. CASE ProgFailed
  <2>1. TypeOK'
    BY <1>3 DEF TypeOK, Replies, ProgFailed, loop, dev, Steps
  <2>2. ServesInv'
    BY <1>3 DEF ProgFailed, ServesInv, Fresh
  <2> QED
    BY <1>3, <2>1, <2>2, Elsewhere DEF ProgFailed
<1>4. CASE DataLen(req) = 0 /\ Return(<<"ack">>)
  <2>1. TypeOK'
    BY <1>4 DEF TypeOK, Replies, Return, loop, dev, Steps
  <2>2. ServesInv' /\ LoadInv' /\ ReadInv' /\ ReadFaithful'
    BY <1>1, <1>4 DEF Return, ServesInv, Fresh, LoadInv, ReadInv, ReadFaithful, Replied
  <2>3. AckMeansLoaded'
    BY <1>1, <1>4 DEF AckMeansLoaded, DataLen
  <2> QED
    BY <2>1, <2>2, <2>3
<1>5. CASE /\ DataLen(req) # 0 /\ ~ProgFailed
  <2>1. /\ pc' = IF ~info THEN "fault" ELSE IF req.mem = "flash" THEN "flash_lo" ELSE "eeprom"
        /\ i' = 0 /\ address' = req.start
        /\ UNCHANGED <<dev, avr, req, answer_counter, buf, replies>>
        /\ req.mem # "err" /\ (req.mem = "flash" => DataLen(req) % 2 = 0)
    <3> HIDE DEF ProgFailed, DataLen
    <3>1. DataLen(req) % 2 \in {0, 1}
      BY <1>2, ParityRange
    <3> QED
      BY <1>5, <3>1
  <2>2. TypeOK'
    BY <1>2, <2>1 DEF TypeOK, dev, Steps
  <2>3. ServesInv' /\ ReadInv' /\ AckMeansLoaded' /\ ReadFaithful'
    BY <1>1, <2>1 DEF ServesInv, Fresh, ReadInv, AckMeansLoaded, ReadFaithful, Replied
  <2>4. DataLen(req)' = DataLen(req)
    BY <2>1 DEF DataLen
  <2>5. req.mem = "flash" => DataLen(req) > 1
    BY <1>2, <1>5, <2>1
  <2>6. req.mem \in {"flash", "eeprom"}
    BY <1>1, <2>1, ProgRequest DEF Memories
  <2>7. LoadInv'
    BY <1>1, <1>2, <1>5, <2>1, <2>4, <2>5, <2>6 DEF LoadInv, Flash, LoadedTo
  <2> QED
    BY <2>2, <2>3, <2>7
<1> QED
  BY <1>3, <1>4, <1>5

\* The conclusion of a step that loads byte i, or i + 1, of a block.
LEMMA Loads ==
    ASSUME TypeOK, req.kind = "prog",
           NEW k \in Nat, k < DataLen(req), LoadedTo(k),
           NEW op \in {"lo", "hi", "ee"}, NEW a \in Addresses, CellOf(req, k) = <<op, a>>,
           NEW t \in LoadTransfer(<<op, a>>, MemoryCmd(op, a, req.body[k + 1])),
           avr' = t.avr, UNCHANGED req
    PROVE  /\ avr' \in AvrType
           /\ CheckCmdStatus(MemoryCmd(op, a, req.body[k + 1]), t.answer) =>
                 LoadedTo(k)' /\ LoadedTo(k + 1)'
<1>1. req \in Requests
  BY DEF TypeOK
<1>2. /\ req.body[k + 1] \in Byte /\ DataLen(req) \in Nat
      /\ \A m \in 0 .. DataLen(req) - 1 : CellOf(req, m) \in Cells
      /\ \A m, n \in 0 .. DataLen(req) - 1 : CellOf(req, m) = CellOf(req, n) => m = n
  <2>1. DataLen(req) \in Nat
    BY <1>1, ProgRequest, U8Assumption
  <2>2. \A m \in 0 .. DataLen(req) - 1 : req.body[m + 1] \in Byte
    BY <1>1, ProgRequest
  <2>3. k \in 0 .. DataLen(req) - 1
    BY <2>1
  <2>4. req.body[k + 1] \in Byte
    BY <2>2, <2>3, Zenon
  <2> QED
    BY <1>1, <2>1, <2>4, CellsOfBlock
<1>3. /\ t.avr \in AvrType
      /\ CheckCmdStatus(MemoryCmd(op, a, req.body[k + 1]), t.answer) =>
            t.avr.mem = [avr.mem EXCEPT ![<<op, a>>] = req.body[k + 1]]
  <2> DEFINE b == req.body[k + 1]
  <2>1. b \in Byte /\ avr \in [pgm : BOOLEAN, mem : [Cells -> Byte]]
    BY <1>2 DEF TypeOK
  <2>2. t \in LoadTransfer(<<op, a>>, MemoryCmd(op, a, b))
    OBVIOUS
  <2> HIDE DEF b
  <2>3. /\ t.avr \in [pgm : BOOLEAN, mem : [Cells -> Byte]]
        /\ CheckCmdStatus(MemoryCmd(op, a, b), t.answer) =>
              t.avr.mem = [avr.mem EXCEPT ![<<op, a>>] = b]
    BY <2>1, <2>2, LoadResult
  <2> QED
    BY <2>3 DEF b, AvrType
<1>4. ASSUME CheckCmdStatus(MemoryCmd(op, a, req.body[k + 1]), t.answer),
             NEW m \in 0 .. k
      PROVE  avr'.mem[CellOf(req, m)] = req.body[m + 1]
  <2>1. m \in 0 .. DataLen(req) - 1 /\ k \in 0 .. DataLen(req) - 1
    BY <1>2
  <2>2. avr'.mem = [avr.mem EXCEPT ![CellOf(req, k)] = req.body[k + 1]]
    BY <1>3, <1>4
  <2>3. avr.mem \in [Cells -> Byte] /\ CellOf(req, k) \in Cells /\ CellOf(req, m) \in Cells
    BY <1>2, <2>1 DEF TypeOK
  <2>4. CASE m = k
    BY <2>2, <2>3, <2>4
  <2>5. CASE m # k
    <3>1. CellOf(req, m) # CellOf(req, k)
      BY <1>2, <2>1, <2>5
    <3>2. m \in 0 .. k - 1
      BY <2>5
    <3> QED
      BY <2>2, <2>3, <3>1, <3>2 DEF LoadedTo
  <2> QED
    BY <2>4, <2>5
<1>5. ASSUME CheckCmdStatus(MemoryCmd(op, a, req.body[k + 1]), t.answer)
      PROVE  LoadedTo(k)' /\ LoadedTo(k + 1)'
  <2>1. \A m \in 0 .. k : avr'.mem[CellOf(req, m)] = req.body[m + 1]
    BY <1>4, <1>5
  <2>2. \A m \in 0 .. k : avr'.mem[CellOf(req', m)] = req'.body[m + 1]
    BY <2>1
  <2>3. (0 .. k - 1) \subseteq (0 .. k) /\ (0 .. (k + 1) - 1) \subseteq (0 .. k)
    OBVIOUS
  <2> QED
    BY <2>2, <2>3 DEF LoadedTo, CellOf
<1> QED
  BY <1>3, <1>5

LEMMA FailInv ==
    ASSUME IInv, ProgFailed, avr' \in AvrType, UNCHANGED <<dev, req>>
    PROVE  IInv'
<1>1. TypeOK'
  <2>1. replies' \in Replies /\ pc' \in Steps /\ pc' # "enable"
    BY DEF ProgFailed, Replies, Steps
  <2> QED
    BY <2>1 DEF IInv, TypeOK, AvrType, ProgFailed, loop, dev
<1>2. ServesInv'
  BY DEF ProgFailed, ServesInv, Fresh
<1> QED
  BY <1>1, <1>2, Elsewhere DEF ProgFailed

\* The end of a loop over a block whose bytes are all in place.
LEMMA AckInv ==
    ASSUME IInv, req.kind = "prog", Return(<<"ack">>), avr' \in AvrType, UNCHANGED <<dev, req>>,
           LoadedTo(DataLen(req))'
    PROVE  IInv'
<1>1. TypeOK'
  <2>1. replies' \in Replies /\ pc' \in Steps /\ pc' # "enable"
    BY DEF Return, Replies, Steps
  <2> QED
    BY <2>1 DEF IInv, TypeOK, AvrType, Return, loop, dev
<1>2. ServesInv' /\ LoadInv' /\ ReadInv' /\ ReadFaithful'
  BY DEF Return, ServesInv, Fresh, LoadInv, ReadInv, ReadFaithful, Replied
<1>3. AckMeansLoaded'
  BY DEF AckMeansLoaded, LoadedTo
<1> QED
  BY <1>1, <1>2, <1>3 DEF IInv

LEMMA LoadLowInv ==
    ASSUME IInv, LoadLow
    PROVE  IInv'
<1> DEFINE cmd == MemoryCmd("lo", address, req.body[i + 1])
<1>1. /\ req \in Requests /\ req.kind = "prog" /\ req.mem = "flash"
      /\ req.start <= address /\ Flash(i) /\ LoadedTo(i)
      /\ i + 1 < DataLen(req) /\ DataLen(req) % 2 = 0
      /\ i \in Nat /\ address \in Nat /\ replies = <<>>
  BY DEF IInv, TypeOK, ServesInv, LoadInv, LoadLow
<1>2. DataLen(req) \in Nat /\ req.start \in Nat
  BY <1>1, ProgRequest, U8Assumption
<1>3. CellOf(req, i) = <<"lo", address>>
  <2>1. address - req.start \in Nat /\ i = 2 * (address - req.start)
    BY <1>1, <1>2 DEF Flash
  <2>2. i % 2 = 0 /\ i \div 2 = address - req.start
    BY <2>1, Word
  <2> QED
    BY <1>1, <1>2, <2>2 DEF CellOf
<1>4. address \in Addresses
  <2>1. i \in 0 .. DataLen(req) - 1
    BY <1>1, <1>2
  <2>2. CellOf(req, i) \in Cells
    BY <1>1, <2>1, CellsOfBlock
  <2> QED
    BY <1>3, <2>2 DEF Cells
<1>5. PICK t \in LoadTransfer(<<"lo", address>>, cmd) :
         /\ avr' = t.avr /\ UNCHANGED <<dev, req>>
         /\ IF CheckCmdStatus(cmd, t.answer)
            THEN pc' = "flash_hi" /\ UNCHANGED <<loop, replies>>
            ELSE ProgFailed
  BY DEF LoadLow, LoadMemory
<1> PICK k \in Nat, a \in Addresses : k = i /\ a = address
  BY <1>1, <1>4
<1>6. avr' \in AvrType /\ (CheckCmdStatus(cmd, t.answer) => LoadedTo(k)' /\ LoadedTo(k + 1)')
  <2>1. TypeOK /\ k < DataLen(req) /\ req' = req /\ LoadedTo(k) /\ CellOf(req, k) = <<"lo", a>>
    BY <1>1, <1>2, <1>3, <1>5 DEF IInv
  <2>2. t \in LoadTransfer(<<"lo", a>>, MemoryCmd("lo", a, req.body[k + 1])) /\ avr' = t.avr
    BY <1>5
  <2> QED
    BY <1>1, <2>1, <2>2, Loads
<1>7. CASE CheckCmdStatus(cmd, t.answer)
  <2>1. pc' = "flash_hi" /\ UNCHANGED <<dev, req, i, address, answer_counter, buf, replies>>
    BY <1>5, <1>7 DEF loop
  <2>2. TypeOK'
    <3>1. pc' \in Steps /\ pc' # "enable"
      BY <2>1 DEF Steps
    <3> QED
      BY <1>6, <2>1, <3>1 DEF IInv, TypeOK, AvrType, dev
  <2>3. DataLen(req)' = DataLen(req)
    BY <2>1 DEF DataLen
  <2>4. LoadedTo(i + 1)'
    BY <1>6, <1>7, <2>1 DEF LoadedTo
  <2>5. LoadedTo(i)'
    BY <1>6, <1>7, <2>1 DEF LoadedTo
  <2>7. LoadInv'
    BY <1>1, <2>1, <2>3, <2>4, <2>5 DEF LoadInv, Flash
  <2>8. ServesInv' /\ ReadInv' /\ AckMeansLoaded' /\ ReadFaithful'
    BY <1>1, <2>1 DEF ServesInv, Fresh, ReadInv, AckMeansLoaded, ReadFaithful, Replied
  <2> QED
    BY <2>2, <2>7, <2>8 DEF IInv
<1>8. CASE ~CheckCmdStatus(cmd, t.answer)
  BY <1>5, <1>6, <1>8, FailInv
<1> QED
  BY <1>7, <1>8

LEMMA LoadHighInv ==
    ASSUME IInv, LoadHigh
    PROVE  IInv'
<1> DEFINE cmd == MemoryCmd("hi", address, req.body[i + 2])
<1>1. /\ req \in Requests /\ req.kind = "prog" /\ req.mem = "flash"
      /\ req.start <= address /\ Flash(i) /\ LoadedTo(i + 1)
      /\ i + 1 < DataLen(req) /\ DataLen(req) % 2 = 0
      /\ i \in Nat /\ address \in Nat /\ replies = <<>>
  BY DEF IInv, TypeOK, ServesInv, LoadInv, LoadHigh
<1>2. DataLen(req) \in Nat /\ req.start \in Nat /\ DataLen(req) < U8
  BY <1>1, ProgRequest, U8Assumption
<1>3. CellOf(req, i + 1) = <<"hi", address>>
  <2>1. address - req.start \in Nat /\ i + 1 = 2 * (address - req.start) + 1
    BY <1>1, <1>2 DEF Flash
  <2>2. (i + 1) % 2 = 1 /\ (i + 1) \div 2 = address - req.start
    BY <2>1, Word
  <2> QED
    BY <1>1, <1>2, <2>2 DEF CellOf
<1>4. address \in Addresses
  <2>1. i + 1 \in 0 .. DataLen(req) - 1
    BY <1>1, <1>2
  <2>2. CellOf(req, i + 1) \in Cells
    BY <1>1, <2>1, CellsOfBlock
  <2> QED
    BY <1>3, <2>2 DEF Cells
<1>5. PICK t \in LoadTransfer(<<"hi", address>>, cmd) :
         /\ avr' = t.avr /\ UNCHANGED <<dev, req>>
         /\ IF CheckCmdStatus(cmd, t.answer) THEN Turn(2, "flash_lo") ELSE ProgFailed
  BY DEF LoadHigh, LoadMemory
<1> PICK k \in Nat, a \in Addresses : k = i + 1 /\ a = address
  BY <1>1, <1>4
<1>6. avr' \in AvrType /\ (CheckCmdStatus(cmd, t.answer) => LoadedTo(k + 1)')
  <2>1. TypeOK /\ k < DataLen(req) /\ req' = req /\ LoadedTo(k) /\ CellOf(req, k) = <<"hi", a>>
    BY <1>1, <1>2, <1>3, <1>5 DEF IInv
  <2>2. k + 1 = i + 2
    BY <1>1
  <2>3. t \in LoadTransfer(<<"hi", a>>, MemoryCmd("hi", a, req.body[k + 1])) /\ avr' = t.avr
    BY <1>5, <2>2
  <2>4. cmd = MemoryCmd("hi", a, req.body[k + 1])
    BY <2>2
  <2> HIDE DEF cmd
  <2> QED
    BY <1>1, <2>1, <2>3, <2>4, Loads
<1>7. CASE CheckCmdStatus(cmd, t.answer) /\ i + 2 < DataLen(req)
  <2>1. /\ i' = i + 2 /\ address' = address + 1 /\ pc' = "flash_lo"
        /\ UNCHANGED <<dev, req, answer_counter, buf, replies>>
    <3>1. i + 2 \in Nat /\ (i + 2) % U8 = i + 2
      BY <1>1, <1>2, <1>7, ModSmall, U8Assumption
    <3> QED
      BY <1>5, <1>7, <3>1 DEF Turn
  <2>2. TypeOK'
    <3>1. pc' \in Steps /\ pc' # "enable"
      BY <2>1 DEF Steps
    <3>2. i' \in Nat /\ address' \in Nat
      BY <1>1, <2>1
    <3> QED
      BY <1>6, <2>1, <3>1, <3>2 DEF IInv, TypeOK, AvrType, dev
  <2>3. DataLen(req)' = DataLen(req) /\ k + 1 = i'
    BY <1>1, <2>1 DEF DataLen
  <2>4. LoadedTo(i)'
    BY <1>6, <1>7, <2>3 DEF LoadedTo
  <2>5. i' + 1 < DataLen(req)
    <3>1. i = 2 * (address - req.start) /\ address - req.start \in Nat
      BY <1>1, <1>2 DEF Flash
    <3>2. 2 * (address - req.start) + 3 < DataLen(req)
      BY <1>1, <1>2, <1>7, <3>1, EvenBound
    <3>3. i + 3 < DataLen(req) /\ i' = i + 2
      BY <2>1, <3>1, <3>2
    <3> HIDE DEF cmd
    <3> QED
      BY <1>1, <1>2, <3>3
  <2>6. Flash(i)' /\ req.start <= address'
    BY <1>1, <1>2, <2>1 DEF Flash
  <2>7. LoadInv'
    BY <1>1, <2>1, <2>3, <2>4, <2>5, <2>6 DEF LoadInv, IInv, LoadHigh
  <2>8. ServesInv' /\ ReadInv' /\ AckMeansLoaded' /\ ReadFaithful'
    BY <1>1, <2>1 DEF ServesInv, Fresh, ReadInv, AckMeansLoaded, ReadFaithful, Replied
  <2> QED
    BY <2>2, <2>7, <2>8 DEF IInv
<1>8. CASE CheckCmdStatus(cmd, t.answer) /\ ~(i + 2 < DataLen(req))
  <2>1. k + 1 = DataLen(req)
    BY <1>1, <1>2, <1>8
  <2>2. ~((i + 2) % U8 < DataLen(req))
    <3>1. i + 2 \in Nat /\ i + 2 < U8
      BY <1>1, <1>2, <1>8, U8Assumption
    <3>2. (i + 2) % U8 = i + 2
      BY <3>1, ModSmall, U8Assumption
    <3> QED
      BY <1>8, <3>2
  <2>3. Return(<<"ack">>)
    BY <1>5, <1>8, <2>2 DEF Turn
  <2>4. DataLen(req)' = DataLen(req)
    BY <1>5 DEF DataLen
  <2>5. LoadedTo(DataLen(req))'
    BY <1>6, <1>8, <2>1, <2>4 DEF LoadedTo
  <2> QED
    BY <1>1, <1>5, <1>6, <2>3, <2>5, AckInv
<1>9. CASE ~CheckCmdStatus(cmd, t.answer)
  BY <1>5, <1>6, <1>9, FailInv
<1> QED
  BY <1>7, <1>8, <1>9

LEMMA WriteEepromInv ==
    ASSUME IInv, WriteEeprom
    PROVE  IInv'
<1> DEFINE cmd == MemoryCmd("ee", address, req.body[i + 1])
<1>1. /\ req \in Requests /\ req.kind = "prog" /\ req.mem = "eeprom"
      /\ address = req.start + i /\ i < DataLen(req) /\ LoadedTo(i)
      /\ i \in Nat /\ address \in Nat /\ replies = <<>>
  BY DEF IInv, TypeOK, ServesInv, LoadInv, WriteEeprom
<1>2. DataLen(req) \in Nat /\ req.start \in Nat /\ DataLen(req) < U8
  BY <1>1, ProgRequest, U8Assumption
<1>3. CellOf(req, i) = <<"ee", address>>
  BY <1>1 DEF CellOf
<1>4. address \in Addresses
  <2>1. i \in 0 .. DataLen(req) - 1
    BY <1>1, <1>2
  <2>2. CellOf(req, i) \in Cells
    BY <1>1, <2>1, CellsOfBlock
  <2> QED
    BY <1>3, <2>2 DEF Cells
<1>5. PICK t \in LoadTransfer(<<"ee", address>>, cmd) :
         /\ avr' = t.avr /\ UNCHANGED <<dev, req>>
         /\ IF CheckCmdStatus(cmd, t.answer) THEN Turn(1, "eeprom") ELSE ProgFailed
  BY DEF WriteEeprom, LoadMemory
<1> PICK k \in Nat, a \in Addresses : k = i /\ a = address
  BY <1>1, <1>4
<1>6. avr' \in AvrType /\ (CheckCmdStatus(cmd, t.answer) => LoadedTo(k + 1)')
  <2>1. TypeOK /\ k < DataLen(req) /\ req' = req /\ LoadedTo(k) /\ CellOf(req, k) = <<"ee", a>>
    BY <1>1, <1>2, <1>3, <1>5 DEF IInv
  <2>2. t \in LoadTransfer(<<"ee", a>>, MemoryCmd("ee", a, req.body[k + 1])) /\ avr' = t.avr
    BY <1>5
  <2> QED
    BY <1>1, <2>1, <2>2, Loads
<1>7. CASE CheckCmdStatus(cmd, t.answer) /\ i + 1 < DataLen(req)
  <2>1. /\ i' = i + 1 /\ address' = address + 1 /\ pc' = "eeprom"
        /\ UNCHANGED <<dev, req, answer_counter, buf, replies>>
    <3>1. i + 1 \in Nat /\ (i + 1) % U8 = i + 1
      <4>1. i + 1 \in Nat /\ i + 1 < U8
        BY <1>1, <1>2, <1>7, U8Assumption
      <4> QED
        BY <4>1, ModSmall, U8Assumption
    <3> QED
      BY <1>5, <1>7, <3>1 DEF Turn
  <2>2. TypeOK'
    <3>1. pc' \in Steps /\ pc' # "enable"
      BY <2>1 DEF Steps
    <3>2. i' \in Nat /\ address' \in Nat
      BY <1>1, <2>1
    <3> QED
      BY <1>6, <2>1, <3>1, <3>2 DEF IInv, TypeOK, AvrType, dev
  <2>3. DataLen(req)' = DataLen(req) /\ k + 1 = i'
    BY <1>1, <2>1 DEF DataLen
  <2>4. LoadedTo(i)'
    BY <1>6, <1>7, <2>3 DEF LoadedTo
  <2>5. address' = req.start + i'
    BY <1>1, <1>2, <2>1
  <2>6. LoadInv'
    BY <1>1, <1>7, <2>1, <2>3, <2>4, <2>5 DEF LoadInv
  <2>7. ServesInv' /\ ReadInv' /\ AckMeansLoaded' /\ ReadFaithful'
    BY <1>1, <2>1 DEF ServesInv, Fresh, ReadInv, AckMeansLoaded, ReadFaithful, Replied
  <2> QED
    BY <2>2, <2>6, <2>7 DEF IInv
<1>8. CASE CheckCmdStatus(cmd, t.answer) /\ ~(i + 1 < DataLen(req))
  <2>1. k + 1 = DataLen(req)
    BY <1>1, <1>2, <1>8
  <2>2. ~((i + 1) % U8 < DataLen(req))
    <3>1. i + 1 \in Nat /\ i + 1 < U8
      BY <1>1, <1>2, <1>8, U8Assumption
    <3>2. (i + 1) % U8 = i + 1
      BY <3>1, ModSmall, U8Assumption
    <3> QED
      BY <1>8, <3>2
  <2>3. Return(<<"ack">>)
    BY <1>5, <1>8, <2>2 DEF Turn
  <2>4. DataLen(req)' = DataLen(req)
    BY <1>5 DEF DataLen
  <2>5. LoadedTo(DataLen(req))'
    BY <1>6, <1>8, <2>1, <2>4 DEF LoadedTo
  <2> QED
    BY <1>1, <1>5, <1>6, <2>3, <2>5, AckInv
<1>9. CASE ~CheckCmdStatus(cmd, t.answer)
  BY <1>5, <1>6, <1>9, FailInv
<1> QED
  BY <1>7, <1>8, <1>9

\* What a read may end with: its packet is sent if its size is acceptable.
Errors == {<<>>, <<"error">>, <<"error", "memory">>}

LEMMA ReadReplies == MemoryReply \in Errors \cup {<<"memory">>}
BY DEF MemoryReply, Errors

LEMMA ReadFailures ==
    ASSUME ReadFailed
    PROVE  pc' = "idle" /\ replies' \in {<<"error">>, <<"error", "memory">>} /\ UNCHANGED loop
BY DEF ReadFailed, Return

\* ReadFailed, and the end of a read.
LEMMA ReadEndInv ==
    ASSUME IInv, req.kind = "read", pc' = "idle", UNCHANGED <<dev, avr, req>>,
           i' \in Nat, address' \in Nat, answer_counter' \in 0 .. MaxBody, buf' \in BufType,
           \/ replies' \in Errors
           \/ /\ replies' = <<"memory">>
              /\ (req.mem = "flash" => req.count <= U8) => ReadTo(req.count)'
    PROVE  IInv'
<1>1. TypeOK'
  <2>1. replies' \in Replies /\ pc' \in Steps /\ pc' # "enable"
    BY DEF Replies, Steps, Errors
  <2> QED
    BY <2>1 DEF IInv, TypeOK, BufType, dev
<1>2. ServesInv' /\ LoadInv' /\ ReadInv' /\ AckMeansLoaded'
  BY DEF ServesInv, Fresh, LoadInv, ReadInv, AckMeansLoaded, Replied
<1>3. ReadFaithful'
  <2>1. CASE replies' \in Errors
    <3>1. <<>> # <<"memory">> /\ <<"error">> # <<"memory">> /\ <<"error", "memory">> # <<"memory">>
      <4>1. <<"error">>[1] = "error" /\ <<"memory">>[1] = "memory"
        OBVIOUS
      <4>2. Len(<<>>) = 0 /\ Len(<<"memory">>) = 1 /\ Len(<<"error", "memory">>) = 2
        OBVIOUS
      <4> QED
        BY <4>1, <4>2
    <3>2. replies' # <<"memory">>
      BY <2>1, <3>1 DEF Errors
    <3> QED
      BY <3>2 DEF ReadFaithful, Replied
  <2>2. CASE (req.mem = "flash" => req.count <= U8) => ReadTo(req.count)'
    BY <2>2 DEF ReadFaithful, ReadTo
  <2> QED
    BY <2>1, <2>2
<1> QED
  BY <1>1, <1>2, <1>3 DEF IInv

LEMMA ReadRequestInv ==
    ASSUME IInv, ProcessRead
    PROVE  IInv'
<1>1. /\ req \in Requests /\ req.kind = "read" /\ replies = <<>>
      /\ req.count \in Nat /\ req.start \in Nat /\ req.mem \in Memories
  <2>1. req \in Requests /\ req.kind = "read" /\ replies = <<>>
    BY DEF IInv, TypeOK, ServesInv, Fresh, ProcessRead
  <2> QED
    BY <2>1, ReadRequest, PacketAssumption
<1>2. i \in Nat /\ address \in Nat /\ answer_counter \in 0 .. MaxBody /\ buf \in BufType
  BY DEF IInv, TypeOK, BufType
<1>3. CASE \/ ~req.fits /\ Return(<<>>)
           \/ ReadFailed
  <2>1. pc' = "idle" /\ replies' \in Errors /\ UNCHANGED <<i, address, answer_counter, buf>>
    BY <1>3, ReadFailures DEF Return, Errors, loop
  <2> QED
    BY <1>1, <1>2, <2>1, ReadEndInv DEF ProcessRead
<1>4. CASE req.count = 0 /\ Return(<<"memory">>)
  <2>1. ReadTo(req.count)'
    BY <1>1, <1>4 DEF ReadTo, ProcessRead
  <2>2. /\ pc' = "idle" /\ replies' = <<"memory">>
        /\ UNCHANGED <<dev, avr, req, i, address, answer_counter, buf>>
    BY <1>4 DEF ProcessRead, Return, loop
  <2> QED
    BY <1>1, <1>2, <2>1, <2>2, ReadEndInv
<1>5. CASE /\ req.mem # "err" /\ (req.count # 0 \/ ~info)
           /\ pc' = IF ~info THEN "fault" ELSE IF req.mem = "flash" THEN "read_hi" ELSE "read_ee"
           /\ i' = 0 /\ address' = req.start /\ answer_counter' = 0
           /\ UNCHANGED <<dev, avr, req, buf, replies>>
  <2>1. TypeOK'
    <3>1. pc' \in Steps /\ pc' # "enable"
      BY <1>5 DEF Steps
    <3> QED
      BY <1>1, <1>5, <3>1, PacketAssumption DEF IInv, TypeOK, dev
  <2>2. ServesInv' /\ LoadInv' /\ AckMeansLoaded' /\ ReadFaithful'
    BY <1>1, <1>5 DEF ServesInv, Fresh, LoadInv, AckMeansLoaded, ReadFaithful, Replied
  <2>3. req.mem \in {"flash", "eeprom"}
    BY <1>1, <1>5 DEF Memories
  <2>4. ReadTo(i)'
    BY <1>5 DEF ReadTo
  <2>5. ReadInv'
    <3>1. ASSUME info PROVE answer_counter' < U8 /\ 0 < req.count /\ Flash(i)'
      BY <1>1, <1>5, <3>1, U8Assumption DEF Flash
    <3> QED
      BY <1>1, <1>5, <2>3, <2>4, <3>1 DEF ReadInv
  <2> QED
    BY <2>1, <2>2, <2>5 DEF IInv
<1>6. /\ req.fits /\ req.mem # "err"
      /\ ~(req.count = 0 /\ (info \/ req.mem = "flash"))
      => req.count # 0 \/ ~info
  OBVIOUS
<1> QED
  BY <1>3, <1>4, <1>5, <1>6 DEF ProcessRead

\* The conclusion of a step that reads byte n of a range.
LEMMA Reads ==
    ASSUME TypeOK, UNCHANGED <<avr, req>>,
           NEW n \in Nat, n < MaxBody, ReadTo(n),
           NEW op \in {"lo", "hi", "ee"}, NEW a \in Addresses, SourceOf(req, n) = <<op, a>>,
           NEW t \in ReadTransfer(<<op, a>>, MemoryCmd(op, a, 0)),
           CheckCmdStatus(MemoryCmd(op, a, 0), t.answer),
           buf' = [buf EXCEPT ![n] = t.answer[4]]
    PROVE  ReadTo(n + 1)'
<1>1. t.answer[4] = avr.mem[<<op, a>>]
  BY ReadResult DEF TypeOK
<1>2. buf' = [buf EXCEPT ![n] = avr.mem[SourceOf(req, n)]] /\ n \in DOMAIN buf
  BY <1>1, PacketAssumption DEF TypeOK
<1>3. ASSUME NEW k \in 0 .. n
      PROVE  buf'[k] = avr.mem[SourceOf(req, k)]
  <2>1. k \in DOMAIN buf
    BY PacketAssumption DEF TypeOK
  <2> QED
    BY <1>2, <2>1 DEF ReadTo
<1> QED
  BY <1>3 DEF ReadTo

LEMMA BufReads ==
    ASSUME buf \in BufType, NEW n, NEW t, t.answer[4] \in Byte,
           buf' = [buf EXCEPT ![n] = t.answer[4]]
    PROVE  buf' \in BufType
BY DEF BufType

\* The address of a byte of a range is one of the AVR's.
LEMMA SourceOfFlash ==
    ASSUME NEW r \in Requests, r.kind = "read", r.mem = "flash",
           NEW x \in Nat, 2 * x < r.count
    PROVE  /\ SourceOf(r, 2 * x) = <<"hi", r.start + x>>
           /\ SourceOf(r, 2 * x + 1) = <<"lo", r.start + x>>
           /\ r.start + x \in Addresses
<1>1. r.start \in Nat /\ r.count \in Nat /\ r.start .. r.start + r.count \div 2 \subseteq Addresses
  BY ReadRequest
<1>2. /\ (2 * x) % 2 = 0 /\ (2 * x) \div 2 = x
      /\ (2 * x + 1) % 2 = 1 /\ (2 * x + 1) \div 2 = x
  BY Word
<1>3. /\ SourceOf(r, 2 * x) = <<"hi", r.start + x>>
      /\ SourceOf(r, 2 * x + 1) = <<"lo", r.start + x>>
  BY <1>2 DEF SourceOf
<1>4. r.start + x \in r.start .. r.start + r.count \div 2
  BY <1>1
<1> QED
  BY <1>1, <1>3, <1>4

LEMMA CounterRange ==
    ASSUME answer_counter \in Nat
    PROVE  Incremented \in Nat /\ Incremented < U8
<1> PICK n \in Nat : n = answer_counter + 1
  OBVIOUS
<1>1. n % U8 \in 0 .. U8 - 1
  BY ModRange, U8Assumption
<1> QED
  BY <1>1, U8Assumption DEF Incremented

LEMMA ReadHighInv ==
    ASSUME IInv, ReadHigh
    PROVE  IInv'
<1> DEFINE cmd == MemoryCmd("hi", address, 0)
<1>1. /\ req \in Requests /\ req.kind = "read" /\ req.mem = "flash"
      /\ req.start <= address /\ Flash(i) /\ i < req.count
      /\ answer_counter < U8 /\ (req.count <= U8 => answer_counter = i /\ ReadTo(i))
      /\ i \in Nat /\ address \in Nat /\ replies = <<>> /\ pc = "read_hi"
      /\ answer_counter \in 0 .. MaxBody /\ buf \in BufType /\ avr \in AvrType /\ TypeOK
  BY DEF IInv, TypeOK, ServesInv, ReadInv, ReadHigh, BufType, AvrType
<1>2. req.count \in Nat /\ req.start \in Nat
  BY <1>1, ReadRequest
<1>3. address - req.start \in Nat /\ i = 2 * (address - req.start)
  BY <1>1, <1>2 DEF Flash
<1>4. /\ SourceOf(req, i) = <<"hi", address>>
      /\ address \in Addresses /\ answer_counter < MaxBody
  <2>1. 2 * (address - req.start) < req.count
    BY <1>1, <1>3
  <2>2. req.start + (address - req.start) = address
    BY <1>1, <1>2
  <2> QED
    BY <1>1, <1>3, <2>1, <2>2, SourceOfFlash, PacketAssumption, U8Assumption
<1>5. PICK t \in ReadTransfer(<<"hi", address>>, cmd) :
         /\ UNCHANGED <<dev, avr, req>>
         /\ IF CheckCmdStatus(cmd, t.answer)
            THEN /\ buf' = [buf EXCEPT ![answer_counter] = t.answer[4]]
                 /\ pc' = "read_lo" /\ answer_counter' = Incremented
                 /\ UNCHANGED <<i, address, replies>>
            ELSE ReadFailed
  BY <1>4 DEF ReadHigh, ReadByte, Store
<1>6. CASE ~CheckCmdStatus(cmd, t.answer)
  <2>1. ReadFailed
    BY <1>5, <1>6
  <2> QED
    BY <1>1, <1>5, <2>1, ReadFailures, ReadEndInv DEF Errors, loop
<1>7. CASE CheckCmdStatus(cmd, t.answer)
  <2>1. answer_counter' \in Nat /\ answer_counter' < U8 /\ answer_counter' \in 0 .. MaxBody
    BY <1>1, <1>4, <1>5, <1>7, CounterRange, PacketAssumption, U8Assumption
  <2>2. t.answer[4] \in Byte
    <3>1. PICK a \in Addresses : a = address
      BY <1>4
    <3>2. /\ t \in ReadTransfer(<<"hi", a>>, MemoryCmd("hi", a, 0))
          /\ CheckCmdStatus(MemoryCmd("hi", a, 0), t.answer)
      BY <1>5, <1>7, <3>1 DEF cmd
    <3> QED
      BY <1>1, <3>2, ReadResult DEF AvrType
  <2>3. buf' \in BufType
    BY <1>1, <1>5, <1>7, <2>2, BufReads
  <2>4. TypeOK'
    <3>1. pc' \in Steps /\ pc' # "enable"
      BY <1>5, <1>7 DEF Steps
    <3> QED
      BY <1>5, <1>7, <2>1, <2>3, <3>1 DEF IInv, TypeOK, BufType, dev
  <2>5. ASSUME req.count <= U8
        PROVE  answer_counter' = i + 1 /\ ReadTo(i + 1)'
    <3>1. i + 1 < U8
      <4>1. 2 * (address - req.start) < U8
        BY <1>1, <1>2, <1>3, <2>5, U8Assumption, PacketAssumption
      <4> QED
        BY <1>3, <4>1, EvenBelow, U8Assumption
    <3>2. (i + 1) % U8 = i + 1
      BY <1>1, <3>1, ModSmall, U8Assumption
    <3>3. answer_counter' = i + 1
      BY <1>1, <1>5, <1>7, <2>5, <3>2 DEF Incremented
    <3> PICK n \in Nat, a \in Addresses : n = i /\ a = address
      BY <1>1, <1>4
    <3>4. /\ n < MaxBody /\ ReadTo(n) /\ SourceOf(req, n) = <<"hi", a>>
          /\ t \in ReadTransfer(<<"hi", a>>, MemoryCmd("hi", a, 0))
          /\ CheckCmdStatus(MemoryCmd("hi", a, 0), t.answer)
          /\ buf' = [buf EXCEPT ![n] = t.answer[4]]
      BY <1>1, <1>4, <1>5, <1>7, <2>5, PacketAssumption
    <3>5. ReadTo(n + 1)'
      BY <1>1, <1>5, <3>4, Reads
    <3> QED
      BY <1>5, <1>7, <3>3, <3>5 DEF ReadTo
  <2>6. ReadInv'
    BY <1>1, <1>5, <1>7, <2>1, <2>5 DEF ReadInv, Flash, ReadTo
  <2>7. ServesInv' /\ LoadInv' /\ AckMeansLoaded' /\ ReadFaithful'
    BY <1>1, <1>5, <1>7 DEF ServesInv, Fresh, LoadInv, AckMeansLoaded, ReadFaithful, Replied
  <2> QED
    BY <2>4, <2>6, <2>7 DEF IInv
<1> QED
  BY <1>6, <1>7

LEMMA ReadLowInv ==
    ASSUME IInv, ReadLow
    PROVE  IInv'
<1> DEFINE cmd == MemoryCmd("lo", address, 0)
<1>1. /\ req \in Requests /\ req.kind = "read" /\ req.mem = "flash"
      /\ req.start <= address /\ Flash(i) /\ i < req.count
      /\ answer_counter < U8 /\ (req.count <= U8 => answer_counter = i + 1 /\ ReadTo(i + 1))
      /\ i \in Nat /\ address \in Nat /\ replies = <<>> /\ pc = "read_lo"
      /\ answer_counter \in 0 .. MaxBody /\ buf \in BufType /\ avr \in AvrType /\ TypeOK
  BY DEF IInv, TypeOK, ServesInv, ReadInv, ReadLow, BufType, AvrType
<1>2. req.count \in Nat /\ req.start \in Nat
  BY <1>1, ReadRequest
<1>3. address - req.start \in Nat /\ i = 2 * (address - req.start)
  BY <1>1, <1>2 DEF Flash
<1>4. /\ SourceOf(req, i + 1) = <<"lo", address>>
      /\ address \in Addresses /\ answer_counter < MaxBody
  <2>1. 2 * (address - req.start) < req.count
    BY <1>1, <1>3
  <2>2. req.start + (address - req.start) = address
    BY <1>1, <1>2
  <2> QED
    BY <1>1, <1>3, <2>1, <2>2, SourceOfFlash, PacketAssumption, U8Assumption
<1>5. PICK t \in ReadTransfer(<<"lo", address>>, cmd) :
         /\ UNCHANGED <<dev, avr, req>>
         /\ IF CheckCmdStatus(cmd, t.answer)
            THEN /\ buf' = [buf EXCEPT ![answer_counter] = t.answer[4]]
                 /\ ReadTurn(2, "read_hi", Incremented)
            ELSE ReadFailed
  BY <1>4 DEF ReadLow, ReadByte, Store
<1>6. CASE ~CheckCmdStatus(cmd, t.answer)
  <2>1. ReadFailed
    BY <1>5, <1>6
  <2> QED
    BY <1>1, <1>5, <2>1, ReadFailures, ReadEndInv DEF Errors, loop
<1>7. CASE CheckCmdStatus(cmd, t.answer)
  <2>1. /\ i' = i + 2 /\ address' = address + 1 /\ answer_counter' = Incremented
        /\ buf' = [buf EXCEPT ![answer_counter] = t.answer[4]]
        /\ UNCHANGED <<dev, avr, req>>
        /\ IF i + 2 < req.count
           THEN pc' = "read_hi" /\ UNCHANGED replies
           ELSE pc' = "idle" /\ replies' \in Errors \cup {<<"memory">>}
    BY <1>5, <1>7, ReadReplies DEF ReadTurn
  <2>2. /\ answer_counter' \in Nat /\ answer_counter' < U8 /\ answer_counter' \in 0 .. MaxBody
        /\ i' \in Nat /\ address' \in Nat
    BY <1>1, <1>4, <2>1, CounterRange, PacketAssumption, U8Assumption
  <2>3. t.answer[4] \in Byte
    <3>1. PICK a \in Addresses : a = address
      BY <1>4
    <3>2. /\ t \in ReadTransfer(<<"lo", a>>, MemoryCmd("lo", a, 0))
          /\ CheckCmdStatus(MemoryCmd("lo", a, 0), t.answer)
      BY <1>5, <1>7, <3>1 DEF cmd
    <3> QED
      BY <1>1, <3>2, ReadResult DEF AvrType
  <2>4. buf' \in BufType
    BY <1>1, <2>1, <2>3, BufReads
  <2> PICK m \in Nat : m = i + 2
    BY <1>1
  <2>6. req.count <= U8 => ReadTo(m)'
    <3> SUFFICES ASSUME req.count <= U8 PROVE ReadTo(m)'
      OBVIOUS
    <3> PICK n \in Nat, a \in Addresses : n = i + 1 /\ a = address
      BY <1>1, <1>4
    <3>1. /\ n < MaxBody /\ ReadTo(n) /\ SourceOf(req, n) = <<"lo", a>>
          /\ t \in ReadTransfer(<<"lo", a>>, MemoryCmd("lo", a, 0))
          /\ CheckCmdStatus(MemoryCmd("lo", a, 0), t.answer)
          /\ buf' = [buf EXCEPT ![n] = t.answer[4]]
      BY <1>1, <1>4, <1>5, <1>7, <2>1, PacketAssumption
    <3>2. ReadTo(n + 1)'
      BY <1>1, <2>1, <3>1, Reads
    <3>3. n + 1 = m
      BY <1>1
    <3> QED
      BY <3>2, <3>3
  <2>7. CASE i + 2 < req.count
    <3>1. TypeOK'
      <4>1. pc' \in Steps /\ pc' # "enable"
        BY <2>1, <2>7 DEF Steps
      <4> QED
        BY <2>1, <2>2, <2>4, <2>7, <4>1 DEF IInv, TypeOK, BufType, dev
    <3>2. req.count <= U8 => answer_counter' = i' /\ ReadTo(i)'
      <4> SUFFICES ASSUME req.count <= U8 PROVE answer_counter' = i' /\ ReadTo(i)'
        OBVIOUS
      <4>1. (i + 2) % U8 = i + 2
        <5>1. i + 2 \in Nat /\ i + 2 < U8
          BY <1>1, <1>2, <2>7, U8Assumption, PacketAssumption
        <5> QED
          BY <5>1, ModSmall, U8Assumption
      <4>2. answer_counter + 1 = i + 2
        BY <1>1
      <4>3. answer_counter' = i'
        BY <2>1, <4>1, <4>2 DEF Incremented
      <4> QED
        BY <2>1, <2>6, <4>3 DEF ReadTo
    <3>3. Flash(i)' /\ req.start <= address'
      BY <1>1, <1>2, <2>1 DEF Flash
    <3>4. ReadInv'
      BY <1>1, <2>1, <2>2, <2>7, <3>2, <3>3 DEF ReadInv
    <3>5. ServesInv' /\ LoadInv' /\ AckMeansLoaded' /\ ReadFaithful'
      BY <1>1, <2>1, <2>7 DEF ServesInv, Fresh, LoadInv, AckMeansLoaded, ReadFaithful, Replied
    <3> QED
      BY <3>1, <3>4, <3>5 DEF IInv
  <2>8. CASE ~(i + 2 < req.count)
    <3>1. req.count <= U8 => ReadTo(req.count)'
      <4>1. req.count \in Nat /\ req.count <= m /\ req' = req
        BY <1>1, <1>2, <2>1, <2>8, PacketAssumption
      <4> QED
        BY <2>6, <4>1 DEF ReadTo
    <3> QED
      BY <1>1, <2>1, <2>2, <2>4, <2>8, <3>1, ReadEndInv
  <2> QED
    BY <2>7, <2>8
<1> QED
  BY <1>6, <1>7

LEMMA ReadEepromInv ==
    ASSUME IInv, ReadEeprom
    PROVE  IInv'
<1> DEFINE cmd == MemoryCmd("ee", address, 0)
<1>1. /\ req \in Requests /\ req.kind = "read" /\ req.mem = "eeprom"
      /\ address = req.start + i /\ i < req.count
      /\ answer_counter = i /\ ReadTo(i)
      /\ i \in Nat /\ address \in Nat /\ replies = <<>> /\ pc = "read_ee"
      /\ buf \in BufType /\ avr \in AvrType /\ TypeOK
  BY DEF IInv, TypeOK, ServesInv, ReadInv, ReadEeprom, BufType, AvrType
<1>2. /\ req.count \in Nat /\ req.start \in Nat
      /\ req.start .. req.start + req.count \subseteq Addresses
  BY <1>1, ReadRequest
<1>3. SourceOf(req, i) = <<"ee", address>> /\ address \in Addresses
  <2>1. address \in req.start .. req.start + req.count
    BY <1>1, <1>2
  <2> QED
    BY <1>1, <1>2, <2>1 DEF SourceOf
<1>4. PICK t \in ReadTransfer(<<"ee", address>>, cmd) :
         /\ UNCHANGED <<dev, avr, req>>
         /\ IF CheckCmdStatus(cmd, t.answer)
            THEN Store(t.answer[4], ReadTurn(1, "read_ee", answer_counter + 1))
            ELSE ReadFailed
  BY DEF ReadEeprom, ReadByte
<1>5. CASE ~CheckCmdStatus(cmd, t.answer)
  <2>1. ReadFailed /\ answer_counter \in 0 .. MaxBody
    BY <1>1, <1>4, <1>5 DEF TypeOK
  <2> QED
    BY <1>1, <1>4, <2>1, ReadFailures, ReadEndInv DEF Errors, loop
<1>7. CASE CheckCmdStatus(cmd, t.answer) /\ ~(i < MaxBody)
  <2>1. pc' = "fault" /\ UNCHANGED <<dev, avr, req, loop, replies>>
    BY <1>1, <1>4, <1>7 DEF Store
  <2>2. TypeOK'
    BY <1>1, <2>1 DEF TypeOK, dev, loop, Steps
  <2>3. ServesInv'
    BY <2>1 DEF ServesInv, Fresh
  <2> QED
    BY <2>1, <2>2, <2>3, Elsewhere
<1>6. CASE CheckCmdStatus(cmd, t.answer) /\ i < MaxBody
  <2>1. /\ i' = i + 1 /\ address' = address + 1 /\ answer_counter' = i + 1
        /\ buf' = [buf EXCEPT ![i] = t.answer[4]]
        /\ UNCHANGED <<dev, avr, req>>
        /\ IF i + 1 < req.count
           THEN pc' = "read_ee" /\ UNCHANGED replies
           ELSE pc' = "idle" /\ replies' \in Errors \cup {<<"memory">>}
    BY <1>1, <1>4, <1>6, ReadReplies DEF ReadTurn, Store
  <2>2. i' \in Nat /\ address' \in Nat /\ answer_counter' \in 0 .. MaxBody
    BY <1>1, <1>6, <2>1, PacketAssumption
  <2> PICK n \in Nat, a \in Addresses : n = i /\ a = address
    BY <1>1, <1>3
  <2>3. /\ t \in ReadTransfer(<<"ee", a>>, MemoryCmd("ee", a, 0))
        /\ CheckCmdStatus(MemoryCmd("ee", a, 0), t.answer)
    BY <1>4, <1>6
  <2>4. t.answer[4] \in Byte
    BY <1>1, <2>3, ReadResult DEF AvrType
  <2>5. buf' \in BufType
    BY <1>1, <2>1, <2>4, BufReads
  <2>6. ReadTo(n + 1)'
    <3>1. /\ n < MaxBody /\ ReadTo(n) /\ SourceOf(req, n) = <<"ee", a>>
          /\ buf' = [buf EXCEPT ![n] = t.answer[4]]
      BY <1>1, <1>3, <1>6, <2>1
    <3> QED
      BY <1>1, <2>1, <2>3, <3>1, Reads
  <2>7. CASE i + 1 < req.count
    <3>1. TypeOK'
      <4>1. pc' \in Steps /\ pc' # "enable"
        BY <2>1, <2>7 DEF Steps
      <4> QED
        BY <2>1, <2>2, <2>5, <2>7, <4>1 DEF IInv, TypeOK, BufType, dev
    <3>2. address' = req.start + i' /\ ReadTo(i)'
      BY <1>1, <1>2, <2>1, <2>6 DEF ReadTo
    <3>3. ReadInv'
      BY <1>1, <2>1, <2>7, <3>2 DEF ReadInv
    <3>4. ServesInv' /\ LoadInv' /\ AckMeansLoaded' /\ ReadFaithful'
      BY <1>1, <2>1, <2>7 DEF ServesInv, Fresh, LoadInv, AckMeansLoaded, ReadFaithful, Replied
    <3> QED
      BY <3>1, <3>3, <3>4 DEF IInv
  <2>8. CASE ~(i + 1 < req.count)
    <3>1. ReadTo(req.count)'
      <4>1. req.count \in Nat /\ req.count <= n + 1 /\ req' = req
        BY <1>1, <1>2, <2>1, <2>8, PacketAssumption
      <4> QED
        BY <2>6, <4>1 DEF ReadTo
    <3> QED
      BY <1>1, <2>1, <2>2, <2>5, <2>8, <3>1, ReadEndInv
  <2> QED
    BY <2>7, <2>8
<1> QED
  BY <1>5, <1>6, <1>7
-----------------------------------------------------------------------------
\* Every step of the session preserves the invariant.
LEMMA Step == IInv /\ [Next]_vars => IInv'
<1> SUFFICES ASSUME IInv, [Next]_vars PROVE IInv'
  OBVIOUS
<1>1. CASE Task
  BY <1>1, ResetInv, CmdInv, LoadRequestInv, EnableInv, ProgInv, LoadLowInv, LoadHighInv,
     WriteEepromInv, ReadRequestInv, ReadHighInv, ReadLowInv, ReadEepromInv DEF Task
<1>2. CASE Restart
  BY <1>2, RestartInv
<1>3. CASE \E r \in Requests : Receive(r)
  BY <1>3, ReceiveInv
<1>4. CASE UNCHANGED vars
  <2>1. UNCHANGED <<info, spi, line, avr, pc, req, i, address, answer_counter, buf, replies>>
    BY <1>4 DEF vars, dev, loop
  <2>2. TypeOK'
    BY <2>1 DEF IInv, TypeOK
  <2>3. ServesInv' /\ LoadInv' /\ ReadInv'
    BY <2>1 DEF IInv, ServesInv, LoadInv, ReadInv, LoadedTo, ReadTo, Flash, DataLen
  <2>4. AckMeansLoaded' /\ ReadFaithful'
    BY <2>1 DEF IInv, AckMeansLoaded, ReadFaithful, Replied, DataLen
  <2> QED
    BY <2>2, <2>3, <2>4 DEF IInv
<1> QED
  BY <1>1, <1>2, <1>3, <1>4 DEF Next

LEMMA Invariance == Spec => []IInv
<1> QED
  BY Initial, Step, PTL DEF Spec

\* The session keeps the types of its state, however many bytes a client asks
\* for: the counters of the reading loops index inside packet_data, or one past
\* its end, where Store stops, and the enable loop stays inside its retries.
THEOREM TypeCorrect == Spec => []TypeOK
<1>1. IInv => TypeOK
  BY DEF IInv
<1> QED
  BY <1>1, Invariance, PTL

\* An acknowledged block is in the AVR's memory, for every block, size of a
\* byte and loss of transfers (process_program_memory_packet).
THEOREM AcksAreLoaded == Spec => []AckMeansLoaded
<1>1. IInv => AckMeansLoaded
  BY DEF IInv
<1> QED
  BY <1>1, Invariance, PTL

\* A read that succeeds has the AVR's memory in its buf, for every range of
\* EEPROM, of any length, and every range of flash that a _u8 can count
\* (programmer_read_memory).
THEOREM ReadsAreFaithful == Spec => []ReadFaithful
<1>1. IInv => ReadFaithful
  BY DEF IInv
<1> QED
  BY <1>1, Invariance, PTL
-----------------------------------------------------------------------------
(* What a step may write *)

\* One step's part of WritesInRange.
ChangesNamed ==
    \A c \in Cells : avr'.mem[c] # avr.mem[c] =>
        /\ req.kind = "prog"
        /\ \E k \in 0 .. DataLen(req) - 1 :
              c = CellOf(req, k) /\ avr'.mem[c] = req.body[k + 1]

\* The byte that each loop is about to write, and the cell it belongs to.
LEMMA NextByte ==
    ASSUME IInv, pc \in {"flash_lo", "flash_hi", "eeprom"}
    PROVE  \E k \in 0 .. DataLen(req) - 1, op \in {"lo", "hi", "ee"}, a \in Addresses :
              /\ a = address /\ CellOf(req, k) = <<op, a>>
              /\ pc = "flash_lo" => k = i /\ op = "lo"
              /\ pc = "flash_hi" => k = i + 1 /\ op = "hi"
              /\ pc = "eeprom" => k = i /\ op = "ee"
<1> DEFINE place == IF pc = "flash_hi" THEN i + 1 ELSE i
           name  == IF pc = "flash_lo" THEN "lo" ELSE IF pc = "flash_hi" THEN "hi" ELSE "ee"
<1>1. /\ req \in Requests /\ req.kind = "prog" /\ i \in Nat /\ address \in Nat
      /\ pc = "eeprom" => req.mem = "eeprom" /\ address = req.start + i /\ i < DataLen(req)
      /\ pc # "eeprom" => /\ req.mem = "flash" /\ req.start <= address
                          /\ Flash(i) /\ i + 1 < DataLen(req)
  BY DEF IInv, TypeOK, LoadInv
<1>2. DataLen(req) \in Nat /\ req.start \in Nat
  BY <1>1, ProgRequest, U8Assumption
<1>3. place \in 0 .. DataLen(req) - 1
  BY <1>1, <1>2
<1>4. CellOf(req, place) = <<name, address>>
  <2>1. CASE pc = "eeprom"
    BY <1>1, <2>1 DEF CellOf
  <2>2. CASE pc # "eeprom"
    <3>1. address - req.start \in Nat /\ i = 2 * (address - req.start)
      BY <1>1, <1>2, <2>2 DEF Flash
    <3>2. /\ i % 2 = 0 /\ i \div 2 = address - req.start
          /\ (i + 1) % 2 = 1 /\ (i + 1) \div 2 = address - req.start
      BY <3>1, Word
    <3> QED
      BY <1>1, <1>2, <2>2, <3>2 DEF CellOf
  <2> QED
    BY <2>1, <2>2
<1>5. address \in Addresses
  <2>1. CellOf(req, place) \in Cells
    BY <1>1, <1>3, CellsOfBlock
  <2> QED
    BY <1>4, <2>1 DEF Cells
<1> QED
  BY <1>3, <1>4, <1>5

LEMMA LoadChanges ==
    ASSUME NEW k \in 0 .. DataLen(req) - 1, NEW op \in {"lo", "hi", "ee"}, NEW a \in Addresses,
           avr \in AvrType, req \in Requests, req.kind = "prog",
           CellOf(req, k) = <<op, a>>,
           NEW t \in LoadTransfer(<<op, a>>, MemoryCmd(op, a, req.body[k + 1])),
           avr' = t.avr
    PROVE  ChangesNamed
<1>1. req.body[k + 1] \in Byte
  BY ProgRequest
<1>2. avr'.mem = avr.mem \/ avr'.mem = [avr.mem EXCEPT ![<<op, a>>] = req.body[k + 1]]
  <2>1. avr \in [pgm : BOOLEAN, mem : [Cells -> Byte]]
    BY DEF AvrType
  <2>2. MemoryCmd(op, a, req.body[k + 1])[4] = req.body[k + 1]
    BY DEF MemoryCmd
  <2>3. t.avr = avr \/ t.avr = [avr EXCEPT !.mem[<<op, a>>] = req.body[k + 1]]
    BY <2>2 DEF LoadTransfer, Transfer
  <2> QED
    BY <2>1, <2>3
<1>3. avr.mem \in [Cells -> Byte] /\ <<op, a>> \in Cells
  BY DEF AvrType, Cells
<1>4. ASSUME NEW c \in Cells, avr'.mem[c] # avr.mem[c]
      PROVE  c = CellOf(req, k) /\ avr'.mem[c] = req.body[k + 1]
  BY <1>2, <1>3, <1>4
<1> QED
  BY <1>4 DEF ChangesNamed

\* No other step writes to the AVR's memories at all.
LEMMA WritesNothing ==
    ASSUME avr \in AvrType,
           \/ ProcessReset \/ ProcessCmd \/ ProcessLoad \/ EnablePgmMode
           \/ ProcessProg \/ ProcessRead \/ ReadHigh \/ ReadLow \/ ReadEeprom
           \/ Restart \/ (\E r \in Requests : Receive(r)) \/ UNCHANGED vars
    PROVE  avr'.mem = avr.mem
<1>0. ResetOff.mem = avr.mem /\ [avr EXCEPT !.pgm = TRUE].mem = avr.mem
  BY DEF ResetOff, AvrType
<1>1. ProcessReset \/ Restart => avr'.mem = avr.mem
  BY <1>0 DEF ProcessReset, Restart
<1>2. ProcessCmd => avr' = avr
  BY DEF ProcessCmd, Transfer
<1>3. EnablePgmMode => avr'.mem = avr.mem
  <2> SUFFICES ASSUME EnablePgmMode PROVE avr'.mem = avr.mem
    OBVIOUS
  <2>1. PICK t \in Transfer(PgmEnable, TRUE, [avr EXCEPT !.pgm = TRUE], 0) : EnableTurn(t)
    BY DEF EnablePgmMode
  <2>2. t.avr \in {avr, [avr EXCEPT !.pgm = TRUE]}
    BY <2>1 DEF Transfer
  <2> QED
    BY <1>0, <2>1, <2>2 DEF EnableTurn
<1>4. ProcessLoad \/ ProcessProg \/ ProcessRead \/ UNCHANGED vars => avr' = avr
  BY DEF ProcessLoad, ProcessProg, ProcessRead, vars
<1>5. ReadHigh \/ ReadLow \/ ReadEeprom => avr' = avr
  BY DEF ReadHigh, ReadLow, ReadEeprom, ReadByte
<1>6. (\E r \in Requests : Receive(r)) => avr' = avr
  BY DEF Receive
<1> QED
  BY <1>1, <1>2, <1>3, <1>4, <1>5, <1>6

LEMMA LoadsChange ==
    ASSUME IInv, LoadLow \/ LoadHigh \/ WriteEeprom
    PROVE  ChangesNamed
<1>1. pc \in {"flash_lo", "flash_hi", "eeprom"}
  BY DEF LoadLow, LoadHigh, WriteEeprom
<1>2. req \in Requests /\ req.kind = "prog" /\ avr \in AvrType
  BY <1>1 DEF IInv, TypeOK, LoadInv, AvrType
<1>3. PICK k \in 0 .. DataLen(req) - 1, op \in {"lo", "hi", "ee"}, a \in Addresses :
         /\ a = address /\ CellOf(req, k) = <<op, a>>
         /\ pc = "flash_lo" => k = i /\ op = "lo"
         /\ pc = "flash_hi" => k = i + 1 /\ op = "hi"
         /\ pc = "eeprom" => k = i /\ op = "ee"
  BY <1>1, NextByte
<1>4. i \in Nat
  BY DEF IInv, TypeOK
<1>5. PICK t \in LoadTransfer(<<op, a>>, MemoryCmd(op, a, req.body[k + 1])) : avr' = t.avr
  <2>1. CASE LoadLow
    BY <1>3, <2>1 DEF LoadLow, LoadMemory
  <2>2. CASE LoadHigh
    <3>1. k + 1 = i + 2 /\ op = "hi"
      BY <1>3, <1>4, <2>2 DEF LoadHigh
    <3> QED
      BY <1>3, <2>2, <3>1 DEF LoadHigh, LoadMemory
  <2>3. CASE WriteEeprom
    BY <1>3, <2>3 DEF WriteEeprom, LoadMemory
  <2> QED
    BY <2>1, <2>2, <2>3
<1> QED
  BY <1>2, <1>3, <1>5, LoadChanges

\* The device changes no cell of the AVR's memories but those its request
\* names, to what the request says, also in a block that fails half way
\* (program_flash_memory, program_eeprom_memory).
THEOREM WritesStayInRange == Spec => WritesInRange
<1>1. IInv /\ [Next]_vars => ChangesNamed
  <2> SUFFICES ASSUME IInv, [Next]_vars PROVE ChangesNamed
    OBVIOUS
  <2>1. LoadLow \/ LoadHigh \/ WriteEeprom \/ avr'.mem = avr.mem
    <3>1. avr \in AvrType
      BY DEF IInv, TypeOK, AvrType
    <3> QED
      BY <3>1, WritesNothing DEF Next, Task
  <2>2. CASE avr'.mem = avr.mem
    BY <2>2 DEF ChangesNamed
  <2> QED
    BY <2>1, <2>2, LoadsChange
<1>2. ChangesNamed =>
        [\A c \in Cells : avr'.mem[c] # avr.mem[c] =>
              /\ req.kind = "prog"
              /\ \E k \in 0 .. DataLen(req) - 1 :
                    c = CellOf(req, k) /\ avr'.mem[c] = req.body[k + 1]]_vars
  BY DEF ChangesNamed
<1> QED
  BY <1>1, <1>2, Invariance, PTL DEF Spec, WritesInRange
-----------------------------------------------------------------------------
(* The loops end *)

\* One step's part of TransfersRunOut.
RunsOut == {pc, pc'} \subseteq Loops => 0 < TransfersLeft' /\ TransfersLeft' < TransfersLeft

\* A counter of a block does not wrap on the way to its length.
LEMMA TurnCounts ==
    ASSUME NEW n \in Nat, NEW step \in {1, 2}, NEW len \in Nat,
           n + step <= len, len < U8, (n + step) % U8 < len
    PROVE  (n + step) % U8 = n + step /\ n + step < len
<1>1. n + step \in Nat /\ n + step < U8
  BY U8Assumption
<1>2. (n + step) % U8 = n + step
  BY <1>1, ModSmall, U8Assumption
<1> QED  BY <1>2

LEMMA EnableRunsOut ==
    ASSUME IInv, EnablePgmMode, pc' \in Loops
    PROVE  0 < TransfersLeft' /\ TransfersLeft' < TransfersLeft
<1>1. PICK t \in Transfer(PgmEnable, TRUE, [avr EXCEPT !.pgm = TRUE], 0) : EnableTurn(t)
  BY DEF EnablePgmMode
<1>2. pc = "enable" /\ i \in Nat /\ Retries \in Nat /\ i < Retries
  BY RetriesAssumption DEF EnablePgmMode, IInv, TypeOK
<1>3. pc' = pc /\ i' = i + 1 /\ i + 1 < Retries
  BY <1>1 DEF EnableTurn, Return, Loops
<1>4. TransfersLeft = Retries - i /\ TransfersLeft' = Retries - i'
  BY <1>2, <1>3 DEF TransfersLeft
<1> QED
  BY <1>2, <1>3, <1>4

LEMMA LoadsRunOut ==
    ASSUME IInv, LoadLow \/ LoadHigh \/ WriteEeprom, pc' \in Loops
    PROVE  0 < TransfersLeft' /\ TransfersLeft' < TransfersLeft
<1>1. /\ req \in Requests /\ req.kind = "prog" /\ i \in Nat /\ req' = req
      /\ pc \in {"flash_lo", "flash_hi"} => i + 1 < DataLen(req)
      /\ pc = "eeprom" => i < DataLen(req)
  BY DEF IInv, TypeOK, LoadInv, LoadLow, LoadHigh, WriteEeprom, LoadMemory
<1>2. DataLen(req) \in Nat /\ DataLen(req) < U8
  BY <1>1, ProgRequest, U8Assumption
<1>3. DataLen(req)' = DataLen(req)
  BY <1>1 DEF DataLen
<1>4. CASE LoadLow
  <2>1. pc = "flash_lo" /\ pc' = "flash_hi" /\ i' = i
    BY <1>4 DEF LoadLow, LoadMemory, ProgFailed, Loops, loop
  <2>2. TransfersLeft = DataLen(req) - i /\ TransfersLeft' = DataLen(req) - i - 1
    BY <1>3, <2>1 DEF TransfersLeft
  <2> QED
    BY <1>1, <1>2, <2>1, <2>2
<1>5. CASE LoadHigh
  <2>1. /\ pc = "flash_hi" /\ pc' = "flash_lo"
        /\ i' = (i + 2) % U8 /\ (i + 2) % U8 < DataLen(req)
    BY <1>5 DEF LoadHigh, LoadMemory, Turn, Return, ProgFailed, Loops
  <2>2. i' = i + 2 /\ i + 2 < DataLen(req)
    <3>1. i + 2 <= DataLen(req)
      BY <1>1, <1>2, <2>1
    <3> QED
      BY <1>1, <1>2, <2>1, <3>1, TurnCounts
  <2>3. TransfersLeft = DataLen(req) - i - 1 /\ TransfersLeft' = DataLen(req) - i'
    BY <1>3, <2>1 DEF TransfersLeft
  <2> QED
    BY <1>1, <1>2, <2>2, <2>3
<1>6. CASE WriteEeprom
  <2>1. /\ pc = "eeprom" /\ pc' = "eeprom"
        /\ i' = (i + 1) % U8 /\ (i + 1) % U8 < DataLen(req)
    BY <1>6 DEF WriteEeprom, LoadMemory, Turn, Return, ProgFailed, Loops
  <2>2. i' = i + 1 /\ i + 1 < DataLen(req)
    <3>1. i + 1 <= DataLen(req)
      BY <1>1, <1>2, <2>1
    <3> QED
      BY <1>1, <1>2, <2>1, <3>1, TurnCounts
  <2>3. TransfersLeft = DataLen(req) - i /\ TransfersLeft' = DataLen(req) - i'
    BY <1>3, <2>1 DEF TransfersLeft
  <2> QED
    BY <1>1, <1>2, <2>2, <2>3
<1> QED
  BY <1>4, <1>5, <1>6

LEMMA ReadsRunOut ==
    ASSUME IInv, ReadHigh \/ ReadLow \/ ReadEeprom, pc' \in Loops
    PROVE  0 < TransfersLeft' /\ TransfersLeft' < TransfersLeft
<1>1. /\ req \in Requests /\ req.kind = "read" /\ i \in Nat /\ req' = req /\ i < req.count
  BY DEF IInv, TypeOK, ReadInv, ReadHigh, ReadLow, ReadEeprom, ReadByte, Store
<1>2. req.count \in Nat
  BY <1>1, ReadRequest, PacketAssumption
<1>3. CASE ReadHigh
  <2>1. pc = "read_hi" /\ pc' = "read_lo" /\ i' = i
    BY <1>3 DEF ReadHigh, ReadByte, Store, ReadFailed, Return, Loops
  <2>2. TransfersLeft = req.count - i + 1 /\ TransfersLeft' = req.count - i
    BY <1>1, <2>1 DEF TransfersLeft
  <2> QED
    BY <1>1, <1>2, <2>2
<1>4. CASE ReadLow
  <2>1. pc = "read_lo" /\ pc' = "read_hi" /\ i' = i + 2 /\ i + 2 < req.count
    BY <1>4 DEF ReadLow, ReadByte, Store, ReadTurn, ReadFailed, Return, Loops
  <2>2. TransfersLeft = req.count - i /\ TransfersLeft' = req.count - (i + 2) + 1
    BY <1>1, <2>1 DEF TransfersLeft
  <2> QED
    BY <1>1, <1>2, <2>1, <2>2
<1>5. CASE ReadEeprom
  <2>1. pc = "read_ee" /\ pc' = "read_ee" /\ i' = i + 1 /\ i + 1 < req.count
    BY <1>5 DEF ReadEeprom, ReadByte, Store, ReadTurn, ReadFailed, Return, Loops
  <2>2. TransfersLeft = req.count - i /\ TransfersLeft' = req.count - (i + 1)
    BY <1>1, <2>1 DEF TransfersLeft
  <2> QED
    BY <1>1, <1>2, <2>1, <2>2
<1> QED
  BY <1>3, <1>4, <1>5

\* No loop of a handler goes on for ever, for any size of a byte, block, range
\* and number of retries: each of its transfers is one of finitely many, though
\* its counters wrap (program_flash_memory, _read_flash_memory).
THEOREM LoopsEnd == Spec => TransfersRunOut
<1>1. ASSUME IInv, Next PROVE RunsOut
  <2>1. CASE Restart \/ \E r \in Requests : Receive(r)
    BY <2>1 DEF Restart, Receive, RunsOut, Loops
  <2>2. CASE ProcessReset \/ ProcessCmd \/ ProcessLoad \/ ProcessProg \/ ProcessRead
    BY <2>2 DEF ProcessReset, ProcessCmd, ProcessLoad, ProcessProg, ProcessRead, RunsOut, Loops
  <2> QED
    BY <1>1, <2>1, <2>2, EnableRunsOut, LoadsRunOut, ReadsRunOut DEF Next, Task, RunsOut
<1>2. IInv /\ [Next]_vars => [RunsOut]_vars
  BY <1>1
<1>3. [RunsOut]_vars =>
          [{pc, pc'} \subseteq Loops =>
               0 < TransfersLeft' /\ TransfersLeft' < TransfersLeft]_vars
  BY DEF RunsOut
<1> QED
  BY <1>2, <1>3, Invariance, PTL DEF Spec, TransfersRunOut
-----------------------------------------------------------------------------
(* The handlers implement Serving *)

Serves == [Service!Next]_(Service!vars)

\* What State is: "busy" between the start of a handler and its end.
LEMMA States ==
    /\ pc = "idle" => State = "idle"
    /\ pc \in {"restart", "fault"} => State = "down"
    /\ pc \notin {"idle", "restart", "fault"} => State = "busy"
BY DEF State

LEMMA StatesNext ==
    /\ pc' = "idle" => State' = "idle"
    /\ pc' \in {"restart", "fault"} => State' = "down"
    /\ pc' \notin {"idle", "restart", "fault"} => State' = "busy"
BY DEF State

\* The four ways in which a step of a handler counts.
LEMMA Stutters ==
    ASSUME pc \notin {"idle", "restart", "fault"}, pc' \notin {"idle", "restart", "fault"},
           UNCHANGED <<req, replies>>
    PROVE  Serves
<1>1. State = "busy" /\ State' = "busy"
  BY States, StatesNext
<1> QED
  BY <1>1 DEF Serves, Service!vars

LEMMA Answers ==
    ASSUME pc \notin {"idle", "restart", "fault"}, pc' = "idle", UNCHANGED req,
           replies' \in Service!Outcomes(req.kind)
    PROVE  Serves
<1>1. State = "busy" /\ State' = "idle"
  BY States, StatesNext
<1> QED
  BY <1>1 DEF Serves, Service!Next, Service!Answer

LEMMA Fails ==
    ASSUME pc \notin {"idle", "restart", "fault"}, pc' \in {"restart", "fault"}, UNCHANGED req,
           \/ req.kind = "prog" /\ replies' = <<"error">>
           \/ req.kind \in {"prog", "read"} /\ UNCHANGED replies
    PROVE  Serves
<1>1. State = "busy" /\ State' = "down"
  BY States, StatesNext
<1> QED
  BY <1>1 DEF Serves, Service!Next, Service!Fail

LEMMA Takes ==
    ASSUME NEW r \in Requests, Receive(r)
    PROVE  Serves
<1>1. r.kind \in {"load", "reset", "cmd", "prog", "read"}
  BY DEF Requests
<1>2. State = "idle" /\ State' = "busy" /\ req'.kind = r.kind /\ replies' = <<>>
  BY <1>1, States, StatesNext DEF Receive
<1>3. Service!Take(r.kind)
  BY <1>2 DEF Service!Take
<1> QED
  BY <1>1, <1>3 DEF Serves, Service!Next

LEMMA Restarts ==
    ASSUME Restart
    PROVE  Serves
<1>1. State' = "idle" /\ req'.kind = "none" /\ replies' = <<>>
  BY StatesNext DEF Restart
<1> QED
  BY <1>1 DEF Serves, Service!Next, Service!Restart

\* The handlers of one step.
LEMMA ServeAtOnce ==
    ASSUME IInv, ProcessReset \/ ProcessCmd \/ ProcessLoad
    PROVE  Serves
<1>1. CASE ProcessReset
  <2>1. pc = "reset" /\ pc' = "idle" /\ UNCHANGED req /\ replies' = <<>> /\ req.kind = "reset"
    BY <1>1 DEF IInv, ServesInv, Fresh, ProcessReset, Return
  <2> QED
    BY <2>1, Answers DEF Service!Outcomes
<1>2. CASE ProcessCmd
  <2>1. /\ pc = "cmd" /\ pc' = "idle" /\ UNCHANGED req /\ req.kind = "cmd"
        /\ replies' \in {<<>>, <<"answer">>, <<"error", "answer">>}
    BY <1>2 DEF IInv, ServesInv, Fresh, ProcessCmd, Return
  <2> QED
    BY <2>1, Answers DEF Service!Outcomes
<1>3. CASE ProcessLoad
  <2>1. pc = "load" /\ pc' = "enable" /\ UNCHANGED <<req, replies>>
    BY <1>3 DEF ProcessLoad
  <2> QED
    BY <2>1, Stutters
<1> QED
  BY <1>1, <1>2, <1>3

LEMMA ServeEnable ==
    ASSUME IInv, EnablePgmMode
    PROVE  Serves
<1>1. /\ pc = "enable" /\ req.kind = "load" /\ UNCHANGED req
      /\ \/ pc' = "idle" /\ replies' = <<"ack">>
         \/ pc' = "enable" /\ UNCHANGED replies
  BY DEF IInv, ServesInv, EnablePgmMode, EnableTurn, Return
<1>2. <<"ack">> \in Service!Outcomes("load")
  BY DEF Service!Outcomes
<1> QED
  BY <1>1, <1>2, Answers, Stutters

\* A step of a request to program memory.
LEMMA ServeProg ==
    ASSUME IInv, ProcessProg \/ LoadLow \/ LoadHigh \/ WriteEeprom
    PROVE  Serves
<1>1. pc \in {"prog", "flash_lo", "flash_hi", "eeprom"} /\ req.kind = "prog"
  BY DEF IInv, ServesInv, LoadInv, Fresh, ProcessProg, LoadLow, LoadHigh, WriteEeprom
<1>2. /\ UNCHANGED req
      /\ \/ pc' = "restart" /\ replies' = <<"error">>
         \/ pc' = "idle" /\ replies' = <<"ack">>
         \/ pc' \in {"fault", "flash_lo", "flash_hi", "eeprom"} /\ UNCHANGED replies
  <2>1. CASE ProcessProg
    BY <2>1 DEF ProcessProg, ProgFailed, Return
  <2>2. CASE LoadLow
    BY <2>2 DEF LoadLow, LoadMemory, ProgFailed
  <2>3. CASE LoadHigh
    BY <2>3 DEF LoadHigh, LoadMemory, ProgFailed, Turn, Return
  <2>4. CASE WriteEeprom
    BY <2>4 DEF WriteEeprom, LoadMemory, ProgFailed, Turn, Return
  <2> QED
    BY <2>1, <2>2, <2>3, <2>4
<1>3. <<"ack">> \in Service!Outcomes("prog")
  BY DEF Service!Outcomes
<1> QED
  BY <1>1, <1>2, <1>3, Answers, Stutters, Fails

\* A step of a request to read memory.
LEMMA ServeRead ==
    ASSUME IInv, ProcessRead \/ ReadHigh \/ ReadLow \/ ReadEeprom
    PROVE  Serves
<1>1. pc \in {"read", "read_hi", "read_lo", "read_ee"} /\ req.kind = "read"
  BY DEF IInv, ServesInv, ReadInv, Fresh, ProcessRead, ReadHigh, ReadLow, ReadEeprom
<1>2. /\ UNCHANGED req
      /\ \/ pc' = "idle" /\ replies' \in Errors \cup {<<"memory">>}
         \/ pc' \in {"fault", "read_hi", "read_lo", "read_ee"} /\ UNCHANGED replies
  <2>1. CASE ProcessRead
    BY <2>1, ReadFailures DEF ProcessRead, Return, Errors
  <2>2. CASE ReadHigh
    BY <2>2, ReadFailures DEF ReadHigh, ReadByte, Store, Errors, loop
  <2>3. CASE ReadLow
    BY <2>3, ReadFailures, ReadReplies DEF ReadLow, ReadByte, Store, ReadTurn, Errors, loop
  <2>4. CASE ReadEeprom
    BY <2>4, ReadFailures, ReadReplies DEF ReadEeprom, ReadByte, Store, ReadTurn, Errors, loop
  <2> QED
    BY <2>1, <2>2, <2>3, <2>4
<1>3. Errors \cup {<<"memory">>} = Service!Outcomes("read")
  BY DEF Service!Outcomes, Errors
<1> QED
  BY <1>1, <1>2, <1>3, Answers, Stutters, Fails

(***************************************************************************)
(* The handlers of controller.c implement Serving: whatever transfers are  *)
(* lost and whenever power is, a request has one of the answers of its     *)
(* kind, once, and only one to program memory is given up with an error.   *)
(***************************************************************************)
THEOREM ServiceImplemented == Spec => ServiceSpec
<1>1. Init => Service!Init
  <2> SUFFICES ASSUME Init PROVE Service!Init
    OBVIOUS
  <2>1. State = "idle" /\ req.kind = "none" /\ replies = <<>>
    BY States DEF Init
  <2> QED
    BY <2>1 DEF Service!Init
<1>2. IInv /\ [Next]_vars => [Service!Next]_(Service!vars)
  <2> SUFFICES ASSUME IInv, [Next]_vars PROVE Serves
    BY DEF Serves
  <2>1. CASE Task
    BY <2>1, ServeAtOnce, ServeEnable, ServeProg, ServeRead DEF Task
  <2>2. CASE Restart
    BY <2>2, Restarts
  <2>3. CASE \E r \in Requests : Receive(r)
    BY <2>3, Takes
  <2>4. CASE UNCHANGED vars
    <3>1. UNCHANGED <<State, req, replies>>
      BY <2>4 DEF vars, State
    <3> QED
      BY <3>1 DEF Serves, Service!vars
  <2> QED
    BY <2>1, <2>2, <2>3, <2>4 DEF Next
<1> QED
  BY <1>1, <1>2, Invariance, PTL DEF Spec, ServiceSpec, Service!Spec
=============================================================================
