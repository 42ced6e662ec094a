----------------------------- MODULE Programmer -----------------------------
(***************************************************************************)
(* The programming session: what the handlers of src/controller.c do to    *)
(* the AVR microcontroller through src/programmer.c, one SPI transfer at a *)
(* time.                                                                   *)
(*                                                                         *)
(* The AVR is external.  It executes and echoes commands while it is in    *)
(* programming mode; a transfer may be lost or garbled, and then the AVR   *)
(* may have executed the command or not.  Noise never looks like an echo.  *)
(* The page buffer is not told apart from the page it is written to.       *)
(*                                                                         *)
(* Replies always find a packet and room in the queue here; PacketHandler  *)
(* models what happens when they do not.                                   *)
(***************************************************************************)
EXTENDS Integers, Sequences

CONSTANTS
    U8, U16,        \* the number of values of a _u8 and a _u16
    Retries,        \* PGM_ENABLE_RETRIES
    Addresses,      \* the addresses of the AVR's memories
    MaxBody,        \* the size of packet_data
    MaxData,        \* PL_MAX_DATA_LENGTH
    Blocks,         \* what requests to program memory say
    Ranges,         \* what requests to read memory say
    Noisy,          \* whether a transfer may be lost or garbled
    PowerFails      \* whether the device may lose its power

ASSUME U8Assumption == U8 \in Nat \ {0} /\ U8 % 2 = 0
ASSUME RetriesAssumption == Retries \in Nat \ {0}
ASSUME PacketAssumption == MaxBody \in Nat /\ MaxData \in Nat /\ U8 <= MaxBody
ASSUME U16Assumption == U16 \in Nat \ {0} /\ 2 * MaxData < U16
ASSUME EnvironmentAssumption ==
    Addresses \subseteq Nat /\ Noisy \in BOOLEAN /\ PowerFails \in BOOLEAN

Byte == 0 .. U8 - 1
Memories == {"flash", "eeprom", "err"}     \* AvrMemoryType

\* Requests stay inside the AVR's memories.  How many bytes they ask for, no
\* one checks.
ASSUME RequestAssumption ==
    /\ \A b \in Blocks :
          /\ b \in [mem : Memories, start : Addresses, body : Seq(Byte)]
          /\ b.start .. b.start + Len(b.body) \subseteq Addresses
    /\ \A r \in Ranges :
          /\ r \in [mem : Memories, start : Addresses, count : Nat]
          /\ r.start .. r.start + (IF r.mem = "flash" THEN r.count \div 2 ELSE r.count)
                \subseteq Addresses

VARIABLES
    info,           \* mcu_info is set
    spi,            \* the SPI peripheral is configured and enabled
    line,           \* the AVR's reset line: "on" holds it in reset
    avr,            \* the AVR: whether it is in programming mode, its memories
    pc,             \* where the handling task is
    req,            \* the request it serves
    i,              \* the counter of the loop it is in
    address,        \* the address the loop has reached
    answer_counter, \* the place in buf for the next byte read
    buf,            \* packet_data of memory_packet, which bytes are read into
    replies         \* the replies put on the queue for this request

dev == <<info, spi, line>>
loop == <<i, address, answer_counter, buf>>
vars == <<info, spi, line, avr, pc, req, loop, replies>>

Cells == {"lo", "hi", "ee"} \X Addresses
Stale == -1     \* a byte of packet_data no one has written

Requests ==
    [kind : {"load"}]
        \cup [kind : {"reset"}, byte : Byte]
        \cup [kind : {"cmd"}, fits : BOOLEAN]
        \cup {[kind |-> "prog", mem |-> b.mem, start |-> b.start, body |-> b.body] : b \in Blocks}
        \cup {[kind |-> "read", mem |-> r.mem, start |-> r.start, count |-> r.count, fits |-> f] :
                 r \in Ranges, f \in BOOLEAN}

Steps == {"idle", "reset", "cmd", "load", "enable", "prog", "flash_lo", "flash_hi",
          "eeprom", "read", "read_hi", "read_lo", "read_ee", "restart", "fault"}
-----------------------------------------------------------------------------
(* Commands: four bytes; the first is named for what it makes the AVR do.  *)

\* create_memory_cmd with the patterns of an AVR's data sheet (MemoryCommand
\* models how a pattern is filled in).
MemoryCmd(op, addr, input) == <<op, addr \div U8, addr % U8, input>>

PgmEnable == <<"pgm_enable", 1, 0, 0>>

\* Mutant of CheckCmdStatus: nothing is compared.
CheckNothing(cmd, answer) == Len(cmd) = Len(answer)

\* check_cmd_status: every byte but the first echoes the one sent before it.
CheckCmdStatus(cmd, answer) == \A k \in 2 .. Len(cmd) : answer[k] = cmd[k - 1]

\* What the AVR answers to a command it executes: a read command's last
\* byte is the byte read.
Echo(cmd, last) == <<"", cmd[1], cmd[2], last>>
Noise == <<"", "", Stale, Stale>>

Listening == spi /\ avr.pgm

(***************************************************************************)
(* MAP_SPITransfer of a command: what it may leave of the AVR, and the     *)
(* answer.  after and last are the AVR and the last byte of its answer     *)
(* when it executes the command.                                           *)
(***************************************************************************)
Transfer(cmd, hears, after, last) ==
    (IF hears THEN {[avr |-> after, answer |-> Echo(cmd, last)]} ELSE {})
        \cup (IF hears /\ ~Noisy
              THEN {}
              ELSE {[avr |-> avr, answer |-> Noise],
                    [avr |-> IF hears THEN after ELSE avr, answer |-> Noise]})

LoadTransfer(cell, cmd) ==
    Transfer(cmd, Listening, [avr EXCEPT !.mem[cell] = cmd[4]], cmd[3])

ReadTransfer(cell, cmd) ==
    Transfer(cmd, Listening, avr, avr.mem[cell])

\* sys_reset_mcu: an AVR that is let run leaves programming mode.
ResetOff == [avr EXCEPT !.pgm = FALSE]
-----------------------------------------------------------------------------
(* get_prog_mem_data and get_read_mem_data *)

\* Mutant of DataLen: it is as wide as the size of a packet.
DataLenWide(r) == Len(r.body)

\* data_len is a _u8.
DataLen(r) == Len(r.body) % U8

\* Where byte k of a request to program memory belongs: a flash word takes
\* its low byte first.
CellOf(r, k) ==
    IF r.mem = "flash"
    THEN <<IF k % 2 = 0 THEN "lo" ELSE "hi", r.start + k \div 2>>
    ELSE <<"ee", r.start + k>>

\* Where byte k of what a request reads comes from: the high byte first.
SourceOf(r, k) ==
    IF r.mem = "flash"
    THEN <<IF k % 2 = 0 THEN "hi" ELSE "lo", r.start + k \div 2>>
    ELSE <<"ee", r.start + k>>
-----------------------------------------------------------------------------
NoBuf == [k \in 0 .. MaxBody - 1 |-> Stale]

Init ==     \* main lets the AVR run; its memories are erased
    /\ info = FALSE /\ spi = FALSE /\ line = "off"
    /\ avr = [pgm |-> FALSE, mem |-> [c \in Cells |-> U8 - 1]]
    /\ pc = "idle" /\ req = [kind |-> "none"] /\ replies = <<>>
    /\ i = 0 /\ address = 0 /\ answer_counter = 0 /\ buf = NoBuf

ResetLoop == i' = 0 /\ address' = 0 /\ answer_counter' = 0 /\ buf' = NoBuf

\* The handler returns, having put these replies on the queue.
Return(r) ==
    /\ pc' = "idle"
    /\ replies' = r
    /\ UNCHANGED loop

\* process_packet calls the handler of the next request.
Receive(r) ==
    /\ pc = "idle"
    /\ pc' = r.kind /\ req' = r /\ replies' = <<>>
    /\ ResetLoop
    /\ UNCHANGED <<dev, avr>>
-----------------------------------------------------------------------------
(* process_reset: the request has one byte; second is what the byte after  *)
(* it in packet_data happens to be.                                        *)
ProcessReset ==
    /\ pc = "reset"
    /\ \E second \in Byte :
           IF req.byte = 1 THEN line' = "on" /\ avr' = avr
           ELSE IF second = 0 THEN line' = "off" /\ avr' = ResetOff
           ELSE UNCHANGED <<line, avr>>
    /\ Return(<<>>)
    /\ UNCHANGED <<info, spi, req>>

(***************************************************************************)
(* process_cmd_packet.  The size is compared as a _u8.  The command is one *)
(* that changes none of the memories modelled here.                        *)
(***************************************************************************)
ProcessCmd ==
    /\ pc = "cmd"
    /\ IF ~req.fits
       THEN Return(<<>>) /\ UNCHANGED avr
       ELSE LET cmd == MemoryCmd("raw", 0, 0)
            IN  \E t \in Transfer(cmd, Listening, avr, cmd[3]) :
                   /\ avr' = t.avr
                   /\ Return(IF CheckCmdStatus(cmd, t.answer)
                             THEN <<"answer">>
                             ELSE <<"error", "answer">>)
    /\ UNCHANGED <<dev, req>>
-----------------------------------------------------------------------------
(* process_load_mcu_info_packet and programmer_enable_pgm_mode             *)
ProcessLoad ==
    /\ pc = "load"
    /\ info' = TRUE /\ spi' = TRUE /\ line' = "on"
    /\ pc' = "enable" /\ i' = 0
    /\ UNCHANGED <<avr, req, address, answer_counter, buf, replies>>

\* Mutant of EnableTurn: one turn too many.
EnableOnceMore(t) ==
    IF t.answer[3] = PgmEnable[2]
    THEN avr' = t.avr /\ Return(<<"ack">>) /\ UNCHANGED spi
    ELSE /\ avr' = ResetOff
         /\ IF i + 1 <= Retries
            THEN /\ i' = i + 1
                 /\ UNCHANGED <<spi, pc, address, answer_counter, buf, replies>>
            ELSE spi' = FALSE /\ Return(<<"ack">>)

\* One turn of the loop at line 72.  The result is 0 or 1, and neither is
\* negative: the handler acknowledges both.
EnableTurn(t) ==
    IF t.answer[3] = PgmEnable[2]
    THEN avr' = t.avr /\ Return(<<"ack">>) /\ UNCHANGED spi
    ELSE /\ avr' = ResetOff
         /\ IF i + 1 < Retries
            THEN /\ i' = i + 1
                 /\ UNCHANGED <<spi, pc, address, answer_counter, buf, replies>>
            ELSE spi' = FALSE /\ Return(<<"ack">>)

EnablePgmMode ==
    /\ pc = "enable"
    /\ \E t \in Transfer(PgmEnable, TRUE, [avr EXCEPT !.pgm = TRUE], 0) : EnableTurn(t)
    /\ UNCHANGED <<info, line, req>>
-----------------------------------------------------------------------------
(* process_program_memory_packet and programmer_program_memory             *)

\* Mutant of ProgFailed: the device is not restarted, and the block is
\* acknowledged after the error.
ProgFailedGoesOn == Return(<<"error", "ack">>)

\* The failure is queued, and then SYS_ASSERT_CRITICAL restarts the device.
ProgFailed ==
    /\ pc' = "restart"
    /\ replies' = <<"error">>
    /\ UNCHANGED loop

\* A block of no bytes leaves status as it was, which is to say not set.
ProcessProg ==
    /\ pc = "prog"
    /\ IF req.mem = "err" \/ (req.mem = "flash" /\ DataLen(req) % 2 # 0) THEN ProgFailed
       ELSE IF DataLen(req) = 0 THEN ProgFailed \/ Return(<<"ack">>)
       ELSE /\ pc' = IF ~info THEN "fault" ELSE IF req.mem = "flash" THEN "flash_lo" ELSE "eeprom"
            /\ i' = 0 /\ address' = req.start
            /\ UNCHANGED <<answer_counter, buf, replies>>
    /\ UNCHANGED <<dev, avr, req>>

\* load_memory_cmd of a byte to a cell; next is what follows a success.
LoadMemory(cell, b, next) ==
    LET cmd == MemoryCmd(cell[1], cell[2], b)
    IN  \E t \in LoadTransfer(cell, cmd) :
           /\ avr' = t.avr
           /\ IF CheckCmdStatus(cmd, t.answer) THEN next ELSE ProgFailed
           /\ UNCHANGED <<dev, req>>

\* Mutant of Turn: the address counts bytes, where flash has words.
TurnByByte(step, again) ==
    IF (i + step) % U8 < DataLen(req)
    THEN /\ i' = (i + step) % U8 /\ address' = address + step /\ pc' = again
         /\ UNCHANGED <<answer_counter, buf, replies>>
    ELSE Return(<<"ack">>)

\* Mutant of Turn: the loop does not advance.
TurnInPlace(step, again) ==
    IF (i + step) % U8 < DataLen(req)
    THEN pc' = again /\ UNCHANGED <<loop, replies>>
    ELSE Return(<<"ack">>)

\* The end of a turn of a loop over the bytes to program.
Turn(step, again) ==
    IF (i + step) % U8 < DataLen(req)
    THEN /\ i' = (i + step) % U8 /\ address' = address + 1 /\ pc' = again
         /\ UNCHANGED <<answer_counter, buf, replies>>
    ELSE Return(<<"ack">>)

LoadLow ==
    /\ pc = "flash_lo"
    /\ LoadMemory(<<"lo", address>>, req.body[i + 1],
                  pc' = "flash_hi" /\ UNCHANGED <<loop, replies>>)

LoadHigh ==
    /\ pc = "flash_hi"
    /\ LoadMemory(<<"hi", address>>, req.body[i + 2], Turn(2, "flash_lo"))

WriteEeprom ==
    /\ pc = "eeprom"
    /\ LoadMemory(<<"ee", address>>, req.body[i + 1], Turn(1, "eeprom"))
-----------------------------------------------------------------------------
(* process_read_memory_packet and programmer_read_memory.  Bytes are read   *)
(* into memory_packet, which is then dropped: what is sent is packet, the  *)
(* request's, under a header of type MemoryPacket and of the size asked    *)
(* for, which create_packet may refuse.                                    *)

SizeRefused == req.count % U16 > MaxData

\* The number of bytes read is returned as an _i16; a negative one is a failure.
CountFails == 2 * (req.count % U16) >= U16

\* The packet is sent after an error too: status is then send_error's.
ReadFailed == Return(IF SizeRefused THEN <<"error">> ELSE <<"error", "memory">>)

\* What a read is answered whose transfers were all echoed.
MemoryReply ==
    IF ~SizeRefused THEN <<"memory">> ELSE IF CountFails THEN <<"error">> ELSE <<>>

\* Of a read of no bytes only that of EEPROM follows mcu_info.
ProcessRead ==
    /\ pc = "read"
    /\ IF ~req.fits THEN Return(<<>>)
       ELSE IF req.mem = "err" THEN ReadFailed
       ELSE IF req.count = 0 /\ (info \/ req.mem = "flash") THEN Return(<<"memory">>)
       ELSE /\ pc' = IF ~info THEN "fault" ELSE IF req.mem = "flash" THEN "read_hi" ELSE "read_ee"
            /\ i' = 0 /\ address' = req.start /\ answer_counter' = 0
            /\ UNCHANGED <<buf, replies>>
    /\ UNCHANGED <<dev, avr, req>>

\* buf[answer_counter++] = byte.  Past the end of packet_data it is someone
\* else's memory that is overwritten, and nothing is known any more.
Store(byte, next) ==
    IF answer_counter < MaxBody
    THEN buf' = [buf EXCEPT ![answer_counter] = byte] /\ next
    ELSE pc' = "fault" /\ UNCHANGED <<loop, replies>>

\* programmer_write_raw_cmd of a command that reads a cell.  On a success
\* the byte is stored, and next follows.
ReadByte(cell, next) ==
    LET cmd == MemoryCmd(cell[1], cell[2], 0)
    IN  \E t \in ReadTransfer(cell, cmd) :
           /\ IF CheckCmdStatus(cmd, t.answer) THEN Store(t.answer[4], next) ELSE ReadFailed
           /\ UNCHANGED <<dev, avr, req>>

\* The end of a turn of a loop over the bytes to read.
ReadTurn(step, again, counter) ==
    /\ i' = i + step /\ address' = address + 1 /\ answer_counter' = counter
    /\ IF i + step < req.count
       THEN pc' = again /\ UNCHANGED replies
       ELSE pc' = "idle" /\ replies' = MemoryReply

\* Mutant of Incremented: the counter is not advanced.
IncrementedNever == answer_counter

\* In _read_flash_memory answer_counter is a _u8.
Incremented == (answer_counter + 1) % U8

ReadHigh ==
    /\ pc = "read_hi"
    /\ ReadByte(<<"hi", address>>,
                /\ pc' = "read_lo" /\ answer_counter' = Incremented
                /\ UNCHANGED <<i, address, replies>>)

ReadLow ==
    /\ pc = "read_lo"
    /\ ReadByte(<<"lo", address>>, ReadTurn(2, "read_hi", Incremented))

ReadEeprom ==
    /\ pc = "read_ee"
    /\ ReadByte(<<"ee", address>>, ReadTurn(1, "read_ee", answer_counter + 1))   \* a _u16
-----------------------------------------------------------------------------
\* sys_restart, a loss of power, or a user who finds that a device which ran
\* into a memory fault answers nothing; main releases the reset line.
Restart ==
    /\ pc \in {"restart", "fault"} \/ PowerFails
    /\ info' = FALSE /\ spi' = FALSE /\ line' = "off"
    /\ pc' = "idle" /\ req' = [kind |-> "none"] /\ replies' = <<>>
    /\ ResetLoop
    /\ avr' = ResetOff

Task ==
    \/ ProcessReset \/ ProcessCmd \/ ProcessLoad \/ EnablePgmMode
    \/ ProcessProg \/ LoadLow \/ LoadHigh \/ WriteEeprom
    \/ ProcessRead \/ ReadHigh \/ ReadLow \/ ReadEeprom

Next == Task \/ Restart \/ \E r \in Requests : Receive(r)

Spec == Init /\ [][Next]_vars

\* The handling task is scheduled again and again, and a restart completes.
FairSpec == Spec /\ WF_vars(Task) /\ WF_vars(pc = "restart" /\ Restart)
-----------------------------------------------------------------------------
Replies == {<<>>, <<"ack">>, <<"error">>, <<"answer">>, <<"memory">>,
            <<"error", "answer">>, <<"error", "memory">>}

TypeOK ==
    /\ info \in BOOLEAN /\ spi \in BOOLEAN /\ line \in {"on", "off"}
    /\ avr \in [pgm : BOOLEAN, mem : [Cells -> Byte]]
    /\ pc \in Steps
    /\ req \in Requests \cup {[kind |-> "none"]}
    /\ i \in Nat /\ address \in Nat /\ answer_counter \in 0 .. MaxBody
    /\ pc = "enable" => i < Retries
    /\ buf \in [0 .. MaxBody - 1 -> Byte \cup {Stale}]
    /\ replies \in Replies

Replied(kind, r) == pc = "idle" /\ req.kind = kind /\ replies = r

\* An acknowledged block, or the part of it that its length as a _u8 leaves,
\* is in the AVR's memory, low byte and high byte of each flash word in
\* place, though any transfer may have been lost (program_flash_memory,
\* program_eeprom_memory, check_cmd_status).
AckMeansLoaded ==
    Replied("prog", <<"ack">>) =>
        \A k \in 0 .. DataLen(req) - 1 : avr.mem[CellOf(req, k)] = req.body[k + 1]

\* The device changes no cell of the AVR's memories but those the request
\* it serves names, and puts there what the request says, also when it
\* fails half way (program_flash_memory, program_eeprom_memory).
WritesInRange ==
    [][\A c \in Cells : avr'.mem[c] # avr.mem[c] =>
          /\ req.kind = "prog"
          /\ \E k \in 0 .. DataLen(req) - 1 :
                c = CellOf(req, k) /\ avr'.mem[c] = req.body[k + 1]]_vars

\* When programmer_read_memory reports no error, it has put the AVR's memory
\* byte for byte into its buf, the high byte of a flash word first: for at most
\* 256 bytes of flash and for any number of EEPROM, also for more than buf has
\* room for, as that is no success.  (What the client is sent is another
\* packet, see MemoryReply.)
ReadFaithful ==
    Replied("read", <<"memory">>) /\ (req.mem = "flash" => req.count <= U8) =>
        \A k \in 0 .. req.count - 1 : buf[k] = avr.mem[SourceOf(req, k)]

\* The loops that make transfers, and how many more theirs may make.  (An odd
\* number of bytes is read with one more.)
Loops == {"enable", "flash_lo", "flash_hi", "eeprom", "read_hi", "read_lo", "read_ee"}

TransfersLeft ==
    CASE pc = "enable" -> Retries - i
      [] pc \in {"flash_lo", "eeprom"} -> DataLen(req) - i
      [] pc = "flash_hi" -> DataLen(req) - i - 1
      [] pc = "read_hi" -> req.count - i + 1
      [] pc \in {"read_lo", "read_ee"} -> req.count - i
      [] OTHER -> 0

\* Every transfer brings its loop nearer to its end, though the counters are
\* _u8 and wrap, and whatever the AVR answers (programmer_enable_pgm_mode,
\* program_flash_memory, program_eeprom_memory, _read_flash_memory): no request
\* costs more transfers than its retries or its bytes.
TransfersRunOut ==
    [][{pc, pc'} \subseteq Loops =>
          0 < TransfersLeft' /\ TransfersLeft' < TransfersLeft]_vars

\* A handler returns, restarts the device or runs into a fault: none of the
\* loops goes on for ever, whatever the AVR answers.
Answered == pc \notin {"idle", "restart", "fault"} ~> pc \in {"idle", "restart", "fault"}

\* The abstract service: what each request may be answered (module Serving).
State == CASE pc = "idle" -> "idle" [] pc \in {"restart", "fault"} -> "down" [] OTHER -> "busy"
Service == INSTANCE Serving WITH
    state <- State, kind <- req.kind,
    Kinds <- {"load", "reset", "cmd", "prog", "read"}
ServiceSpec == Service!Spec
=============================================================================
