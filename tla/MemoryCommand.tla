--------------------------- MODULE MemoryCommand ---------------------------
(***************************************************************************)
(* create_memory_cmd of src/programmer_parser.c: how a pattern that the    *)
(* client sends becomes a command for the AVR.  Each step is a turn of the *)
(* loop at line 164; a token is a character of the pattern, or an 'a' with *)
(* the number after it.  A byte is the set of its bits that are one.       *)
(*                                                                         *)
(* Nothing looks at a pattern before it is used: it may be longer than the *)
(* command, ask for more bits than the input has, shift an address by more *)
(* than its width, or have a number too long for ch_address_shift.         *)
(***************************************************************************)
EXTENDS Integers, Sequences, FiniteSets

CONSTANTS
    Bits,       \* the bits of a _u8: 8
    U8,         \* the number of its values: 256
    AddrBits,   \* the bits of a _u32: 32
    Size,       \* AVR_CMD_SIZE
    MaxLen,     \* the longest pattern: pattern_len is a _u8
    Tokens,     \* the tokens of patterns: records [t, n]
    Addrs       \* the addresses

ASSUME SizeAssumption ==
    /\ Bits \in Nat \ {0} /\ Size \in Nat \ {0} /\ AddrBits \in Nat /\ MaxLen \in Nat
    /\ U8 \in Nat /\ U8 >= Bits
\* An "A" is an 'a' with three digits or more, which ch_address_shift[3] and
\* its '\0' do not hold.
ASSUME TokenAssumption == Tokens \subseteq [t : {"0", "1", "a", "A", "i", "x"}, n : Nat]
ASSUME AddrAssumption == Addrs \subseteq Nat

VARIABLES
    pattern, addr, input,   \* the arguments
    j,                      \* the tokens read
    cmd,                    \* the command so far
    cmd_byte_offset, cmd_bit_offset, cmd_input_offset,
    overrun                 \* something beyond an array was written

vars == <<pattern, addr, input, j, cmd, cmd_byte_offset, cmd_bit_offset, cmd_input_offset, overrun>>
args == <<pattern, addr, input>>

Inputs == 0 .. U8 - 1

\* The bits of an input in the pattern, among its first p tokens.
InputsAmong(p) == Cardinality({q \in 1 .. p : pattern[q].t = "i"})

\* Whatever the client's packet says, of any length that the packet can name.
Patterns ==
    UNION {[1 .. n -> Tokens] : n \in 0 .. MaxLen}

IsSet(value, bit) == (value \div 2 ^ bit) % 2 = 1

Init ==
    /\ pattern \in Patterns
    /\ addr \in Addrs /\ input \in Inputs
    /\ j = 0
    /\ cmd = [b \in 0 .. Size - 1 |-> {}]
    /\ cmd_byte_offset = 0 /\ cmd_bit_offset = Bits - 1 /\ cmd_input_offset = Bits - 1
    /\ overrun = FALSE

Token == pattern[j + 1]

\* A bit of a value that has `width` of them.  A shift by as much or more is
\* undefined: the result may be either.
BitOf(value, bit, width) == IF bit < width THEN {IsSet(value, bit)} ELSE BOOLEAN

\* Every token but "x" reads and writes cmd[cmd_byte_offset].
Overruns == Token.t = "A" \/ (Token.t # "x" /\ cmd_byte_offset >= Size)

Put(one) == cmd' = IF one THEN [cmd EXCEPT ![cmd_byte_offset] = @ \cup {cmd_bit_offset}] ELSE cmd

PutConstant ==
    /\ Token.t \in {"0", "1", "x"}
    /\ Put(Token.t = "1")
    /\ UNCHANGED cmd_input_offset

PutAddress ==
    /\ Token.t = "a"
    /\ \E one \in BitOf(addr, Token.n, AddrBits) : Put(one)
    /\ UNCHANGED cmd_input_offset

\* Mutant of PutInput: the offset stays, every 'i' is the same bit.
PutInputTop ==
    /\ Token.t = "i"
    /\ \E one \in BitOf(input, cmd_input_offset, Bits) : Put(one)
    /\ UNCHANGED cmd_input_offset

PutInput ==
    /\ Token.t = "i"
    /\ \E one \in BitOf(input, cmd_input_offset, Bits) : Put(one)
    /\ cmd_input_offset' = (cmd_input_offset - 1) % U8    \* a _u8

\* Mutant of NextBit: the next byte begins at its second bit.
NextBitLate ==
    IF cmd_bit_offset - 1 < 0
    THEN cmd_bit_offset' = Bits - 2 /\ cmd_byte_offset' = cmd_byte_offset + 1
    ELSE cmd_bit_offset' = cmd_bit_offset - 1 /\ UNCHANGED cmd_byte_offset

NextBit ==
    IF cmd_bit_offset - 1 < 0
    THEN cmd_bit_offset' = Bits - 1 /\ cmd_byte_offset' = cmd_byte_offset + 1
    ELSE cmd_bit_offset' = cmd_bit_offset - 1 /\ UNCHANGED cmd_byte_offset

\* Nothing is known of the program afterwards.
Overrun ==
    /\ j < Len(pattern) /\ ~overrun
    /\ Overruns
    /\ overrun' = TRUE
    /\ UNCHANGED <<args, j, cmd, cmd_byte_offset, cmd_bit_offset, cmd_input_offset>>

Turn ==
    /\ j < Len(pattern) /\ ~overrun
    /\ ~Overruns
    /\ PutConstant \/ PutAddress \/ PutInput
    /\ NextBit
    /\ j' = j + 1
    /\ UNCHANGED <<args, overrun>>

Next == Overrun \/ Turn

Spec == Init /\ [][Next]_vars
-----------------------------------------------------------------------------
Done == j = Len(pattern)

\* The place in a pattern of bit k of byte b of the command.
Place(b, k) == b * Bits + (Bits - k)

\* What a token asks for, whatever the loop's offsets are: the p-th token's
\* input bit is the one after those that the tokens before it took.
Wanted(p) ==
    CASE pattern[p].t = "1" -> TRUE
      [] pattern[p].t = "a" -> IsSet(addr, pattern[p].n)
      [] pattern[p].t = "i" -> IsSet(input, Bits - InputsAmong(p))
      [] OTHER -> FALSE

\* The address or the input has the bit that a token asks for.
Defined(p) ==
    /\ pattern[p].t = "a" => pattern[p].n < AddrBits
    /\ pattern[p].t = "i" => InputsAmong(p) <= Bits

\* The finished command has the bits its pattern asks for and no others, each
\* at its place, first byte and highest bit first, whatever the tokens between
\* them are; only of a bit that the address or the input does not have is
\* nothing said (create_memory_cmd).
CmdRight ==
    Done => \A b \in 0 .. Size - 1, k \in 0 .. Bits - 1 :
                IF Place(b, k) > Len(pattern) THEN k \notin cmd[b]
                ELSE Defined(Place(b, k)) => (k \in cmd[b] <=> Wanted(Place(b, k)))

\* What a pattern must not have: a token beyond the command's bits that is
\* not an "x", or a number of three digits.
Harmful(p) == pattern[p].t = "A" \/ (pattern[p].t # "x" /\ p > Size * Bits)

\* Memory beyond an array is written for the patterns that have such a token,
\* at the first of them, and for no others (programmer_parser.c:164-203).
OverrunsAreHarmful ==
    /\ \A p \in 1 .. j : ~Harmful(p)
    /\ overrun => ~Done /\ Harmful(j + 1)
=============================================================================
