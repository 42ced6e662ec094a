------------------------ MODULE MemoryCommandProofs ------------------------
(***************************************************************************)
(* Proofs about MemoryCommand, for every width of a byte, every size of a  *)
(* command, and all patterns, addresses and inputs.                        *)
(***************************************************************************)
EXTENDS MemoryCommand, FiniteSetTheorems, TLAPS

Taken == InputsAmong(j)

\* What the offsets are after j tokens: the next token's place is that of bit
\* cmd_bit_offset of byte cmd_byte_offset, and as long as there is an input bit
\* to take, it is the one below those taken.
OffsetsInv ==
    /\ cmd_byte_offset \in Nat /\ cmd_bit_offset \in 0 .. Bits - 1
    /\ Place(cmd_byte_offset, cmd_bit_offset) = j + 1
    /\ cmd_input_offset \in Nat
    /\ Taken < Bits => cmd_input_offset = Bits - 1 - Taken

\* The command so far has the bits that the first j tokens ask for.
CmdInv ==
    /\ cmd \in [0 .. Size - 1 -> SUBSET (0 .. Bits - 1)]
    /\ \A b \in 0 .. Size - 1, k \in 0 .. Bits - 1 :
          IF Place(b, k) > j THEN k \notin cmd[b]
          ELSE Defined(Place(b, k)) => (k \in cmd[b] <=> Wanted(Place(b, k)))

ArgsInv ==
    /\ pattern \in Patterns
    /\ addr \in Addrs /\ input \in Inputs
    /\ j \in 0 .. Len(pattern)

IInv == ArgsInv /\ OffsetsInv /\ CmdInv /\ OverrunsAreHarmful
-----------------------------------------------------------------------------
(* Places *)

LEMMA Rows ==
    ASSUME NEW b \in Nat, NEW c \in Nat, b < c, NEW n \in Nat
    PROVE  b * n + n <= c * n /\ b * n \in Nat /\ c * n \in Nat
<1>1. PICK d \in Nat : c = b + 1 + d
  <2>1. c - b - 1 \in Nat /\ c = b + 1 + (c - b - 1)
    OBVIOUS
  <2> QED
    BY <2>1
<1>2. c * n = b * n + n + d * n
  BY <1>1
<1>3. d * n \in Nat /\ b * n \in Nat
  OBVIOUS
<1> QED
  BY <1>2, <1>3

\* No two bits have the same place.
LEMMA PlacesDiffer ==
    ASSUME NEW b \in Nat, NEW k \in 0 .. Bits - 1,
           NEW c \in Nat, NEW m \in 0 .. Bits - 1,
           Place(b, k) = Place(c, m)
    PROVE  b = c /\ k = m
<1>1. b * Bits \in Nat /\ c * Bits \in Nat /\ b * Bits - k = c * Bits - m
  BY SizeAssumption DEF Place
<1>2. ~(b < c)
  <2> SUFFICES ASSUME b < c PROVE FALSE
    OBVIOUS
  <2>1. b * Bits + Bits <= c * Bits
    BY Rows, SizeAssumption
  <2> QED
    BY <1>1, <2>1, SizeAssumption
<1>3. ~(c < b)
  <2> SUFFICES ASSUME c < b PROVE FALSE
    OBVIOUS
  <2>1. c * Bits + Bits <= b * Bits
    BY Rows, SizeAssumption
  <2> QED
    BY <1>1, <2>1, SizeAssumption
<1>4. b = c
  BY <1>2, <1>3
<1> QED
  BY <1>1, <1>4, SizeAssumption

\* A place within the command is one of a byte of it, and no other is.
LEMMA PlaceInside ==
    ASSUME NEW b \in Nat, NEW k \in 0 .. Bits - 1
    PROVE  Place(b, k) <= Size * Bits <=> b < Size
<1>1. Place(b, k) = b * Bits + (Bits - k) /\ b * Bits \in Nat /\ Size * Bits \in Nat
  BY SizeAssumption DEF Place
<1>2. CASE b < Size
  <2>1. b * Bits + Bits <= Size * Bits
    BY <1>2, Rows, SizeAssumption
  <2> QED
    BY <1>1, <1>2, <2>1, SizeAssumption
<1>3. CASE b = Size
  BY <1>1, <1>3, SizeAssumption
<1>4. CASE b > Size
  <2>1. Size * Bits + Bits <= b * Bits
    BY <1>4, Rows, SizeAssumption
  <2> QED
    BY <1>1, <1>4, <2>1, SizeAssumption
<1> QED
  BY <1>2, <1>3, <1>4, SizeAssumption

LEMMA PlaceType ==
    ASSUME NEW b \in Nat, NEW k \in 0 .. Bits - 1
    PROVE  Place(b, k) \in Nat \ {0}
<1>1. b * Bits \in Nat
  BY SizeAssumption
<1> QED
  BY <1>1, SizeAssumption DEF Place
-----------------------------------------------------------------------------
(* Tokens *)

LEMMA PatternLength ==
    ASSUME pattern \in Patterns
    PROVE  /\ Len(pattern) \in Nat
           /\ \A p \in 1 .. Len(pattern) : pattern[p] \in Tokens
<1>1. PICK n \in 0 .. MaxLen : pattern \in [1 .. n -> Tokens]
  BY DEF Patterns
<1>2. n \in Nat
  BY SizeAssumption
<1>3. Len(pattern) = n
  BY <1>1, <1>2
<1> QED
  BY <1>1, <1>2, <1>3

LEMMA InputsFinite ==
    ASSUME NEW p \in Nat
    PROVE  /\ IsFiniteSet({q \in 1 .. p : pattern[q].t = "i"})
           /\ InputsAmong(p) \in Nat
<1>1. IsFiniteSet(1 .. p)
  BY FS_Interval
<1>2. IsFiniteSet({q \in 1 .. p : pattern[q].t = "i"})
  BY <1>1, FS_Subset
<1> QED
  BY <1>2, FS_CardinalityType DEF InputsAmong

\* An 'i' counts one.
LEMMA InputsNext ==
    ASSUME NEW p \in Nat
    PROVE  InputsAmong(p + 1) =
               IF pattern[p + 1].t = "i" THEN InputsAmong(p) + 1 ELSE InputsAmong(p)
<1> DEFINE S(n) == {q \in 1 .. n : pattern[q].t = "i"}
<1>1. IsFiniteSet(S(p)) /\ p + 1 \notin S(p)
  BY InputsFinite
<1>2. CASE pattern[p + 1].t = "i"
  <2>1. S(p + 1) = S(p) \cup {p + 1}
    BY <1>2
  <2> HIDE DEF S
  <2>2. Cardinality(S(p) \cup {p + 1}) = Cardinality(S(p)) + 1
    BY <1>1, FS_AddElement
  <2> QED
    BY <1>2, <2>1, <2>2 DEF InputsAmong, S
<1>3. CASE pattern[p + 1].t # "i"
  <2>1. S(p + 1) = S(p)
    BY <1>3
  <2> QED
    BY <1>3, <2>1 DEF InputsAmong
<1> QED
  BY <1>2, <1>3

-----------------------------------------------------------------------------
(* Steps *)

LEMMA Initial == Init => IInv
<1> SUFFICES ASSUME Init PROVE IInv
  OBVIOUS
<1> USE DEF Init
<1>1. InputsAmong(0) = 0
  <2>1. {q \in 1 .. 0 : pattern[q].t = "i"} = {}
    OBVIOUS
  <2> QED
    BY <2>1, FS_EmptySet DEF InputsAmong
<1>2. ArgsInv
  BY PatternLength DEF ArgsInv
<1>3. OffsetsInv
  BY <1>1, SizeAssumption DEF OffsetsInv, Taken, Place
<1>4. CmdInv
  <2>1. ASSUME NEW b \in 0 .. Size - 1, NEW k \in 0 .. Bits - 1
        PROVE  Place(b, k) > j
    <3>1. Place(b, k) \in Nat \ {0}
      BY PlaceType, SizeAssumption
    <3> QED
      BY <3>1
  <2>2. cmd = [b \in 0 .. Size - 1 |-> {}]
    OBVIOUS
  <2> HIDE DEF Init
  <2> QED
    BY <2>1, <2>2 DEF CmdInv
<1>5. OverrunsAreHarmful
  BY DEF OverrunsAreHarmful
<1> QED
  BY <1>2, <1>3, <1>4, <1>5 DEF IInv

\* Before a step there is a token to place, at the place that the offsets say.
LEMMA InFront ==
    ASSUME IInv, j < Len(pattern)
    PROVE  /\ Len(pattern) \in Nat /\ j \in Nat /\ j + 1 \in 1 .. Len(pattern)
           /\ Token \in Tokens
           /\ cmd_byte_offset \in Nat /\ cmd_bit_offset \in 0 .. Bits - 1
           /\ j + 1 <= Size * Bits <=> cmd_byte_offset < Size
           /\ Taken \in Nat
           /\ Token.t = "i" => InputsAmong(j + 1) = Taken + 1
           /\ Token.t # "i" => InputsAmong(j + 1) = Taken
<1>1. /\ Len(pattern) \in Nat /\ j \in Nat /\ j + 1 \in 1 .. Len(pattern) /\ Token \in Tokens
  BY PatternLength DEF IInv, ArgsInv, Token
<1>2. cmd_byte_offset \in Nat /\ cmd_bit_offset \in 0 .. Bits - 1
      /\ (j + 1 <= Size * Bits <=> cmd_byte_offset < Size)
  BY PlaceInside DEF IInv, OffsetsInv
<1>3. Taken \in Nat
  BY <1>1, InputsFinite DEF Taken
<1>4. InputsAmong(j + 1) = IF Token.t = "i" THEN Taken + 1 ELSE Taken
  BY <1>1, InputsNext DEF Taken, Token
<1> QED
  BY <1>1, <1>2, <1>3, <1>4

\* The bit that a token asks for goes to its place.
LEMMA PutsOne ==
    ASSUME IInv, j < Len(pattern), NEW one \in BOOLEAN, Put(one),
           one => cmd_byte_offset < Size, Defined(j + 1) => (one <=> Wanted(j + 1)),
           j' = j + 1, UNCHANGED args
    PROVE  CmdInv'
<1> DEFINE byte == cmd_byte_offset
           bit  == cmd_bit_offset
<1>1. /\ j \in Nat /\ byte \in Nat /\ bit \in 0 .. Bits - 1
      /\ Place(byte, bit) = j + 1
      /\ cmd \in [0 .. Size - 1 -> SUBSET (0 .. Bits - 1)]
      /\ cmd' = IF one THEN [cmd EXCEPT ![byte] = @ \cup {bit}] ELSE cmd
      /\ one => byte \in 0 .. Size - 1
  BY InFront, SizeAssumption DEF IInv, OffsetsInv, CmdInv, Put
<1>2. cmd' \in [0 .. Size - 1 -> SUBSET (0 .. Bits - 1)]
  BY <1>1
<1>3. \A p : (Wanted(p)' <=> Wanted(p)) /\ (Defined(p)' <=> Defined(p))
  BY DEF Wanted, Defined, args, InputsAmong
<1>4. ASSUME NEW b \in 0 .. Size - 1, NEW k \in 0 .. Bits - 1
      PROVE  IF Place(b, k) > j + 1 THEN k \notin cmd'[b]
             ELSE Defined(Place(b, k)) => (k \in cmd'[b] <=> Wanted(Place(b, k)))
  <2>1. Place(b, k) \in Nat
    BY PlaceType, SizeAssumption
  <2>2. IF Place(b, k) > j THEN k \notin cmd[b]
        ELSE Defined(Place(b, k)) => (k \in cmd[b] <=> Wanted(Place(b, k)))
    BY DEF IInv, CmdInv
  <2>3. CASE b = byte /\ k = bit
    <3>1. Place(b, k) = j + 1 /\ k \notin cmd[b]
      BY <1>1, <2>2, <2>3
    <3>2. k \in cmd'[b] <=> one
      BY <1>1, <2>3, <3>1
    <3> QED
      BY <1>1, <3>1, <3>2
  <2>4. CASE ~(b = byte /\ k = bit)
    <3>1. Place(b, k) # j + 1
      BY <1>1, <2>4, PlacesDiffer, SizeAssumption
    <3>2. k \in cmd'[b] <=> k \in cmd[b]
      BY <1>1, <2>4
    <3> QED
      BY <1>1, <2>1, <2>2, <3>1, <3>2
  <2> QED
    BY <2>3, <2>4
<1> QED
  BY <1>2, <1>3, <1>4 DEF CmdInv, Place

\* The next place is the next bit's.
LEMMA NextPlace ==
    ASSUME IInv, j < Len(pattern), NextBit, j' = j + 1
    PROVE  /\ cmd_byte_offset' \in Nat /\ cmd_bit_offset' \in 0 .. Bits - 1
           /\ Place(cmd_byte_offset', cmd_bit_offset') = j' + 1
<1>1. /\ j \in Nat /\ cmd_byte_offset \in Nat /\ cmd_bit_offset \in 0 .. Bits - 1
      /\ cmd_byte_offset * Bits + (Bits - cmd_bit_offset) = j + 1
      /\ cmd_byte_offset * Bits \in Nat
  BY InFront, SizeAssumption DEF IInv, OffsetsInv, Place
<1>2. CASE cmd_bit_offset = 0
  <2>1. cmd_bit_offset' = Bits - 1 /\ cmd_byte_offset' = cmd_byte_offset + 1
    BY <1>1, <1>2 DEF NextBit
  <2>2. (cmd_byte_offset + 1) * Bits = cmd_byte_offset * Bits + Bits
    BY <1>1, SizeAssumption
  <2> QED
    BY <1>1, <1>2, <2>1, <2>2, SizeAssumption DEF Place
<1>3. CASE cmd_bit_offset # 0
  BY <1>1, <1>3, SizeAssumption DEF NextBit, Place
<1> QED
  BY <1>2, <1>3

\* A token that overruns is harmful, one that does not is not.
LEMMA OverrunsHarm ==
    ASSUME IInv, j < Len(pattern)
    PROVE  Overruns <=> Harmful(j + 1)
<1>1. /\ j + 1 \in Nat /\ Size * Bits \in Nat /\ cmd_byte_offset \in Nat
      /\ j + 1 <= Size * Bits <=> cmd_byte_offset < Size
  BY InFront, SizeAssumption
<1> QED
  BY <1>1, SizeAssumption DEF Overruns, Harmful, Token

LEMMA Step == IInv /\ [Next]_vars => IInv'
<1> SUFFICES ASSUME IInv, [Next]_vars PROVE IInv'
  OBVIOUS
<1>1. CASE Overrun
  <2>1. /\ j < Len(pattern) /\ Harmful(j + 1)
        /\ UNCHANGED <<pattern, addr, input, j, cmd>>
        /\ UNCHANGED <<cmd_byte_offset, cmd_bit_offset, cmd_input_offset>>
    BY <1>1, OverrunsHarm DEF Overrun, args
  <2>2. ArgsInv' /\ OffsetsInv' /\ CmdInv'
    BY <2>1 DEF IInv, ArgsInv, OffsetsInv, CmdInv, Taken, InputsAmong, Wanted, Defined, Place
  <2>3. OverrunsAreHarmful'
    BY <2>1, InFront DEF IInv, OverrunsAreHarmful, Harmful, Done
  <2> QED
    BY <2>2, <2>3 DEF IInv
<1>2. CASE Turn
  <2>1. /\ j < Len(pattern) /\ j' = j + 1 /\ UNCHANGED <<pattern, addr, input>> /\ UNCHANGED args
        /\ NextBit /\ (PutConstant \/ PutAddress \/ PutInput)
        /\ ~Harmful(j + 1) /\ ~overrun'
    BY <1>2, OverrunsHarm DEF Turn, args
  <2>2. ArgsInv'
    <3>1. j + 1 \in 0 .. Len(pattern)
      BY <2>1, InFront
    <3> QED
      BY <2>1, <3>1 DEF IInv, ArgsInv
  <2>3. Taken' = InputsAmong(j + 1) /\ Taken \in Nat
    BY <2>1, InFront DEF Taken, InputsAmong
  <2>4. OverrunsAreHarmful'
    <3>1. \A p \in 1 .. j + 1 : ~Harmful(p)
      <4>1. \A p \in 1 .. j : ~Harmful(p)
        BY DEF IInv, OverrunsAreHarmful
      <4> QED
        BY <2>1, <4>1, InFront
    <3> QED
      BY <2>1, <3>1 DEF OverrunsAreHarmful, Harmful
  <2>5. Token.t # "x" => cmd_byte_offset < Size
    <3>1. ~Overruns
      BY <1>2 DEF Turn
    <3> QED
      BY <2>1, <3>1, InFront, SizeAssumption DEF Overruns
  <2>6. CASE PutInput
    <3>1. PICK one \in BitOf(input, cmd_input_offset, Bits) : Put(one)
      BY <2>6 DEF PutInput
    <3>2. /\ Token.t = "i" /\ cmd_input_offset' = (cmd_input_offset - 1) % U8
          /\ Taken' = Taken + 1 /\ cmd_input_offset \in Nat
          /\ Taken < Bits => cmd_input_offset = Bits - 1 - Taken
      BY <2>1, <2>3, <2>6, InFront DEF PutInput, IInv, OffsetsInv
    <3>3. cmd_input_offset' \in Nat /\ (Taken' < Bits => cmd_input_offset' = Bits - 1 - Taken')
      <4>1. cmd_input_offset - 1 \in Int /\ U8 \in Nat \ {0}
        BY <3>2, SizeAssumption
      <4>2. cmd_input_offset' \in Nat
        BY <3>2, <4>1
      <4>3. ASSUME Taken' < Bits PROVE cmd_input_offset' = Bits - 1 - Taken'
        <5>1. cmd_input_offset - 1 \in 0 .. U8 - 1 /\ cmd_input_offset - 1 = Bits - 1 - Taken'
          BY <2>3, <3>2, <4>3, SizeAssumption
        <5>2. (cmd_input_offset - 1) % U8 = cmd_input_offset - 1
          BY <4>1, <5>1
        <5> QED
          BY <3>2, <5>1, <5>2
      <4> QED
        BY <4>2, <4>3
    <3>4. ASSUME Defined(j + 1) PROVE one <=> Wanted(j + 1)
      <4>1. InputsAmong(j + 1) <= Bits /\ pattern[j + 1].t = "i"
        BY <3>2, <3>4 DEF Defined, Token
      <4>2. Bits - InputsAmong(j + 1) = cmd_input_offset /\ cmd_input_offset < Bits
        BY <2>3, <3>2, <4>1, SizeAssumption
      <4>3. one = IsSet(input, cmd_input_offset)
        BY <3>1, <4>2 DEF BitOf
      <4>4. Wanted(j + 1) = IsSet(input, cmd_input_offset)
        BY <4>1, <4>2 DEF Wanted
      <4> QED
        BY <4>3, <4>4
    <3>5. one \in BOOLEAN
      BY <3>1 DEF BitOf, IsSet
    <3>6. CmdInv'
      BY <2>1, <2>5, <3>1, <3>2, <3>4, <3>5, PutsOne
    <3>7. OffsetsInv'
      BY <2>1, <3>3, NextPlace DEF OffsetsInv, Place
    <3> QED
      BY <2>2, <2>4, <3>6, <3>7 DEF IInv
  <2>7. CASE PutConstant \/ PutAddress
    <3>1. Token.t # "i" /\ UNCHANGED cmd_input_offset /\ Taken' = Taken
      BY <2>1, <2>3, <2>7, InFront DEF PutConstant, PutAddress
    <3>2. CmdInv'
      <4>1. CASE PutConstant
        <5>1. Token.t = "1" <=> Wanted(j + 1)
          BY <4>1 DEF PutConstant, Wanted, Token
        <5> QED
          BY <2>1, <2>5, <4>1, <5>1, PutsOne DEF PutConstant
      <4>2. CASE PutAddress
        <5>1. PICK one \in BitOf(addr, Token.n, AddrBits) : Put(one)
          BY <4>2 DEF PutAddress
        <5>2. ASSUME Defined(j + 1) PROVE one <=> Wanted(j + 1)
          <6>1. Token.n < AddrBits
            BY <4>2, <5>2 DEF Defined, PutAddress, Token
          <6>2. one = IsSet(addr, Token.n)
            BY <5>1, <6>1 DEF BitOf
          <6>3. Wanted(j + 1) = IsSet(addr, Token.n)
            BY <4>2 DEF PutAddress, Wanted, Token
          <6> QED
            BY <6>2, <6>3
        <5>3. one \in BOOLEAN
          BY <5>1 DEF BitOf, IsSet
        <5>4. Token.t # "x"
          BY <4>2 DEF PutAddress
        <5> QED
          BY <2>1, <2>5, <5>1, <5>2, <5>3, <5>4, PutsOne
      <4> QED
        BY <2>7, <4>1, <4>2
    <3>3. OffsetsInv'
      BY <2>1, <3>1, NextPlace DEF IInv, OffsetsInv, Place
    <3> QED
      BY <2>2, <2>4, <3>2, <3>3 DEF IInv
  <2> QED
    BY <2>1, <2>6, <2>7
<1>3. CASE UNCHANGED vars
  BY <1>3 DEF vars, IInv, ArgsInv, OffsetsInv, CmdInv, OverrunsAreHarmful, Harmful, Done,
              Taken, InputsAmong, Wanted, Defined, Place
<1> QED
  BY <1>1, <1>2, <1>3 DEF Next

LEMMA Invariance == Spec => []IInv
<1> QED
  BY Initial, Step, PTL DEF Spec

\* Whatever the pattern, memory beyond an array is written only at a token
\* beyond the command's bits, or with a number of three digits, and never
\* passed over: a pattern that ends without an overrun has no such token
\* (programmer_parser.c:164-203).
THEOREM OverrunsExact == Spec => []OverrunsAreHarmful
<1>1. IInv => OverrunsAreHarmful
  BY DEF IInv
<1> QED
  BY <1>1, Invariance, PTL

\* The command is the one that the pattern describes, for every width of a
\* byte, size of a command, pattern, address and input (create_memory_cmd).
THEOREM CommandsRight == Spec => []CmdRight
<1>1. IInv => CmdRight
  BY DEF IInv, CmdInv, CmdRight, Done
<1> QED
  BY <1>1, Invariance, PTL
=============================================================================
