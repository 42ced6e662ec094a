------------------------------- MODULE MCCodec -------------------------------
EXTENDS Codec

Header(s, f, t, n) ==
    [k \in 0 .. 4 |-> CASE k = 0 -> s [] k = 1 -> f [] k = 2 -> t
                         [] k = 3 -> n \div 256 [] k = 4 -> n % 256]

\* Every type byte up to 0x33 and two beyond, with a small body; and, for a type
\* of every group and one unknown, right and wrong start bytes, with the sizes
\* at which a byte carries and those around the limits 1024, 1029 and 65535.
MCRequests ==
    {Header(27, 5, t, 4) : t \in 0 .. 51 \cup {128, 255}} \cup
    {Header(s, f, t, n) : s \in {0, 27}, f \in {250}, t \in {16, 34, 52},
                          n \in {0, 256, 1024, 1029, 1030, 65535}}

NoFlags == [b \in {Compression, Encryption, Sign} |-> 0]

\* Cleared memory, and what an acknowledged request has left.
MCPrevious ==
    {[raw    |-> Header(0, 0, 0, 0),
      header |-> [type |-> 0, group |-> "ControlGroup", size |-> 0, flags |-> NoFlags]],
     [raw    |-> Header(27, 0, 20, 1),
      header |-> [type |-> 4, group |-> "ControlGroup", size |-> 1, flags |-> NoFlags]]}

MCReplySizes == {1, 256, 1029, 1030}
=============================================================================
