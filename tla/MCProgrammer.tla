---------------------------- MODULE MCProgrammer ----------------------------
EXTENDS Programmer

MCAddresses == 0 .. 11
Block(m, s, b) == [mem |-> m, start |-> s, body |-> b]
Span(m, s, n) == [mem |-> m, start |-> s, count |-> n]

\* Blocks of one and two words, words that equal their addresses and so can
\* be read back, a word over another's, a block longer than a _u8 counts, an
\* odd length, no bytes, no memory.
MCBlocks ==
    {Block("flash", 0, <<0, 0, 1, 1>>), Block("flash", 2, <<2, 2, 3, 3>>), Block("flash", 1, <<1, 4>>),
     Block("flash", 0, <<0, 0, 2, 3, 4, 5, 0, 1>>),
     Block("flash", 0, <<2>>), Block("flash", 0, <<>>), Block("err", 0, <<2>>),
     Block("eeprom", 0, <<0, 1>>), Block("eeprom", 1, <<2>>)}

\* Ranges of an odd and of no length, longer than a _u8 counts, than
\* packet_data, than a packet may be, than an _i16 and than a _u16 counts; no
\* memory.
MCRanges ==
    {Span("flash", 0, 4), Span("flash", 0, 1), Span("flash", 0, 8), Span("flash", 0, 0),
     Span("flash", 0, 10), Span("flash", 0, 22),
     Span("err", 0, 2), Span("err", 0, 10),
     Span("eeprom", 0, 0), Span("eeprom", 0, 2), Span("eeprom", 1, 1), Span("eeprom", 0, 8),
     Span("eeprom", 0, 9)}
=============================================================================
