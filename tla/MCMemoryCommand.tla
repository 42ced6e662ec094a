-------------------------- MODULE MCMemoryCommand --------------------------
EXTENDS MemoryCommand

\* Two bytes of two bits: every pattern of up to five tokens, one more than
\* the command holds and three more than an input has bits.  An address has
\* three bits; one token shifts by more, and one has too many digits.
MCTokens == [t : {"1", "i", "x", "A"}, n : {0}] \cup [t : {"a"}, n : {0, 2, 3}]
MCAddrs == {1, 4}
=============================================================================
