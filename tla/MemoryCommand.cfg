CONSTANTS
    Bits = 2
    U8 = 4
    AddrBits = 3
    Size = 2
    MaxLen = 5
    Tokens <- MCTokens
    Addrs <- MCAddrs
SPECIFICATION Spec
INVARIANTS
    OverrunsAreHarmful
    CmdRight
\* The loop ends.
CHECK_DEADLOCK FALSE
