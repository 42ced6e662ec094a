SPECIFICATION Spec
CONSTANTS
    ap = ap
    Default = default
    Junk = junk
    Torn = torn
    NoFile = nofile
    Configs = {ap}
    AccessPoints = {ap}
    MAX_CONNECTING_TIME = 2
    U8 = 3
    HeaderSize = 1
    BodySize = 2
    BigSize = 4
    MaxUpdaters = 2
    Hosts <- MCTwoPackets
INVARIANTS HeaderAgain
CHECK_DEADLOCK FALSE
