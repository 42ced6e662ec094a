CONSTANTS
    U8 = 6
    U16 = 20
    Retries = 2
    Addresses <- MCAddresses
    MaxBody = 8
    MaxData = 9
    Blocks <- MCBlocks
    Ranges <- MCRanges
    Noisy = TRUE
    PowerFails = TRUE
SPECIFICATION FairSpec
INVARIANTS
    TypeOK
    AckMeansLoaded
    ReadFaithful
PROPERTIES
    WritesInRange
    TransfersRunOut
    ServiceSpec
    Answered
