CONSTANTS
    Requests <- MCRequests
    Previous <- MCPrevious
    ReplySizes <- MCReplySizes
SPECIFICATION FairSpec
INVARIANTS
    InStep
    Overrun
PROPERTIES
    RoundTrip
    RefusalKeeps
    ReadEnds
\* A packet's life ends once its reply has been parsed.
CHECK_DEADLOCK FALSE
