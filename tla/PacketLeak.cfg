SPECIFICATION Spec
SYMMETRY Symmetry
CONSTANTS
    a = a
    h1 = h1
    None = None
    Clients = {a}
    Handles = {h1}
    Inputs = {"silent"}
    Polite = TRUE
    MaxPackets = 10
    WriteOutcomes = {"queued"}
    MaxConns = 2
    QueueSize = 5
    MaxInbox = 1
INVARIANTS NeverExhausted
