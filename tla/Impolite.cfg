SPECIFICATION Spec
SYMMETRY Symmetry
CONSTANTS
    a = a
    h1 = h1
    h2 = h2
    None = None
    Clients = {a}
    Handles = {h1, h2}
    Inputs = {"close", "bad"}
    Polite = FALSE
    MaxPackets = 1
    WriteOutcomes = {"queued"}
    MaxConns = 2
    QueueSize = 5
    MaxInbox = 1
INVARIANTS TypeOK HandlesValid InBounds
