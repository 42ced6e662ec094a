SPECIFICATION Spec
CONSTANTS
    a = a
    b = b
    h1 = h1
    h2 = h2
    None = None
    Clients = {a, b}
    Handles = {h1, h2}
    Inputs = {"close", "read"}
    Polite = TRUE
    MaxPackets = 4
    WriteOutcomes = {"queued"}
    MaxConns = 2
    QueueSize = 3
    MaxInbox = 1
INVARIANTS ReleaseKept
