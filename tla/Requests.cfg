SPECIFICATION Spec
CONSTANTS
    a = a
    h1 = h1
    None = None
    Clients = {a}
    Handles = {h1}
    Inputs = {"read"}
    Polite = FALSE
    MaxPackets = 3
    WriteOutcomes = {"queued"}
    MaxConns = 1
    QueueSize = 5
    MaxInbox = 1
INVARIANTS QueuesDrained ReplyIntact PacketsSound ReleaseAccepted
PROPERTIES SessionSpec
