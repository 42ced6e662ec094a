SPECIFICATION FairSpec
CONSTANTS
    a = a
    b = b
    h1 = h1
    None = None
    Clients = {a, b}
    Handles = {h1}
    Inputs = {"close", "read"}
    Polite = TRUE
    MaxPackets = 3
    WriteOutcomes = {"queued"}
    MaxConns = 2
    QueueSize = 3
    MaxInbox = 1
INVARIANTS NeverFull ConnOwned SocketOwned Admitted ReplyToAsker
PROPERTIES Served RequestRead
