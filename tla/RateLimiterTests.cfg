SPECIFICATION TestSpec
CONSTANTS
    p1 = p1
    p2 = p2
    c1 = c1
    c2 = c2
    c3 = c3
    c4 = c4
    Nil = Nil
    BUCKET_SIZE = 4
    TOKEN_RATE = 3
    TicksPerSecond = 4
    MAX_CLIENTS = 3
    MaxCalls = 40
    Peers <- MCPeers
    Clients <- MCClients
    Stamps <- MCStamps
CHECK_DEADLOCK FALSE
INVARIANT ChecksHold
