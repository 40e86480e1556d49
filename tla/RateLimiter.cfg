SPECIFICATION Spec
CONSTANTS
    p1 = p1
    c1 = c1
    c2 = c2
    c3 = c3
    Nil = Nil
    BUCKET_SIZE = 2
    TOKEN_RATE = 1
    TicksPerSecond = 2
    MAX_CLIENTS = 2
    MaxCalls = 5
    Peers <- MCPeers
    Clients <- MCClients
    Stamps <- MCStamps
SYMMETRY ClientSymmetry
CHECK_DEADLOCK FALSE
INVARIANT TypeOK
INVARIANT RateBounded
INVARIANT QuietThenAllowed
