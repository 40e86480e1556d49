SPECIFICATION MCSpec
CONSTANTS
    Relays = {r1, r2}
    p1 = p1
    p2 = p2
    Payloads <- MCPayloads
    PayloadLength <- MCPayloadLength
    LayerOverhead = 1
    SizeLimit = 8
    Controls <- MCControls
    HOP_LIMIT = 3
    MaxPath = 2
    Nil = Nil
    NotJson = NotJson
    Fail = Fail
    Garbage = Garbage
INVARIANT ResponseAlwaysRecovered
CHECK_DEADLOCK FALSE
