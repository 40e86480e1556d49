SPECIFICATION ProgramSpec
CONSTANTS
    n1 = n1
    n2 = n2
    Nil = Nil
    NotJson = NotJson
    Fail = Fail
    Garbage = Garbage
    Relays <- MCRelays
    Words <- MCWords
    MaxArgs = 4
    MaxPath = 2
    Payloads <- MCPayloads
    Controls <- MCControls
    ControlOf <- MCControlOf
    PayloadLength <- MCPayloadLength
    LayerOverhead = 1
    SizeLimit = 8
    HOP_LIMIT = 3
CHECK_DEADLOCK FALSE
INVARIANT ProgramTypeOK
INVARIANT ServedAsTyped
PROPERTY CalledAsAssumed
PROPERTY CommandEnds
