SPECIFICATION Spec
CONSTANTS
    Nil = Nil
    Keys <- MCKeys
    Inputs <- MCInputs
CHECK_DEADLOCK FALSE
INVARIANT TypeOK
INVARIANT RoundTrip
INVARIANT AcceptedIsWhole
