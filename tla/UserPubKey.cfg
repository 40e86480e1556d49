SPECIFICATION Spec
CONSTANTS
    KeyBytes = 2
    InputChars <- MCInputChars
    Nil = Nil
INVARIANT TypeOK
INVARIANT KeyIsWhole
PROPERTY OnlyTestnetZeroChanges
