SPECIFICATION Spec
CONSTANTS
    n1 = n1
    n2 = n2
    Nil = Nil
    Nodes <- MCNodes
    Words <- MCWords
    MaxArgs = 4
CHECK_DEADLOCK FALSE


INVARIANT PromiseCompletedOnceAndAlive

