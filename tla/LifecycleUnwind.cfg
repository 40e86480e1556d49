SPECIFICATION Spec
CONSTANTS
    Signals = {2, 15}
    MaxCrashes = 0
    ThrowPoints <- AnyStatement
INVARIANT BusTargetsAlive
