SPECIFICATION Spec
CONSTANTS
    Signals = {2, 15}
    MaxCrashes = 2
    ThrowPoints <- AnyStatement
INVARIANT TypeOK
INVARIANT KeysBeforePorts
INVARIANT CertKeyPaired
INVARIANT BusTargetsAliveInOrder
INVARIANT ListenerWithinBus
PROPERTY SignalStops
