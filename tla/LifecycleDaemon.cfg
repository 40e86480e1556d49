SPECIFICATION SpecAnyDaemon
CONSTANTS
    Signals = {2, 15}
    MaxCrashes = 0
    ThrowPoints <- AnyStatement
PROPERTY SignalAlwaysStops
