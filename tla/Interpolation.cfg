SPECIFICATION Spec
CONSTANTS
    Delay = 3
    MaxSamples = 3
    MaxStep = 2
    MaxTime = 11
    MaxTick = 6
INVARIANTS
    OnTime
PROPERTIES
    SettledForward
