SPECIFICATION FairSpec
CONSTANTS
    w1 = w1
    w2 = w2
    frameBegin = frameBegin
    mpUpdate = mpUpdate
    NoWorker = NoWorker
    Worker <- MCWorker
    Drainer <- MCCallbacks
    Budget <- MCBudget
    MaxTask = 3
INVARIANTS
    InOrder
    EachOnce
    DrainBounded
    CountersAgree
    NoPongAfterUnload
PROPERTIES
    EachRuns
