SPECIFICATION FairSpec
CONSTANTS
    Player <- OnePlayer
    HelloRetry = 1
    MaxAttempts = 2
    ServerTimeout = 2
    MaxConn = 2
    MaxTick = 2
    MaxEvents = 2
INVARIANTS
    OldConnectionGone
    DisconnectIsFinal
    NoEventLost
PROPERTIES
    SentInOrder
    ConnectingEnds
    SilenceNoticed
    CallsReturn
