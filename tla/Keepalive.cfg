SPECIFICATION Spec
CONSTANTS
    PingInterval = 4
    ClientTimeout = 32
    ServerTimeout = 40
    ClientTurn = 1
    ServerTurn = 1
    LongTurn = 12
    Latency = 1
    MaxLost = 2
INVARIANTS
    NoFalseDrop
    ClientNotices
    ServerNotices
