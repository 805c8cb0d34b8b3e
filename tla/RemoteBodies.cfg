SPECIFICATION FairSpec
CONSTANTS
    Player <- TwoPlayers
    MaxConn = 2
    MaxEvents = 2
    MaxEntity = 2
INVARIANTS
    NoOrphan
    BodiesArePresent
PROPERTIES
    LeaversGo
    JoinersAppear
