SPECIFICATION ObsSpec
CONSTANTS
    e1 = e1
    e2 = e2
    e3 = e3
    e4 = e4
    anna = anna
    bob = bob
    carl = carl
    dora = dora
    NoName = NoName
    Endpoint <- MCEndpoint
    Name <- MCName
    MaxPlayers = 3
    Timeout = 2
    MaxId = 4
    MaxTick = 1
    MaxKicks = 2
SYMMETRY Symmetric
INVARIANTS
    TypeOK
    SessionsWellFormed
    ToldRoster
    ScriptsSeeRoster
    KicksCarriedOut
PROPERTIES
    RelaysAdvance
    RelayReachesTold
    RosterSpec
CHECK_DEADLOCK FALSE
