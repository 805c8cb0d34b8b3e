SPECIFICATION Spec
CONSTANTS
    Player <- OnePlayer
    MaxConn = 1
    MaxEvents = 1
    MaxEntity = 1
INVARIANTS
    NoStaleIds
