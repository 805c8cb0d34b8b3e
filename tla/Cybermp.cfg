SPECIFICATION Spec
CONSTANTS
    a1 = a1
    a2 = a2
    b1 = b1
    anna = anna
    bob = bob
    NoName = NoName
    Endpoint <- MCEndpoint
    Name <- MCName
    NameOf <- MCNameOf
    MaxAttempts = 2
    MaxPlayers = 2
    MaxId = 3
INVARIANTS
    PictureReal
    PictureExact
CHECK_DEADLOCK FALSE
