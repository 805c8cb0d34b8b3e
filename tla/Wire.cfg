SPECIFICATION Spec
CONSTANTS
    kMaxDatagram = 1200
    kMaxStringSize = 256
    Message <- MCMessage
    Junk <- MCJunk
INVARIANTS
    RoundTrip
    LengthChecked
    Faithful
CHECK_DEADLOCK FALSE
