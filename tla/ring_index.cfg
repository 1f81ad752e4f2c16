SPECIFICATION RingSpec
CONSTANTS
    Address = {a1}
    ZeroAddress = zero
    Key = {k1,k2}
    BracketInput = {1}
    Attempt = {p1}
    ShortKey = {}
    N = 2
    M = 3
    Unset = Unset
    MaxIDs = 3
    MaxEvents = 6
INVARIANTS
    IndexIsRingPosition
CHECK_DEADLOCK FALSE
