SPECIFICATION RingSpec
CONSTANTS
    Address = {a1}
    ZeroAddress = zero
    Key = {k1,k2,k3}
    BracketInput = {1}
    Attempt = {p1}
    ShortKey = {}
    N = 2
    M = 2
    Unset = Unset
    MaxIDs = 3
    MaxEvents = 6
INVARIANTS
    RingsUpToTheLimit
CHECK_DEADLOCK FALSE
