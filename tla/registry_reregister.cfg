SPECIFICATION Spec
CONSTANTS
    Address = {a1}
    ZeroAddress = zero
    Key = {k1, k2}
    BracketInput = {1}
    MaxIDs = 3
    MaxEvents = 5
PROPERTIES
    RevokedKeyLeavesRing
CHECK_DEADLOCK FALSE
