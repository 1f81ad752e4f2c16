SPECIFICATION SharedSpec
CONSTANTS
    Address = {a1}
    ZeroAddress = zero
    Key = {k1,k2,k3}
    BracketInput = {1}
    Attempt = {p1,p2}
    ShortKey = {k3}
    N = 2
    M = 3
    Unset = Unset
    MaxIDs = 4
    MaxEvents = 7
SYMMETRY Symmetry
INVARIANTS
    RingTypeOK
    ScanBetween
    AcceptedWasActive
    RegistrationsDoNotDisturb
PROPERTIES
    CrashNeedsLateKey
CHECK_DEADLOCK FALSE
