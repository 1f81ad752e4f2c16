SPECIFICATION RegistrySpec
CONSTANTS
    Address = {a1, a2}
    ZeroAddress = zero
    Key = {k1, k2}
    BracketInput = {1, 4}
    MaxIDs = 3
    MaxEvents = 7
    Depth = 2
    Mpk = {k1, k2}
    Request = {q1, q2}
    NoMpk = nokey
    MaxListed = 5
    Commit = {9}
    TreeRoot = {r1, r2}
    NoRoot = noroot
    Nullifier = {n1}
    Duration = {0, 1, 2}
    InitialDuration = 0
    MAX_ROOT_HISTORY = 2
    MaxV2IDs = 2
    MaxTime = 2
    MaxTx = 5
SYMMETRY Symmetry
INVARIANTS
    TypeOK
    EventsDescribeIDs
    EventsDescribeRoles
    AuditTrailSound
    BatchesCoverRing
    RootsServeTheirTime
    TreeProofsHold
PROPERTIES
    ImplementsPromise
    KeepsPromise
CHECK_DEADLOCK FALSE
