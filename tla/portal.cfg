SPECIFICATION PortalSpec
CONSTANTS
    Address = {srv}
    Server = srv
    ZeroAddress = zero
    Key = {c1,c2,k0}
    Child = {c1,c2}
    BracketInput = {1, 4}
    Parent = {p1}
    Request = {r1,r2}
    NULL = NULL
    MaxTx = 2
    MaxOutsideEvents = 2
    MaxIDs = 10
    MaxEvents = 20
SYMMETRY Symmetry
INVARIANTS
    PortalTypeOK
    StoredIndexIsOwn
    UndisturbedApprovalsAgree
    PoolHasNoGaps
PROPERTIES
    LostIdentityHasCause
    ReinstatedByOlderApproval
CHECK_DEADLOCK FALSE
