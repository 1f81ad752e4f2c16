SPECIFICATION FairPortalSpec
CONSTANTS
    Address = {srv,a2}
    Server = srv
    ZeroAddress = zero
    Key = {c1}
    Child = {c1}
    BracketInput = {1, 4}
    Parent = {p1}
    Request = {r1,r2}
    NULL = NULL
    MaxTx = 3
    MaxOutsideEvents = 1
    MaxIDs = 10
    MaxEvents = 20
PROPERTIES
    AcceptedTxMined
CHECK_DEADLOCK FALSE
