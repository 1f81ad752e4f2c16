SPECIFICATION PortalSpec
CONSTANTS
    Address = {srv}
    Server = srv
    ZeroAddress = zero
    Key = {c1}
    Child = {c1}
    BracketInput = {1, 4}
    Parent = {p1}
    Request = {r1,r2}
    NULL = NULL
    MaxTx = 3
    MaxOutsideEvents = 2
    MaxIDs = 10
    MaxEvents = 20
PROPERTIES
    RevokedChildStaysRevoked
CHECK_DEADLOCK FALSE
