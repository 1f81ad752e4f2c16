SPECIFICATION Spec
CONSTANTS
    Identity = {i1}
    Service = {s1}
    Spelling = {lower}
    OwnService = s1
    OwnSpelling = lower
    Nullifier = {n1}
    Challenge = {c1}
    Request = {r1,r2}
    NULL = NULL
    ZoneOffset = 0
    ValidFor = 1
    KeptFor = 1
    SessionFor = 1
    MaxTime = 0
INVARIANTS
    NullifierAdmitsOnce
CHECK_DEADLOCK FALSE
