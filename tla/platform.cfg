SPECIFICATION ApartSpec
CONSTANTS
    Identity = {i1}
    Service = {s1}
    Spelling = {lower,upper}
    OwnService = s1
    OwnSpelling = lower
    Nullifier = {n1}
    Challenge = {c1,c2}
    Request = {r1,r2}
    NULL = NULL
    ZoneOffset = 0
    ValidFor = 1
    KeptFor = 1
    SessionFor = 1
    MaxTime = 2
SYMMETRY Symmetry
INVARIANTS
    NullifierAdmitsOnceAlone
    TypeOK
    ChallengeServesOnce
    AccountsMatchChallenges
    OneSessionPerChallenge
PROPERTIES
    FreshChallengeAccepted
CHECK_DEADLOCK FALSE
