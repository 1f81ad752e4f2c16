SPECIFICATION Spec
CONSTANTS
    Identity = {i1}
    Service = {s1}
    Spelling = {lower}
    OwnService = s1
    OwnSpelling = lower
    Nullifier = {}
    Challenge = {c1}
    Request = {r1}
    NULL = NULL
    ZoneOffset <- WestOfUTC
    ValidFor = 2
    KeptFor = 3
    SessionFor = 1
    MaxTime = 4
PROPERTIES
    ChallengesExpire
CHECK_DEADLOCK FALSE
