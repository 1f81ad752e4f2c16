SPECIFICATION Spec
CONSTANTS
    Order = 46337
    Width = 46349
    Dim = 11
    RingBase = 2
    RingDigits = 3
    TopicSize = 2
    Hash <- Digest
    RingJob <- RingJobs
    CommitHash <- Digest
    Amounts <- AmountJobs
    RangeHash <- Digest
    Word = 6
    MaxExp = 1
    RangeJobs <- RangeProofJobs
    SurjectionJobs <- SurjectionProofJobs
    WhitelistJobs <- WhitelistProofJobs
    MaxKeys = 3
    AggHash <- Digest
    AggJobs <- AggregateJobs
    AggExtras = {0, 4321}
    MaxFailures = 2
    FieldPrime = 43
    CurveB = 7
    CurveOrder = 31
    BasePoint <- SmallBasePoint
    Beta = 6
    Lambda = 5
    ScalarBits = 5
    HalfBits = 3
    WindowA = 4
    WindowG = 4
    GenBits = 2
    NumsX = 12
    SplitShift = 10
    SplitB1 = 1
    SplitB2 = 6
    PippengerThreshold = 3
    CurveHash <- Digest
    MultiJobs <- ProductJobs
    Alignment = 16
    MaxFrames = 2
    Limits <- SpaceLimits
    Requests <- FrameRequests
    Pieces <- PieceSizes
    MaxObjects = 2
    SizeMax = 1048576
    ByteBase = 32
    ScalarBytes = 2
    SizeBytes = 3
    TagSequence = 30
    TagInteger = 2
    SignHash <- SmallDigest
    SignJobs <- SignatureJobs
    Tweaks <- TweaksTried
    MaxTweaks = 2
    WireBytes <- BytesPut
    FieldLimbCount = 5
    FieldLimbBits = 5
    FieldTopBits = 4
    FieldC0 = 7
    FieldC1 = 1
    WordBits = 9
    DoubleBits = 16
    FieldInputs = {0, 1, 13, 9001345, 16777176, 16777177, 16777215}
    MaxMagnitude = 6
    MaxFactor = 2
    MaxFieldCalls = 3
    ScalarWordBits = 3
    ScalarOrder = 16771973
    ScalarInputs = {0, 1, 8385986, 8385987, 9001345, 16771972, 16771973, 16777215}
    ScalarBitsSet = {0, 11, 22}
    ScalarShifts = {24, 25, 29, 47}
    KeyStream <- Stream
    MaxScalarCalls = 2
INVARIANTS
    MembersAreAccepted
    AcceptedMeansMade
    TallyHoldsExactlyWhenBalanced
    RangeHoldsTheValue
    RewindGivesBackTheSecrets
    ListProofsNameAnEntry
    SignersAreAccepted
    ProductsAgree
    BatchesReturnTheirScratch
    FramesKeepTheirWord
    SignaturesVerify
    WireFormsAgree
    LimbsAreExact
CHECK_DEADLOCK FALSE
