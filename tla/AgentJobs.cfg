CONSTANTS
    Batches <- MCBatches
    MaxFileBytes = 2
    MaxBodyBytes = 4
    OutputLimit = 2
    Children = {c1, c2}
    Streams = {"stdout", "stderr"}
    Chunks = {1, 2, 3}
    MaxOutput = 3
SPECIFICATION TameSpec
INVARIANTS
    TypeOK
    StatusIsVerdict
    UploadsAreBounded
    CaptureIsPrefix
    TimedOutGroupIsDead
PROPERTIES
    BatchEnds
