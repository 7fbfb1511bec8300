CONSTANTS
    Batches <- MCCommands
    MaxFileBytes = 2
    MaxBodyBytes = 4
    OutputLimit = 2
    Children = {c1}
    Streams = {"stdout"}
    Chunks = {1, 2, 3}
    MaxOutput = 3
SPECIFICATION FairSpec
PROPERTIES
    TimeoutKillsGroup
