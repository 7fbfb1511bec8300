CONSTANTS
    HeaderTimeout = 2
    RunTimeout = 4
    MaxCrashes = 0
SPECIFICATION Spec
INVARIANT HostWaitsForBatch
