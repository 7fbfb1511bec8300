CONSTANTS
    HeaderTimeout = 2
    RunTimeout = 4
    MaxCrashes = 1
SPECIFICATION FairSpec
INVARIANTS
    TypeOK
    BatchRunsOnce
    OutcomeIsVerdict
PROPERTIES
    RunReturns
    NoVMLeftRunning
    ImplementsRun
