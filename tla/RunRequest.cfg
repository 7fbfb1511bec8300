CONSTANTS
    ConfigFiles <- MCConfigFiles
    Requests <- MCRequests
    CommandLines <- MCCommandLines
    Components <- MCComponents
    Outputs <- MCOutputs
    ExitCodes <- MCExitCodes
SPECIFICATION Spec
INVARIANTS
    GuestStaysWithinLimits
    ServerChecksCoverAgent
    ModestRequestIsServed
    OneCommandIsReported
    ExitZeroMeansSuccess
