CONSTANTS
    c1 = c1
    c2 = c2
    Calls = {c1, c2}
    Chains = {A, B}
    Nil = Nil
    Mixes <- MCMixes
    MaxUpsets = 1
SPECIFICATION FairSpec
INVARIANTS
    TypeOK
    SnapshotIsOfItsChain
PROPERTIES
    CallsEnd
    DaemonStops
    NoVMOutlivesDaemon
