SPECIFICATION Spec
CONSTANTS
    Runs = {r1, r2}
    Makers = {m1}
    Deletes = {d1}
    Settings <- MCSettings
    Shared = Shared
    Nil = Nil
    MaxFaults = 1
SYMMETRY MCRunSymmetry
INVARIANTS
    TypeOK
    ReadsAreWhole
    SnapshotIsReady
    JailedBatchRunsInOwnVM
    OneBatchPerVM
