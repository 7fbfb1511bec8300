SPECIFICATION Spec
CONSTANTS
    Runs = {r1, r2}
    Makers = {m1}
    Deletes = {}
    Settings <- MCUnjailed
    Shared = Shared
    Nil = Nil
    MaxFaults = 0
SYMMETRY MCRunSymmetry
INVARIANTS
    BatchRunsInOwnVM
