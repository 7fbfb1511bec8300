CONSTANTS
    p1 = p1  p2 = p2  d1 = d1
    alpine = alpine  app = app  app_ = app_  amd = amd  arm = arm
    Nil = Nil
    Preparers = {p1, p2}
    Deleters = {d1}
    Refs = {alpine}
    RefNames <- MCRefNames
    EscapeRef <- MCEscapeRef
    Platforms = {amd}
    Manifests <- MCManifests
    Configs <- MCConfigs
    Blobs <- MCBlobs
    DiffIDs <- MCDiffIDs
    ConfigOf <- MCConfigOf
    LayersOf <- MCLayersOf
    DiffIDsOf <- MCDiffIDsOf
    Inflate <- MCInflate
    Serves <- RaceServes
    MaxFaults = 2
SPECIFICATION Spec
INVARIANTS
    TypeOK
    CompleteIsFull
    RefImpliesContent
PROPERTY ImplementsCache
