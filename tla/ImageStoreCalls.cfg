CONSTANTS
    p1 = p1  p2 = p2  d1 = d1
    alpine = alpine  app = app  app_ = app_  amd = amd  arm = arm
    Nil = Nil
    Preparers = {p1, p2}
    Deleters = {}
    Refs = {app, app_}
    RefNames <- CollidingRefNames
    EscapeRef <- CollidingEscapeRef
    Platforms = {amd, arm}
    Manifests <- MCManifests
    Configs <- MCConfigs
    Blobs <- MCBlobs
    DiffIDs <- MCDiffIDs
    ConfigOf <- MCConfigOf
    LayersOf <- MCLayersOf
    DiffIDsOf <- MCDiffIDsOf
    Inflate <- MCInflate
    Serves <- CallServes
    MaxFaults = 1
SPECIFICATION FairSpec
INVARIANTS
    AnswerIsForName
    ListedImagesExist
PROPERTY CallsReturn
