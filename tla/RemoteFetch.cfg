SPECIFICATION Spec
CONSTANTS
    baseLayer = baseLayer
    app = app
    tool = tool
    baseBlob = baseBlob
    topBlob = topBlob
    Fetchers = {f1, f2}
    Layers = {baseLayer, app, tool}
    Blobs = {baseBlob, topBlob}
    BlobOf <- MCBlobOf
    ParentOf <- MCParentOf
    NoLayer = NoLayer
    Images <- MCImages
    Quotas = {0, 2, 4}
    Declared <- MCDeclared
    Bytes <- MCBytes
    Inflated <- MCInflated
    MaxAttempts = 2
    Faults = {"network", "digest", "disk"}
INVARIANTS
    TypeOK
    NeverTwice
    ImageComplete
    OnlyFailuresLitter
PROPERTIES
    ParentsFirst
    QuotaIsKept
    FetchReturns
