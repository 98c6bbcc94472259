SPECIFICATION SafetySpec
CONSTANTS
    rootLayer = rootLayer
    topLayer = topLayer
    nsRoot = nsRoot
    nsTop = nsTop
    BaseLayers = {rootLayer, topLayer}
    NamespacedLayers = {nsRoot, nsTop}
    Containers = {c1, c2}
    NoLayer = NoLayer
    Manifests <- TwoLayers
    BaseParent <- MCBaseParent
    NamespacedID <- MCNamespacedID
    PersistentImages = {topLayer}
    Size <- UnitSize
    Limit = 1
    Faults = {"fetch", "layer", "remove"}
    SerialDestroy = TRUE
SYMMETRY Symmetry
INVARIANTS
    GCLeavesNoGarbage
    ParentsPresent
    LeavesHaveNoChildren
