SPECIFICATION SafetySpec
CONSTANTS
    rootLayer = rootLayer
    topLayer = topLayer
    nsRoot = nsRoot
    nsTop = nsTop
    BaseLayers = {rootLayer, topLayer}
    NamespacedLayers = {nsRoot, nsTop}
    Containers = {c1, c2}
    NoLayer = NoLayer
    Manifests <- TwoLayers
    BaseParent <- MCBaseParent
    NamespacedID <- MCNamespacedID
    PersistentImages = {}
    Size <- UnitSize
    Limit = 0
    Faults = {}
    SerialDestroy = FALSE
SYMMETRY Symmetry
INVARIANTS
    LeavesHaveNoChildren
