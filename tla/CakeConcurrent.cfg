SPECIFICATION SafetySpec
CONSTANTS
    rootLayer = rootLayer
    topLayer = topLayer
    nsRoot = nsRoot
    nsTop = nsTop
    BaseLayers = {rootLayer, topLayer}
    NamespacedLayers = {nsRoot, nsTop}
    Containers = {c1, c2}
    NoLayer = NoLayer
    Manifests <- TwoLayers
    BaseParent <- MCBaseParent
    NamespacedID <- MCNamespacedID
    PersistentImages = {topLayer}
    Size <- UnitSize
    Limit = 0
    Faults = {"namespace", "remove", "panic"}
    SerialDestroy = FALSE
CHECK_DEADLOCK FALSE
SYMMETRY Symmetry
INVARIANTS
    TypeOK
    FetchedLayersStay
    CopiedImagesStay
    RetainedSurvive
    OneNamespacer
PROPERTIES
    ContainersSurviveGC
