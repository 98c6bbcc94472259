SPECIFICATION Spec
CONSTANTS
    rootLayer = rootLayer
    topLayer = topLayer
    nsRoot = nsRoot
    nsTop = nsTop
    BaseLayers = {rootLayer}
    NamespacedLayers = {nsRoot}
    Containers = {c1, c2}
    NoLayer = NoLayer
    Manifests <- OneLayer
    BaseParent <- MCBaseParent
    NamespacedID <- MCNamespacedID
    PersistentImages = {}
    Size <- UnitSize
    Limit = 0
    Faults = {"fetch"}
    SerialDestroy = TRUE
PROPERTIES
    AllReturn
