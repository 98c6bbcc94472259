SPECIFICATION Spec
CONSTANTS
    image1 = image1
    image2 = image2
    copy1 = copy1
    copy2 = copy2
    copy3 = copy3
    Images = {image1, image2}
    Copies = {copy1, copy2, copy3}
    Source <- TwoCopies
    Names <- MCNames
    Tree <- MCTree
    UidMap <- MCIdMap
    GidMap <- MCIdMap
    NoFile = NoFile
    EmptyFile = EmptyFile
    NoCopy = NoCopy
    Faults = {"make", "unmake", "walk", "crash"}
INVARIANTS
    TypeOK
    SiblingsKeepParent
    LinkedCopiesAreWhole
    FilesMatchGraph
    UnbrokenAnswers
