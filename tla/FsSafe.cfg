SPECIFICATION Spec
CONSTANTS
    f = f
    g = g
    NoName = NoName
    Names = {f, g, NoName}
    BadNames = {NoName}
    MaxInodes = 4
    DataStart = 5
    TotalBlocks = 7
    BlockSize = 2
    DirectBlocks = 2
    MaxDirEntries = 2
    MaxOpenFiles = 2
    Characters = {0, 1}
    Counts = {3}
    Texts <- MCTexts
SYMMETRY MCSymmetry
INVARIANTS
    FsTypeOK
    BlocksHaveOneOwner
    FilesAreNamedOnce
    SizesCoverBlocks
    StatisticsAreAccurate
    DescriptorsAreAlive
PROPERTIES
    ImplementsFileStore
