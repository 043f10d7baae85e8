SPECIFICATION ShellSpec
CONSTANTS
    NoName = NoName
    Names = {f, NoName}
    BadNames = {NoName}
    MaxInodes = 4
    DataStart = 5
    TotalBlocks = 7
    BlockSize = 2
    DirectBlocks = 2
    MaxDirEntries = 2
    MaxOpenFiles = 1
    Characters = {0, 1}
    Counts = {3}
    Texts <- MCTexts
INVARIANTS
    WriteAppends
