SPECIFICATION Spec
CONSTANTS
    Rows = 2
    Cols = 2
    TabWidth = 2
    Printers <- MCPrinters
    Reader = 0
    LineSize = 3
    MaxThreads = 2
    Users <- MCUsers
    Rounds = 1
    RoundText <- MCRoundText
    EndText <- MCEndText
    Prompt <- MCPrompt
    Message <- MCMessage
    RaceIterations = 3
INVARIANTS
    CursorComesBack
    ShiftIsNotStuck
    RaceTotalInRange
PROPERTIES
    ImplementsLineEditor
