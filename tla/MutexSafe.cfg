SPECIFICATION Spec
CONSTANTS
    MaxProcesses = 2
    MaxThreads = 4
    BootProcesses = 2
    Workers = 3
    RaceIterations = 2
CONSTRAINT
    NotStruck
INVARIANTS
    ExcludesUntilStruck
    InsideOwns
    OwnerIsAwake
    SleeperWillBeWoken
    ReportedTotalIsRight
PROPERTIES
    ImplementsFifoLock
