SPECIFICATION Spec
CONSTANTS
    MaxProcesses = 1
    MaxThreads = 2
    BootProcesses = 1
    Producers = 1
    ItemsEach = 2
    BufferSize = 2
INVARIANTS
    AllItemsConsumed
