SPECIFICATION Spec
CONSTANTS
    MaxProcesses = 1
    MaxThreads = 4
    BootProcesses = 1
    Producers = 2
    ItemsEach = 2
    BufferSize = 2
CONSTRAINT
    NotStruck
INVARIANTS
    BufferIsProtected
    SleepersCanBeFound
    BufferHoldsTheRest
    ItemsConsumedUntilStruck
PROPERTIES
    ImplementsFifoSemaphore
