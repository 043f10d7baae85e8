SPECIFICATION CalmSpec
CONSTANTS
    MaxProcesses = 1
    MaxThreads = 4
    BootProcesses = 1
    Producers = 2
    ItemsEach = 1
    BufferSize = 1
PROPERTIES
    DemoCompletes
