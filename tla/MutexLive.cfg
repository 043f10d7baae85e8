SPECIFICATION CalmSpec
CONSTANTS
    MaxProcesses = 2
    MaxThreads = 3
    BootProcesses = 2
    Workers = 2
    RaceIterations = 2
PROPERTIES
    DemoCompletes
    SleeperGetsIn
