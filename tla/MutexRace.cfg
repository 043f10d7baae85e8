SPECIFICATION Spec
CONSTANTS
    MaxProcesses = 2
    MaxThreads = 2
    BootProcesses = 2
    Workers = 2
    RaceIterations = 2
INVARIANTS
    MutualExclusion
