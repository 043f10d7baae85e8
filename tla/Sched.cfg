SPECIFICATION FairSchedulerSpec
CONSTANTS
    MaxProcesses = 4
    MaxThreads = 4
    BootProcesses = 3
INVARIANTS
    SchedulerTypeOK
    BooksMatchCpu
    FramesAreOwn
    OnlyCpuRuns
    RingsHoldEverything
    ShellIsAlive
PROPERTIES
    IrqLandsOnRunnable
    DeadStaysDead
    ImplementsDispatch
    ReadyProcessRuns
    ReadyThreadRuns
