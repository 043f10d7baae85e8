SPECIFICATION Spec
CONSTANTS
    MaxFrames = 8
    LowFrames = 2
    FrameSize = 4
    MapEntries <- MCMapEntries
    KernelFrames <- MCKernelFrames
INVARIANTS
    KernelIsReserved
