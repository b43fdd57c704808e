SPECIFICATION Spec
CONSTANTS
    f1 = f1
    f2 = f2
    f3 = f3
    f4 = f4
    f5 = f5
    k1 = k1
    MaxPid = 3
    Frame <- FiveFrames
    KernelFrame <- KernelFrameDef
    RootStackPages = 1
    ImageSizes <- OneOrTwoPages
    AnyWait = TRUE
SYMMETRY FrameSymmetry
\* A program may wait for itself, or two for each other.
CHECK_DEADLOCK FALSE
INVARIANTS
    FrameOwnership
    ParentExists
    LiveMappingsOwned
    NothingLeaked
PROPERTIES
    ReapsOnlyFinished
