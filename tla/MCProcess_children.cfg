SPECIFICATION FairSpec
CONSTANTS
    f1 = f1
    f2 = f2
    f3 = f3
    f4 = f4
    f5 = f5
    k1 = k1
    MaxPid = 3
    Frame <- FourFrames
    KernelFrame <- KernelFrameDef
    RootStackPages = 1
    ImageSizes <- OnePage
    AnyWait = FALSE
INVARIANTS
    HeldPcbIntact
    ChildrenWaitable
    AssertsHold
    CleanedPcbHasChildren
PROPERTIES
    ImplementsForkWait
    JoinReturns
