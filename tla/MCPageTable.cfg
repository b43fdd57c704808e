SPECIFICATION Spec
CONSTANTS
    TTB_L1_ENTRIES = 4
    TTB_L2_ENTRIES = 2
    KernelIndex = 2
    SysPgtable = SysPgtable
    A = A
    B = B
    f1 = f1
    f2 = f2
    f3 = f3
    f4 = f4
    a = a
    b = b
    Pgtable <- TwoProcesses
    L2Table <- Tables
    RamSection = 1
    Pool <- FourFrames
    RootStart = 2
    RootSize = 1
    USER_SPACE_VADDR = 1
    Stack <- StackPage
    Images <- TwoOrThreePages
    IoRanges <- OneDevice
    FIXMAP_MAPPING = 7
    Data <- TwoContents
SYMMETRY Symmetry
\* The last process may exit.
CHECK_DEADLOCK FALSE
INVARIANTS
    TablesAccounted
    TranslatesOwnPages
PROPERTIES
    ImplementsAddressSpaces
