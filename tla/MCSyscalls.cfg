SPECIFICATION Spec
CONSTANTS
    t1 = t1
    t2 = t2
    t3 = t3
    p1 = p1
    p2 = p2
    sh = sh
    ls = ls
    Thread = {t1, t2, t3}
    Process = {p1, p2}
    Program = {sh, ls}
    RootProgram = sh
    pcb <- MCPcb
    errno_of <- MCErrno
    Increments <- MCIncrements
    HEAP_SIZE = 4
    IntMax = 7
    WORD = 2
    PAGE_SIZE = 20
    KernelPage = 1000
    ArgsBase = 500
    ProcName <- MCProcName
    ArgLists <- MCArgLists
    EnvLists <- MCEnvLists
INVARIANTS ErrnoTold HeapAreasApart ArgumentsArrive
SYMMETRY MCSymmetry
