\* The user may exit, or stop typing.
CHECK_DEADLOCK FALSE
SPECIFICATION ShellFairSpec
CONSTANTS
    MaxJobs = 2
    MaxWrites = 2
    PipeCapacity = 1
    RootShell = FALSE
INVARIANT
    SidesSettled
PROPERTIES
    PromptReturns
    PipelineEnds
