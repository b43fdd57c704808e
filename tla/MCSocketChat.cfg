\* The programs end when the client has quit.
CHECK_DEADLOCK FALSE
SPECIFICATION FairSpec
CONSTANT MaxSignals = 5
INVARIANTS
    InTurns
    AnswersTheRequest
PROPERTY QuitEndsBoth
