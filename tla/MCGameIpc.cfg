SPECIFICATION FairSpec
CONSTANTS
    MAX_DEPTH = 2
    PipeCapacity = 4
INVARIANTS
    OneRequestOneAnswer
    WritesNeverFail
    ResultIsTrue
PROPERTIES
    PlaysTicTacToe
    GameFinishes
