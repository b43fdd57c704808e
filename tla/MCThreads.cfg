SPECIFICATION FairSpec
CONSTANTS
    LETTERS_NB = 2
    CHILDREN_LIMIT = 3
    SizeRange = 65536
    Files <- MCFiles
    ThreadArgs <- MCThreadArgs
INVARIANTS EachCharacterOnce MergedAfterJoin CountsTheText
PROPERTIES ProgramEnds
