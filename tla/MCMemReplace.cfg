SPECIFICATION ReplaceSpec
CONSTANTS
    NB_PAGES = 5
    Resident <- ThreePages
    DELTA = 2
    CounterMod = 8
    MaxLRU = 7
\* LRU is followed up to its bound.
CHECK_DEADLOCK FALSE
INVARIANTS
    FaultsExchangePages
PROPERTIES
    EvictsLeastRecent
    
