SPECIFICATION FairSpec
CONSTANTS
    Workers = {w1}
    PageSize = 2
    Budget = 4
    None = None
    MaxPerBlock = 3
    MaxTxns = 5
    MaxMishaps = 1
PROPERTIES
    CursorsOnlyAdvance
    Drains
CHECK_DEADLOCK FALSE
