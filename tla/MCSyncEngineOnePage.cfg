SPECIFICATION FairSpec
CONSTANTS
    Workers = {w1}
    PageSize = 2
    Budget = 1
    None = None
    MaxPerBlock = 3
    MaxTxns = 5
    MaxMishaps = 1
PROPERTIES
    Drains
CHECK_DEADLOCK FALSE
