SPECIFICATION Spec
CONSTANTS
    Workers = {w1, w2}
    PageSize = 2
    Budget = 2
    None = None
    MaxPerBlock = 3
    MaxTxns = 5
    MaxMishaps = 1
INVARIANTS
    TypeOK
    NothingStranded
SYMMETRY Symmetry
CHECK_DEADLOCK FALSE
