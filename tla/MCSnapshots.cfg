SPECIFICATION SnapshotSpec
CONSTANTS
    Ids = {a, b, c}
    Blocks = {1}
    Pending = Pending
    Data = {d}
    Gone = Gone
    Clients = {k}
    MaxBatch = 2
    MaxLimit = 2
    MaxSeq = 4
    Account = {a, b}
    PageLimit = 1
    a = a
    b = b
    c = c
    InitiatedAt <- TwoDays
    HourLength = 2
    HoursPerDay = 2
INVARIANTS
    SnapshotExact
PROPERTIES
    PersistsOnlyWhenExact
    Converges
CHECK_DEADLOCK FALSE
