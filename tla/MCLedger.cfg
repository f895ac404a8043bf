SPECIFICATION Spec
CONSTANTS
    Ids = {a, b}
    Blocks = {1, 2}
    Pending = Pending
    Data = {d}
    Gone = Gone
    Clients = {k}
    MaxBatch = 2
    MaxLimit = 2
    MaxSeq = 3
INVARIANTS
    TypeOK
    SeqInv
    MirrorFaithful
PROPERTIES
    EventsMatchChanges
    FreshReorgIsExact
    ImplementsFeed
SYMMETRY Symmetry
CHECK_DEADLOCK FALSE
