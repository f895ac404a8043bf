SPECIFICATION Spec
CONSTANTS
    Projects = {p}
    KeyIds = {k1, k2, k3}
    Never = never
    None = none
    Admin = admin
    Read = read
    Write = write
    Scopes <- FullScopes
    ScopeSets <- TwoScopeSets
    MaxNow = 2
    MaxOverlap = 1
    Workers = {w1, w2}
    Users = {u}
    Descriptors = {d}
    Jtis = {j1}
    Limit <- ThreeLimits
    Span <- ThreeSpans
    Ttl = 2
    BatchSize = 3
    MaxRequests = 3
    MaxServedKeys = 1
INVARIANTS
    TypeOK
    NeverWidened
    QuotaKept
    EventsTellTheStory
    BatchPaysPerItem
PROPERTIES
    DeadStaysDead
SYMMETRY Symmetry
CHECK_DEADLOCK FALSE
