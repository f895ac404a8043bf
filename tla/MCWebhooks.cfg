SPECIFICATION FairSpec
CONSTANTS
    Endpoints = {e1, e2}
    Payloads = {p, q}
    Subscriptions = {{p}}
    Tickers = {w}
    Schedule <- ThreeSlots
    None = None
    MaxTime = 4
    MaxOrdinal = 1
    MaxRows = 2
    MaxMishaps = 1
INVARIANTS
    TypeOK
    LifecycleInv
PROPERTIES
    OverStaysOver
    PostsAreOwed
    EveryDeliveryEnds
CHECK_DEADLOCK FALSE
