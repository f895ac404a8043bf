SPECIFICATION FairSpec
CONSTANTS
    t = t
    u = u
    x = x
    y = y
    Connections <- TwoAndOne
    Hosts = {h, k}
    Budget = 2
    Interval = 3
    MaxMishaps = 1
INVARIANTS
    TypeOK
PROPERTIES
    QuietMeansAllThrottled
    SiblingsSynced
