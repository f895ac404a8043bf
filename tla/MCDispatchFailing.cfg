SPECIFICATION Spec
CONSTANTS
    t = t
    u = u
    x = x
    y = y
    Connections <- TwoAndOne
    Hosts = {h}
    Budget = 3
    Interval = 3
    MaxMishaps = 2
INVARIANTS
    TickWithinBudget
