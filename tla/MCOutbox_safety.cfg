SPECIFICATION Spec
CONSTANTS
    a = a
    u = u
    v = v
    c = c
    t = t
    m = m
    n = n
    Ops = {u, c, t}
    Kind <- KindTorn
    Target <- TargetTorn
    Drainers = {1}
    None = None
    Role = "replica"
    MaxCrashes = 1
    MaxBatch = 3
INVARIANTS LostOnlyInTheTwoWindows LedgeredMeansDelivered
PROPERTIES LedgeredNeverSentAgain ImplementsDelivery
CHECK_DEADLOCK FALSE
