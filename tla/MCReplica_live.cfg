SPECIFICATION Halves
CONSTANTS
    a = a
    u = u
    v = v
    c = c
    t = t
    m = m
    n = n
    Ops = {c, v}
    Kind <- KindCanonize
    Target <- TargetCanonize
    Drainers = {1, 2}
    None = None
    Role = "replica"
    MaxCrashes = 0
    MaxBatch = 4
    DownTicks = 3
    UpTicks = 2
    Torn = Torn
    MaxFaults = 2
    MaxByHand = 1
PROPERTIES  FollowsTheBrain
CHECK_DEADLOCK FALSE
