SPECIFICATION Spec
CONSTANTS
    a = a
    u = u
    v = v
    c = c
    t = t
    m = m
    n = n
    Ops = {a, u, v}
    Kind <- KindUpdates
    Target <- TargetUpdates
    Drainers = {1}
    None = None
    Role = "replica"
    MaxCrashes = 0
    MaxBatch = 4
INVARIANTS SupersededOnlyByTheWorld
CHECK_DEADLOCK FALSE
