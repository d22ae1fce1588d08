SPECIFICATION Spec
CONSTANTS
    a = a
    b = b
    c = c
    s = s
    t = t
    Attempts = {a, b, c}
    Absent = Absent
    Operator = Operator
    Posix = FALSE
    Kind <- KindMixed
    Session <- TwoSessions
    StaleAfter = 1
    BreakGuardStale = 1
    MaxAcquire = 2
    MaxCrashes = 1
    MaxOperator = 1
INVARIANTS SameSessionExclude
PROPERTIES ImplementsLease
CHECK_DEADLOCK FALSE
