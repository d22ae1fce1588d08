SPECIFICATION FairSpec
CONSTANTS
    a = a
    b = b
    c = c
    s = s
    t = t
    Attempts = {a, b, c}
    Absent = Absent
    Operator = Operator
    Posix = TRUE
    Kind <- KindGo
    Session <- OneSession
    StaleAfter = 1
    BreakGuardStale = 1
    MaxAcquire = 1
    MaxCrashes = 1
    MaxOperator = 0
INVARIANTS HoldersExclude
PROPERTIES NamedLockGivesWay
CHECK_DEADLOCK FALSE
