SPECIFICATION FairSpec
CONSTANTS
    Absent = Absent
    None = None
    PCs = {a, b}
    Lines = {x}
    StartFiles <- OneSeeds
    MaxPushAttempts = 2
    MaxEdits = 1
    MaxCommits = 6
    MaxCrashes = 1
PROPERTIES EventuallyConverged
