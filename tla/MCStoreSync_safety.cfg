SPECIFICATION Spec
CONSTANTS
    Absent = Absent
    None = None
    PCs = {a, b}
    Lines = {x, y}
    StartFiles <- OneSeeds
    MaxPushAttempts = 1
    MaxEdits = 2
    MaxCommits = 7
    MaxCrashes = 0
PROPERTIES HistoryOnlyGrows CommitsOnlyLocalEdits LaterEditSurvives
SYMMETRY Symmetry
