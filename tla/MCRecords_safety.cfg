SPECIFICATION Spec
CONSTANTS
    i1 = i1
    i2 = i2
    i3 = i3
    h1 = h1
    h2 = h2
    x = x
    y = y
    Ids = {i1, i2, i3}
    Texts = {x, y}
    Imperative = {y}
    Conflicting <- Clash
    Handlers = {h1, h2}
    Nobody = Nobody
    Stored = {i1, i2}
    SomeText = x
    Rank <- RankThree
    Routes = {"add", "put", "tier", "meta", "supersede", "annotate", "clear", "delete", "cascade"}
    MaxCalls = 2
    MaxRestarts = 1
INVARIANTS ProtectedNeverSuperseded NoSupersessionCycle  NobodyWaitsInACircle
PROPERTIES UnsignedNeverDemotes ImplementsStore
CHECK_DEADLOCK FALSE
SYMMETRY Threads
