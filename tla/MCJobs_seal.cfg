\* One fact of one store: the judge alone.
CONSTANTS
  Jobs = {"judge"}
  Canonicals = {"c1", "c2"}
  Candidates = {"k1"}
  Similar <- LivePair
  Newer = {}
  Stale = {}
  Vectorless = {"c2"}
  Limit = 1
  Nobody = Nobody
  Sessions = {s1, s2}
  Wordy = {s1, s2}
  Titles = {}
  MinSessions = 2
  MaxRows = 2
  MaxGoals = 0
  None = None
  Slugs = {u1}
  Edited = {u1}
  Twins = {}
  Ids = {1, 2}
  MaxVersion = 2
  MaxMigrations = 1
  BlastCap = 2
  Nil = Nil
  Insights = {n1}
  Facts = {}
  Clashing = {}
  Cap = 0
  Memories = {"i1"}
  Texts = {"x"}
  Imperative = {}
  Conflicting = {}
  Handlers = {h1, h2}
  Stored = {}
  SomeText = "x"
  Rank <- RankTwo
  Routes = {}
  MaxCalls = 0
  MaxRestarts = 0
  Shells = {w1}
  Writes = {}
  HubChanges = {}
  Watch = Watch
  Free = Free
  Dead = Dead
  MaxDeaths = 0
SPECIFICATION Safety
PROPERTIES OneRewritePerLine
CHECK_DEADLOCK FALSE
