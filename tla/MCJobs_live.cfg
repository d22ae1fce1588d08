\* Two canonicals, one without a vector, and one record; two sessions over
\* two episodes whose summaries are indexed, without goals.
CONSTANTS
  Jobs = {"sweep", "episodes", "dream", "server", "watcher", "judge"}
  Canonicals = {"c1", "c2"}
  Candidates = {"k1"}
  Similar <- LivePair
  Newer = {}
  Stale = {}
  Vectorless = {"c2"}
  Limit = 1
  Nobody = Nobody
  Sessions = {s1, s2}
  Wordy = {s1, s2}
  Titles = {}
  MinSessions = 2
  MaxRows = 2
  MaxGoals = 0
  None = None
  Slugs = {u1}
  Edited = {}
  Twins = {}
  Ids = {1}
  MaxVersion = 2
  MaxMigrations = 1
  BlastCap = 2
  Nil = Nil
  Insights = {n1}
  Facts = {}
  Clashing = {}
  Cap = 0
  Memories = {"i1", "i2"}
  Texts = {"x"}
  Imperative = {}
  Conflicting = {}
  Handlers = {h1, h2}
  Stored = {"i1", "i2"}
  SomeText = "x"
  Rank <- RankTwo
  Routes = {"supersede", "clear", "cascade"}
  MaxCalls = 2
  MaxRestarts = 0
  Shells = {w1}
  Writes = {e1}
  HubChanges = {}
  Watch = Watch
  Free = Free
  Dead = Dead
  MaxDeaths = 1
SPECIFICATION Live
PROPERTIES EveryCanonicalHasItsTurn DeadStampsAreCleared EveryCheckpointCloses EventuallyEmbedded
           EverySpooledInsightLands EveryCallEnds EveryWriteIsCommitted
CHECK_DEADLOCK FALSE
