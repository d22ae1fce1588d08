\* Three canonicals, one without a vector, and two records; two sessions that
\* state one intent, over two episodes and two goals.  A store of two facts, one a standing order.
CONSTANTS
  Jobs = {"sweep", "episodes", "judge", "dream", "watcher", "derive"}
  Canonicals = {"c1", "c2", "c3"}
  Candidates = {"k1", "k2"}
  Similar <- SafePairs
  Newer <- SafeNewer
  Stale <- SafeStale
  Vectorless = {"c3"}
  Limit = 1
  Nobody = Nobody
  Sessions = {s1, s2}
  Wordy = {}
  Titles = {t1}
  MinSessions = 2
  MaxRows = 2
  MaxGoals = 2
  None = None
  Slugs = {u1, u2}
  Edited = {u1}
  Twins = {}
  Ids = {1, 2, 3}
  MaxVersion = 2
  MaxMigrations = 1
  BlastCap = 2
  Nil = Nil
  Insights = {n1, n2}
  Facts = {"f1", "f2"}
  Clashing <- Clash
  Cap = 2
  Memories = {"i1"}
  Texts = {"x"}
  Imperative = {}
  Conflicting = {}
  Handlers = {h1, h2}
  Stored = {}
  SomeText = "x"
  Rank <- RankTwo
  Routes = {}
  MaxCalls = 0
  MaxRestarts = 0
  Shells = {w1}
  Writes = {e1, e2}
  HubChanges = {e3}
  Watch = Watch
  Free = Free
  Dead = Dead
  MaxDeaths = 1
  Notes = {d1, d2}
  Doctrine = {d1}
  Prose = {}
  SyncLimit = 4
  Trigger = 3
  MaxLines = 1
  MaxEdits = 2
SPECIFICATION All
INVARIANTS AllTypeOK HiddenOnlyOnAuthority CorrectionsStayVisible CompleteHasFinalSummary
           FactsKept OkMeansAllStored CanonicalsAgree
           
PROPERTIES LinksSurviveMerges OthersRecordsUntouched DoctrineUntouched HistoryNeverGoesBack
           NothingIsDerivedAway
CHECK_DEADLOCK FALSE
