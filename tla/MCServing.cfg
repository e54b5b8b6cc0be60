SPECIFICATION MCFairSpec
CONSTANTS
  Reports = {"thumb", "prose"}
  Roots = {"rHm"}
  VoteOf <- MCVoteOf
  NoRoot = "none"
  Sweepers = {"old", "new"}
  Operators = {"o1"}
  Verdicts = {"issued"}
  Known = {"rHm", "qwl", "later"}
  Recorded = {"rHm", "qwl"}
  Prose = {"p1", "p2"}
  Unfit = {"blank"}
  Logs <- MCLogs
  Resumes = {"first", "second"}
  Panel = "panel"
  NoFetch = "none"
  MaxRevision = 2
  MaxSeeds = 2
  Requests = {"r1", "r2", "r3", "r4"}
  Callers = {"a", "b"}
  CallerOf <- MCCallerOf
  Asks <- MCAsks
  NoBody = "nobody"
  VerdictOn <- MCVerdictOn
  Burst = 2
  MaxTracked = 1
  MaxBatch = 3
  MaxClock = 2
INVARIANTS
  NeitherLostNorDoubled
  VerdictStands
  PackIsWhatItSays
  RateBound
  BatchIsWhole
PROPERTIES
  VoteStaysAVote
  ReportsAreRead
  NeverBlank
CHECK_DEADLOCK FALSE
