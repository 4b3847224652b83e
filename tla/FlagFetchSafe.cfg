SPECIFICATION Spec
CONSTANTS
  Calls = {c1, c2, c3}
  Flags = {f}
  None = None
  Ttl = 1
  Latency = 1
  MaxClock = 1
  MaxVersion = 2
  MaxDrops = 1
INVARIANT MonotonicReads
INVARIANT SingleFlight
INVARIANT SharedOutcome
INVARIANT FetchedAfterLeaderBegan
PROPERTY CacheNeverGoesBack
PROPERTY ImplementsFlagService
SYMMETRY CallSymmetry
\* Every call is used once and all of them may have ended.
CHECK_DEADLOCK FALSE
