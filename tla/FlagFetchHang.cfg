SPECIFICATION FairSpec
CONSTANTS
  Calls = {c1, c2}
  Flags = {f}
  None = None
  Ttl = 1
  Latency = 1
  MaxClock = 0
  MaxVersion = 2
  MaxDrops = 1
PROPERTY EveryCallReturns
\* Every call is used once and all of them may have ended.
CHECK_DEADLOCK FALSE
