SPECIFICATION FairSpec
CONSTANTS
  Calls = {c1, c2}
  Flags = {f, g}
  None = None
  Ttl = 2
  Latency = 1
  MaxClock = 3
  MaxVersion = 1
  MaxDrops = 1
PROPERTY OnlyDroppedLeadersHang
PROPERTY BoundedStaleness
\* Every call is used once and all of them may have ended.
CHECK_DEADLOCK FALSE
