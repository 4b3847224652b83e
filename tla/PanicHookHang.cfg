SPECIFICATION FairSpec
CONSTANTS
  Threads = {t1, t2}
  Trackers = {k1}
  Original = Original
  Default = Default
  None = None
PROPERTY EveryPanicEnds
\* A detach and a panic may wait for each other.
CHECK_DEADLOCK FALSE
