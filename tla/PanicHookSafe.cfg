SPECIFICATION FairSpec
CONSTANTS
  Threads = {t1, t2, t3}
  Trackers = {k1, k2}
  Original = Original
  Default = Default
  None = None
INVARIANT HookInPlace
PROPERTY PreviousIsCalled
PROPERTY OnlyDetachHangs
\* A detach and a panic may wait for each other, and a hook for itself.
CHECK_DEADLOCK FALSE
