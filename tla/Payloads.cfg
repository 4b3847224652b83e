SPECIFICATION Spec
CONSTANTS
  Platform = {"os_name"}
  Terminal = {"terminal_columns", "terminal_rows", "terminal_emulator"}
  Size = {"terminal_columns", "terminal_rows"}
  Custom <- Metrics
  Keys = {"os_name"}
  MaxLeaves = 2
  MaxValues = 2
INVARIANT NoSilentNull
INVARIANT FailingMetricCostsNoOther
INVARIANT FlagKeepsKind
\* The attributes that are put are bounded.
CHECK_DEADLOCK FALSE
