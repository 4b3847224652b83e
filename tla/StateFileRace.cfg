SPECIFICATION Spec
CONSTANTS
  Clients = {c1, c2}
  Procs = {p1}
  None = None
  Toggles = {"metrics"}
  Environments <- SomeEnvironments
  DevConfigs = {}
  FileFaults = FALSE
  MaxEdits = 0
INVARIANT OneIdentity
\* Every client is built once and every process may have ended.
CHECK_DEADLOCK FALSE
