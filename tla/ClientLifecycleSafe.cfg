SPECIFICATION ClientSpec
CONSTANTS
  Clients = {c1, c2}
  Procs = {p1, p2}
  None = None
  Toggles = {"enabled", "metrics", "errors"}
  Environments <- ClientEnvironments
  DevConfigs = {}
  FileFaults = TRUE
  MaxEdits = 1
  DevServices = {{"metrics", "errors"}}
  MaxListeners = 2
INVARIANT OneFirstBootPerProcess
INVARIANT OneIdentityIfSerial
INVARIANT UserChoiceKeptIfSerial
INVARIANT TasksAreDue
INVARIANT OneTaskPerService
 
SYMMETRY ClientLifecycleSymmetry
\* Every client may end up shut down in a process that has ended.
CHECK_DEADLOCK FALSE
