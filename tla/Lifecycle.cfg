SPECIFICATION Spec
CONSTANTS
  Worker = {"controller", "sweeper"}
  App = {a1, a2, m1}
  Middleware = {m1}
  Op = {o1, o2}
  Handler = {h1}
  None = None
  UserOps <- AllUserOps
  InitStates = {"", "pending", "uninstalled", "running", "stopped"}
  TimeLimited <- AllTimedStates
  MaxLag = 1
  MaxRequests = 1
  MaxSweeps = 1
  MaxFaults = 1
INVARIANTS TypeOK NoImpossibleState RegistryHasReleaser
CONSTRAINT AloneOrQueued
SYMMETRY Alike
PROPERTIES DownloadOnlyFromPending ImplementsLifecycle
\* An application that nobody installs has no object: nothing needs to happen.
CHECK_DEADLOCK FALSE
