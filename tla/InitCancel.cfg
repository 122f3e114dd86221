SPECIFICATION Spec
CONSTANTS
  Worker = {"controller", "sweeper"}
  App = {a1}
  Middleware = {}
  Op = {o1, o2}
  Handler = {h1}
  None = None
  UserOps = {"cancel"}
  InitStates = {"initializing"}
  TimeLimited = {}
  MaxLag = 1
  MaxRequests = 1
  MaxSweeps = 0
  MaxFaults = 0
PROPERTIES InitializingCancelStops
