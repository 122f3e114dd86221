SPECIFICATION FairSpec
CONSTANTS
  Worker = {"controller", "sweeper"}
  App = {a1}
  Middleware = {}
  Op = {o1, o2}
  Handler = {h1}
  None = None
  UserOps = {"install", "cancel"}
  InitStates = {"uninstalled"}
  TimeLimited = {}
  MaxLag = 1
  MaxRequests = 2
  MaxSweeps = 0
  MaxFaults = 0
PROPERTIES DownloadCancelEnds
