SPECIFICATION ScenarioSpec
CONSTANTS
  Worker = {"controller", "sweeper"}
  App = {a1, m1}
  Middleware = {m1}
  Op = {o1, o2}
  Handler = {h1}
  None = None
  UserOps <- AllUserOps
  InitStates = {"", "uninstalled", "running", "stopped"}
  TimeLimited <- AllTimedStates
  MaxLag = 1
  MaxRequests = 2
  MaxSweeps = 0
  MaxFaults = 2
CONSTRAINT InScenario
PROPERTIES Settles RegistryDrains RunningIsDeployed UninstalledIsGone
