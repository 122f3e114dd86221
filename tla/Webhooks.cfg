SPECIFICATION Spec
CONSTANTS
  App = {a, b}
  Pod = {p, q}
  None = None
  Profiles <- MCProfiles
  MaxRequests = 4
  MaxEvents = 2
  MaxFaults = 1
CONSTRAINT Focus
SYMMETRY Alike
CHECK_DEADLOCK FALSE
INVARIANTS TypeOK EntranceIsGuarded OneKindOfGpu
PROPERTIES StateIsKept
