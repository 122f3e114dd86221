SPECIFICATION FairSpec
CONSTANTS
  User = {"u"}
  System = "cluster"
  Name = {"n", "m"}
  Source <- MCSource
  Base <- MCBase
  Value = {"x", "y"}
  Edit = {"x"}
  App = {"a"}
  Owner <- MCOwner
  FirstRefs <- MCFirstRefs
  Refs <- MCRefs
  OnChange <- MCOnChange
  Required = {"m"}
  Default <- MCDefault
  Handler = {"h1", "h2"}
  MaxLag = 1
  MaxRequests = 2
  MaxFaults = 2
  MaxEvents = 2
\* Requests are bounded: the system comes to rest.
CHECK_DEADLOCK FALSE
INVARIANTS TypeOK AppliedOrPending
PROPERTIES NoApplyWithinBatch EditsArrive
