SPECIFICATION FairSpec
CONSTANTS
  Multi = {TRUE, FALSE}
  Admin = {TRUE, FALSE}
  MaxRequests = 3
  MaxEvents = 2
INVARIANTS TypeOK RunningIsUpgradable GoneLeavesNothing
PROPERTIES SharedIsKept RemovalEnds
CHECK_DEADLOCK FALSE
