SPECIFICATION FairSpec
CONSTANTS
    Entrances = 2
    MaxEvents = 2
INVARIANTS TypeOK
PROPERTIES ControllerKeepsEntries PodsFollow WorkloadFollows
CONSTRAINT OneBehind
CHECK_DEADLOCK FALSE
