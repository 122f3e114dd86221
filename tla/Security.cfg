SPECIFICATION FairSpec
CONSTANTS
    User = {"alice"}
    Kind = {"underlayer", "osSystem", "gpu", "network", "protected", "userSystem", "userSpace", "other"}
    Config <- Configs
    MaxEvents = 2
CHECK_DEADLOCK FALSE
INVARIANTS TypeOK OpenIsPending
PROPERTIES PolicyFollows DeletedGoes
