SPECIFICATION FairSpec
CONSTANTS
    User = {"alice"}
    App = {"desktop", "wizard"}
    Admin = {TRUE}
    MaxCreates = 2
    MaxEvents = 2
    NotFound = FALSE
INVARIANTS TypeOK CreatedIsComplete RemovedLeavesNothing
PROPERTIES CreatedOnce RequestsEnd ChangesArrive
CHECK_DEADLOCK FALSE
