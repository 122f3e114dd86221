SPECIFICATION FairSpec
CONSTANTS
  Node = {"n1", "n2"}
  Ref = {"a", "kept"}
  Never = {"kept"}
  Refs <- MCRefs
  MaxGen = 2
  Ready <- MCReady
  Full = 1
  MaxLag = 2
  MaxFaults = 1
  MaxEvents = 2
\* The application is not obliged to ask for a download.
CONSTRAINT Focus
CHECK_DEADLOCK FALSE
INVARIANTS TypeOK 
PROPERTIES ProgressMonotone DownloadsEnd
