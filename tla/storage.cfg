SPECIFICATION FairSpec
CONSTANTS
  Names = {a}
  MaxRows = 3
  MaxTasks = 3
  MaxFaults = 1
  None = None
  Gone = Gone
INVARIANTS TypeOK OneRowPerFile AvailableHasFile
PROPERTIES InUseKept TasksEnd Discovered
CHECK_DEADLOCK FALSE
