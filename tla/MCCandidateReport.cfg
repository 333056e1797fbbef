SPECIFICATION Spec
CONSTANTS
  NoId = NoId
  MaxLen = 4
  MaxEvents = 3
  Logs <- SuiteLogs
  Histories <- EventLists
  Times <- Snapshots
INVARIANTS
  ReportsSelection
  ReportsRefusal
CHECK_DEADLOCK FALSE
