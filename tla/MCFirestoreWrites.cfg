SPECIFICATION Spec
CONSTANTS
  a = a
  b = b
  Paths <- MCPaths
  PathOf <- MCPathOf
  Denied = {2}
  MaxWrites = 4
  MaxPendingWrites = 3
  MaxBreaks = 2
  MaxEnds = 1
CHECK_DEADLOCK FALSE
INVARIANTS
  DoneIsCommitted
  StoredIsResolved
  HardAssertsHold
PROPERTIES
  QueueSpec
  Drains
