SPECIFICATION Spec
CONSTANTS
  message = message
  Keys <- MCKeys
  MaxOwn = 1
  MaxOthers = 1
  MaxListens = 2
  MaxBreaks = 1
INVARIANTS
  SyncedViewIsServers
  TokenCoversDisk
  AnswersDue
PROPERTIES
  
  RaisedOffline
  CaughtUp
CHECK_DEADLOCK FALSE
