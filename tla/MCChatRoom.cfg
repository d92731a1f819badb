SPECIFICATION Spec
CONSTANTS
  ann = ann
  bob = bob
  annPk = annPk
  bobPk = bobPk
  Devices <- MCDevices
  Pks <- MCPks
  PkOf <- MCPkOf
  Founders <- MCFounders
  Joinjangs <- MCJoinjangs
  ClockOffset <- MCClockOffset
  Broken = {}
  DayLen = 1
  RoomPath = RoomPath
  NoDoc = NoDoc
  MaxClock = 0
  MaxSent = 2
  MaxJoins = 1
  MaxHanded = 1
  Flaky = {}
  MaxAhead = 1
INVARIANTS
  TypeOK
  RowsAttributed
  CompleteListDraws

  
