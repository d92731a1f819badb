SPECIFICATION Spec
CONSTANTS
  ann = ann
  bob = bob
  annPk = annPk
  bobPk = bobPk
  Devices <- MCDevices
  Pks <- MCPks
  PkOf <- MCOnePk
  Founders <- MCTwoFounders
  Joinjangs = {}
  ClockOffset <- MCClockOffset
  Broken <- MCBroken
  DayLen = 2
  RoomPath = RoomPath
  NoDoc = NoDoc
  MaxClock = 1
  MaxSent = 2
  MaxJoins = 1
  MaxHanded = 1
  Flaky = {bob}
  MaxAhead = 1

  
  
PROPERTIES
  
  EventuallyShown
