SPECIFICATION JoinSpec
CONSTANTS
  r1 = r1
  r2 = r2
  Rooms <- MCRooms
  NoRoom = NoRoom
  Seats = 1
  MaxJoins = 2
INVARIANTS
  ChatOnlyWithSeat
  SeatsAreKnown
  CrashNeedsSecondTap
CHECK_DEADLOCK FALSE
