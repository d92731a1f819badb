SPECIFICATION TabsSpec
CONSTANTS
  led = led
  joined = joined
  r1 = r1
  r2 = r2
  Rooms <- MCRooms
  Led <- MCLed
  NoChat = NoChat
  MaxRequests = 2
  OpenRooms <- MCOpenRooms
  Seats = 1
  MaxLists = 2
INVARIANTS
  AnsweredSelectionShown
PROPERTIES
  AnsweredLeaderIsJoinjang
  ListNeverOlder
  RefreshEnds
CHECK_DEADLOCK FALSE
