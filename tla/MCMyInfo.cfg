SPECIFICATION Spec
CONSTANTS
  p1 = p1
  amy = amy
  bob = bob
  Photos <- MCPhotos
  DefaultPhoto = DefaultPhoto
  NoPhoto = NoPhoto
  GameIDs <- MCGameIDs
  Friends <- MCFriends
  Blocked <- MCBlocked
  MaxRequests = 2
INVARIANTS
  TabBarLeadsOut
  PlaceholderIsTrue
  HiddenSheetNeedsRace
PROPERTY
  PhotoChangesInView
CHECK_DEADLOCK FALSE
