SPECIFICATION Spec
CONSTANTS
  title = title
  game = game
  Titles <- MCTitles
  Games <- MCGames
  Empty = Empty
  TopTier = 2
  MaxRequests = 1
PROPERTIES
  TierRangeKept
