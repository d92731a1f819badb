SPECIFICATION Spec
CONSTANTS
  title = title
  game = game
  Titles <- MCTitles
  Games <- MCGames
  Empty = Empty
  TopTier = 1
  MaxRequests = 2
INVARIANTS
  CleanFormShowsModel
PROPERTIES
  FormClosedByItself
