SPECIFICATION DateSpec
CONSTANT
  Moments <- MCMoments
INVARIANTS
  OverFromStart
  TodaysRoomIsOver
PROPERTIES
  LabelsMoveOn
