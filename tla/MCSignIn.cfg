SPECIFICATION SignInSpec
CONSTANTS
  Texts <- MCTexts
  Ages <- MCAges
  Games = {lol}
  Tiers <- MCTiers
  GameIDs <- MCGameIDs
  Profiles <- MCProfiles
  Accounts <- MCAccounts
  Data <- MCData
  MaxSignIns = 2
CHECK_DEADLOCK FALSE
INVARIANTS
  NothingLeftBehind
  OneUsersProfile
  AnswersKept
  StepsAnswered
PROPERTIES
  CompleteUserGetsIn
