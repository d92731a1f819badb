SPECIFICATION Spec
CONSTANTS
  Texts <- MCTexts
  Ages <- MCAges
  Games = {lol, mapleStory}
  Tiers <- MCTiers
  GameIDs <- MCGameIDs
  Profiles <- MCProfiles
INVARIANT GameIDFromOnboarding
CHECK_DEADLOCK FALSE
