SPECIFICATION Spec
CONSTANTS
  Type = "SD"
  Uid = {1, 2, 3}
  Key = {1, 2}
  Ranks = {0, 1, 2, 3, 4}
  MaxLevel = 3
  AskEmpty = FALSE
INVARIANTS SpansAreDistances LevelsAndBackAgree NoNullFollowed
PROPERTIES ImplementsRanking
