SPECIFICATION Spec
CONSTANTS
  Type = "SDP1AP2A"
  Uid = {1, 2}
  Key = {1, 2}
  Ranks = {1}
  MaxLevel = 1
  AskEmpty = FALSE
INVARIANT SortedAsDocumented
