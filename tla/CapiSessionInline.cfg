CONSTANTS
  MaxPublic = 2
  MaxQueue = 1
  MaxDepth = 2
  LevelSets = {{"visible", "focused"}}
  InlineDispatch = TRUE
  NestedLevels = TRUE
  MissingNonce = FALSE
SPECIFICATION Spec
INVARIANTS
  LevelsAgree
CHECK_DEADLOCK FALSE
