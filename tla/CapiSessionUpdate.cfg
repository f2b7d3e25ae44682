CONSTANTS
  MaxPublic = 1
  MaxQueue = 2
  MaxDepth = 1
  LevelSets = {{}}
  InlineDispatch = FALSE
  NestedLevels = FALSE
  MissingNonce = FALSE
SPECIFICATION Spec
INVARIANTS
  NoHiddenGeneration
CHECK_DEADLOCK FALSE
