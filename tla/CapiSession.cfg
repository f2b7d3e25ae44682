CONSTANTS
  MaxPublic = 2
  MaxQueue = 2
  MaxDepth = 3
  LevelSets = {{"visible"}, {"focused"}}
  InlineDispatch = TRUE
  NestedLevels = FALSE
  MissingNonce = FALSE
SPECIFICATION FairSpec
INVARIANTS
  AdmissionMatchesAttachment
  DetachedNeverPresents
  NeverUsedAfterRelease
  DestroyIsNotRefused
  ReservationIsOwned
  LevelsAgree
PROPERTIES
  LossIsHeard
  DetachedIsReleased
CHECK_DEADLOCK FALSE
