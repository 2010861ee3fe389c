SPECIFICATION FairSpec
CONSTANTS
  Id = {1, 2}
  ResolveTime <- Due01
  Config <- OneFeed
  Feed = {"eth"}
  Answer = {0, 2}
  MaxAge = 0
  Request = {1}
  Script = {1}
  Checking = {1}
  Reading <- Readings
  MaxRetries = 2
  Choice <- Choices
  MaxList = 2
  MaxTime = 1
INVARIANTS
  TypeOK
  OutcomeFollowsEvidence
PROPERTIES
  FirstOutcomeStands
  DueMarketResolved
CHECK_DEADLOCK FALSE
