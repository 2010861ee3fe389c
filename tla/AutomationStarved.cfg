SPECIFICATION FairSpec
CONSTANTS
  Id = {1, 2}
  ResolveTime <- DueAtOnce
  Config <- TwoFeeds
  Feed = {"eth", "btc"}
  Answer = {2}
  MaxAge = 0
  Request = {}
  Script = {}
  Checking = {}
  Reading <- NoReadings
  MaxRetries = 3
  Choice <- Choices
  MaxList = 2
  MaxTime = 1
PROPERTIES
  OwnFeedSuffices
CHECK_DEADLOCK FALSE
