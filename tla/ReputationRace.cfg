SPECIFICATION Spec
CONSTANTS
  Id = {1}
  Predicted = {}
  Reader = {r}
  MaxCount = 3
  Indexer = {p}
  StartBlocks <- First
  Window = 9
  Amount = {1}
  I64Max = 9
  U64Max = 9
  Patch <- Declare
  Creator = {"lower"}
  MaxBlocks = 3
  MaxStarts = 1
INVARIANTS
  ScoreIsARatio
CHECK_DEADLOCK FALSE
