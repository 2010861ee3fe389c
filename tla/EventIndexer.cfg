SPECIFICATION DeletingSpec
CONSTANTS
  Id = {1}
  Predicted = {}
  Reader = {r}
  MaxCount = 1
  Indexer = {p}
  StartBlocks <- FirstOrHead
  Window = 2
  Amount = {1, 3}
  I64Max = 2
  U64Max = 2
  Patch <- Reopen
  Creator = {"lower"}
  MaxBlocks = 3
  MaxStarts = 2
INVARIANTS
  TypeOK
  RowsFollowChain
  CountedOncePerStart
  CountedAtLeastOnce

  
CHECK_DEADLOCK FALSE
