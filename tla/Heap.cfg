SPECIFICATION Spec
CONSTANTS
  TableSize = 5
  KernelEntry = 3
  PageSize = 10
  MaxComplete = 1
  MaxHeld = 3
  MaxCalls = 7
  Sizes <- MCSizes
  Images <- MCImages
INVARIANTS
  MemTypeOK
  BlocksTile
  FreeListsExact
  OwnersKeepTheirBlocks
  NoAdjacentFree
  CompleteTotal
PROPERTIES
  LostOnlyByUnmap
CHECK_DEADLOCK FALSE
