\* As many distinct records as queue entries
CONSTANTS
  r1 = r1  r2 = r2  r3 = r3
  NoId = NoId
  Ids <- MCIdsOverflow
  ValueLens = {12}
  FlashLen <- MCFlashLen
  InitialSize = 16
  ReallocSize = 16
  MaxAllocSize = 48
  BlockHeader = 4
  QueueSize = 3
SPECIFICATION Spec
INVARIANT NoLostSave
