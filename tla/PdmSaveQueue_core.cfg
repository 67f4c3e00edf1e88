\* Two records, a three-entry queue: at most QueueSize - 1 distinct ids
CONSTANTS
  r1 = r1  r2 = r2  r3 = r3
  NoId = NoId
  Ids <- MCIdsFit
  ValueLens = {12}
  FlashLen <- MCFlashLen
  InitialSize = 16
  ReallocSize = 16
  MaxAllocSize = 48
  BlockHeader = 4
  QueueSize = 3
SPECIFICATION FairSpec
INVARIANTS TypeOK NoLostSave RamBufferHoldsRecord
PROPERTIES EventuallySaved ImplementsFifo
