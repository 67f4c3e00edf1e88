\* A save request from interrupt context preempting a task-context one
CONSTANTS
  r1 = r1  r2 = r2  r3 = r3
  NoId = NoId
  Ids <- MCIdsFit
  ValueLens = {12}
  FlashLen <- MCFlashLen
  InitialSize = 16
  ReallocSize = 16
  MaxAllocSize = 48
  BlockHeader = 4
  QueueSize = 4
SPECIFICATION SpecWithIsr
INVARIANT NoLostSave
