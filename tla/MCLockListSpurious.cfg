CONSTANTS
  Thread <- QueueThread
  Record <- QueueRecord
  Programs <- QueuePrograms
  MaxLocks = 1
  MaxId = 99
  NoLock = NoLock
  NoThread = NoThread
SPECIFICATION SpuriousSpec
INVARIANTS
  MutualExclusion
