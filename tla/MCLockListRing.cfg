CONSTANTS
  Thread <- RingThread
  Record <- RingRecord
  Programs <- RingPrograms
  MaxLocks = 1
  MaxId = 99
  NoLock = NoLock
  NoThread = NoThread
SPECIFICATION FairSpec
INVARIANTS
  MutualExclusion
  NoLostWakeup
PROPERTY AllFinish
