CONSTANTS
  Thread <- CircleThread
  Record <- CircleRecord
  Programs <- CirclePrograms
  MaxLocks = 2
  MaxId = 99
  NoLock = NoLock
  NoThread = NoThread
SPECIFICATION CircleSpec
INVARIANTS
  NoMissedDeadlock
