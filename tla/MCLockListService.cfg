CONSTANTS
  Thread <- TripleThread
  Record <- PairRecord
  Programs <- TriplePrograms
  MaxLocks = 1
  MaxId = 99
  NoLock = NoLock
  NoThread = NoThread
SPECIFICATION Spec
PROPERTY ImplementsService
