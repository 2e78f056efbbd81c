CONSTANTS
  Thread <- PairThread
  Record <- PairRecord
  Programs <- PairPrograms
  MaxLocks = 3
  MaxId = 99
  NoLock = NoLock
  NoThread = NoThread
SPECIFICATION Spec
INVARIANTS
  TypeOK
  GrantedInOrder
  NoMissedDeadlock
  ListIntact
  AssertionsHold
