CONSTANTS
  Thread <- ManyThread
  Record <- ManyRecord
  Programs <- ManyPrograms
  MaxLocks = 3
  NoLock = NoLock
SPECIFICATION Spec
INVARIANTS
  TypeOK
  ListIntact
  NoLostWakeup
  NoMissedDeadlock
PROPERTY ImplementsService
