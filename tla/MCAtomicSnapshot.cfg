CONSTANTS
  ThreadCount = 3
  Scanners = {0}
  MaxWrites <- Writes
SPECIFICATION Spec
CONSTRAINT FewWrites
INVARIANTS
  TypeOK
  ScanIsView
  CleanIsAtomic
  ScanIsBounded
  AcquireAfterInstall
  OuterCountBounded
