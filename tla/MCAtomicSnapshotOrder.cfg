CONSTANTS
  ThreadCount = 3
  Scanners = {0}
  MaxWrites <- Writes
SPECIFICATION Spec
INVARIANT ScansAreOrdered
