CONSTANTS
  Thread = {t1, t2}
  Record = {r1, r2, r3}
  NoRecord = NoRecord
  Last = 2
  Words = 4
  Initial = 3
SYMMETRY Symmetry
SPECIFICATION Spec
INVARIANTS
  TypeOK
  ReadsCommitted
  ValuesSerial
  LinesSerial
  CheckPasses
