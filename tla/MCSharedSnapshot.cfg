\* Three registered threads: a writer and the two others, four versions. Each of the
\* two acquires a version once. No symmetry, since liveness is checked as well.
CONSTANTS
  Readers = {r1, r2}
  VersionCount = 4
  Data = {d1, d2}
  NoData = NoData
  MaxCount = 2
SPECIFICATION FairSpec
INVARIANTS
  TypeOK
  VersionAvailable
  NoUseAfterRecycle
  SingleRecycler
  NoVersionLost
  CountsExact
PROPERTIES
  ImplementsCell
  RetiredRecycled
  ExchangeEnds
