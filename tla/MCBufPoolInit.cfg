CONSTANTS
  MaxChunks = 4
  MaxCpus = 3
  WordBits = 2
  Sentinel = Sentinel
SPECIFICATION FairSpec
INVARIANTS
  TypeOK
  CreatedOnce
  AllCreated
  DestroysCreated
  ListsLinked
PROPERTY Returns
