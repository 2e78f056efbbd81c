CONSTANTS
  MaxChunks = 4
  MaxCpus = 3
  WordBits = 64
  Sentinel = Sentinel
SPECIFICATION Spec
INVARIANT AllDestroyed
