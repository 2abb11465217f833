SPECIFICATION Spec
CONSTANTS
  BLOCK = 4
  LENGTH = 2
  WORD = 32
  ED2KHASH_CHUNKSIZE = 6
  MD4_DIGESTSIZE = 2
  Lengths <- SomeLengths
  MaxLength = 140
INVARIANTS CountsBits DigestsOfTheMessage
PROPERTIES OnlyTheDataAreSpoilt
