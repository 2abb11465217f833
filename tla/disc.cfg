SPECIFICATION FairSpec
CONSTANTS
  SECTORS_PER_BLOCK = 8
  MAX_READ_RETRIES = 5
  Distance = 20
  Setups <- AllMethods
INVARIANTS TypeOK CachedBlocksAreRight MissesAreAligned FoundAfterRead FailuresAreDeserved
PROPERTIES ImplementsService EveryReadEnds
