SPECIFICATION Spec
CONSTANTS
  SECTORS_PER_BLOCK = 16
  SecDiscs <- SomeSecDiscs
  SecMems <- AllSecMems
  Methods <- TwoMethods
INVARIANTS TypeOK BlocksAreRead ShortestRun FitsBuffer
