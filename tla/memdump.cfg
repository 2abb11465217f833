SPECIFICATION Spec
CONSTANTS
  RAW_SECTOR_SIZE = 2064
  SECTORS_PER_BLOCK = 4
  HITACHI_MEM_BASE = 8000000
  Watched <- SomeWatched
  Steps <- SomeSteps
  Rams <- SomeRams
  Users <- SomeUsers
INVARIANTS TypeOK PrivilegesOnlyInDumps NeverRefused SuccessMeansInSequence
PROPERTY DumpsWhatIsThere
