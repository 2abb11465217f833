SPECIFICATION Spec
CONSTANTS
  Commands <- BothOutputs
  SECTORS_PER_BLOCK = 2
  BufCap = 3
  WriteFaults = "full"
  SetupFaults = FALSE
INVARIANT HashTellsGoodDumps
