SPECIFICATION Spec
CONSTANTS
  Commands <- BothOutputs
  SECTORS_PER_BLOCK = 2
  BufCap = 3
  WriteFaults = "none"
  SetupFaults = FALSE
PROPERTIES ResumeDiscardsAtMostABlock
