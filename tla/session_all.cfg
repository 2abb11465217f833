SPECIFICATION Spec
CONSTANTS
  CommandLines <- OneTry
  Drives <- OddDrive
  Discs <- OneDisc
  DISC_GAMECUBE_SECTORS_NO = 1
  DISC_WII_SECTORS_NO_SL = 3
  DISC_WII_SECTORS_NO_DL = 5
  Beyond = 1
  ProbeFaults = FALSE
  SenseCleared = TRUE
  SetupFaults = FALSE
INVARIANT AllCombinationsTried
