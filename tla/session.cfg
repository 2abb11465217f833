SPECIFICATION FairSpec
CONSTANTS
  CommandLines <- SomeCommandLines
  Drives <- SomeDrives
  Discs <- SomeDiscs
  DISC_GAMECUBE_SECTORS_NO = 1
  DISC_WII_SECTORS_NO_SL = 3
  DISC_WII_SECTORS_NO_DL = 5
  Beyond = 1
  ProbeFaults = TRUE
  SenseCleared = FALSE
  SetupFaults = FALSE
INVARIANTS TypeOK SectorsAreLaidOut SuccessMeansWholeDisc AllMethodsTried
PROPERTY SessionEnds
