SPECIFICATION FairSpec
CONSTANTS
  Commands <- AnyCommand
  SECTORS_PER_BLOCK = 2
  BufCap = 3
  WriteFaults = "full"
  SetupFaults = TRUE
INVARIANTS
  TypeOK FilesArePrefixes SuccessMeansGood ReadBackNeverFails
  PassedSectorsAreSafe PrintedHashIsOfTheDisc
PROPERTIES NoOverwrite ImplementsPromise EveryRunEnds
