SPECIFICATION TestSpec
CONSTANTS
  SECTOR_SIZE = 2048
  Seeds <- BaseSeeds
  Sector <- ASector
  Header = {0, 7, 31}
INVARIANT SeedsAreToldApart
