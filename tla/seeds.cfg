SPECIFICATION ConvSpec
CONSTANTS
  Slots = 3
  MAX_SEEDS = 2
  LastSeed = 3
  Discs <- SomeDiscs
  MaxBlocks = 7
INVARIANTS
  TypeOK FoundSeedsStay RoomForEverySeed
  IsoIsComplete GoodImagesConvert
