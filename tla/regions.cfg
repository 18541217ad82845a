SPECIFICATION Spec
CONSTANTS
  NUM_REG = 2
  BLOCK_SIZE = 4
  INT_RANGE = 16
  Beyond <- Anything
  HaloLines <- FourBlocks
  TraceLines <- SomeAddresses
  HEAD_LINES = 1
  MAX_ACCESSES = 5
INVARIANTS
  OverflowCounted
  StridesReplay
  JsonIsRegions
