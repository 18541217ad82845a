SPECIFICATION Spec
CONSTANTS
  MAX_DELTA = 2
  MACROBLOCK_SIZE = 2
  MAX_MB_REUSE = 3
  MAX_INIT_ELEMS = 0
  PHASE_LEN = 30
  Traces <- OnePhase
INVARIANTS
  WeightsInSync
  ListSound
  NewBlocksFunded
  VisitedCanGoOn
  ReplayStaysInBlock
  NewBlockAvailable
  NothingRunsOut
