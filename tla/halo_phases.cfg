SPECIFICATION FairSpec
CONSTANTS
  MAX_DELTA = 2
  MACROBLOCK_SIZE = 2
  MAX_MB_REUSE = 2
  MAX_INIT_ELEMS = 0
  PHASE_LEN = 20
  Traces <- SeveralPhases
INVARIANTS
  TypeOK
  ReuseIsDistinctBlocksBetween
  TablesCountFollowers
  CascadeKeepsPredictions
  EnoughAccessesLeft
PROPERTIES
  DrawsWithoutReplacement
  EndsEventually
