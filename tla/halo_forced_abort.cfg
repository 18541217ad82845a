SPECIFICATION PatientSpec
CONSTANTS
  MAX_DELTA = 2
  MACROBLOCK_SIZE = 2
  MAX_MB_REUSE = 1
  MAX_INIT_ELEMS = 0
  PHASE_LEN = 25
  Traces <- OnePhase
INVARIANT
  NewBlockAvailable
