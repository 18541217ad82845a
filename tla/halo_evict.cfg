SPECIFICATION Spec
CONSTANTS
  MAX_DELTA = 2
  MACROBLOCK_SIZE = 2
  MAX_MB_REUSE = 1
  MAX_INIT_ELEMS = 3
  PHASE_LEN = 40
  Traces <- OnePhase
INVARIANTS
  BudgetConserved
  AccessConsistent
  PrefixMeetsRecord
  NewBlocksAreFirst
  ReinitSucceeds
