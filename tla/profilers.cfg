SPECIFICATION Spec
CONSTANTS
  t1 = t1
  t2 = t2
  Threads <- TwoThreads
  Branches <- TwoBranches
  interval_ins = 2
  BR_HISTORY_LEN = 2
  BLOCK_LEN = 2
  MAX_INSTRUCTIONS = 5
  MAX_EXECUTED = 2
INVARIANTS
  BranchCountsExact
  IntervalsAddUp
  RacesOnlyLose
PROPERTIES
  RingIsRegister
