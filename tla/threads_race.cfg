SPECIFICATION Spec
CONSTANTS
  t1 = t1
  t2 = t2
  Threads <- TwoThreads
  Branches <- TwoBranches
  MAX_EXECUTED = 1
INVARIANT CountsEveryBranch
