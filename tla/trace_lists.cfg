SPECIFICATION Spec
CONSTANTS
  Inputs <- AllInputs
  NoMinimum = NoMinimum
  EXTRA_RANGE = 1
  CLUSTER_LIMIT = 3
  EDGE_GAP = 2
  INITIAL_THRESHOLD = 2000
  MAX_ITERATIONS = 3
  MARGINAL_CUTOFF = 2
  HISTORY = 2
INVARIANTS
  StandsForOriginal
  CullsEvenly
  FollowsTrace
  ListSound
  TrialLeavesNoTrace
  NeverAborts
PROPERTIES
  AcceptsWithinThreshold
