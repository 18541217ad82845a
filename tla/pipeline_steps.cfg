SPECIFICATION FairSpec
CONSTANTS
  Names <- ThreeNames
  Invocations <- ByOneAndTogether
  InitialFiles <- LeftByEarlier
INVARIANTS
  AsIfWaited
PROPERTIES
  EndsOrLacksTrace
