SPECIFICATION FairSpec
CONSTANTS
  N = 3
  MAX_PROCESSES = 2
  Out <- OutMany
  Early <- EarlySome
  Ends <- LongLines
  Size <- TwoLarge
  CanFail = {1}
  PIPE = 2
  QUEUE = 3
INVARIANTS
  TypeOK
  NothingMissing
  ShowsAllOutput
PROPERTIES
  ReturnsAllOrFails
  EndsOrWaits
