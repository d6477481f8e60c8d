CONSTANTS
  HalfWord = 16
  LoopTimes = {1, 2, 3, 5, 15}
  MaxLen = 5
  Kinds <- MCKinds
  Seeds = {42469}
  Specific_seqs = {0, 6}
  Addresses = {8, 11}
  Deltas = {3, 100}
  NearOrigin = 1
  MaxOrigins = 2
SPECIFICATION Spec
INVARIANTS
  WrapNeedsOutlier
  QuartilesAreRanks
  DistanceCountsSteps
  DrawsAreEven
CHECK_DEADLOCK FALSE
