SPECIFICATION MCSpec
CONSTANTS
  Sigma = 2
  Setups <- BinaryLimited
  MaxLen = 10
  DmsMax = 1000
INVARIANT RoundTrip
CHECK_DEADLOCK FALSE
