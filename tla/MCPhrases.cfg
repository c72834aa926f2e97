SPECIFICATION MCSpec
CONSTANTS
  Sigma = 2
  Setups <- Lossless
  MaxLen = 10
  DmsMax = 1000
INVARIANTS DictsAgree
PROPERTIES ChannelSpec
CHECK_DEADLOCK FALSE
