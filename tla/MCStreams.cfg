SPECIFICATION MCSpec
CONSTANTS
  Pool <- MCPool
  Byte <- MCByte
  Restrictions <- MCRestrictions
  MaxLen = 4
  Bits = {0, 1}
  MaxBits = 34
CONSTRAINT PayloadShape
INVARIANTS Restricted CleanEnd RoundTrip ExactEof IInv
PROPERTIES ChannelSpec BitChannelSpec
CHECK_DEADLOCK FALSE
