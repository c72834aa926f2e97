SPECIFICATION Spec
CONSTANTS
  Pool <- MCPool
  Byte <- MCByte
  Restrictions <- MCRestrictions
  MaxLen = 3
  PageSize = 2
  MemSize = 8
INVARIANTS ConversionInPlace ViewRestricted
PROPERTIES ConversionEnds
CHECK_DEADLOCK FALSE
