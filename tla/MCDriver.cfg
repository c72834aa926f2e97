SPECIFICATION Spec
CONSTANTS
  ByteBits = 2
  Endless = Endless
  None = None
  Pool <- MCPool
  Metas <- MCMetas
  Numerals <- MCNumerals
  Commands <- MCCommands
  MaxCommands = 2
  Texts <- MCTexts
  Generated <- MCGenerated
  HeaderMax = 13
INVARIANTS RoundTrip FailedKeepsFiles RegistryAgrees
CHECK_DEADLOCK FALSE
