SPECIFICATION Spec
CONSTANTS
  Width = 4
  BlockWidths = {1, 3}
  Ranges <- MCRanges
  LitMax = 127
  Top = 40
  Texts <- MCTexts
  None = None
INVARIANTS EofExact HuffmanOptimal
PROPERTIES ChannelSpec
CHECK_DEADLOCK FALSE
