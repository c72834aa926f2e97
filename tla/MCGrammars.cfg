SPECIFICATION MCSpec
CONSTANTS
  Jobs <- MCJobs
  EspJobs <- MCEspJobs
  EspCodersOf <- MCEspCodersOf
  None = None
  FirstBins = 2
INVARIANTS TreeSound NodesInArrays SymbolsSound LongestRepeatFirst NodesNameFactors CodesFit ReadsBack
           BlocksSound RoundsDerive SubsequencesLongest TextBack
PROPERTIES BinaryImplements
