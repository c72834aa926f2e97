SPECIFICATION Spec
CONSTANTS
  Sigma = {1, 2}
  TextsOf <- HeapTexts
  MaxLen = 40
  Thresholds = {1}
  Strategies = {"heap"}
  Decoders = {"compact"}
  Scans = 0
INVARIANTS FactorsDisjoint
