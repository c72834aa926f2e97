SPECIFICATION Spec
CONSTANTS
  Sigma = {1, 2}
  TextsOf <- ShortTexts
  MaxLen = 10
  Thresholds = {1, 2}
  Strategies = {"arrays", "heap", "max_lcp", "bheap", "naive", "plcppeaks", "plcp", "bulldozer", "lzss_lcp"}
  Decoders = {"scan", "compact", "queue", "multimap"}
  Scans = 2
INVARIANTS FactorsSound CandidatesExact NoWildSlot
PROPERTIES GreedyChoice Restored
