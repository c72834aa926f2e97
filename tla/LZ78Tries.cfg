SPECIFICATION Spec
CONSTANTS
  Kinds = {"binary", "sorted", "ternary", "hash"}
  Sigma = {1, 2, 3}
  Roots = 1
  MaxSize = 5
INVARIANTS NodesReachableOnce
PROPERTY LookupSpec
CHECK_DEADLOCK FALSE
