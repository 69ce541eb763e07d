\* Five words: the shortest sentences where the oracle misses the best tree.
SPECIFICATION Spec
CONSTANTS
  N = 5
  Systems = {"projective"}
  SingleRoot = FALSE
  Labels = {"dep"}
  RootLabel = "root"
  NoLabel = "none"
  Oracles <- DynamicOracle
INVARIANTS
  DynamicBest
CHECK_DEADLOCK FALSE
