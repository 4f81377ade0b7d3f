CONSTANTS
  MaxWork = 3
  BadEstimate = BadEstimate
  Estimate <- Estimates
SPECIFICATION PSpec
INVARIANTS RankIsLongestPath CountIsReachability CriticalFirst HybridGeneralises
