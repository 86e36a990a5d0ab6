SPECIFICATION TriageSpec
CONSTANTS
  Alerts <- Kinds
  Similarity <- Cosine
  Threshold = 2
  Window = 2
  Forever = Forever
  Times = {1, 2, 4}
  MaxTenants = 2
  MaxCap = 3
  MaxAlerts = 4
  BucketsPerDim = 3
  AttrCap = 2
  Axes <- Pair
  Values <- Attributions
  MaxObs = 3
  Capacity = 3
  Strength = 2
  Kernel <- Gauss
  Points = {0, 1, 2, 3}
  RawScores = {0, 1, 5}
  MaxLabels = 5
  Records = {r, s}
  MaxSeq = 3
  MaxAppends = 4
  MaxFaults = 4
  MinSteps = {2}
  Dimension = 3
  Scores = {0, 1}
  Draws = 2
  NonFinite = NonFinite
INVARIANT GivingUpIsNotConverging
CHECK_DEADLOCK FALSE
