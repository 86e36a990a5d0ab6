SPECIFICATION HSpec
CONSTANTS
  NumTrees = 2
  SampleSize = 1
  WarmUp = 1
  MaxSlots = 4
  MaxObs = 4
  Times = {1, 2}
  ValueOf = NotLookedAt
  MaxBatch = 1
  StampAnySlot = TRUE
  None = None
INVARIANT StoreBounded
PROPERTY RetractedIsGone
