SPECIFICATION HSpec
CONSTANTS
  NumTrees = 2
  SampleSize = 1
  WarmUp = 1
  MaxSlots = 4
  MaxObs = 3
  Times = {1}
  ValueOf = NotLookedAt
  MaxBatch = 1
  StampAnySlot = FALSE
  None = None
INVARIANT HandleRetractsItsOwn
