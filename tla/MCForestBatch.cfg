SPECIFICATION Spec
CONSTANTS
  NumTrees = 2
  SampleSize = 1
  WarmUp = 1
  MaxSlots = 4
  MaxObs = 3
  Times = {1}
  ValueOf <- TwoValues
  MaxBatch = 2
  StampAnySlot = FALSE
  None = None
INVARIANT OversizedBatchIsRefused
