SPECIFICATION FairSpec
CONSTANTS
  NumTrees = 2
  SampleSize = 2
  WarmUp = 2
  MaxSlots = 6
  MaxObs = 4
  Times = {1, 2}
  ValueOf <- TwoValues
  MaxBatch = 2
  StampAnySlot = FALSE
  None = None
INVARIANTS
  NoStoreError
  SnapshotReloads
  IInv
PROPERTIES
  RetentionExact
  CodispRestores
  ImplementsEnsemble
  EveryCallReturns
