SPECIFICATION Spec
CONSTANTS
  Keys = {a, b, c}
  Capacity = 2
  FactoryMode = "zsigma"
  MinObservations = 1
  MaxReplay = 2
  MaxTick = 5
  MaxInstant = 1
SYMMETRY TenantSymmetry
INVARIANTS
  WorkingSetStays
  TenantsAccountedFor
  ReadyNeedsWarmup
PROPERTY ImplementsLru
