SPECIFICATION Spec
CONSTANTS
  Keys = {a, b, c}
  Capacity = 2
  FactoryMode = "zsigma"
  MinObservations = 1
  MaxReplay = 2
  MaxTick = 4
  MaxInstant = 1
INVARIANT SummaryMatchesGrades
