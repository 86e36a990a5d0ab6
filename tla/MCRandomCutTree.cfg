SPECIFICATION Spec
CONSTANTS
  p1 = p1
  p2 = p2
  p3 = p3
  p4 = p4
  Dims = 2
  Coords <- FourPlaces
  Points = {p1, p2, p3, p4}
  Capacity = 4
  Builds = {"default", "packed"}
  CutGrid <- Grids
  None = None
  MaxDamaged = 3
  Unit = 144
SYMMETRY PointSymmetry
INVARIANTS
  WellFormed
  BoxesTight
  WalksMatchPoints
  AdmitsExactlyTrees
PROPERTY RefusesOnRoundingOnly
