SPECIFICATION RoutingSpec
CONSTANTS
  A = A  B = B  C = C
  Absent = Absent
  Names = {A, B, C}
  Providers = {1, 2}
  Models = {1, 2}
  Catalog <- SharedModel
  MaxDepth = 1
  MaxFanout = 2
  Worlds <- Kinds
  Editors = {x1, x2}
  Requests = {r1, r2}
SYMMETRY Symmetries
INVARIANTS TableSound PlansFaithful RotationIsFair
