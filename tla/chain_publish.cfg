SPECIFICATION Spec
CONSTANTS
  p1 = p1  p2 = p2  d1 = d1  d2 = d2  r1 = r1  r2 = r2
  Proc = {p1, p2}  TargetDir = {d1, d2}  Root = {r1, r2}
  Entries = 1  Files = 1  MaxRuns = 3
SYMMETRY Interchangeable
CHECK_DEADLOCK FALSE
INVARIANTS
  BuildsExclude
  CurrentIsWhole
PROPERTIES
  CurrentIsLatest
  NumbersNeverReused
