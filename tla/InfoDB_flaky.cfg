SPECIFICATION Spec
CONSTANTS
  f1 = f1
  f2 = f2
  x = x
  y = y
  z = z
  FuzzerID = {f1, f2}
  Branch = {x, y, z}
  Evaluations <- Flaky
  FalsePositives = {1}
  MaxBatch = 2
  MaxCalls = 2
INVARIANTS
  SeedsUnique
  NewCovAddsUp
  MapsAgree
  AnalysisConsistent
  GeneralCovComplete
SYMMETRY FuzzerSymmetry
CHECK_DEADLOCK FALSE
