SPECIFICATION TargetSpec
CONSTANTS
  Thread = {t1, t2}
  Chunk = {c1, c2, c3}
  Null = Null
  Size = {1, 3}
  MaxBytes = 3
  H = 4
  HitsMod = 8
  MaxRuns = 2
  MaxLogs = 10
SYMMETRY Symmetric
INVARIANTS
  OneInside
  ListWellFormed
  QuarantineIsPoisoned
  FreshValues
  NewestKept
CHECK_DEADLOCK FALSE
