SPECIFICATION CovSpec
CONSTANTS
  Fuzzer = {f1, f2, f3, f4}
  Index = {b1, b2, b3}
SYMMETRY Interchangeable
INVARIANTS
  PanicNeedsThree
  AdviceSparesUnique
CHECK_DEADLOCK FALSE
