SPECIFICATION Spec
CONSTANTS
  n1 = n1
  c1 = c1
  c2 = c2
  c3 = c3
  NodeID = {n1}
  Conn = {c1, c2, c3}
  NodeOf <- OneHost
  CoreCounts = {0}
  Uuid = {1, 9}
  EventChanBuf = 1
  MaxEmits = 2
INVARIANTS
  TypeOK
  DbMutexReleased
  RegistryAgrees
  ElementCap
  StartedWasRegistered
SYMMETRY ConnSymmetry
CHECK_DEADLOCK FALSE
