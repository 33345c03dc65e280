SPECIFICATION FairSpec
CONSTANTS
  main = main
  reg = reg
  a = a
  b = b
  c = c
  prim = prim
  Obj <- Heap
  Kind <- LiveKinds
  MainThread = main
  Registry = reg
  Prim = prim
  MetaGC = {c}
  Stores <- LiveStores
  Metas <- LiveMetas
  TypeMetas = {}
  SetModes <- None
  Requests = {"close"}
  LowStack = FALSE
INVARIANT IInv
PROPERTIES FinalizedFirst GarbageFreed PendingFinalized CloseEnds
CHECK_DEADLOCK FALSE
