SPECIFICATION Spec
CONSTANTS
  main = main
  reg = reg
  a = a
  b = b
  c = c
  prim = prim
  Obj <- Heap
  Kind <- WeakKinds
  MainThread = main
  Registry = reg
  Prim = prim
  MetaGC = {b}
  Stores <- WeakStores
  Metas <- WeakMetas
  TypeMetas = {}
  SetModes <- WeakModes
  Requests = {}
  LowStack = FALSE
INVARIANTS TriColor
PROPERTIES ClearsOnlyGarbage WeakOrder
CHECK_DEADLOCK FALSE
