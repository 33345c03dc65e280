SPECIFICATION Spec
CONSTANTS
  main = main
  reg = reg
  a = a
  b = b
  c = c
  prim = prim
  Obj <- Heap
  Kind <- UpvalKinds
  MainThread = main
  Registry = reg
  Prim = prim
  MetaGC = {}
  Stores <- UpvalStores
  Metas <- None
  TypeMetas = {reg, c}
  SetModes <- None
  Requests = {"collect", "emergency"}
  LowStack = FALSE
INVARIANTS TypeOK NoDangling GrayListed
CHECK_DEADLOCK FALSE
