CONSTANTS
  Obj <- SomeObj
  Content <- SomeContent
  Hash <- SomeHash
  InitSize = 4
  MaxSize = 8
  MaxUse = 5
  Kinds = {"incremental", "generational"}
  ShrinkFails = {"incremental"}
  mainth = mainth
  reg = reg
  co = co
  uv = uv
  cl = cl
  tb = tb
  wk = wk
  null = null
  Objects <- SomeObjects
  Type <- SomeTypes
  MainThread = mainth
  Registry = reg
  Programs <- SomePrograms
SPECIFICATION ModesSpec
INVARIANTS InBucket Interned HeldLive RemoveFinds NothingLost OldHidesNoYoung SublistsRight
CHECK_DEADLOCK FALSE
