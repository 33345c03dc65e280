SPECIFICATION Spec
CONSTANTS
  Obj <- SomeObj
  Content <- SomeContent
  Hash <- SomeHash
  InitSize = 4
  MaxSize = 8
  MaxUse = 5
  Kinds = {"incremental", "generational"}
  ShrinkFails = {"incremental", "generational"}
INVARIANTS RemoveFinds
CHECK_DEADLOCK FALSE
