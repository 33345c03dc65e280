SPECIFICATION Spec
CONSTANTS
  Values = {"nil", "integer", "string", "table", "function", "thread"}
  Tables = {t1, t2}
  ArgLists <- SomeArgs
  ResultLists <- SomeResults
  ParamLists <- SomeParams
  MaxFrames = 2
  MaxArgs = 1
  MaxStack = 3
SYMMETRY TablesAlike
INVARIANTS Balanced HandlesRead
CHECK_DEADLOCK FALSE
