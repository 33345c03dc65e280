CONSTANTS
  main = main
  co1 = co1
  co2 = co2
  Coroutines = {co1}
  MaxVars = 1
  LUAI_MAXCCALLS = 6
  ErrorCcalls = 8
  Programs <- SelfClosing
  SelfCloseFailed = TRUE
SPECIFICATION Spec
INVARIANT ErrorNotNil
