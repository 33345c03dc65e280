CONSTANTS
  main = main
  co1 = co1
  co2 = co2
  Coroutines = {co1, co2}
  MaxVars = 2
  LUAI_MAXCCALLS = 6
  ErrorCcalls = 8
  Programs <- Kinds
  SelfCloseFailed = FALSE
SPECIFICATION Spec
INVARIANTS StackRight CountsRight JumpsLive ErrorNotNil
PROPERTY KeepsPromise
