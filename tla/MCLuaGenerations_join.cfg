CONSTANTS
  mainth = mainth
  reg = reg
  co = co
  uv = uv
  cl = cl
  tb = tb
  wk = wk
  null = null
  Objects <- SomeObjects
  Type <- SomeTypes
  MainThread = mainth
  Registry = reg
  Programs <- Joining
SPECIFICATION Spec
INVARIANT NothingLost
