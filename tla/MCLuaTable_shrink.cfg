CONSTANTS
  alpha = alpha
  beta = beta
  gamma = gamma
  nil = nil
  none = none
  invalid = invalid
  Objects = {alpha, beta, gamma}
  Hash <- Hashes
  MaxInt = 18
  MAXABITS = 4
  MAXHBITS = 3
  LIMFORLAST = 2
  Seeds = {0, 1, 6}
  Programs <- Kinds
  ShrinkFails = TRUE
SPECIFICATION Spec
INVARIANT NoDanglingEntry
