CONSTANTS
  alpha = alpha
  beta = beta
  gamma = gamma
  nil = nil
  none = none
  invalid = invalid
  Objects = {alpha, beta, gamma}
  Hash <- Hashes
  MaxInt = 18
  MAXABITS = 4
  MAXHBITS = 3
  LIMFORLAST = 2
  Seeds = {0, 1, 6}
  Programs <- AllPrograms
  ShrinkFails = FALSE
  NBITS = 4
  NBM = 2
  MAX_LMEM = 1048575
  RANLIMIT = 4
  IMBALANCE = 1
  Library <- Arguments
  LIMLINEDIFF = 2
  MAXIWTHABS = 4
  linedefined = 1
  LastLine = 3
  MaxCode = 8
SPECIFICATION LibrarySpec
INVARIANTS LengthIsBorder NoDanglingEntry ChainsRight LoopsRight NumbersRight ArraysRight RefsUnique MatchesRight BytesRight LinesRight
PROPERTY KeepsMap
