SPECIFICATION WalkSpec
CONSTANTS
  Regs <- OneReg
  Words <- AllWords
  N = 4
  V8Pool = TRUE
  Window = 2
  MaxPaths = 2
  Budget = 4
  Targets = {0}
INVARIANTS TypeOK ArraysInBounds DeadIsDead RefusalHasReason
PROPERTY AlwaysReturns
