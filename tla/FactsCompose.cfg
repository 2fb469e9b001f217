SPECIFICATION Spec
CONSTANTS
  r1 = r1
  r2 = r2
  r3 = r3
  reg31 = reg31
  W = 8
  H = 4
  ImmBits = 3
  CmpBits = 2
  ExtShift = 4
  Piece = 2
  Gprs <- ThreeGprs
  R31 <- reg31
  NumberMax = 31
  Window = 2
  ReadyMax = 2
  Frame <- OnlyR3
  RepMax = 2
  Cage <- OnlyR3
  Probe = 5
  Machines <- Starts
  Programs <- ComposePrograms
CHECK_DEADLOCK FALSE
INVARIANT DeletionsCompose
