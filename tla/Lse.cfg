SPECIFICATION Spec
CONSTANTS
  r1 = r1
  r2 = r2
  r3 = r3
  r4 = r4
  r5 = r5
  reg31 = reg31
  W = 4
  H = 2
  ImmBits = 2
  CmpBits = 2
  ExtShift = 2
  Piece = 2
  Gprs <- FiveGprs
  R31 <- reg31
  Here <- Address
  Window = 3
  Machines <- Starts
  Rivals <- OthersValues
  Families <- AllFamilies
CHECK_DEADLOCK FALSE
PROPERTY LoopsAtomic
