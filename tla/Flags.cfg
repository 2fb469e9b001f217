SPECIFICATION Spec
CONSTANTS
  r1 = r1
  r2 = r2
  r3 = r3
  reg31 = reg31
  W = 8
  H = 4
  ImmBits = 3
  CmpBits = 2
  ExtShift = 4
  Piece = 4
  Gprs <- ThreeGprs
  R31 <- reg31
  Exts = {2}
  TestReach = 4
  CondReach = 16
  CbReach = 4
  CbMax = 3
  Window = 3
  MaxLinks = 3
  ZsGap = 2
  Machines <- Starts
  Families <- AllFamilies
CHECK_DEADLOCK FALSE
INVARIANTS TypeOK FlagsSound SearchExact ReportedOnce
