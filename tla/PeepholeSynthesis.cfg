SPECIFICATION Spec
CONSTANTS
  r1 = r1
  r2 = r2
  r3 = r3
  reg31 = reg31
  W = 4
  H = 2
  ImmBits = 1
  CmpBits = 1
  ExtShift = 1
  Piece = 1
  Gprs <- ThreeGprs
  R31 <- reg31
  Exts <- BitOnly
  Window = 2
  Machines <- Starts
  Families <- SynthesisFamilies
INVARIANT FoldsSound
