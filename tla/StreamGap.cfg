SPECIFICATION Spec
CONSTANTS
  Regs <- OneReg
  Words <- GapWords
  N = 4
  V8Pool = FALSE
  Window = 3
INVARIANTS NoFoldAcrossGap
