SPECIFICATION DriverSpec
CONSTANTS
  Regs <- TwoRegs
  Words <- DriverWords
  N = 6
  V8Pool = TRUE
  Window = 3
INVARIANTS TypeOK FindingsSound EnteredAtTop OneReport FindingsCompose
PROPERTIES ProofsStopAtGaps FallbackKept
