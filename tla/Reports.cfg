SPECIFICATION Spec
CONSTANTS
  Hash <- Home
  InitialSlots = 2
  PageBytes = 16
  Ones = 9
  none = none
  NoValue = none
  Files <- SomeFiles
  Findings <- SomeFindings
  Types = {1, 2}
  SummaryMax = 2
  MaxFindings = 3
CHECK_DEADLOCK FALSE
INVARIANTS TypeOK ProbesEnd SumsAgree CopiesAreCopies RebuildsCounted
PROPERTY PromiseKept
