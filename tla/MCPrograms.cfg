CONSTANTS
  SetBits = {0, 1}
  E = 2
  b = 1
  W = 4
  Addresses <- SmallTrace
  MaxAccesses = 6
  Newlines = {2, 3}
  Total = 6
  Capacity = 3
  RIO_BUFSIZE = 3
  Counts = {2, 4}
  NumGraded = 3
  Iters = {1, 2, 3}
  MAXARGS = 4
SPECIFICATION ProgramsSpec
CHECK_DEADLOCK FALSE
INVARIANTS
  TransposeIsGraded
  RioDelivers
  MatchReferences
  ReadsAsWritten
  RunStaysInStep
  ScoreIsWhole
  RowsSound
PROPERTIES
  ImplementsCache
  RunnerEnds
