CONSTANTS
  Cells = {c1, c2, c3}
  Values = {x, y}
  NULL = NULL
  MaxAlarms = 1
SPECIFICATION LabSpec
SYMMETRY QtestSymmetry
INVARIANTS
  ListMatchesFields
  NothingLeaks
  WalkEnds
  ResultMatchesReport
  HarnessIsReset
  ConsoleKeepsTrack
PROPERTIES
  ImplementsQueue
