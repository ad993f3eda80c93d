CONSTANTS
  Nil = Nil
  Garbage = Garbage
  NoPage = NoPage
  Unset = Unset
  Times = {0, 10, 11, 20}
  Bests = {1, 2, 3}
  maxsamples = 5
  percent = 10
  CacheSizes = {64, 128}
  min_time = 20
  min_reps = 1
  MaxReps = 4
  MaxZeros = 1
SPECIFICATION LabSpec
CHECK_DEADLOCK FALSE
INVARIANTS
  RangesAgree
  VerdictIsRight
  TimingIsSound
  OlderHeapsKeepPayloads
PROPERTIES
  ImplementsFlat
  OlderHeapsImplementSegments
