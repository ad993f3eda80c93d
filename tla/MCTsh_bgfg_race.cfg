CONSTANTS
  MAXJOBS = 2
  Pids = {p1, p2}
  NoPid = NoPid
SPECIFICATION Spec
INVARIANT CheckedJobIsThere
