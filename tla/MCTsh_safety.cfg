CONSTANTS
  MAXJOBS = 2
  Pids = {p1, p2}
  NoPid = NoPid
SPECIFICATION Spec
SYMMETRY PidSymmetry
INVARIANTS
  AtMostOneFg
  JobsAreChildren
  ChildrenListed
  NoLostSigchld
  StoppedJobIsStopped
  ShellInv
PROPERTIES
  ImplementsJobControl
