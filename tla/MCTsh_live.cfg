CONSTANTS
  MAXJOBS = 1
  Pids = {p1, p2}
  NoPid = NoPid
SPECIFICATION FairSpec
PROPERTIES
  ZombiesReaped
  PromptReturns
  CtrlCEndsForeground
