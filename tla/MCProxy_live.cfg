CONSTANTS
  Slots = {s1, s2}
  Keys = {a, b}
  HEAD = HEAD
  TAIL = TAIL
  NULL = NULL
  Threads = {t1, t2}
  Nobody = Nobody
  MAX_CACHE_SIZE = 1
  MAX_OBJECT_SIZE = 1
  MAXLINE = 1
  SIZE_T = 4
SPECIFICATION FairSpec
PROPERTY EveryConnectionCloses
