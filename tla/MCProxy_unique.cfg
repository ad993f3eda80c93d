CONSTANTS
  Slots = {s1, s2, s3}
  Keys = {a, b}
  HEAD = HEAD
  TAIL = TAIL
  NULL = NULL
  Threads = {t1, t2}
  Nobody = Nobody
  MAX_CACHE_SIZE = 2
  MAX_OBJECT_SIZE = 2
  MAXLINE = 2
  SIZE_T = 16
SPECIFICATION Spec
INVARIANT AtMostOneCopy
