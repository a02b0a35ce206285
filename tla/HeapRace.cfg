SPECIFICATION Spec
CONSTANTS
  Threads = {t1, t2}
  Letters <- MCLetters
  Texts <- MCNoTexts
  ReadLen = 2
  FifoSize = 2
  MaxTyped = 0
  MaxCalls = 3
  Increments = {2}
  HeapSize = 3
  Statuses <- MCNoStatuses
  WordSize = 256
  MaxBuf = 2
  MaxBesideExit = 1
INVARIANTS HeapGrows
CHECK_DEADLOCK FALSE
