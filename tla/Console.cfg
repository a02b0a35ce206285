SPECIFICATION Spec
CONSTANTS
  Threads = {t1, t2}
  Letters <- MCLetters
  Texts <- MCTexts
  ReadLen = 2
  FifoSize = 2
  MaxTyped = 3
  MaxCalls = 3
  Increments = {2}
  HeapSize = 3
  Statuses <- MCStatuses
  WordSize = 256
  MaxBuf = 2
  MaxBesideExit = 1
CONSTRAINT LittleBesideExit
SYMMETRY MCSymmetry
INVARIANTS TypeOK EchoShowsBuffer ExitStatusShown HeapBelowTop
PROPERTIES LossNeedsRace
CHECK_DEADLOCK FALSE
