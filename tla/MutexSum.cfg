SPECIFICATION MSpec
CONSTANTS
  Idle = 3
  WordSize = 64
  IdleComputation = 2
  TaskParams <- MCTaskParams
  SpinTimes <- MCNoSpin
  SleepCap = 0
  MaxTime = 8
  Mutexes = {m1, m2, m3}
  NoMutex = NoMutex
  MaxCeiling = 2
CONSTRAINT LowerTwo
PROPERTIES CeilingRule
SYMMETRY Symmetric
