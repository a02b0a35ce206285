SPECIFICATION MSpec
CONSTANTS
  Idle = 2
  WordSize = 64
  IdleComputation = 2
  TaskParams <- MCTaskParams
  SpinTimes <- MCNoSpin
  SleepCap = 0
  MaxTime = 9
  Mutexes = {m1}
  NoMutex = NoMutex
  MaxCeiling = 1
CONSTRAINT DecidesAtOnce
INVARIANTS MutualExclusion
