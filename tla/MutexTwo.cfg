SPECIFICATION MSpec
CONSTANTS
  Idle = 3
  WordSize = 64
  IdleComputation = 2
  TaskParams <- MCTaskParams
  SpinTimes <- MCNoSpin
  SleepCap = 0
  MaxTime = 9
  Mutexes = {m1, m2}
  NoMutex = NoMutex
  MaxCeiling = 2
CONSTRAINT BeforeHorizon
INVARIANTS MTypeOK LockedHasOwner CeilingCoversLocks NoCircularWait
PROPERTIES CeilingRule
