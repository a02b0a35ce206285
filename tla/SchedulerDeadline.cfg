SPECIFICATION BehavedSpec
CONSTANTS
  Idle = 2
  WordSize = 64
  IdleComputation = 2
  TaskParams <- MCTaskParams
  SpinTimes <- MCNoSpin
  SleepCap = 2
  MaxTime = 18
INVARIANTS DeadlinesKept
CONSTRAINT BeforeHorizon
