SPECIFICATION LiveSpec
CONSTANTS
  Idle = 2
  WordSize = 4
  IdleComputation = 2
  TaskParams <- MCZeroParams
  SpinTimes <- MCSpinTimes
  SleepCap = 2
  MaxTime = 0
INVARIANTS TypeOK NoLostThread BudgetBound
PROPERTIES ImplementsPeriodicTasks WaiterIsReleased TopSpinReturns TopThreadRuns
