SPECIFICATION Spec
CONSTANTS
  Idle = 3
  WordSize = 64
  IdleComputation = 2
  TaskParams <- MCTaskParams
  SpinTimes <- MCSpinTimes
  SleepCap = 2
  MaxTime = 18
CONSTRAINT BeforeHorizon
INVARIANTS NoLostThread DispatchOrder ReleaseTimely BudgetBound
PROPERTIES PreemptedOnlyByHigher IdleGivesWay ImplementsPeriodicTasks
