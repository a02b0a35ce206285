SPECIFICATION RSpec
CONSTANTS
  Idle = 5
  WordSize = 64
  IdleComputation = 2
  TaskParams <- MCTaskParams
  SpinTimes <- MCNoSpin
  SleepCap = 0
  Creators <- MCCreators
  MaxTime = 12
CONSTRAINT BeforeHorizon
INVARIANTS LostOnlyByRace KeptUnlessRaced
PROPERTIES OnlyStaleWordFinds DispatchedAtTick
