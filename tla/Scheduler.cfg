SPECIFICATION FairSpec
CONSTANTS
  MaxProcess = 4
  TimeSlice = 2
  TickMod = 2
  MaxSleep = 1
  NULL = NULL
INVARIANTS
  TypeOK
  WalkComplete
  SwitchTargetSaved
PROPERTIES
  ExitIsFinal
  ImplementsCoop
  ReadyRuns
  SleepReturns
