SPECIFICATION NapSpec
CONSTANTS
  MaxProcess = 3
  TimeSlice = 2
  TickMod = 6
  MaxSleep = 3
  NULL = NULL
INVARIANTS
  HaltsOverOnce
PROPERTIES
  NoEarlyWakeup
  TickWakesAllDue
