CONSTANTS
  Seconds <- FarSeconds
  Elapse <- Pauses
  MAX_STEPS = 5
SPECIFICATION DelaySpec
CHECK_DEADLOCK FALSE
INVARIANTS
  DelayInReach
PROPERTIES
  StatusTellsTimeLeft
