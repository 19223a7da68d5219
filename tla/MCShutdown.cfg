CONSTANTS
  sd = sd
  Timer = {sd}
  TICK_MOD = 10
  Delay = {0, 1, 4}
  Period = {0}
  LAST_TICK = 10
  Mode <- Modes
SPECIFICATION FairShutdownSpec
CHECK_DEADLOCK FALSE
INVARIANTS
  PendingIsArmed
  PendingHasTimeLeft
PROPERTIES
  GoesDownAsPromised
  PromiseKept
