CONSTANTS
  t1 = t1
  t2 = t2
  t3 = t3
  Timer = {t1, t2, t3}
  TICK_MOD = 8
  Delay = {0, 2, 3}
  Period = {0, 2}
  LAST_TICK = 4
SPECIFICATION TimersSpec
INVARIANTS
  QueueIsActiveTimers
  OnTime
