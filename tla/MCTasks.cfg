CONSTANTS
  p1 = p1
  p2 = p2
  p3 = p3
  p4 = p4
  Task = {p1, p2, p3, p4}
  NoTask = NoTask
  MAX_PID = 5
SPECIFICATION FairTasksSpec
CHECK_DEADLOCK FALSE
INVARIANTS
  QueueIsAllocated
  OnlyCurrentRuns
PROPERTIES
  NobodyOvertakesTwice
  ReadyRuns
