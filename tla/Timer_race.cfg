SPECIFICATION Spec
CONSTANTS
  Reqs = {r1, r2}
  NumTimerTasks = 3
  Delays = {2}
  MaxNest = 2
  MaxCalls = 3
  Open = {"idle", "timer", "tt", "scan", "pop", "popped", "fn", "add", "init", "remove"}
PROPERTIES
  AlarmSpec
CHECK_DEADLOCK FALSE
