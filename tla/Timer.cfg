SPECIFICATION Spec
CONSTANTS
  Reqs = {r1, r2, r3}
  NumTimerTasks = 3
  Delays = {0, 1, 2, 3}
  MaxNest = 2
  MaxCalls = 5
  Open = {"idle", "timer", "tt", "scan", "pop", "popped", "fn", "add", "init"}
INVARIANTS
  SlotsKept
PROPERTIES
  AlarmSpec
  TasksRun
