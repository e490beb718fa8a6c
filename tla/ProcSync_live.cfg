SPECIFICATION FairSpec
CONSTANTS
  p1 = p1
  p2 = p2
  p3 = p3
  p4 = p4
  hog = hog
  idle = idle
  res = res
  ev = ev
  null = null
  Procs = {p1, p2, hog}
  Hogs = {hog}
  Idle = idle
  Resources = {res}
  Events = {ev}
  Buckets <- TwoBuckets
  Hash <- Separate
  Priority <- Ladder
  NULL = null
INVARIANTS
  NoStrandedWaiter
PROPERTIES
  LockWaiterWoken
  WokenTopRuns
