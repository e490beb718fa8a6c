SPECIFICATION Spec
CONSTANTS
  p1 = p1
  p2 = p2
  p3 = p3
  p4 = p4
  hog = hog
  idle = idle
  res = res
  ev = ev
  null = null
  Procs = {p1, p2, p3, hog}
  Hogs = {hog}
  Idle = idle
  Resources = {res}
  Events = {ev}
  Buckets <- OneBucket
  Hash <- Collide
  Priority <- Slices
  NULL = null
INVARIANTS
  TypeOK
  QueuesExact
  CurrentIsRunnable
  MutualExclusion
  NoMissedReschedule
PROPERTY
  WakesOneAddress
