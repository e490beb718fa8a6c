SPECIFICATION WalkSpec
CONSTANTS
  Procs = {p1, p2, p3, p4}
  SleepAddrs = {a, b}
  NULL = NULL
INVARIANTS
  LinksAgree
PROPERTIES
  WalkExact
  WalkEnds
