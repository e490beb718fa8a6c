SPECIFICATION Spec
CONSTANTS
  Users = {u1, u2}
  Chars = {a, b}
  NUL = NUL
  CBLOCK_SIZE = 2
  CHARQ_SIZE = 3
INVARIANTS
  CountsExact
  BlocksInUse
  LimitPerUser
PROPERTIES
  QueueSpec
