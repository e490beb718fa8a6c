CONSTANTS
  Keyboards <- SomeKeyboards
  MaxPressed = 3
  MaxNested = 2
SPECIFICATION FairSpec
INVARIANTS
  CtrlFollowsKeys
PROPERTIES
  RequestsTaken
CHECK_DEADLOCK FALSE
