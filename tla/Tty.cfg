CONSTANTS
  MaxTyped = 2
  Limit = 2
  MaxNested = 2
  Settings <- SomeSettings
  Counts = {2}
SPECIFICATION FairSpec
INVARIANTS InOrder OutputTaken
PROPERTIES TypedIsCooked
CHECK_DEADLOCK FALSE
