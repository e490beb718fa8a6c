SPECIFICATION Spec
CONSTANTS
  Devices = {0, 1, 7, 15}
  Sticky = {1}
  MaxNest = 2
  MaxGlitch = 2
INVARIANTS
  NothingLeftInService
  OwedWillRun
PROPERTIES
  RaisedServed
