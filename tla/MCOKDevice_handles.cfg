SPECIFICATION Spec
CONSTANTS
  Bitfile = {"none", "good", "bad", "short"}
  MaxCmd = 1
  MaxFail = 2
  MaxUnplug = 1
INVARIANTS
  HandlesMatch
  UsedWhileOpen
  DeafOnlyIfLost
  LoadedUnlessTold
CHECK_DEADLOCK FALSE
