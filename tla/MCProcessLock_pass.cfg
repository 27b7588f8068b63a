SPECIFICATION FairSpec
CONSTANTS
  r1 = r1
  r2 = r2
  None = None
  Empty = Empty
  Run <- TwoRuns
  NPID = 3
  MaxCrash = 2
  MaxOther = 1
INVARIANTS
  LockNamesOwner
  OnePort
PROPERTY Restarted
