SPECIFICATION Spec
CONSTANTS
  k1 = k1
  k2 = k2
  k3 = k3
  o1 = o1
  o2 = o2
  o3 = o3
  None = None
  Conn <- Two
  Fd <- Fd2
  Obj <- TwoObj
  MAXCLIENTS = 2
  SockBuf = 1
  MaxReading = 1
  SigPipeIgnored = TRUE
SYMMETRY Symmetry
INVARIANT OnlyListenersGetReadings
