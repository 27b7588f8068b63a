SPECIFICATION Spec
CONSTANTS
  k1 = k1
  k2 = k2
  k3 = k3
  o1 = o1
  o2 = o2
  o3 = o3
  None = None
  Conn <- Three
  Fd <- Fd3
  Obj <- ThreeObj
  MAXCLIENTS = 2
  SockBuf = 1
  MaxReading = 0
  SigPipeIgnored = TRUE
SYMMETRY Symmetry
INVARIANTS
  SocketOwned
  VectorSound
  ThreadInObject
  OnlyUnansweredLeak
PROPERTY ImplementsConnections
