SPECIFICATION FairSpec
CONSTANTS
  Tasks = {t1, t2}
  Conns = {k1}
  NoConn = NoConn
  NoTask = NoTask
  MaxConns = 1
  Backends = {"InProcess", "MultiProcess"}
  Kinds <- LiveKinds
  MaxStmts = 2
  Joined = TRUE
  Careful = TRUE
  CancelBegin = {"MultiProcess"}
  WireBlocks = FALSE
PROPERTY EndedLetsGo
