SPECIFICATION Spec
CONSTANTS
  Tasks = {t1, t2}
  Conns = {k1, k2}
  NoConn = NoConn
  NoTask = NoTask
  MaxConns = 2
  Backends = {"MultiProcess"}
  Kinds <- QueryKinds
  MaxStmts = 1
  Joined = FALSE
  Careful = TRUE
  CancelBegin = {"MultiProcess"}
  WireBlocks = FALSE
INVARIANT OwnStatement
