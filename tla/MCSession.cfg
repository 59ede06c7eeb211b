SPECIFICATION Spec
CONSTANTS
  Tasks = {t1, t2, t3}
  Conns = {k1}
  NoConn = NoConn
  NoTask = NoTask
  MaxConns = 1
  Backends = {"InProcess", "MultiProcess"}
  Kinds <- BothKinds
  MaxStmts = 2
  Joined = FALSE
  Careful = TRUE
  CancelBegin = {"MultiProcess"}
  WireBlocks = FALSE
SYMMETRY Symmetry
INVARIANTS TypeOK OkIsDurable AllOrNothing NeverCommitted OwnStatement NoOrphan NoMixing
