SPECIFICATION FairSpec
CONSTANTS
  Clients = {c1, c2}
  Conns = {k1, k2}
  NoClient = NoClient
  NoConn = NoConn
  MinConns = 1
  MaxConns = 2
  MaxQueue = 2
  MaxWaiters = 2
PROPERTIES DropCompletes CommandsReturn
