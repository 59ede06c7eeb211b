SPECIFICATION Spec
CONSTANTS
  Clients = {c1, c2, c3}
  Conns = {k1, k2, k3}
  NoClient = NoClient
  NoConn = NoConn
  MinConns = 0
  MaxConns = 2
  MaxQueue = 1
  MaxWaiters = 2
SYMMETRY Symmetry
INVARIANTS TypeOK LiveIsExact SingleOwner NoIdleWhileWaiting WaiterRegistered PendingIsQueued SessionBound
PROPERTY PoolImplementsLease
