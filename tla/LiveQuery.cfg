SPECIFICATION Spec
CONSTANTS
  Queries = {q1, q2}
  NoQuery = NoQuery
  Backends = {"InProcess", "MultiProcess"}
  MaxWrites = 2
  MaxFails = 1
INVARIANTS TornDown ListenIsOn LateOnce 
 
CHECK_DEADLOCK FALSE
