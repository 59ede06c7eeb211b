SPECIFICATION Spec
CONSTANTS
  Tables <- TwoTables
  Names = {"a", "b"}
  Ops = {"insert", "drop", "create"}
  Signals = {TRUE}
  MaxTx = 3
  MaxFaults = 1
  MaxPins = 0
INVARIANT FollowsDdl
CHECK_DEADLOCK FALSE
