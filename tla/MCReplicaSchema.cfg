SPECIFICATION Spec
CONSTANTS
  Tables <- TwoTables
  Names = {"a", "b"}
  Ops = {"insert", "mixed", "add", "drop", "rename", "retype", "create", "unkeyed", "remove"}
  Signals = {TRUE, FALSE}
  MaxTx = 3
  MaxFaults = 1
  MaxPins = 1
INVARIANTS ValuesKept SchemaConverges HaltJustified
CHECK_DEADLOCK FALSE
