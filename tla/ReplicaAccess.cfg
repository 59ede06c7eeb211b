SPECIFICATION Spec
CONSTANTS
  Tables = {"t", "u"}
  Roles = {"r", "q"}
  MaxChanges = 3
  MaxFaults = 1
INVARIANTS Converges
PROPERTIES PollSettles
CHECK_DEADLOCK FALSE
