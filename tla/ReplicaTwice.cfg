SPECIFICATION Spec
CONSTANTS
  MaxTx = 1
  MaxLost = 1
INVARIANT AppliedOnce
