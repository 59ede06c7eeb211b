SPECIFICATION FairSpec
CONSTANTS
  MaxTx = 3
  MaxLost = 1
INVARIANTS TypeOK Exact NoLoss EventsFollow
PROPERTIES ReplicaImplementsMirror ChangesArrive SlotFollows
