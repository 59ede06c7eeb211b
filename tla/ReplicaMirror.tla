--------------------------- MODULE ReplicaMirror ---------------------------
(***************************************************************************)
(* What a logical replica promises: the local tables are the upstream      *)
(* tables as they were at some position of the upstream history, and they  *)
(* move forward one transaction at a time.  None is left out, none comes   *)
(* out of order, and none is applied again, except that the latest one may *)
(* be where Redo allows it.  Replica implements this specification.        *)
(***************************************************************************)
EXTENDS Integers, Sequences

CONSTANTS MaxTx, Redo

VARIABLES
  wal,    \* the upstream history: "data" or "other" for each transaction
  at,     \* the position the local tables stand at, or Absent: no promise yet
  rows    \* how often the local tables hold the changes of each transaction

vars == <<wal, at, rows>>

Absent == -1

\* The transactions in (a, b] with changes for the replica.
Data(a, b) == {i \in (a + 1)..b : wal[i] = "data"}

\* The tables at position p.
Snapshot(p) == [i \in 1..MaxTx |-> IF i \in Data(0, p) THEN 1 ELSE 0]

Init == wal = <<>> /\ at = Absent /\ rows \in [1..MaxTx -> Nat]

Commit == \E k \in {"data", "other"} : wal' = Append(wal, k) /\ UNCHANGED <<at, rows>>

\* The first copy of the tables; until then, and after Forget, they may hold anything.
Prepare == at = Absent /\ at' = Absent /\ UNCHANGED wal
Publish == at = Absent /\ at' \in 0..Len(wal) /\ rows = Snapshot(at') /\ UNCHANGED <<wal, rows>>
Forget == at' = Absent /\ UNCHANGED <<wal, rows>>

\* The next transaction with changes.
Advance ==
  /\ at # Absent /\ at' \in Data(at, Len(wal)) /\ Data(at, at' - 1) = {}
  /\ rows' = [rows EXCEPT ![at'] = @ + 1]
  /\ UNCHANGED wal

\* The latest transaction once more.
Again ==
  /\ Redo /\ at # Absent /\ at \in Data(0, Len(wal))
  /\ rows' = [rows EXCEPT ![at] = @ + 1]
  /\ UNCHANGED <<wal, at>>

Next == Commit \/ Prepare \/ Publish \/ Forget \/ Advance \/ Again

Spec == Init /\ [][Next]_vars
=============================================================================
