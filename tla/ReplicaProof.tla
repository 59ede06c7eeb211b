---------------------------- MODULE ReplicaProof ----------------------------
(***************************************************************************)
(* Proofs about Replica for histories of every length and any number of    *)
(* lost answers: the stored watermark and the tables agree, the upstream   *)
(* slot never passes what is durable, subscribers see what was applied,    *)
(* and the replica implements the mirror.                                  *)
(***************************************************************************)
EXTENDS Replica, SequenceTheorems, TLAPS

\* TypeOK without the bounds of the positions, which Bounded has.
Typed ==
  /\ wal \in Seq({"data", "other"}) /\ Len(wal) <= MaxTx
  /\ slot \in {Absent} \cup Nat /\ meta \in {Absent} \cup Nat /\ since \in {Absent} \cup Nat
  /\ rows \in [Pos -> Nat] /\ lost \in [Pos -> Nat]
  /\ mode \in Modes
  /\ start \in Nat /\ watermark \in Nat /\ ack \in Nat /\ cur \in Nat
  /\ txn \in {"none", "begun", "changed"}
  /\ events \in Seq(Nat)
  /\ dropping \in BOOLEAN

\* Nothing for the replica in (a, b].
Quiet(a, b) == \A i \in (a + 1)..b : wal[i] # "data"

\* Positions lie in the history, and the thread is where its buffer says it is.
Bounded ==
  /\ slot # Absent => slot <= Len(wal)
  /\ meta # Absent => meta <= Len(wal)
  /\ start <= Len(wal) /\ watermark <= Len(wal) /\ ack <= Len(wal) /\ cur <= Len(wal)
  /\ since # Absent => since <= Len(wal)
  /\ mode \in {"schema", "copy", "init"} => slot \in {Absent, start}
  /\ mode \in Running => start <= watermark /\ (since # Absent => since <= watermark)
  /\ mode \in {"stream", "applied"} => watermark <= cur
  /\ mode \in {"stream", "applied"} /\ txn # "none" => cur < Len(wal)
  /\ mode \in {"stream", "applied"} /\ txn = "changed" => wal[cur + 1] = "data"
  /\ mode = "applied" => txn = "changed"
  /\ \A i \in Pos : lost[i] <= MaxLost

\* The first run: no row yet, and the tables are empty, then the snapshot.
FirstCopy ==
  /\ mode \in FirstRun => meta = Absent
  /\ mode = "copy" => \A i \in Pos : rows[i] = 0 /\ lost[i] = 0
  /\ mode = "init" => \A i \in Pos : lost[i] = 0 /\ rows[i] = IF i \in Data(0, start) THEN 1 ELSE 0

\* Whatever position the replica holds or gives away, nothing lies between it and the
\* watermark in memory.
NothingBetween ==
  /\ mode \in Running => Quiet(watermark, ack)
  /\ mode \in Running /\ slot # Absent => Quiet(watermark, slot)
  /\ mode \in {"stream", "applied"} => Quiet(watermark, cur)
  /\ slot # Absent /\ meta # Absent => Quiet(meta, slot)

\* The watermark in memory is the stored one, except around a COMMIT: between its effect
\* and its answer, and after an answer that was lost.
Stored ==
  meta # Absent =>
    /\ mode = "applied" => meta = cur + 1
    /\ mode \in {"connect", "stream"} =>
         \/ watermark = meta
         \/ /\ watermark < meta /\ wal[meta] = "data" /\ Quiet(watermark, meta - 1)
            /\ rows[meta] <= lost[meta]

IInv ==
  /\ Typed /\ Bounded /\ FirstCopy /\ NothingBetween /\ Stored /\ Exact /\ EventsFollow

-----------------------------------------------------------------------------
(* The history grows at its end. *)

LEMMA DataMember ==
  ASSUME NEW a, NEW b, NEW i
  PROVE  i \in Data(a, b) <=> i \in (a + 1)..b /\ wal[i] = "data"
BY DEF Data

LEMMA QuietIsEmpty ==
  ASSUME NEW a, NEW b, Quiet(a, b)
  PROVE  Data(a, b) = {}
BY DEF Data, Quiet

LEMMA HistoryGrows ==
  ASSUME Typed, UpstreamCommit
  PROVE  /\ Len(wal') = Len(wal) + 1 /\ Len(wal') <= MaxTx
         /\ wal' \in Seq({"data", "other"})
         /\ \A i \in 1..Len(wal) : wal'[i] = wal[i]
<1>1. PICK k \in {"data", "other"} : wal' = Append(wal, k)
  BY DEF UpstreamCommit
<1>2. wal \in Seq({"data", "other"}) /\ Len(wal) < MaxTx
  BY DEF UpstreamCommit, Typed
<1> QED
  BY <1>1, <1>2, ReplicaAssumption

LEMMA StableSets ==
  ASSUME Typed, UpstreamCommit, NEW a \in Nat, NEW b \in Nat, b <= Len(wal)
  PROVE  Data(a, b)' = Data(a, b) /\ (Quiet(a, b) => Quiet(a, b)')
<1>1. \A i \in (a + 1)..b : wal'[i] = wal[i]
  BY HistoryGrows DEF Typed
<1> QED
  BY <1>1 DEF Data, Quiet

-----------------------------------------------------------------------------
(* Types *)

LEMMA OneMore ==
  ASSUME NEW f \in [Pos -> Nat], NEW p \in Pos, NEW g, g = [f EXCEPT ![p] = @ + 1]
  PROVE  g \in [Pos -> Nat] /\ g[p] = f[p] + 1 /\ \A i \in Pos : i # p => g[i] = f[i]
OBVIOUS

\* The transaction being read has a place in the tables.
LEMMA NextPosition ==
  ASSUME Typed, Bounded, mode \in {"stream", "applied"}, txn # "none"
  PROVE  cur + 1 \in Pos /\ cur + 1 \in 1..Len(wal)
BY ReplicaAssumption DEF Typed, Bounded, Pos

LEMMA TypeStep ==
  ASSUME Typed, Bounded, Next
  PROVE  Typed'
<1> USE ReplicaAssumption DEF Absent, Pos, Modes, Running, FirstRun
<1>1. CASE UpstreamCommit
  BY <1>1, HistoryGrows DEF Typed, UpstreamCommit, local, memory
<1>2. CASE Start
  <2>1. CASE meta = Absent
    BY <1>2, <2>1 DEF Typed, Start, upstream, local, memory
  <2>2. CASE meta # Absent
    <3>1. mode' = "connect" /\ Boot(meta) /\ UNCHANGED <<upstream, local, dropping>>
      BY <1>2, <2>2 DEF Start
    <3>2. meta \in Nat /\ <<>> \in Seq(Nat)
      BY <2>2 DEF Typed
    <3> QED
      BY <3>1, <3>2 DEF Typed, Boot, upstream, local
  <2> QED
    BY <2>1, <2>2
<1>3. CASE DropOldSlot
  BY <1>3 DEF Typed, DropOldSlot, local, memory
<1>4. CASE CreateSlot
  BY <1>4 DEF Typed, CreateSlot, local
<1>5. CASE Bootstrap
  BY <1>5 DEF Typed, Bootstrap, upstream, memory
<1>6. CASE CopyTables
  <2>1. PICK done \in SUBSET Data(0, start) :
          /\ rows' = [i \in Pos |-> rows[i] + IF i \in done THEN 1 ELSE 0]
          /\ mode' = IF done = Data(0, start) THEN "init" ELSE "off"
    BY <1>6 DEF CopyTables
  <2>2. rows' \in [Pos -> Nat] /\ mode' \in Modes
    BY <2>1 DEF Typed
  <2> QED
    BY <1>6, <2>2 DEF Typed, CopyTables, upstream, memory
<1>7. CASE InitState
  <2>1. CASE mode' = "connect" /\ Boot(start)
    <3>1. <<>> \in Seq(Nat)
      OBVIOUS
    <3> QED
      BY <1>7, <2>1, <3>1 DEF Typed, InitState, Boot, upstream
  <2>2. CASE mode' = "off" /\ UNCHANGED memory
    BY <1>7, <2>2 DEF Typed, InitState, upstream, memory
  <2> QED
    BY <1>7, <2>1, <2>2 DEF InitState
<1>8. CASE Connect
  BY <1>8 DEF Typed, Connect, Status, Feedback, MaxOf, local
<1>9. CASE ReadBegin \/ ReadChange
  BY <1>9 DEF Typed, ReadBegin, ReadChange, upstream, local
<1>10. CASE ReadEmptyCommit
  <2>1. cur' = cur + 1 /\ cur' \in Nat /\ ack' \in Nat
    BY <1>10 DEF Typed, ReadEmptyCommit, MaxOf
  <2> QED
    BY <1>10, <2>1 DEF Typed, ReadEmptyCommit, upstream, local
<1>20. CASE ServerSkips
  BY <1>20 DEF Typed, ServerSkips, upstream, local
<1>11. CASE Apply
  <2>1. rows' \in [Pos -> Nat]
    <3>1. cur + 1 \in Pos /\ rows \in [Pos -> Nat] /\ rows' = [rows EXCEPT ![cur + 1] = @ + 1]
      BY <1>11, NextPosition DEF Typed, Apply
    <3> HIDE DEF Pos
    <3> QED
      BY <3>1, OneMore
  <2>2. meta' \in {Absent} \cup Nat
    BY <1>11 DEF Typed, Apply
  <2> QED
    BY <1>11, <2>1, <2>2 DEF Typed, Apply, upstream, memory
<1>12. CASE Applied
  <2>1. events' \in Seq(Nat) /\ since' = since
    BY <1>12 DEF Typed, Applied, Broadcast
  <2> QED
    BY <1>12, <2>1 DEF Typed, Applied, MaxOf, upstream, local
<1>21. CASE Subscribe
  BY <1>21 DEF Typed, Subscribe, upstream, local
<1>13. CASE Keepalive
  BY <1>13 DEF Typed, Keepalive, Status, WalEnd, MaxOf, local
<1>14. CASE SendStatus
  BY <1>14 DEF Typed, SendStatus, Status, Feedback, MaxOf, local, memory
<1>15. CASE Lose
  BY <1>15 DEF Typed, Lose, Reconnect, upstream, local
<1>16. CASE ApplyLost
  <2>1. lost' \in [Pos -> Nat]
    <3>1. cur + 1 \in Pos /\ lost \in [Pos -> Nat] /\ lost' = [lost EXCEPT ![cur + 1] = @ + 1]
      BY <1>16, NextPosition DEF Typed, Bounded, ApplyLost
    <3> HIDE DEF Pos
    <3> QED
      BY <3>1, OneMore
  <2> QED
    BY <1>16, <2>1 DEF Typed, ApplyLost, Reconnect, upstream
<1>17. CASE Halt \/ Crash
  BY <1>17 DEF Typed, Halt, Crash, upstream, local, memory
<1>18. CASE DropSlot
  BY <1>18 DEF Typed, DropSlot, local, memory
<1>19. CASE DeleteRow
  BY <1>19 DEF Typed, DeleteRow, upstream, memory
<1> QED
  BY <1>1, <1>2, <1>3, <1>4, <1>5, <1>6, <1>7, <1>8, <1>9, <1>10, <1>11, <1>12, <1>13, <1>14,
     <1>15, <1>16, <1>17, <1>18, <1>19, <1>20, <1>21 DEF Next, Prepare, Read, Talk, Fail

-----------------------------------------------------------------------------
(* Positions *)

LEMMA BoundedStep ==
  ASSUME Typed, Bounded, Next
  PROVE  Bounded'
<1> USE ReplicaAssumption DEF Absent, Running, FirstRun
<1>1. CASE UpstreamCommit
  <2>1. Len(wal') = Len(wal) + 1 /\ \A i \in 1..Len(wal) : wal'[i] = wal[i]
    BY <1>1, HistoryGrows
  <2>2. UNCHANGED <<slot, meta, lost, mode, start, watermark, ack, cur, txn, since>> /\ Len(wal) \in Nat
    BY <1>1 DEF UpstreamCommit, local, memory, Typed
  <2>3. mode \in {"stream", "applied"} /\ txn = "changed" => wal'[cur + 1] = "data"
    <3> SUFFICES ASSUME mode \in {"stream", "applied"}, txn = "changed"
                 PROVE  wal'[cur + 1] = "data"
      OBVIOUS
    <3>1. cur \in Nat /\ cur < Len(wal) /\ wal[cur + 1] = "data"
      BY DEF Bounded, Typed
    <3>2. cur + 1 \in 1..Len(wal)
      BY <3>1, <2>2
    <3> QED
      BY <3>1, <3>2, <2>1
  <2> QED
    BY <2>1, <2>2, <2>3 DEF Bounded, Typed
<1>2. CASE Start
  BY <1>2 DEF Typed, Bounded, Start, Boot, upstream, local, memory
<1>3. CASE DropOldSlot
  BY <1>3 DEF Typed, Bounded, DropOldSlot, local, memory
<1>4. CASE CreateSlot
  BY <1>4 DEF Typed, Bounded, CreateSlot, local
<1>5. CASE Bootstrap
  BY <1>5 DEF Typed, Bounded, Bootstrap, upstream, memory
<1>6. CASE CopyTables
  BY <1>6 DEF Typed, Bounded, CopyTables, upstream, memory
<1>7. CASE InitState
  BY <1>7 DEF Typed, Bounded, InitState, Boot, upstream, memory
<1>8. CASE Connect
  BY <1>8 DEF Typed, Bounded, Connect, Status, Feedback, MaxOf, local
<1>9. CASE ReadBegin \/ ReadChange
  BY <1>9 DEF Typed, Bounded, ReadBegin, ReadChange, upstream, local
<1>10. CASE ReadEmptyCommit
  BY <1>10 DEF Typed, Bounded, ReadEmptyCommit, MaxOf, upstream, local
<1>20. CASE ServerSkips
  BY <1>20 DEF Typed, Bounded, ServerSkips, upstream, local
<1>11. CASE Apply
  BY <1>11 DEF Typed, Bounded, Apply, upstream, memory
<1>12. CASE Applied
  BY <1>12 DEF Typed, Bounded, Applied, Broadcast, MaxOf, upstream, local
<1>21. CASE Subscribe
  BY <1>21 DEF Typed, Bounded, Subscribe, upstream, local
<1>13. CASE Keepalive
  BY <1>13 DEF Typed, Bounded, Keepalive, Status, WalEnd, MaxOf, local
<1>14. CASE SendStatus
  BY <1>14 DEF Typed, Bounded, SendStatus, Status, Feedback, MaxOf, local, memory
<1>15. CASE Lose
  BY <1>15 DEF Typed, Bounded, Lose, Reconnect, upstream, local
<1>16. CASE ApplyLost
  BY <1>16 DEF Typed, Bounded, ApplyLost, Reconnect, upstream
<1>17. CASE Halt \/ Crash
  BY <1>17 DEF Typed, Bounded, Halt, Crash, upstream, local, memory
<1>18. CASE DropSlot
  BY <1>18 DEF Typed, Bounded, DropSlot, local, memory
<1>19. CASE DeleteRow
  BY <1>19 DEF Typed, Bounded, DeleteRow, upstream, memory
<1> QED
  BY <1>1, <1>2, <1>3, <1>4, <1>5, <1>6, <1>7, <1>8, <1>9, <1>10, <1>11, <1>12, <1>13, <1>14,
     <1>15, <1>16, <1>17, <1>18, <1>19, <1>20, <1>21 DEF Next, Prepare, Read, Talk, Fail

-----------------------------------------------------------------------------
(* Gaps *)

LEMMA QuietStep ==
  ASSUME Typed, Bounded, FirstCopy, Stored, NothingBetween, Next
  PROVE  NothingBetween'
<1> USE ReplicaAssumption DEF Absent, Running, FirstRun
<1>1. CASE UpstreamCommit
  <2>1. UNCHANGED <<slot, meta, mode, watermark, ack, cur>>
    BY <1>1 DEF UpstreamCommit, local, memory
  <2>2. \A a, b \in Nat : b <= Len(wal) /\ Quiet(a, b) => Quiet(a, b)'
    BY <1>1, StableSets
  <2>3. mode \in Running => Quiet(watermark, ack)'
    BY <2>1, <2>2 DEF NothingBetween, Bounded, Typed
  <2>4. mode \in Running /\ slot # Absent => Quiet(watermark, slot)'
    BY <2>1, <2>2 DEF NothingBetween, Bounded, Typed
  <2>5. mode \in {"stream", "applied"} => Quiet(watermark, cur)'
    BY <2>1, <2>2 DEF NothingBetween, Bounded, Typed
  <2>6. slot # Absent /\ meta # Absent => Quiet(meta, slot)'
    BY <2>1, <2>2 DEF NothingBetween, Bounded, Typed
  <2> QED
    BY <2>1, <2>3, <2>4, <2>5, <2>6 DEF NothingBetween
<1>2. CASE Start
  BY <1>2 DEF Typed, NothingBetween, Quiet, Start, Boot, upstream, local, memory
<1>3. CASE DropOldSlot
  BY <1>3 DEF Typed, NothingBetween, Quiet, DropOldSlot, local, memory
<1>4. CASE CreateSlot
  BY <1>4 DEF Typed, NothingBetween, Quiet, FirstCopy, CreateSlot, local
<1>5. CASE Bootstrap
  BY <1>5 DEF Typed, NothingBetween, Quiet, Bootstrap, upstream, memory
<1>6. CASE CopyTables
  BY <1>6 DEF Typed, NothingBetween, Quiet, CopyTables, upstream, memory
<1>7. CASE InitState
  BY <1>7 DEF Typed, Bounded, NothingBetween, Quiet, InitState, Boot, upstream, memory
<1>8. CASE Connect
  BY <1>8 DEF Typed, NothingBetween, Stored, Quiet, Connect, Status, Feedback, MaxOf, local
<1>9. CASE ReadBegin \/ ReadChange
  BY <1>9 DEF Typed, NothingBetween, Quiet, ReadBegin, ReadChange, upstream, local
<1>10. CASE ReadEmptyCommit
  BY <1>10 DEF Typed, Bounded, NothingBetween, Quiet, ReadEmptyCommit, MaxOf, upstream, local
<1>20. CASE ServerSkips
  BY <1>20 DEF Typed, Bounded, NothingBetween, Quiet, ServerSkips, upstream, local
<1>11. CASE Apply
  BY <1>11 DEF Typed, Bounded, NothingBetween, Stored, Quiet, Apply, upstream, memory
<1>12. CASE Applied
  BY <1>12 DEF Typed, Bounded, NothingBetween, Quiet, Applied, MaxOf, upstream, local
<1>21. CASE Subscribe
  BY <1>21 DEF NothingBetween, Quiet, Subscribe, upstream, local
<1>13. CASE Keepalive
  BY <1>13 DEF Typed, Bounded, NothingBetween, Stored, Quiet, Keepalive, Status, WalEnd, MaxOf, local
<1>14. CASE SendStatus
  BY <1>14 DEF Typed, Bounded, NothingBetween, Stored, Quiet, SendStatus, Status, Feedback, MaxOf, local, memory
<1>15. CASE Lose
  BY <1>15 DEF Typed, NothingBetween, Quiet, Lose, Reconnect, upstream, local
<1>16. CASE ApplyLost
  BY <1>16 DEF Typed, NothingBetween, Quiet, ApplyLost, Reconnect, upstream
<1>17. CASE Halt \/ Crash
  BY <1>17 DEF Typed, NothingBetween, Quiet, Halt, Crash, upstream, local, memory
<1>18. CASE DropSlot
  BY <1>18 DEF Typed, NothingBetween, Quiet, DropSlot, local, memory
<1>19. CASE DeleteRow
  BY <1>19 DEF Typed, NothingBetween, Quiet, DeleteRow, upstream, memory
<1> QED
  BY <1>1, <1>2, <1>3, <1>4, <1>5, <1>6, <1>7, <1>8, <1>9, <1>10, <1>11, <1>12, <1>13, <1>14,
     <1>15, <1>16, <1>17, <1>18, <1>19, <1>20, <1>21 DEF Next, Prepare, Read, Talk, Fail

-----------------------------------------------------------------------------
(* The first copy and the stored watermark *)

LEMMA FirstCopyStep ==
  ASSUME Typed, Bounded, FirstCopy, Next
  PROVE  FirstCopy'
<1> USE ReplicaAssumption DEF Absent, Running, FirstRun
<1>1. CASE UpstreamCommit
  <2>1. UNCHANGED <<meta, rows, lost, mode, start>>
    BY <1>1 DEF UpstreamCommit, local, memory
  <2>2. mode = "init" => Data(0, start)' = Data(0, start)
    BY <1>1, <2>1, StableSets DEF Bounded, Typed
  <2> QED
    BY <2>1, <2>2 DEF FirstCopy
<1>2. CASE Start
  BY <1>2 DEF FirstCopy, Start, Boot, upstream, local, memory
<1>3. CASE DropOldSlot
  BY <1>3 DEF FirstCopy, DropOldSlot, local, memory
<1>4. CASE CreateSlot
  BY <1>4 DEF FirstCopy, CreateSlot, local
<1>5. CASE Bootstrap
  BY <1>5 DEF FirstCopy, Bootstrap, upstream, memory
<1>6. CASE CopyTables
  <2>1. PICK done \in SUBSET Data(0, start) :
          /\ rows' = [i \in Pos |-> rows[i] + IF i \in done THEN 1 ELSE 0]
          /\ mode' = IF done = Data(0, start) THEN "init" ELSE "off"
    BY <1>6 DEF CopyTables
  <2>2. UNCHANGED <<wal, meta, lost, start>> /\ meta = Absent /\ Data(0, start)' = Data(0, start)
    BY <1>6 DEF CopyTables, FirstCopy, upstream, memory, Data
  <2>3. \A i \in Pos : rows[i] = 0 /\ lost[i] = 0
    BY <1>6 DEF CopyTables, FirstCopy
  <2>4. mode' = "init" => \A i \in Pos : rows'[i] = IF i \in Data(0, start) THEN 1 ELSE 0
    BY <2>1, <2>3
  <2>5. mode' # "copy"
    BY <2>1
  <2> QED
    BY <2>2, <2>3, <2>4, <2>5 DEF FirstCopy
<1>7. CASE InitState
  BY <1>7 DEF FirstCopy, InitState
<1>8. CASE Connect
  BY <1>8 DEF FirstCopy, Connect
<1>9. CASE ReadBegin \/ ReadChange
  BY <1>9 DEF FirstCopy, ReadBegin, ReadChange
<1>10. CASE ReadEmptyCommit
  BY <1>10 DEF FirstCopy, ReadEmptyCommit
<1>20. CASE ServerSkips
  BY <1>20 DEF FirstCopy, ServerSkips
<1>11. CASE Apply
  BY <1>11 DEF FirstCopy, Apply
<1>12. CASE Applied
  BY <1>12 DEF FirstCopy, Applied
<1>21. CASE Subscribe
  BY <1>21 DEF FirstCopy, Subscribe
<1>13. CASE Keepalive
  BY <1>13 DEF FirstCopy, Keepalive
<1>14. CASE SendStatus
  BY <1>14 DEF FirstCopy, SendStatus
<1>15. CASE Lose
  BY <1>15 DEF FirstCopy, Lose, Reconnect
<1>16. CASE ApplyLost
  BY <1>16 DEF FirstCopy, ApplyLost, Reconnect
<1>17. CASE Halt \/ Crash
  BY <1>17 DEF FirstCopy, Halt, Crash
<1>18. CASE DropSlot
  BY <1>18 DEF FirstCopy, DropSlot, local, memory, Data
<1>19. CASE DeleteRow
  BY <1>19 DEF FirstCopy, DeleteRow, upstream, memory, Data
<1> QED
  BY <1>1, <1>2, <1>3, <1>4, <1>5, <1>6, <1>7, <1>8, <1>9, <1>10, <1>11, <1>12, <1>13, <1>14,
     <1>15, <1>16, <1>17, <1>18, <1>19, <1>20, <1>21 DEF Next, Prepare, Read, Talk, Fail

LEMMA StoredStep ==
  ASSUME Typed, Bounded, FirstCopy, NothingBetween, Stored, Exact, Next
  PROVE  Stored'
<1> USE ReplicaAssumption DEF Absent, Running, FirstRun
<1>1. CASE UpstreamCommit
  <2>1. UNCHANGED <<meta, rows, lost, mode, watermark, cur>>
    BY <1>1 DEF UpstreamCommit, local, memory
  <2>2. meta # Absent /\ Quiet(watermark, meta - 1) => Quiet(watermark, meta - 1)'
    <3>3. \A a, b \in Nat : b <= Len(wal) /\ Quiet(a, b) => Quiet(a, b)'
      BY <1>1, StableSets
    <3>1. CASE meta \in Nat \ {0}
      <4>1. meta - 1 \in Nat /\ meta - 1 <= Len(wal) /\ watermark \in Nat
        BY <3>1 DEF Bounded, Typed
      <4> QED
        BY <2>1, <3>3, <4>1
    <3>2. CASE meta = 0
      BY <3>2, <2>1 DEF Quiet, Typed
    <3> QED
      BY <3>1, <3>2 DEF Typed
  <2>3. meta # Absent /\ wal[meta] = "data" /\ watermark < meta => wal'[meta] = "data"
    BY <1>1, HistoryGrows DEF Bounded, Typed
  <2> QED
    BY <2>1, <2>2, <2>3 DEF Stored
<1>2. CASE Start
  BY <1>2 DEF Stored, Start, Boot, upstream, local, memory
<1>3. CASE DropOldSlot
  BY <1>3 DEF Stored, DropOldSlot, Quiet, local, memory
<1>4. CASE CreateSlot
  BY <1>4 DEF Stored, CreateSlot
<1>5. CASE Bootstrap
  BY <1>5 DEF Stored, Bootstrap
<1>6. CASE CopyTables
  BY <1>6 DEF Stored, CopyTables
<1>7. CASE InitState
  BY <1>7 DEF Stored, InitState, Boot, upstream
<1>8. CASE Connect
  BY <1>8 DEF Stored, Connect, Quiet, local
<1>9. CASE ReadBegin \/ ReadChange
  BY <1>9 DEF Stored, ReadBegin, ReadChange, Quiet, upstream, local
<1>10. CASE ReadEmptyCommit
  BY <1>10 DEF Stored, ReadEmptyCommit, Quiet, upstream, local
<1>20. CASE ServerSkips
  BY <1>20 DEF Stored, ServerSkips, Quiet, upstream, local
<1>11. CASE Apply
  BY <1>11 DEF Stored, Apply, memory, Typed
<1>12. CASE Applied
  BY <1>12 DEF Stored, Applied, local, Typed
<1>21. CASE Subscribe
  BY <1>21 DEF Stored, Quiet, Subscribe, upstream, local
<1>13. CASE Keepalive
  BY <1>13 DEF Stored, Keepalive, Quiet, local
<1>14. CASE SendStatus
  BY <1>14 DEF Stored, SendStatus, Quiet, local, memory
<1>15. CASE Lose
  BY <1>15 DEF Stored, Lose, Reconnect, Quiet, upstream, local
<1>16. CASE ApplyLost
  <2>1. SUFFICES ASSUME meta # Absent
                 PROVE  /\ watermark' < meta' /\ wal'[meta'] = "data"
                        /\ Quiet(watermark, meta - 1)'
                        /\ rows'[meta'] <= lost'[meta']
    BY <1>16 DEF Stored, ApplyLost, Reconnect
  <2>2. /\ UNCHANGED <<wal, meta, rows, watermark>> /\ meta = cur + 1 /\ mode = "applied"
        /\ lost' = [lost EXCEPT ![cur + 1] = @ + 1]
    BY <1>16, <2>1 DEF ApplyLost, Reconnect, Stored, upstream
  <2>3. watermark < meta /\ wal[meta] = "data" /\ meta \in Pos /\ meta \in 1..Len(wal)
    BY <2>2, NextPosition DEF Bounded, Typed
  <2>4. Quiet(watermark, meta - 1)
    BY <2>2, <2>3 DEF NothingBetween, Typed
  <2>5. rows[meta] <= 1 + lost[meta]
    <3>1. meta \in Data(0, meta)
      BY <2>3, DataMember
    <3> QED
      BY <2>1, <2>3, <3>1 DEF Exact, Typed
  <2>6. lost'[meta] = lost[meta] + 1
    BY <2>2, <2>3 DEF Typed
  <2> QED
    BY <2>2, <2>3, <2>4, <2>5, <2>6 DEF Quiet, Typed
<1>17. CASE Halt \/ Crash
  BY <1>17 DEF Stored, Halt, Crash
<1>18. CASE DropSlot
  BY <1>18 DEF Stored, DropSlot, Quiet, local, memory
<1>19. CASE DeleteRow
  BY <1>19 DEF Stored, DeleteRow
<1> QED
  BY <1>1, <1>2, <1>3, <1>4, <1>5, <1>6, <1>7, <1>8, <1>9, <1>10, <1>11, <1>12, <1>13, <1>14,
     <1>15, <1>16, <1>17, <1>18, <1>19, <1>20, <1>21 DEF Next, Prepare, Read, Talk, Fail

-----------------------------------------------------------------------------
(* What the tables hold *)

\* The transaction about to be applied is the next one after the stored watermark, or that
\* very one once more.
LEMMA NextOrAgain ==
  ASSUME Typed, Bounded, NothingBetween, Stored, Apply, meta # Absent
  PROVE  /\ cur + 1 \in Pos /\ cur + 1 \in 1..Len(wal) /\ wal[cur + 1] = "data"
         /\ \/ watermark = meta /\ cur + 1 > meta /\ Quiet(meta, cur)
            \/ cur + 1 = meta /\ rows[meta] <= lost[meta]
<1> USE DEF Absent
<1>1. mode = "stream" /\ txn = "changed" /\ cur + 1 > watermark
  BY DEF Apply
<1>2. cur + 1 \in Pos /\ cur + 1 \in 1..Len(wal) /\ wal[cur + 1] = "data"
  BY <1>1, NextPosition DEF Bounded
<1>3. Quiet(watermark, cur)
  BY <1>1 DEF NothingBetween
<1>4. CASE watermark = meta
  BY <1>1, <1>2, <1>3, <1>4
<1>5. CASE /\ watermark < meta /\ wal[meta] = "data" /\ Quiet(watermark, meta - 1)
           /\ rows[meta] <= lost[meta]
  <2>1. meta \in Nat /\ cur \in Nat /\ watermark \in Nat
    BY DEF Typed
  <2>2. ~(cur + 1 < meta)
    BY <1>1, <1>2, <1>5, <2>1 DEF Quiet
  <2>3. ~(meta <= cur)
    BY <1>3, <1>5, <2>1 DEF Quiet
  <2>4. cur + 1 = meta
    BY <2>1, <2>2, <2>3
  <2> QED
    BY <1>2, <1>5, <2>4
<1> QED
  BY <1>1, <1>4, <1>5 DEF Stored

LEMMA ExactStep ==
  ASSUME Typed, Bounded, FirstCopy, NothingBetween, Stored, Exact, Next
  PROVE  Exact'
<1> USE ReplicaAssumption DEF Absent, Running, FirstRun
<1>1. CASE UpstreamCommit
  <2>1. UNCHANGED <<meta, rows, lost>>
    BY <1>1 DEF UpstreamCommit, local
  <2>2. meta # Absent => Data(0, meta)' = Data(0, meta)
    BY <1>1, <2>1, StableSets DEF Bounded, Typed
  <2> QED
    BY <2>1, <2>2 DEF Exact
<1>2. CASE Start
  BY <1>2 DEF Exact, Data, Start, upstream, local
<1>3. CASE DropOldSlot
  BY <1>3 DEF Exact, Data, DropOldSlot, local
<1>4. CASE CreateSlot
  BY <1>4 DEF Exact, Data, CreateSlot, local
<1>5. CASE Bootstrap
  BY <1>5 DEF Exact, FirstCopy, Bootstrap
<1>6. CASE CopyTables
  BY <1>6 DEF Exact, FirstCopy, CopyTables
<1>7. CASE InitState
  <2>1. UNCHANGED <<wal, rows, lost>> /\ meta' = start
    BY <1>7 DEF InitState, upstream
  <2>2. Data(0, meta)' = Data(0, start)
    BY <2>1 DEF Data
  <2>3. \A i \in Pos : lost[i] = 0 /\ rows[i] = IF i \in Data(0, start) THEN 1 ELSE 0
    BY <1>7 DEF InitState, FirstCopy
  <2> QED
    BY <2>1, <2>2, <2>3 DEF Exact
<1>8. CASE Connect
  BY <1>8 DEF Exact, Data, Connect, local
<1>9. CASE ReadBegin \/ ReadChange
  BY <1>9 DEF Exact, Data, ReadBegin, ReadChange, upstream, local
<1>10. CASE ReadEmptyCommit
  BY <1>10 DEF Exact, Data, ReadEmptyCommit, upstream, local
<1>20. CASE ServerSkips
  BY <1>20 DEF Exact, Data, ServerSkips, upstream, local
<1>11. CASE Apply
  <2> SUFFICES ASSUME meta # Absent, NEW i \in Pos
               PROVE  IF i \in Data(0, meta)' THEN rows'[i] \in 1..(1 + lost'[i]) ELSE rows'[i] = 0
    BY <1>11 DEF Exact, Apply
  <2> DEFINE p == cur + 1
  <2>1. /\ UNCHANGED <<wal, lost>> /\ meta' = p
        /\ rows' = [rows EXCEPT ![p] = @ + 1]
    BY <1>11 DEF Apply, upstream
  <2>2. p \in Pos /\ p \in 1..Len(wal) /\ wal[p] = "data" /\ meta \in Nat /\ rows[i] \in Nat /\ lost[i] \in Nat
    BY <1>11, NextOrAgain DEF Typed
  <2>3. rows'[p] = rows[p] + 1 /\ (i # p => rows'[i] = rows[i])
    BY <2>1, <2>2 DEF Typed
  <2>4. i \in Data(0, meta)' <=> i \in 1..p /\ wal[i] = "data"
    BY <2>1 DEF Data
  <2>5. CASE watermark = meta /\ p > meta /\ Quiet(meta, cur)
    <3>1. i # p => (i \in Data(0, meta)' <=> i \in Data(0, meta))
      BY <2>2, <2>4, <2>5, DataMember DEF Quiet, Typed
    <3>2. p \notin Data(0, meta)
      BY <2>2, <2>5, DataMember
    <3>3. rows[p] = 0
      BY <2>2, <3>2 DEF Exact
    <3>4. CASE i = p
      BY <2>1, <2>2, <2>3, <2>4, <3>3, <3>4
    <3>5. CASE i # p
      BY <2>1, <2>3, <3>1, <3>5 DEF Exact
    <3> QED
      BY <3>4, <3>5
  <2>6. CASE p = meta /\ rows[meta] <= lost[meta]
    <3>1. i \in Data(0, meta)' <=> i \in Data(0, meta)
      BY <2>4, <2>6, DataMember
    <3>2. CASE i = p
      BY <2>1, <2>2, <2>3, <2>4, <2>6, <3>2
    <3>3. CASE i # p
      BY <2>1, <2>3, <3>1, <3>3 DEF Exact
    <3> QED
      BY <3>2, <3>3
  <2> QED
    BY <1>11, <2>5, <2>6, NextOrAgain
<1>12. CASE Applied
  BY <1>12 DEF Exact, Data, Applied, upstream, local
<1>21. CASE Subscribe
  BY <1>21 DEF Exact, Data, Subscribe, upstream, local
<1>13. CASE Keepalive
  BY <1>13 DEF Exact, Data, Keepalive, local
<1>14. CASE SendStatus
  BY <1>14 DEF Exact, Data, SendStatus, local
<1>15. CASE Lose
  BY <1>15 DEF Exact, Data, Lose, upstream, local
<1>16. CASE ApplyLost
  <2>1. /\ UNCHANGED <<wal, meta, rows>> /\ lost \in [Pos -> Nat]
        /\ lost' = [lost EXCEPT ![cur + 1] = @ + 1]
    BY <1>16 DEF ApplyLost, upstream, Typed
  <2>2. Data(0, meta)' = Data(0, meta)
    BY <2>1 DEF Data
  <2>3. \A i \in Pos : lost'[i] \in Nat /\ lost[i] \in Nat /\ lost[i] <= lost'[i]
    BY <2>1
  <2> QED
    BY <2>1, <2>2, <2>3 DEF Exact, Typed
<1>17. CASE Halt \/ Crash
  BY <1>17 DEF Exact, Data, Halt, Crash, upstream, local
<1>18. CASE DropSlot
  BY <1>18 DEF Exact, Data, DropSlot, local
<1>19. CASE DeleteRow
  BY <1>19 DEF Exact, DeleteRow
<1> QED
  BY <1>1, <1>2, <1>3, <1>4, <1>5, <1>6, <1>7, <1>8, <1>9, <1>10, <1>11, <1>12, <1>13, <1>14,
     <1>15, <1>16, <1>17, <1>18, <1>19, <1>20, <1>21 DEF Next, Prepare, Read, Talk, Fail

-----------------------------------------------------------------------------
(* What subscribers see *)

\* The parts of EventsFollow, for lists and positions that do not change.
LEMMA EventsSame ==
  ASSUME EventsFollow, mode \in Running,
         UNCHANGED <<wal, events, since, watermark>>,
         (meta # Absent => watermark <= meta) => (meta' # Absent => watermark <= meta')
  PROVE  EventsFollow'
BY DEF EventsFollow, Data

LEMMA EventsStep ==
  ASSUME Typed, Bounded, NothingBetween, Stored, EventsFollow, Next
  PROVE  EventsFollow'
<1> USE ReplicaAssumption DEF Absent
<1>0. ASSUME NEW p, Boot(p), p \in Nat, UNCHANGED wal, meta' = p
      PROVE  EventsFollow'
  <2>1. events' = <<>> /\ since' = Absent /\ watermark' = p
    BY <1>0 DEF Boot
  <2> QED
    BY <1>0, <2>1 DEF EventsFollow
<1>1. CASE UpstreamCommit
  <2>1. UNCHANGED <<meta, mode, events, since, watermark>>
    BY <1>1 DEF UpstreamCommit, local, memory
  <2>2. \A a, b \in Nat : b <= Len(wal) => Data(a, b)' = Data(a, b)
    BY <1>1, StableSets
  <2>3. mode \in Running /\ since # Absent => Data(since, watermark)' = Data(since, watermark)
    BY <2>1, <2>2 DEF Bounded, Typed
  <2> QED
    BY <2>1, <2>3 DEF EventsFollow
<1>2. CASE Start
  <2>1. CASE meta = Absent
    BY <1>2, <2>1 DEF Start, EventsFollow, Running
  <2>2. CASE meta # Absent
    BY <1>2, <2>2, <1>0 DEF Start, Typed, upstream, local
  <2> QED
    BY <2>1, <2>2
<1>3. CASE DropOldSlot
  BY <1>3 DEF EventsFollow, DropOldSlot, Running
<1>4. CASE CreateSlot
  BY <1>4 DEF EventsFollow, CreateSlot, Running
<1>5. CASE Bootstrap
  BY <1>5 DEF EventsFollow, Bootstrap, Running
<1>6. CASE CopyTables
  BY <1>6 DEF EventsFollow, CopyTables, Running
<1>7. CASE InitState
  <2>1. CASE mode' = "connect" /\ Boot(start)
    BY <1>7, <2>1, <1>0 DEF InitState, Typed, upstream
  <2>2. CASE mode' = "off"
    BY <2>2 DEF EventsFollow, Running
  <2> QED
    BY <1>7, <2>1, <2>2 DEF InitState
<1>8. CASE Connect
  BY <1>8, EventsSame DEF Connect, Running, local
<1>9. CASE ReadBegin \/ ReadChange
  BY <1>9, EventsSame DEF ReadBegin, ReadChange, Running, upstream, local
<1>10. CASE ReadEmptyCommit
  BY <1>10, EventsSame DEF ReadEmptyCommit, Running, upstream, local
<1>20. CASE ServerSkips
  BY <1>20, EventsSame DEF ServerSkips, Running, upstream, local
<1>11. CASE Apply
  <2>1. mode \in Running /\ UNCHANGED <<wal, events, since, watermark>>
    BY <1>11 DEF Apply, Running, upstream, memory
  <2>2. meta' # Absent => watermark <= meta'
    BY <1>11 DEF Apply, Typed
  <2> QED
    BY <2>1, <2>2, EventsSame
<1>12. CASE Applied
  <2> DEFINE p == cur + 1
  <2>1. /\ UNCHANGED <<wal, meta, since>> /\ watermark' = p
        /\ events' = IF since = Absent THEN events ELSE Append(events, p)
        /\ mode = "applied" /\ mode \in Running
    BY <1>12 DEF Applied, Broadcast, upstream, local, Running
  <2>9. meta' # Absent => watermark' <= meta'
    BY <2>1 DEF Stored, Typed
  <2>10. CASE since = Absent
    BY <2>1, <2>9, <2>10 DEF EventsFollow
  <2>11. SUFFICES ASSUME since # Absent PROVE EventsFollow'
    BY <2>10
  <2>2. /\ p \in Nat /\ since \in Nat /\ watermark \in Nat /\ watermark < p /\ since <= watermark
        /\ wal[p] = "data" /\ Quiet(watermark, cur) /\ events \in Seq(Nat)
    BY <2>1, <2>11 DEF Bounded, NothingBetween, Typed, Running
  <2>3. Data(since, watermark)' = Data(since, watermark) \cup {p}
    <3>1. Data(since, watermark)' = {i \in (since + 1)..p : wal[i] = "data"}
      BY <2>1 DEF Data
    <3>2. \A i : i \in (since + 1)..p /\ wal[i] = "data" <=>
                (i \in (since + 1)..watermark /\ wal[i] = "data") \/ i = p
      <4> SUFFICES ASSUME NEW i
                   PROVE  i \in (since + 1)..p /\ wal[i] = "data" <=>
                            (i \in (since + 1)..watermark /\ wal[i] = "data") \/ i = p
        OBVIOUS
      <4>1. cur \in Nat
        BY DEF Typed
      <4>2. CASE i \in Int
        BY <2>2, <4>1, <4>2 DEF Quiet
      <4>3. CASE i \notin Int
        BY <2>2, <4>3
      <4> QED
        BY <4>2, <4>3
    <3> QED
      BY <3>1, <3>2 DEF Data
  <2>4. {events[i] : i \in DOMAIN events} = Data(since, watermark)
        /\ \A i, j \in DOMAIN events : i < j => events[i] < events[j]
    BY <2>1, <2>11 DEF EventsFollow
  <2>5. \A i \in DOMAIN events : events[i] < p
    <3> SUFFICES ASSUME NEW i \in DOMAIN events PROVE events[i] < p
      OBVIOUS
    <3>1. events[i] \in Data(since, watermark)
      BY <2>4
    <3> QED
      BY <3>1, <2>2 DEF Data
  <2>6. /\ DOMAIN events' = 1..(Len(events) + 1) /\ DOMAIN events = 1..Len(events) /\ Len(events) \in Nat
        /\ events'[Len(events) + 1] = p /\ \A i \in 1..Len(events) : events'[i] = events[i]
    BY <2>1, <2>2, <2>11
  <2>7. {events'[i] : i \in DOMAIN events'} = {events[i] : i \in DOMAIN events} \cup {p}
    BY <2>6
  <2>8. \A i, j \in DOMAIN events' : i < j => events'[i] < events'[j]
    BY <2>4, <2>5, <2>6
  <2> QED
    BY <2>1, <2>3, <2>4, <2>7, <2>8, <2>9, <2>11 DEF EventsFollow
<1>21. CASE Subscribe
  <2>1. /\ UNCHANGED <<wal, meta, mode, watermark, events>> /\ mode \in Running
        /\ since = Absent /\ since' = watermark /\ watermark \in Nat
    BY <1>21 DEF Subscribe, Typed, upstream, local
  <2>2. Data(since, watermark)' = {}
    BY <2>1 DEF Data
  <2> QED
    BY <2>1, <2>2 DEF EventsFollow
<1>13. CASE Keepalive
  BY <1>13, EventsSame DEF Keepalive, Running, local
<1>14. CASE SendStatus
  BY <1>14, EventsSame DEF SendStatus, Running, local, memory
<1>15. CASE Lose
  BY <1>15, EventsSame DEF Lose, Reconnect, Running, upstream, local
<1>16. CASE ApplyLost
  BY <1>16, EventsSame DEF ApplyLost, Reconnect, Running, upstream
<1>17. CASE Halt \/ Crash
  BY <1>17 DEF EventsFollow, Halt, Crash, Running
<1>18. CASE DropSlot
  BY <1>18 DEF EventsFollow, Data, DropSlot, local, memory
<1>19. CASE DeleteRow
  BY <1>19 DEF EventsFollow, Data, DeleteRow, upstream, memory
<1> QED
  BY <1>1, <1>2, <1>3, <1>4, <1>5, <1>6, <1>7, <1>8, <1>9, <1>10, <1>11, <1>12, <1>13, <1>14,
     <1>15, <1>16, <1>17, <1>18, <1>19, <1>20, <1>21 DEF Next, Prepare, Read, Talk, Fail

-----------------------------------------------------------------------------
LEMMA InitInvariant == Init => IInv
<1> SUFFICES ASSUME Init PROVE IInv
  OBVIOUS
<1> USE ReplicaAssumption DEF Init, Absent, Running, FirstRun
<1>1. Typed
  <2>1. <<>> \in Seq({"data", "other"}) /\ <<>> \in Seq(Nat) /\ Len(<<>>) = 0
    OBVIOUS
  <2>2. [i \in Pos |-> 0] \in [Pos -> Nat]
    OBVIOUS
  <2>3. wal \in Seq({"data", "other"}) /\ Len(wal) <= MaxTx /\ events \in Seq(Nat)
    BY <2>1
  <2>4. rows \in [Pos -> Nat] /\ lost \in [Pos -> Nat]
    BY <2>2
  <2>5. /\ slot \in {Absent} \cup Nat /\ meta \in {Absent} \cup Nat /\ mode \in Modes
        /\ start \in Nat /\ watermark \in Nat /\ ack \in Nat /\ cur \in Nat
        /\ since \in {Absent} \cup Nat /\ txn \in {"none", "begun", "changed"} /\ dropping \in BOOLEAN
    BY DEF Modes
  <2> HIDE DEF Init
  <2> QED
    BY <2>3, <2>4, <2>5 DEF Typed
<1>2. Bounded /\ FirstCopy /\ NothingBetween /\ Stored /\ Exact /\ EventsFollow
  BY DEF Bounded, FirstCopy, NothingBetween, Stored, Exact, EventsFollow
<1> QED
  BY <1>1, <1>2 DEF IInv

LEMMA StepInvariant == IInv /\ [Next]_vars => IInv'
<1> SUFFICES ASSUME IInv, [Next]_vars PROVE IInv'
  OBVIOUS
<1>1. CASE Next
  BY <1>1, TypeStep, BoundedStep, FirstCopyStep, QuietStep, StoredStep, ExactStep, EventsStep DEF IInv
<1>2. CASE UNCHANGED vars
  <2>1. Typed' /\ Bounded'
    BY <1>2 DEF IInv, Typed, Bounded, vars, upstream, local, memory
  <2>2. FirstCopy' /\ NothingBetween' /\ Stored'
    BY <1>2 DEF IInv, FirstCopy, NothingBetween, Stored, Data, Quiet, vars, upstream, local, memory
  <2>3. Exact' /\ EventsFollow'
    BY <1>2 DEF IInv, Exact, EventsFollow, Data, vars, upstream, local, memory
  <2> QED
    BY <2>1, <2>2, <2>3 DEF IInv
<1> QED
  BY <1>1, <1>2

\* The invariant of the replica: where every position lies, what the first run has copied,
\* how the two watermarks differ, and what tables and subscribers hold.
THEOREM Invariance == Spec => []IInv
BY InitInvariant, StepInvariant, PTL DEF Spec

\* Every variable of the replica keeps its type, and every position lies in the upstream
\* history: the code compares and stores the u64 it was sent and never checks that.
THEOREM TypeCorrect == Spec => []TypeOK
<1>1. IInv => TypeOK
  <2> SUFFICES ASSUME Typed, Bounded PROVE TypeOK
    BY DEF IInv
  <2>1. Len(wal) \in Nat
    BY DEF Typed
  <2> QED
    BY <2>1 DEF Typed, Bounded, TypeOK, Absent
<1> QED
  BY <1>1, Invariance, PTL

\* The tables agree with the stored watermark, through crashes, reconnects, partial copies,
\* lost answers and decommission.
THEOREM TablesExact == Spec => []Exact
<1>1. IInv => Exact
  BY DEF IInv
<1> QED
  BY <1>1, Invariance, PTL

\* The slot is never confirmed past a change that is not durable locally.
THEOREM NothingLost == Spec => []NoLoss
<1>1. IInv => NoLoss
  BY QuietIsEmpty DEF IInv, NothingBetween, NoLoss
<1> QED
  BY <1>1, Invariance, PTL

\* From the moment it joins, a subscriber receives exactly the transactions applied, in
\* order, each once; what was applied before it joined went to nobody.
THEOREM SubscribersFollow == Spec => []EventsFollow
<1>1. IInv => EventsFollow
  BY DEF IInv
<1> QED
  BY <1>1, Invariance, PTL

-----------------------------------------------------------------------------
(* The replica implements the mirror. *)

LEMMA SameData ==
  ASSUME NEW a, NEW b
  PROVE  Mirror!Data(a, b) = Data(a, b)
BY DEF Mirror!Data, Data

LEMMA MirrorStep ==
  ASSUME IInv, Next
  PROVE  [Mirror!Next]_(Mirror!vars)
<1> USE ReplicaAssumption DEF Absent, Mirror!Absent
<1>0. Typed /\ Bounded /\ FirstCopy /\ NothingBetween /\ Stored /\ Exact
  BY DEF IInv
<1>1. CASE UpstreamCommit
  BY <1>1 DEF UpstreamCommit, local, Mirror!Next, Mirror!Commit
<1>2. CASE Bootstrap \/ CopyTables
  <2>1. meta = Absent /\ meta' = Absent /\ UNCHANGED wal
    BY <1>0, <1>2 DEF Bootstrap, CopyTables, FirstCopy, FirstRun, upstream
  <2> QED
    BY <2>1 DEF Mirror!Next, Mirror!Prepare
<1>3. CASE InitState
  <2>1. meta = Absent /\ meta' = start /\ UNCHANGED <<wal, rows>> /\ mode = "init"
    BY <1>0, <1>3 DEF InitState, FirstCopy, FirstRun, upstream
  <2>2. start \in 0..Len(wal)
    BY <1>0, <2>1 DEF Bounded, Typed
  <2>3. rows = [i \in Pos |-> IF i \in Data(0, start) THEN 1 ELSE 0]
    BY <1>0, <2>1 DEF FirstCopy, Typed
  <2>4. rows = Mirror!Snapshot(start)
    BY <2>3, SameData DEF Mirror!Snapshot, Pos
  <2> QED
    BY <2>1, <2>2, <2>4 DEF Mirror!Next, Mirror!Publish
<1>4. CASE DeleteRow
  BY <1>4 DEF DeleteRow, upstream, Mirror!Next, Mirror!Forget
<1>5. CASE Apply /\ meta = Absent
  BY <1>5 DEF Apply, upstream, Mirror!Next, Mirror!Prepare
<1>6. CASE Apply /\ meta # Absent
  <2> DEFINE p == cur + 1
  <2>1. UNCHANGED wal /\ meta' = p /\ rows' = [rows EXCEPT ![p] = @ + 1] /\ meta \in Nat /\ cur \in Nat
    BY <1>0, <1>6 DEF Apply, upstream, Typed
  <2>2. p \in Pos /\ p \in 1..Len(wal) /\ wal[p] = "data"
    BY <1>0, <1>6, NextOrAgain
  <2>3. CASE p > meta /\ Quiet(meta, cur)
    <3>1. p \in Mirror!Data(meta, Len(wal))
      BY <2>1, <2>2, <2>3 DEF Mirror!Data
    <3>2. Mirror!Data(meta, p - 1) = {}
      BY <2>1, <2>3 DEF Mirror!Data, Quiet
    <3> QED
      BY <1>6, <2>1, <3>1, <3>2 DEF Mirror!Next, Mirror!Advance
  <2>4. CASE p = meta /\ rows[meta] <= lost[meta]
    <3>1. meta \in Mirror!Data(0, Len(wal)) /\ meta \in Data(0, meta)
      BY <2>1, <2>2, <2>4 DEF Mirror!Data, Data
    <3>2. rows[meta] >= 1 /\ lost[meta] \in Nat /\ lost[meta] <= MaxLost /\ rows[meta] \in Nat
      BY <1>0, <1>6, <2>2, <2>4, <3>1 DEF Exact, Bounded, Typed
    <3>3. MaxLost > 0
      BY <2>4, <3>2
    <3> QED
      BY <1>6, <2>1, <2>4, <3>1, <3>3 DEF Mirror!Next, Mirror!Again
  <2> QED
    BY <1>0, <1>6, <2>3, <2>4, NextOrAgain
<1>7. CASE UNCHANGED <<wal, meta, rows>>
  BY <1>7 DEF Mirror!vars
<1>8. CASE Start \/ DropOldSlot \/ CreateSlot \/ Connect \/ ReadBegin \/ ReadChange
  BY <1>7, <1>8 DEF Start, DropOldSlot, CreateSlot, Connect, ReadBegin, ReadChange, upstream, local
<1>9. CASE ReadEmptyCommit \/ ServerSkips \/ Applied \/ Subscribe \/ Keepalive \/ SendStatus
  BY <1>7, <1>9 DEF ReadEmptyCommit, ServerSkips, Applied, Subscribe, Keepalive, SendStatus, upstream, local
<1>10. CASE Lose \/ ApplyLost \/ Halt \/ Crash \/ DropSlot
  BY <1>7, <1>10 DEF Lose, ApplyLost, Halt, Crash, DropSlot, upstream, local
<1> QED
  BY <1>1, <1>2, <1>3, <1>4, <1>5, <1>6, <1>8, <1>9, <1>10 DEF Next, Prepare, Read, Talk, Fail

\* The replica implements the mirror: its tables move through the upstream history forward,
\* one transaction at a time, and only the latest may be applied again.
THEOREM Refinement == Spec => ReplicaImplementsMirror
<1>1. Init => Mirror!Init
  BY ReplicaAssumption DEF Init, Mirror!Init, Absent, Mirror!Absent, Pos
<1>2. IInv /\ [Next]_vars => [Mirror!Next]_(Mirror!vars)
  <2> SUFFICES ASSUME IInv, [Next]_vars PROVE [Mirror!Next]_(Mirror!vars)
    OBVIOUS
  <2>1. CASE Next
    BY <2>1, MirrorStep
  <2>2. CASE UNCHANGED vars
    BY <2>2 DEF vars, upstream, local, Mirror!vars
  <2> QED
    BY <2>1, <2>2
<1> QED
  BY <1>1, <1>2, Invariance, PTL DEF Spec, ReplicaImplementsMirror, Mirror!Spec
=============================================================================
