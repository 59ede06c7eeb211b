------------------------------ MODULE Replica ------------------------------
(***************************************************************************)
(* The logical replica (replica/mod.rs, meta.rs, wire.rs, backfill.rs):    *)
(* first run with slot, snapshot and copy; the stream loop; application of *)
(* a transaction together with its watermark; feedback to the upstream     *)
(* slot; reconnection, restart after a crash, stop, halt, decommission.    *)
(*                                                                         *)
(* The upstream history is the sequence of its committed transactions: the *)
(* LSN at which transaction i ends is i.  The replication connection is    *)
(* ordered, so it is represented by how far the replica has read (cur,     *)
(* txn); what was sent and not yet read when it breaks is sent again.  A   *)
(* status message is received at once or never: a late one carries a       *)
(* position that was already safe when it was sent.  The slot keeps the    *)
(* largest position confirmed.                                             *)
(*                                                                         *)
(* The set of replicated tables is fixed here.  A transaction is "data"    *)
(* when it changes them and "other" when the stream shows nothing of it or *)
(* an empty Begin and Commit (other tables, DDL signals).                  *)
(***************************************************************************)
EXTENDS Integers, Sequences

CONSTANTS
  MaxTx,      \* bound of the model: upstream transactions
  MaxLost     \* bound of the model: how often the answer to the COMMIT of one transaction
              \* is lost; 0 in-process, where no connection lies between

ASSUME ReplicaAssumption == MaxTx \in Nat /\ MaxLost \in Nat

VARIABLES
  wal,        \* upstream: its committed transactions
  slot,       \* upstream: confirmed position of the replication slot, or Absent
  meta,       \* local, durable: watermark_lsn of _pglite_replica, or Absent
  rows,       \* local, durable: how often the tables hold each transaction
  mode,       \* where the replica thread stands
  start,      \* the position this Replica started from
  watermark,  \* Replica.watermark, in memory
  ack,        \* Replica.ack_pos, in memory
  cur,        \* the last transaction read to its end on this connection
  txn,        \* the TxnBuf of transaction cur + 1: "none", "begun" or "changed"
  since,      \* history: the watermark at which a subscriber joined this Replica, or Absent
  events,     \* what that subscriber has received
  dropping,   \* decommission has dropped the slot and not yet deleted the row
  lost        \* history: COMMITs that took effect and whose answer was lost

upstream == <<wal, slot>>
local == <<meta, rows, lost>>
memory == <<start, watermark, ack, cur, txn, since, events>>
vars == <<upstream, local, mode, memory, dropping>>

Absent == -1
Pos == 1..MaxTx
Running == {"connect", "stream", "applied"}
FirstRun == {"slot", "schema", "copy", "init"}
Modes == Running \cup FirstRun \cup {"off", "stopped", "halted"}

MaxOf(a, b) == IF a < b THEN b ELSE a

\* The transactions in (a, b] with changes for the replica.
Data(a, b) == {i \in (a + 1)..b : wal[i] = "data"}

Init ==
  /\ wal = <<>> /\ slot = Absent
  /\ meta = Absent /\ rows = [i \in Pos |-> 0] /\ lost = [i \in Pos |-> 0]
  /\ mode = "off"
  /\ start = 0 /\ watermark = 0 /\ ack = 0 /\ cur = 0 /\ txn = "none"
  /\ since = Absent /\ events = <<>>
  /\ dropping = FALSE

\* The upstream commits a transaction.
UpstreamCommit ==
  /\ Len(wal) < MaxTx
  /\ \E k \in {"data", "other"} : wal' = Append(wal, k)
  /\ UNCHANGED <<slot, local, mode, memory, dropping>>

-----------------------------------------------------------------------------
(* Replica::start and the first run *)

\* A Replica without subscribers; the stream starts before its user can call subscribe.
Boot(p) ==
  /\ start' = p /\ watermark' = p /\ ack' = p /\ cur' = 0 /\ txn' = "none"
  /\ since' = Absent /\ events' = <<>>

\* Mutant: resume from where the upstream believes the replica is.
StartAtSlot ==
  /\ mode \in {"off", "stopped", "halted"}
  /\ IF meta = Absent
     THEN mode' = "slot" /\ UNCHANGED memory
     ELSE mode' = "connect" /\ Boot(slot)
  /\ UNCHANGED <<upstream, local, dropping>>

\* load_state: a stored watermark is resumed from, otherwise the first run begins.
Start ==
  /\ mode \in {"off", "stopped", "halted"}
  /\ IF meta = Absent
     THEN mode' = "slot" /\ UNCHANGED memory
     ELSE mode' = "connect" /\ Boot(meta)
  /\ UNCHANGED <<upstream, local, dropping>>

\* The slot of an earlier attempt (42710) is dropped before another one is made.
DropOldSlot ==
  /\ mode = "slot" /\ slot # Absent
  /\ slot' = Absent
  /\ UNCHANGED <<wal, local, mode, memory, dropping>>

\* CREATE_REPLICATION_SLOT: its consistent point and the exported snapshot belong together.
CreateSlot ==
  /\ mode = "slot" /\ slot = Absent
  /\ slot' = Len(wal) /\ start' = Len(wal)
  /\ mode' = "schema"
  /\ UNCHANGED <<wal, local, watermark, ack, cur, txn, since, events, dropping>>

\* Mutant: CREATE TABLE IF NOT EXISTS, so that an earlier copy stays.
BootstrapKeeps ==
  /\ mode = "schema"
  /\ mode' = "copy"
  /\ UNCHANGED <<upstream, local, memory, dropping>>

\* bootstrap_schema: DROP TABLE IF EXISTS, CREATE TABLE.
Bootstrap ==
  /\ mode = "schema"
  /\ rows' = [i \in Pos |-> 0] /\ lost' = [i \in Pos |-> 0]
  /\ mode' = "copy"
  /\ UNCHANGED <<upstream, meta, memory, dropping>>

\* copy_tables: the batches commit one by one; done is the part copied when it ends or fails.
CopyTables ==
  /\ mode = "copy"
  /\ \E done \in SUBSET Data(0, start) :
       /\ rows' = [i \in Pos |-> rows[i] + IF i \in done THEN 1 ELSE 0]
       /\ mode' = IF done = Data(0, start) THEN "init" ELSE "off"
  /\ UNCHANGED <<upstream, meta, lost, memory, dropping>>

\* init_state; bump_security may still fail, and start with it.
InitState ==
  /\ mode = "init"
  /\ meta' = start
  /\ \/ mode' = "connect" /\ Boot(start)
     \/ mode' = "off" /\ UNCHANGED memory
  /\ UNCHANGED <<upstream, rows, lost, dropping>>

-----------------------------------------------------------------------------
(* The stream *)

Feedback == MaxOf(watermark, ack)

\* send_status: the slot learns the position, or the message never arrives.
Status(f) == slot' \in {slot, IF slot = Absent THEN slot ELSE MaxOf(slot, f)}

\* Mutant: start at the position the server is at.
ConnectAtEnd ==
  /\ mode = "connect" /\ slot # Absent
  /\ mode' = "stream"
  /\ cur' = Len(wal) /\ txn' = "none"
  /\ Status(Feedback)
  /\ UNCHANGED <<wal, local, start, watermark, ack, since, events, dropping>>

\* START_REPLICATION at the watermark: the server starts there or at its confirmed
\* position, whichever is later.  The first status follows at once.
Connect ==
  /\ mode = "connect" /\ slot # Absent
  /\ mode' = "stream"
  /\ cur' = MaxOf(slot, watermark) /\ txn' = "none"
  /\ Status(Feedback)
  /\ UNCHANGED <<wal, local, start, watermark, ack, since, events, dropping>>

ReadBegin ==
  /\ mode = "stream" /\ txn = "none" /\ cur < Len(wal)
  /\ txn' = "begun"
  /\ UNCHANGED <<upstream, local, mode, start, watermark, ack, cur, since, events, dropping>>

\* Insert, Update, Delete, Truncate.
ReadChange ==
  /\ mode = "stream" /\ txn = "begun" /\ wal[cur + 1] = "data"
  /\ txn' = "changed"
  /\ UNCHANGED <<upstream, local, mode, start, watermark, ack, cur, since, events, dropping>>

\* Commit of a transaction with nothing to apply.
ReadEmptyCommit ==
  /\ mode = "stream" /\ txn # "none"
  /\ ~(cur + 1 > watermark /\ wal[cur + 1] = "data")
  /\ ack' = IF cur + 1 <= watermark THEN ack ELSE MaxOf(ack, cur + 1)
  /\ cur' = cur + 1 /\ txn' = "none"
  /\ UNCHANGED <<upstream, local, mode, start, watermark, since, events, dropping>>

\* The server may leave out a transaction that has nothing for this publication.
ServerSkips ==
  /\ mode = "stream" /\ txn = "none" /\ cur < Len(wal) /\ wal[cur + 1] = "other"
  /\ cur' = cur + 1
  /\ UNCHANGED <<upstream, local, mode, start, watermark, ack, txn, since, events, dropping>>

\* Mutant: the watermark is stored by a statement of its own, after the transaction.
ApplyBare ==
  /\ mode = "stream" /\ txn = "changed" /\ cur + 1 > watermark
  /\ rows' = [rows EXCEPT ![cur + 1] = @ + 1]
  /\ mode' = "applied"
  /\ UNCHANGED <<upstream, meta, lost, memory, dropping>>

\* Commit: the statements and the new watermark in one local transaction, whose COMMIT
\* takes effect here.  The UPDATE finds no row after decommission deleted it.
Apply ==
  /\ mode = "stream" /\ txn = "changed" /\ cur + 1 > watermark
  /\ rows' = [rows EXCEPT ![cur + 1] = @ + 1]
  /\ meta' = IF meta = Absent THEN Absent ELSE cur + 1
  /\ mode' = "applied"
  /\ UNCHANGED <<upstream, lost, memory, dropping>>

\* To whoever has subscribed by now.
Broadcast(i) ==
  /\ events' = IF since = Absent THEN events ELSE Append(events, i)
  /\ since' = since

\* Mutant: the watermark in memory is not moved.
AppliedUnmarked ==
  /\ mode = "applied"
  /\ ack' = MaxOf(ack, cur + 1)
  /\ Broadcast(cur + 1)
  /\ cur' = cur + 1 /\ txn' = "none"
  /\ mode' = "stream"
  /\ UNCHANGED <<upstream, local, start, watermark, dropping>>

\* apply returned Ok: watermark and ack_pos move, subscribers hear of it.  (One that joins
\* between the two hears of it too: its since is the position before.)
Applied ==
  /\ mode = "applied"
  /\ watermark' = cur + 1 /\ ack' = MaxOf(ack, cur + 1)
  /\ Broadcast(cur + 1)
  /\ cur' = cur + 1 /\ txn' = "none"
  /\ mode' = "stream"
  /\ UNCHANGED <<upstream, local, start, dropping>>

\* subscribe, at any time after start has returned.
Subscribe ==
  /\ mode \in Running /\ since = Absent
  /\ since' = watermark
  /\ UNCHANGED <<upstream, local, mode, start, watermark, ack, cur, txn, events, dropping>>

\* The keepalive carries the position the server has sent up to: cur between transactions,
\* and as far as the end of the current one inside it.
WalEnd == IF txn = "none" THEN cur ELSE cur + 1

\* Mutant: the position is taken also inside a transaction.
KeepaliveAlways ==
  /\ mode = "stream"
  /\ ack' = MaxOf(ack, WalEnd)
  /\ slot' \in {slot, IF slot = Absent THEN slot ELSE MaxOf(slot, MaxOf(watermark, ack'))}
  /\ UNCHANGED <<wal, local, mode, start, watermark, cur, txn, since, events, dropping>>

\* Mutant: a keepalive is only answered.
KeepaliveIgnored ==
  /\ mode = "stream"
  /\ ack' = ack
  /\ Status(Feedback)
  /\ UNCHANGED <<wal, local, mode, start, watermark, cur, txn, since, events, dropping>>

\* Its position counts only between transactions; a reply may be asked for.
Keepalive ==
  /\ mode = "stream"
  /\ ack' = IF txn = "none" THEN MaxOf(ack, WalEnd) ELSE ack
  /\ Status(MaxOf(watermark, ack'))
  /\ UNCHANGED <<wal, local, mode, start, watermark, cur, txn, since, events, dropping>>

\* The periodic status message.
SendStatus ==
  /\ mode = "stream"
  /\ Status(Feedback)
  /\ UNCHANGED <<wal, local, mode, memory, dropping>>

-----------------------------------------------------------------------------
(* Errors *)

Reconnect ==
  /\ mode' = "connect"
  /\ ack' = watermark
  /\ txn' = "none"
  /\ UNCHANGED <<start, watermark, cur, since, events>>

\* A non-fatal error: the connection to the upstream broke, or the local database failed
\* with an I/O error before the COMMIT.
Lose ==
  /\ mode \in {"connect", "stream"}
  /\ Reconnect
  /\ UNCHANGED <<upstream, local, dropping>>

\* The COMMIT of apply took effect and its answer was lost with the pool connection: an
\* Error::Io, which is_fatal takes for a lost upstream.
ApplyLost ==
  /\ mode = "applied" /\ lost[cur + 1] < MaxLost
  /\ lost' = [lost EXCEPT ![cur + 1] = @ + 1]
  /\ Reconnect
  /\ UNCHANGED <<upstream, meta, rows, dropping>>

\* A fatal error, also in the place of the answer to a COMMIT that took effect; or stop,
\* seen at the top of a loop; or Error::Closed, which stops without the halted flag.
Halt ==
  /\ mode \in Running
  /\ mode' \in {"halted", "stopped"}
  /\ UNCHANGED <<upstream, local, memory, dropping>>

\* The process dies, or the first run returns an error.
Crash ==
  /\ mode \in Running \cup FirstRun
  /\ mode' = "off"
  /\ UNCHANGED <<upstream, local, memory, dropping>>

\* decommission, at any time: the walsender is terminated and the slot dropped, then the
\* row deleted.  What the replica had received before may still be applied in between.
DropSlot ==
  /\ ~dropping
  /\ slot' = Absent /\ dropping' = TRUE
  /\ UNCHANGED <<wal, local, mode, memory>>

DeleteRow ==
  /\ dropping
  /\ meta' = Absent /\ dropping' = FALSE
  /\ UNCHANGED <<upstream, rows, lost, mode, memory>>

-----------------------------------------------------------------------------
Prepare == Start \/ DropOldSlot \/ CreateSlot \/ Bootstrap \/ CopyTables \/ InitState
Read == ReadBegin \/ ReadChange \/ ReadEmptyCommit \/ ServerSkips \/ Apply
Talk == Keepalive \/ SendStatus
Fail == Lose \/ ApplyLost \/ Halt \/ Crash

Next ==
  \/ UpstreamCommit \/ Prepare \/ Connect \/ Read \/ Applied \/ Subscribe \/ Talk
  \/ Fail \/ DropSlot \/ DeleteRow

Spec == Init /\ [][Next]_vars

\* The replica thread runs; the upstream accepts a connection, sends what it has, and sends
\* keepalives whose answer reaches it; and from some time on the connection holds: nothing
\* is promised while it is lost again before the end of every transaction.
Fairness ==
  /\ WF_vars(Connect) /\ WF_vars(Applied) /\ WF_vars(Read)
  /\ WF_vars(Keepalive /\ txn = "none" /\ slot' = MaxOf(slot, MaxOf(watermark, ack')))
  /\ <>[][~Lose]_vars

FairSpec == Spec /\ Fairness

-----------------------------------------------------------------------------
(* Properties *)

\* The types of the variables; every position the replica holds, keeps or has confirmed
\* lies in the upstream history, where the program keeps an unchecked u64.
TypeOK ==
  /\ wal \in Seq({"data", "other"}) /\ Len(wal) <= MaxTx
  /\ {slot, meta, since} \subseteq {Absent} \cup 0..Len(wal)
  /\ {start, watermark, ack, cur} \subseteq 0..Len(wal)
  /\ rows \in [Pos -> Nat] /\ lost \in [Pos -> Nat]
  /\ mode \in Modes
  /\ txn \in {"none", "begun", "changed"}
  /\ events \in Seq(Nat)
  /\ dropping \in BOOLEAN

\* The tables are the upstream tables at the stored watermark, whatever crashed, broke or
\* was repeated: they hold each transaction up to it, none beyond it, and one of them more
\* than once only if the answer to its COMMIT was lost.
Exact ==
  meta # Absent =>
    \A i \in Pos : IF i \in Data(0, meta) THEN rows[i] \in 1..(1 + lost[i]) ELSE rows[i] = 0

\* The upstream is never told that it may forget a change the local tables do not hold, so
\* that a replica that resumes from its row finds everything after it.
NoLoss == slot # Absent /\ meta # Absent => Data(meta, slot) = {}

\* From the moment it joins, a subscriber sees exactly the transactions applied, in commit
\* order and each once, and none before it is durable.
EventsFollow ==
  mode \in Running =>
    /\ {events[i] : i \in DOMAIN events} = IF since = Absent THEN {} ELSE Data(since, watermark)
    /\ \A i, j \in DOMAIN events : i < j => events[i] < events[j]
    /\ meta # Absent => watermark <= meta

Mirror == INSTANCE ReplicaMirror WITH at <- meta, Redo <- MaxLost > 0

\* Every step of the replica, seen through its tables and its stored watermark, is a step
\* of the mirror: nothing is skipped, reordered or taken back.
ReplicaImplementsMirror == Mirror!Spec

\* A change committed upstream is applied, unless the replica stops, halts or is given up.
ChangesArrive ==
  \A i \in Pos : (mode \in Running /\ i \in Data(0, Len(wal))) ~>
    (mode \notin Running \/ slot = Absent \/ watermark >= i)

\* The slot follows the upstream also when nothing concerns this replica, so that the
\* upstream can recycle its log.
SlotFollows ==
  \A i \in Pos : (mode \in Running /\ i <= Len(wal)) ~>
    (mode \notin Running \/ slot = Absent \/ slot >= i)

\* tests/replica.rs: after a reconnect, "SELECT count(*) FROM repl_todos WHERE id = 6" is 1.
AppliedOnce == meta # Absent => \A i \in Pos : rows[i] <= 1
=============================================================================
