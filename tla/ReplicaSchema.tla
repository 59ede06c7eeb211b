--------------------------- MODULE ReplicaSchema ---------------------------
(***************************************************************************)
(* Schema changes of the replicated tables (replica/mod.rs, backfill.rs,   *)
(* meta.rs): the upstream catalog changes while the stream, which lags     *)
(* behind it, carries rows in the shape their table had, and a signal for  *)
(* each DDL command.  The replica compares Relation messages with the      *)
(* fingerprint it expects, and at a signal brings the local tables from    *)
(* the expected fingerprint to the upstream catalog as it is now.          *)
(*                                                                         *)
(* A column has a name, a type and the identity the upstream gives it      *)
(* (attnum), a table has an oid: a fingerprint knows neither.  A row holds *)
(* a value in each column it was sent with.  User-defined types, indexes   *)
(* and NOT NULL are left out.  The upstream does not use the name of a     *)
(* dropped or renamed column, or of a dropped table, again.  RENAME TABLE  *)
(* is left out: to the replica, which knows tables by name, it is a table  *)
(* that goes and another that comes, without rows.                         *)
(*                                                                         *)
(* Clients of the local database make views on its tables (live_query      *)
(* does), and policies come from the upstream (module ReplicaAccess):      *)
(* PostgreSQL refuses to drop a column that one of them depends on.        *)
(***************************************************************************)
EXTENDS Integers, Sequences, Functions, FiniteSets

CONSTANTS
  Tables,     \* names of tables, a sequence: the order in which introspect lists them
  Names,      \* names of columns
  Ops,        \* the upstream operations of this instance
  Signals,    \* whether DDL is signalled: the event trigger may be missing
  MaxTx,      \* bound of the model: upstream transactions
  MaxFaults,  \* bound of the model: lost connections and restarts of the process
  MaxPins     \* bound of the model: local columns that something depends on, at a time

ASSUME SchemaAssumption ==
  /\ Ops \subseteq {"insert", "mixed", "add", "drop", "rename", "retype", "create", "unkeyed", "remove"}
  /\ Signals \subseteq BOOLEAN /\ Names # {}
  /\ Tables \in Seq(Range(Tables)) /\ Tables # <<>>
  /\ MaxTx \in Nat /\ MaxFaults \in Nat /\ MaxPins \in Nat

VARIABLES
  up,         \* upstream: the published tables
  wal,        \* upstream: its committed transactions
  gone,       \* upstream: names of columns and tables that were dropped, or given up
  slot,       \* upstream: confirmed position of the replication slot
  local,      \* local, durable: the tables with their columns and rows
  stored,     \* local, durable: fingerprint of _pglite_replica
  wm,         \* local, durable: watermark_lsn of _pglite_replica
  pinned,     \* local, durable: the columns a view or a policy depends on
  started,    \* the fingerprint loaded when this Replica started
  expected,   \* stream_loop: expected
  rels,       \* stream_loop: rels
  sent,       \* the server's memory of the relations it has announced
  cur, pos,   \* the last transaction read to its end; messages read of the next
  buf,        \* TxnBuf.stmts
  plan,       \* the local DDL statements still to run
  target,     \* the fingerprint they lead to
  mode,       \* "stream", "resync" and "relation" (running a plan), "halted"
  trusted,    \* history: every connection began with the stored fingerprint
  torn,       \* history: a plan was interrupted, or a statement of it failed
  ahead,      \* history: a resync read a catalog the stream had not reached
  blocked,    \* history: what halted this process is a DROP COLUMN that PostgreSQL refused
  faults

upstream == <<up, wal, gone>>
durable == <<local, stored, wm>>
stream == <<expected, rels, sent, cur, pos, buf>>
work == <<plan, target>>
history == <<trusted, torn, ahead, faults>>
clients == <<pinned, blocked>>
replica == <<upstream, slot, durable, started, stream, work, mode, history>>
vars == <<replica, clients>>

MaxOf(a, b) == IF a < b THEN b ELSE a
NoTables == [t \in {} |-> <<>>]
Without(f, x) == [y \in DOMAIN f \ {x} |-> f[y]]
With(f, x, v) == [y \in DOMAIN f \cup {x} |-> IF y = x THEN v ELSE f[y]]

ColumnNames(cols) == {c.n : c \in Range(cols)}

\* fingerprint_line: the columns of a table in order, by name and type.
FingerprintLine(cols) == [i \in DOMAIN cols |-> [n |-> cols[i].n, ty |-> cols[i].ty]]

\* fingerprint
Fingerprint(cat) == [t \in DOMAIN cat |-> FingerprintLine(cat[t].cols)]

NewTable(keyed, id) ==
  [oid |-> id, keyed |-> keyed, cols |-> <<[n |-> CHOOSE n \in Names : TRUE, ty |-> 1, id |-> id]>>]

\* create_table_sql
Created(line) == [cols |-> Range(line), rows |-> {}]

\* After the first run: one table, replicated.
Init ==
  /\ up = [t \in {Tables[1]} |-> NewTable(TRUE, 0)]
  /\ wal = <<>> /\ gone = {} /\ slot = 0 /\ wm = 0
  /\ stored = Fingerprint(up) /\ started = stored
  /\ local = [t \in DOMAIN up |-> Created(stored[t])]
  /\ expected = stored /\ rels = NoTables /\ sent = {}
  /\ cur = 0 /\ pos = 0 /\ buf = <<>>
  /\ plan = {} /\ target = stored
  /\ mode = "stream" /\ pinned = {} /\ blocked = FALSE
  /\ trusted = TRUE /\ torn = FALSE /\ ahead = FALSE /\ faults = 0

-----------------------------------------------------------------------------
(* The upstream *)

Row(t) == [t |-> t, oid |-> up[t].oid, cols |-> up[t].cols]
Signal == [t |-> "", oid |-> 0, cols |-> <<>>]

Commit(op, t, msgs, signalled) ==
  /\ wal' = Append(wal, [op |-> op, t |-> t, msgs |-> msgs, signalled |-> signalled])
  /\ UNCHANGED <<slot, durable, started, stream, work, mode, history, clients>>

UpstreamInsert ==
  /\ Len(wal) < MaxTx /\ "insert" \in Ops
  /\ \E t \in DOMAIN up : Commit("insert", t, <<Row(t)>>, TRUE)
  /\ UNCHANGED <<up, gone>>

\* ALTER TABLE: the columns of t become cols.  The message of the event trigger comes in
\* the transaction of the command; so may a row, before it.
Alter(op, t, cols) ==
  /\ up' = [up EXCEPT ![t].cols = cols]
  /\ gone' = gone \cup {<<t, n>> : n \in ColumnNames(up[t].cols) \ ColumnNames(cols)}
  /\ \/ \E s \in Signals : Commit(op, t, IF s THEN <<Signal>> ELSE <<>>, s)
     \/ "mixed" \in Ops /\ Commit("mixed", t, <<Row(t), Signal>>, TRUE)

UpstreamAlter ==
  /\ Len(wal) < MaxTx
  /\ \E t \in DOMAIN up :
       LET cols == up[t].cols IN
       \/ /\ "add" \in Ops
          /\ \E n \in Names :
               /\ n \notin ColumnNames(cols) /\ <<t, n>> \notin gone
               /\ Alter("add", t, Append(cols, [n |-> n, ty |-> 1, id |-> Len(wal) + 1]))
       \/ /\ "drop" \in Ops /\ Len(cols) > 1
          /\ \E i \in DOMAIN cols : Alter("drop", t, SubSeq(cols, 1, i - 1) \o SubSeq(cols, i + 1, Len(cols)))
       \/ /\ "rename" \in Ops
          /\ \E i \in DOMAIN cols, n \in Names :
               /\ n \notin ColumnNames(cols) /\ <<t, n>> \notin gone
               /\ Alter("rename", t, [cols EXCEPT ![i].n = n])
       \/ /\ "retype" \in Ops
          /\ \E i \in DOMAIN cols :
               Alter("retype", t, [cols EXCEPT ![i].ty = 3 - @])

\* CREATE TABLE and DROP TABLE of a table that belongs to the publication; an unkeyed one has
\* neither a primary key nor REPLICA IDENTITY FULL.
UpstreamTable ==
  /\ Len(wal) < MaxTx
  /\ \E t \in Range(Tables), s \in Signals :
       LET msgs == IF s THEN <<Signal>> ELSE <<>> IN
       \/ \E op \in {"create", "unkeyed"} \cap Ops :
            /\ t \notin DOMAIN up /\ <<t>> \notin gone
            /\ up' = With(up, t, NewTable(op = "create", Len(wal) + 1))
            /\ gone' = gone
            /\ Commit(op, t, msgs, s)
       \/ /\ "remove" \in Ops /\ t \in DOMAIN up
          /\ up' = Without(up, t) /\ gone' = gone \cup {<<t>>}
          /\ Commit(IF DOMAIN up = {t} THEN "empty" ELSE "remove", t, msgs, s)

-----------------------------------------------------------------------------
(* Plans: local DDL statements *)

\* c is the i-th column, of the old catalog if it goes and of the new one if it comes.
Stmt(op, t, i, c) == [op |-> op, t |-> t, i |-> i, c |-> c]
OfTable(op, t) == Stmt(op, t, 0, [n |-> "", ty |-> 0])

\* The columns of b whose name is not in a.
NewColumns(t, a, b) ==
  {Stmt("add", t, i, b[i]) : i \in {i \in DOMAIN b : b[i].n \notin ColumnNames(a)}}

\* Mutant: columns are added and never dropped.
DeltaAddsOnly(t, old, new) == NewColumns(t, old, new)

\* What apply_schema_delta runs for one table that is also in the old fingerprint: it adds the
\* new columns and drops the old ones; a column that is still there with another type is an
\* error.
DeltaOfTable(t, old, new) ==
  NewColumns(t, old, new) \cup
  {Stmt(IF old[i].n \in ColumnNames(new) THEN "error" ELSE "drop", t, i, old[i]) :
     i \in {i \in DOMAIN old : old[i] \notin Range(new)}}

\* apply_schema_delta: tables that are gone, then every table of the new catalog.
SchemaDelta(old, new) ==
  {OfTable("droptable", t) : t \in DOMAIN old \ DOMAIN new} \cup
  (UNION {{OfTable("droptable", t), OfTable("create", t)} : t \in DOMAIN new \ DOMAIN old}) \cup
  (UNION {DeltaOfTable(t, old[t], new[t]) : t \in DOMAIN old \cap DOMAIN new})

\* The order of a plan: tables that are gone, then table by table; of one table the new columns
\* in their order, then the old ones in theirs.
Place(s) ==
  << IF s.t \in DOMAIN target THEN 1 ELSE 0,
     CHOOSE i \in DOMAIN Tables : Tables[i] = s.t,
     CASE s.op = "droptable" -> 0 [] s.op \in {"create", "add"} -> 1 [] OTHER -> 2,
     s.i >>
Before(r, s) ==
  \E i \in 1..4 : Place(r)[i] < Place(s)[i] /\ \A j \in 1..(i - 1) : Place(r)[j] = Place(s)[j]

Halt == mode' = "halted" /\ UNCHANGED <<work, durable, stream>>

\* The local database runs one statement: ADD COLUMN IF NOT EXISTS, DROP COLUMN IF EXISTS,
\* DROP TABLE IF EXISTS, CREATE TABLE.  ALTER TABLE of a table that is not there fails.
Effect(s) ==
  CASE s.op = "droptable" -> local' = Without(local, s.t)
    [] s.op = "create"    -> local' = With(local, s.t, Created(target[s.t]))
    [] s.op = "add"       ->
         local' = IF \E c \in local[s.t].cols : c.n = s.c.n THEN local
                  ELSE [local EXCEPT ![s.t].cols = @ \cup {s.c}]
    [] s.op = "drop"      ->
         local' = [local EXCEPT
           ![s.t].cols = {c \in @ : c.n # s.c.n},
           ![s.t].rows = {[r EXCEPT !.has = @ \ {s.c.n}] : r \in @}]

\* DROP COLUMN has no CASCADE, as DROP TABLE has.
Refused(s) == s.op = "drop" /\ s.t \in DOMAIN local /\ <<s.t, s.c.n>> \in pinned
Fails(s) == s.op = "error" \/ (s.op \in {"add", "drop"} /\ s.t \notin DOMAIN local) \/ Refused(s)

RunStatement ==
  /\ mode \in {"resync", "relation"}
  /\ \E s \in plan :
       /\ \A r \in plan \ {s} : Before(s, r)
       /\ IF Fails(s)
          THEN Halt /\ blocked' = Refused(s) /\ pinned' = pinned
          ELSE /\ Effect(s) /\ plan' = plan \ {s}
               /\ pinned' = IF s.op = "droptable" THEN {p \in pinned : p[1] # s.t} ELSE pinned
               /\ UNCHANGED <<stored, wm, stream, target, mode, blocked>>
  /\ UNCHANGED <<upstream, slot, started, history>>

\* A client makes a view on a column, or drops the last that depends on it; so with policies.
Depend ==
  /\ Cardinality(pinned) < MaxPins
  /\ \E t \in DOMAIN local : \E n \in {c.n : c \in local[t].cols} : pinned' = pinned \cup {<<t, n>>}
  /\ UNCHANGED <<replica, blocked>>

Undepend == \E p \in pinned : pinned' = pinned \ {p} /\ UNCHANGED <<replica, blocked>>

-----------------------------------------------------------------------------
(* stream_loop *)

Tx == wal[cur + 1]
Reading == mode = "stream" /\ cur < Len(wal) /\ pos < Len(Tx.msgs)
Msg == Tx.msgs[pos + 1]

\* classify_schema_change: the columns known so far must be the first of the new ones.
Additive(old, new) == Len(new) >= Len(old) /\ \A i \in DOMAIN old : new[i] = old[i]

\* A Relation message: always before the first row of a table on a connection and after DDL
\* on it, and whenever the server's cache entry was invalidated.
ReadRelation ==
  /\ Reading /\ Msg # Signal
  /\ LET t == Msg.t
         line == FingerprintLine(Msg.cols)
     IN IF t \notin DOMAIN expected \/ ~Additive(expected[t], line) THEN Halt
        ELSE /\ sent' = sent \cup {t}
             /\ IF line = expected[t]
                THEN rels' = With(rels, t, line) /\ UNCHANGED <<work, mode>>
                ELSE /\ plan' = {Stmt("add", t, i, line[i]) : i \in (Len(expected[t]) + 1)..Len(line)}
                     /\ target' = [expected EXCEPT ![t] = line]
                     /\ mode' = "relation" /\ UNCHANGED rels
             /\ UNCHANGED <<durable, expected, cur, pos, buf>>
  /\ UNCHANGED <<upstream, slot, started, history, clients>>

\* The columns are added: expected and the stored fingerprint follow.
FinishRelation ==
  /\ mode = "relation" /\ plan = {}
  /\ expected' = target /\ stored' = target
  /\ rels' = With(rels, Msg.t, target[Msg.t])
  /\ mode' = "stream"
  /\ UNCHANGED <<upstream, slot, local, wm, started, sent, cur, pos, buf, work, history, clients>>

\* A row of an announced relation: the statement names the columns of rels.
ReadRow ==
  /\ Reading /\ Msg # Signal /\ Msg.t \in sent
  /\ IF Msg.t \notin DOMAIN rels THEN Halt
     ELSE /\ buf' = Append(buf, [t |-> Msg.t, has |-> ColumnNames(rels[Msg.t])])
          /\ pos' = pos + 1
          /\ UNCHANGED <<durable, expected, rels, sent, cur, work, mode>>
  /\ UNCHANGED <<upstream, slot, started, history, clients>>

\* introspect: an error when nothing is published or a table has no identity.
IntrospectFails == DOMAIN up = {} \/ \E t \in DOMAIN up : ~up[t].keyed

\* Mutant: the old side is the fingerprint of the start.
ResyncFromStart ==
  /\ Reading /\ Msg = Signal
  /\ IF IntrospectFails THEN Halt
     ELSE /\ target' = Fingerprint(up)
          /\ plan' = SchemaDelta(started, Fingerprint(up))
          /\ mode' = "resync"
          /\ UNCHANGED <<durable, stream>>
  /\ ahead' = (ahead \/ \E i \in (cur + 2)..Len(wal) : wal[i].op # "insert")
  /\ UNCHANGED <<upstream, slot, started, trusted, torn, faults, clients>>

\* The DDL signal, resync_schema: the catalog of this moment, which may be ahead of the stream.
\* (introspect asks for keys in a query of its own, taken as of the same moment.)
ReadSignal ==
  /\ Reading /\ Msg = Signal
  /\ IF IntrospectFails THEN Halt
     ELSE /\ target' = Fingerprint(up)
          /\ plan' = SchemaDelta(expected, Fingerprint(up))
          /\ mode' = "resync"
          /\ UNCHANGED <<durable, stream>>
  /\ ahead' = (ahead \/ \E i \in (cur + 2)..Len(wal) : wal[i].op # "insert")
  /\ UNCHANGED <<upstream, slot, started, trusted, torn, faults, clients>>

\* Mutant: the fingerprint is not stored.
FinishUnstored ==
  /\ mode = "resync" /\ plan = {}
  /\ expected' = target
  /\ rels' = [t \in DOMAIN rels \cap DOMAIN target |-> rels[t]]
  /\ mode' = "stream" /\ pos' = pos + 1
  /\ UNCHANGED <<upstream, slot, local, stored, wm, started, sent, cur, buf, work, history, clients>>

\* The rest of resync_schema.  The shapes of the relations that stay are kept.
FinishResync ==
  /\ mode = "resync" /\ plan = {}
  /\ IF target = expected
     THEN UNCHANGED <<stored, expected, rels>>
     ELSE /\ stored' = target /\ expected' = target
          /\ rels' = [t \in DOMAIN rels \cap DOMAIN target |-> rels[t]]
  /\ mode' = "stream" /\ pos' = pos + 1
  /\ UNCHANGED <<upstream, slot, local, wm, started, sent, cur, buf, work, history, clients>>

\* Commit: the buffered statements and the watermark in one local transaction, which fails
\* when a column or a table is missing.  Nothing to apply: only the acknowledged position
\* moves, and the slot with it at the next status message.
ReadCommit ==
  /\ mode = "stream" /\ cur < Len(wal) /\ pos = Len(Tx.msgs)
  /\ IF \E b \in Range(buf) :
          b.t \notin DOMAIN local \/ ~(b.has \subseteq {c.n : c \in local[b.t].cols})
     THEN Halt /\ slot' = slot
     ELSE /\ local' = [t \in DOMAIN local |-> [local[t] EXCEPT !.rows =
                         @ \cup {[tx |-> cur + 1, has |-> b.has] : b \in {x \in Range(buf) : x.t = t}}]]
          /\ IF buf = <<>> THEN wm' = wm /\ slot' \in {slot, cur + 1}
             ELSE wm' = cur + 1 /\ slot' = slot
          /\ cur' = cur + 1 /\ pos' = 0 /\ buf' = <<>>
          /\ sent' = IF Tx.op = "insert" THEN sent ELSE sent \ {Tx.t}
          /\ UNCHANGED <<stored, expected, rels, work, mode>>
  /\ UNCHANGED <<upstream, started, history, clients>>

-----------------------------------------------------------------------------
(* Connections and restarts *)

\* A new call of stream_loop, with this fingerprint.
Begin(fp) ==
  /\ expected' = fp /\ rels' = NoTables /\ sent' = {}
  /\ cur' = MaxOf(slot, wm) /\ pos' = 0 /\ buf' = <<>>
  /\ plan' = {} /\ target' = fp
  /\ mode' = "stream"
  /\ trusted' = (trusted /\ fp = stored)
  /\ torn' = (torn \/ mode \in {"resync", "relation"} \/ plan # {})
  /\ faults' = faults + 1
  /\ blocked' = FALSE
  /\ UNCHANGED <<upstream, slot, durable, ahead, pinned>>

\* run: after a lost connection stream_loop is called with the fingerprint of the start.
Reconnect ==
  /\ mode # "halted" /\ faults < MaxFaults
  /\ Begin(started)
  /\ UNCHANGED started

\* The process ends in any state, also halted, and Replica::start loads the stored state.
Restart ==
  /\ faults < MaxFaults
  /\ started' = stored
  /\ Begin(stored)

Upstream == UpstreamInsert \/ UpstreamAlter \/ UpstreamTable
Read == ReadRelation \/ ReadRow \/ ReadSignal \/ ReadCommit
Local == RunStatement \/ FinishRelation \/ FinishResync
Next == Upstream \/ Read \/ Local \/ Depend \/ Undepend \/ Reconnect \/ Restart

Spec == Init /\ [][Next]_vars

-----------------------------------------------------------------------------
(* Properties *)

\* A value that came with the stream is kept, whatever of this DDL follows, at whatever distance
\* the catalog runs ahead of the stream, and through restarts in the middle of a resync: it is
\* lost only with its own column or table upstream, or when that column is renamed.  A renamed
\* column is a new one to apply_schema_delta, which adds it empty and drops the old one.
ValuesKept ==
  trusted => \A i \in 1..cur : \A r \in Range(wal[i].msgs) \ {Signal} :
    r.t \in DOMAIN up /\ up[r.t].oid = r.oid =>
      \A c \in Range(r.cols) : (\E d \in Range(up[r.t].cols) : d.id = c.id /\ d.n = c.n) =>
        /\ r.t \in DOMAIN local
        /\ \E x \in local[r.t].rows : x.tx = i /\ c.n \in x.has

Drained == mode = "stream" /\ cur = Len(wal)
Signalled == \A i \in DOMAIN wal : wal[i].signalled

\* At the end of a stream with all its signals the local tables have the columns of the
\* upstream ones, and, unless a resync was cut off, the same shape.  One that was cut off
\* is finished by the next, except that a column or a table the upstream has meanwhile taken
\* back may stay, and a new column it has meanwhile given another type keeps the first.
SchemaConverges ==
  Drained /\ Signalled /\ trusted =>
    \A t \in Range(Tables) :
      /\ t \in DOMAIN up =>
           t \in DOMAIN local /\ ColumnNames(up[t].cols) \subseteq {c.n : c \in local[t].cols}
      /\ ~torn =>
           /\ t \in DOMAIN local <=> t \in DOMAIN up
           /\ t \in DOMAIN up => local[t].cols = Range(FingerprintLine(up[t].cols))

\* The replica halts over the schema only for what it cannot follow: another type, a table
\* without identity, an empty publication, rows and DDL in one transaction, a change other
\* than a new column that nobody signalled; when something local depends on a column that goes;
\* or when the catalog ran ahead of the stream.
HaltJustified ==
  mode = "halted" /\ trusted =>
    \/ ahead \/ blocked
    \/ \E i \in DOMAIN wal :
         \/ wal[i].op \in {"retype", "unkeyed", "mixed", "empty"}
         \/ wal[i].op \in {"drop", "rename", "create", "remove"} /\ ~wal[i].signalled

\* tests/replica.rs, after DROP COLUMN, CREATE TABLE and rows: assert!(!replica3.is_halted()).
\* A stream of signalled changes of these kinds, none ahead of the stream, never halts the replica.
FollowsDdl ==
  ~ahead /\ (\A i \in DOMAIN wal : wal[i].signalled /\ wal[i].op \in {"insert", "add", "drop", "create"})
    => mode # "halted"
=============================================================================
