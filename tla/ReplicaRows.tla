---------------------------- MODULE ReplicaRows ----------------------------
(***************************************************************************)
(* One row change, from the upstream to the replica's table: pgoutput.rs   *)
(* decodes it, Rel in replica/mod.rs turns it into SQL, PostgreSQL runs    *)
(* that on the local table.                                                *)
(*                                                                         *)
(* A cell is <<"n">> (NULL), <<"u">> (a value stored out of line that did  *)
(* not change) or <<"t", text>>; a text is a sequence of characters, a row *)
(* a sequence of cells, a table a bag of rows.  A message is a sequence of *)
(* tokens: a tag, an id, a count, a length, a character.                   *)
(***************************************************************************)
EXTENDS Integers, Sequences, FiniteSets

CONSTANTS
  Keys, Texts,     \* texts of the first and of the second column, which may be NULL
  Identities,      \* of "d" (DEFAULT: the key) and "f" (FULL)
  MaxRows,         \* bound of the model: rows in the table
  MaxBatch         \* COPY_BATCH_BYTES, in rows

ASSUME RowsAssumption ==
  /\ Identities \subseteq {"d", "f"} /\ MaxRows \in Nat /\ MaxBatch \in Nat \ {0}
  /\ \A s \in Keys \cup Texts : s \in Seq({s[i] : i \in DOMAIN s})

Null == <<"n">>
Toast == <<"u">>
Text(s) == <<"t", s>>

Rows == {<<Text(k), v>> : k \in Keys, v \in {Null} \cup {Text(s) : s \in Texts}}
Columns == {1, 2}

VARIABLES
  identity,   \* REPLICA IDENTITY of the table; without a key it must be FULL
  up, local,  \* the table upstream and here
  todo, batch,\* rows copy_tables has still to read, and read but not written yet
  rel,        \* flags of the columns, as the Relation message told
  wire,       \* the last message
  status,     \* "new", "copy", "stream", "halted"
  doubled     \* history: a change hit a row that the table held twice

rowVars == <<identity, up, local, todo, batch, rel, wire, status, doubled>>

-----------------------------------------------------------------------------
(* Bags of rows *)

Empty == [r \in Rows |-> 0]
Copies(b) == UNION {{r} \X (1..b[r]) : r \in Rows}   \* equal rows told apart
Total(b) == Cardinality(Copies(b))
Plus(b, r) == [b EXCEPT ![r] = @ + 1]
Minus(b, r) == [b EXCEPT ![r] = @ - 1]
Join(a, b) == [r \in Rows |-> a[r] + b[r]]

\* A table with a key holds a key once.
Keyed(b) == \A q, r \in Rows : b[q] > 0 /\ b[r] > 0 /\ q[1] = r[1] => q = r /\ b[q] = 1
AllTables == {b \in [Rows -> 0..MaxRows] : Total(b) <= MaxRows}
KeyedTables == {b \in AllTables : Keyed(b)}
Tables(id) == IF id = "d" THEN KeyedTables ELSE AllTables

-----------------------------------------------------------------------------
(* What the upstream sends *)

EncodeCell(c) == IF c[1] = "t" THEN <<"t", Len(c[2])>> \o c[2] ELSE c
EncodeTuple(t) == <<Len(t)>> \o EncodeCell(t[1]) \o EncodeCell(t[2])

RelId == 7
EncodeRelation(flags) == <<"R", RelId, Len(flags)>> \o flags

\* Options are sequences of length at most one.
Change(op, key, old, new) == [op |-> op, key |-> key, old |-> old, new |-> new]
Optional(marker, t) == IF t = <<>> THEN <<>> ELSE <<marker>> \o EncodeTuple(t[1])
Encode(m) ==
  <<m.op, RelId>> \o Optional("K", m.key) \o Optional("O", m.old) \o Optional("N", m.new)

Flags == IF identity = "d" THEN <<1, 0>> ELSE <<1, 1>>
KeyOnly(r) == <<r[1], Null>>

\* The new tuple of an update: cells that did not change may be sent as unchanged.
NewTuples(old, new) ==
  {t \in {<<a, b>> : a \in {new[1], Toast}, b \in {new[2], Toast}} :
     \A c \in Columns : t[c] = Toast => new[c] = old[c] /\ new[c] # Null}

\* The old key goes along when it changed or is out of line; with FULL the whole old row.
Updates(old, new) ==
  {Change("U", IF identity = "d" /\ (t[1] = Toast \/ old[1] # new[1]) THEN <<KeyOnly(old)>> ELSE <<>>,
          IF identity = "f" THEN <<old>> ELSE <<>>, <<t>>) : t \in NewTuples(old, new)}

-----------------------------------------------------------------------------
(* pgoutput.rs *)

\* A cursor with what it has read; `ok` is FALSE once it met the end of the message.
Cursor(p, v) == [ok |-> TRUE, pos |-> p, val |-> v]
Truncated == [ok |-> FALSE, pos |-> 0, val |-> <<>>]

\* Mutant: a text that ends early is taken for what is there.
TakeShort(buf, p, n) ==
  IF p > Len(buf) THEN Truncated ELSE Cursor(p + n, SubSeq(buf, p, IF p + n - 1 > Len(buf) THEN Len(buf) ELSE p + n - 1))

\* Cursor::take
Take(buf, p, n) == IF p + n - 1 > Len(buf) THEN Truncated ELSE Cursor(p + n, SubSeq(buf, p, p + n - 1))

\* One cell after the ones in c.
CellAt(buf, c) ==
  IF ~c.ok \/ ~Take(buf, c.pos, 1).ok THEN Truncated
  ELSE IF buf[c.pos] \in {"n", "u"} THEN Cursor(c.pos + 1, Append(c.val, <<buf[c.pos]>>))
  ELSE IF ~Take(buf, c.pos + 1, 1).ok THEN Truncated
  ELSE LET s == Take(buf, c.pos + 2, buf[c.pos + 1])
       IN IF s.ok THEN Cursor(s.pos, Append(c.val, Text(s.val))) ELSE Truncated

\* Cursor::tuple
TupleAt(buf, p) ==
  IF ~Take(buf, p, 1).ok THEN Truncated
  ELSE LET cells[k \in 0..buf[p]] == IF k = 0 THEN Cursor(p + 1, <<>>) ELSE CellAt(buf, cells[k - 1])
       IN cells[buf[p]]

MarkerAt(buf, p) == IF Take(buf, p, 1).ok THEN buf[p] ELSE "none"

\* decode: an optional key or old tuple, then the new tuple where there must be one.  A
\* result is <<>>, for an error, or <<message>>.
Decode(buf) ==
  LET marker == MarkerAt(buf, 3)
      first == IF marker \in {"K", "O"} THEN TupleAt(buf, 4) ELSE Cursor(3, <<>>)
      key == IF marker = "K" THEN <<first.val>> ELSE <<>>
      old == IF marker = "O" THEN <<first.val>> ELSE <<>>
      second == TupleAt(buf, first.pos + 1)
  IN CASE Len(buf) < 2 \/ ~first.ok -> <<>>
       [] Len(buf) >= 2 /\ first.ok /\ buf[1] \in {"I", "U"} ->
            IF MarkerAt(buf, first.pos) = "N" /\ second.ok
            THEN <<Change(buf[1], key, old, <<second.val>>)>> ELSE <<>>
       [] Len(buf) >= 2 /\ first.ok /\ buf[1] = "D" ->
            IF marker \in {"K", "O"} THEN <<Change("D", key, old, <<>>)>> ELSE <<>>
       [] Len(buf) >= 2 /\ first.ok /\ buf[1] = "T" -> <<Change("T", <<>>, <<>>, <<>>)>>

DecodeRelation(buf) == SubSeq(buf, 4, 3 + buf[3])

-----------------------------------------------------------------------------
(* Rel *)

\* Assignments and conditions are functions from columns to cells.
Given(t) == {c \in Columns : t[c] # Toast}
Part(t, cols) == [c \in cols |-> t[c]]
Matches(r, w) == \A c \in DOMAIN w : r[c] = w[c]
KeyColumns == {c \in Columns : rel[c] = 1}

\* Mutant: the new tuple is asked for the key first.
WhereNewFirst(m) ==
  IF m.old # <<>> THEN <<Part(m.old[1], Given(m.old[1]))>>
  ELSE LET t == IF m.new # <<>> THEN m.new[1] ELSE m.key[1]
       IN IF \E c \in KeyColumns : t[c] = Toast THEN <<>> ELSE <<Part(t, KeyColumns)>>

\* where_clause: the given cells of the old row, else the key columns of the old key, else
\* those of the new row; <<>> is an error.
Where(m) ==
  IF m.old # <<>> THEN <<Part(m.old[1], Given(m.old[1]))>>
  ELSE LET t == IF m.key # <<>> THEN m.key[1] ELSE m.new[1]
       IN IF \E c \in KeyColumns : t[c] = Toast THEN <<>> ELSE <<Part(t, KeyColumns)>>

\* UPDATE ... SET s WHERE w and DELETE ... WHERE w, on a bag.
Assign(r, s) == [c \in Columns |-> IF c \in DOMAIN s THEN s[c] ELSE r[c]]
UpdateWhere(b, w, s) ==
  [r \in Rows |-> (IF Matches(r, w) THEN 0 ELSE b[r])
                  + Cardinality({c \in Copies(b) : Matches(c[1], w) /\ Assign(c[1], s) = r})]
DeleteWhere(b, w) == [r \in Rows |-> IF Matches(r, w) THEN 0 ELSE b[r]]

\* Mutant: cells that did not change are written as NULL.
SetAll(t) == [c \in Columns |-> IF t[c] = Toast THEN Null ELSE t[c]]

\* update_sql: only the cells the message gives are assigned.
Set(t) == Part(t, Given(t))

\* The table after a message: <<>> when it halts the replica, else <<table>>.
Applied(b, m) ==
  CASE m.op = "I" -> IF Given(m.new[1]) = Columns THEN <<Plus(b, m.new[1])>> ELSE <<>>
    [] m.op = "U" -> IF Where(m) = <<>> \/ DOMAIN Set(m.new[1]) = {} THEN <<>>
                     ELSE <<UpdateWhere(b, Where(m)[1], Set(m.new[1]))>>
    [] m.op = "D" -> IF Where(m) = <<>> THEN <<>> ELSE <<DeleteWhere(b, Where(m)[1])>>
    [] m.op = "T" -> <<Empty>>

-----------------------------------------------------------------------------
(* copy_tables *)

InitRows ==
  /\ identity = "d"
  /\ up = Empty /\ local = Empty /\ todo = Empty /\ batch = Empty
  /\ rel = <<>> /\ wire = <<>> /\ status = "new" /\ doubled = FALSE

\* The snapshot, in which introspect found a key or REPLICA IDENTITY FULL.
Snapshot ==
  /\ status = "new"
  /\ identity' \in Identities /\ up' \in Tables(identity')
  /\ todo' = up' /\ status' = "copy"
  /\ UNCHANGED <<local, batch, rel, wire, doubled>>

\* A chunk of COPY OUT is a row; a full batch is a COPY IN of its own.
CopyRow ==
  /\ status = "copy"
  /\ \E r \in Rows :
       /\ todo[r] > 0
       /\ todo' = Minus(todo, r)
       /\ IF Total(batch) + 1 >= MaxBatch
          THEN local' = Join(local, Plus(batch, r)) /\ batch' = Empty
          ELSE local' = local /\ batch' = Plus(batch, r)
  /\ UNCHANGED <<identity, up, rel, wire, status, doubled>>

\* The rest of the batch; the stream begins with the Relation message of the table.
CopyEnds ==
  /\ status = "copy" /\ todo = Empty
  /\ local' = Join(local, batch) /\ batch' = Empty
  /\ wire' = EncodeRelation(Flags) /\ rel' = DecodeRelation(wire')
  /\ status' = "stream"
  /\ UNCHANGED <<identity, up, todo, doubled>>

-----------------------------------------------------------------------------
(* Changes *)

\* Decode, apply; an error ends the stream for good.  What follows on a change to one of
\* several equal rows is not explored.
Receive(m) ==
  /\ ~doubled
  /\ wire' = Encode(m)
  /\ LET got == Decode(wire')
         t == IF got = <<>> THEN <<>> ELSE Applied(local, got[1])
     IN IF t = <<>> THEN status' = "halted" /\ local' = local
                    ELSE status' = status /\ local' = t[1]
  /\ UNCHANGED <<identity, todo, batch, rel>>

Insert(r) ==
  /\ status = "stream" /\ Plus(up, r) \in Tables(identity)
  /\ up' = Plus(up, r) /\ doubled' = doubled
  /\ Receive(Change("I", <<>>, <<>>, <<r>>))

Update(q, r) ==
  /\ status = "stream" /\ up[q] > 0 /\ Plus(Minus(up, q), r) \in Tables(identity)
  /\ up' = Plus(Minus(up, q), r) /\ doubled' = (doubled \/ up[q] > 1)
  /\ \E m \in Updates(q, r) : Receive(m)

Delete(r) ==
  /\ status = "stream" /\ up[r] > 0
  /\ up' = Minus(up, r) /\ doubled' = (doubled \/ up[r] > 1)
  /\ Receive(Change("D", IF identity = "d" THEN <<KeyOnly(r)>> ELSE <<>>,
                    IF identity = "f" THEN <<r>> ELSE <<>>, <<>>))

Truncate ==
  /\ status = "stream"
  /\ up' = Empty /\ doubled' = doubled
  /\ Receive(Change("T", <<>>, <<>>, <<>>))

NextRows ==
  \/ Snapshot \/ CopyRow \/ CopyEnds \/ Truncate
  \/ \E r \in Rows : Insert(r) \/ Delete(r) \/ \E q \in Rows : Update(q, r)

-----------------------------------------------------------------------------
(* Properties *)

\* Every row change, and the copy in batches, leaves the local table equal to the upstream
\* one; unless a change hit one of several equal rows, where WHERE hits them all.
Mirrors == status = "stream" /\ ~doubled => local = up

\* decode reads every message back as it was, and refuses one that was cut off.
ReadsBack ==
  status = "stream" /\ wire[1] # "R" =>
    /\ Decode(wire) # <<>> /\ Encode(Decode(wire)[1]) = wire
    /\ \A n \in 0..(Len(wire) - 1) : Decode(SubSeq(wire, 1, n)) = <<>>

\* Only an update that sends every cell as unchanged stops the replica ("update with no
\* assignable columns"), and such an update changes nothing.
StopsOnlyOnNoop ==
  status = "halted" => /\ Decode(wire) # <<>> /\ Decode(wire)[1].op = "U"
                       /\ Given(Decode(wire)[1].new[1]) = {}
                       /\ ~doubled => local = up
=============================================================================
