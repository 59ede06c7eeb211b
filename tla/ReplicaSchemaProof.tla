------------------------- MODULE ReplicaSchemaProof -------------------------
(***************************************************************************)
(* ValuesKept, for every number of tables, columns, transactions, lost     *)
(* connections and restarts.  Three things carry it.  The upstream does    *)
(* not use a name again, so that what a plan drops is gone for good, at    *)
(* whatever distance the catalog is ahead of the stream.  A row is read    *)
(* with the columns it was sent with, since the server announces a table   *)
(* again after every change to it.  And a table is made anew only if the   *)
(* fingerprint does not know it, which then has no row of it here.         *)
(***************************************************************************)
EXTENDS ReplicaSchema, SequenceTheorems, TLAPS

TableSet == Range(Tables)
Shape == [n : Names, ty : Int]
Column == [n : Names, ty : Int, id : Int]
Row1 == [t : TableSet, oid : Int, cols : Seq(Column) \ {<<>>}]
OpNames == {"insert", "mixed", "add", "drop", "rename", "retype", "create", "unkeyed", "remove", "empty"}
Entry == [op : OpNames, t : TableSet, msgs : Seq(Row1 \cup {Signal}), signalled : BOOLEAN]
TableType == [oid : Int, keyed : BOOLEAN, cols : Seq(Column) \ {<<>>}]
Prints(f) == \A t \in DOMAIN f : f[t] \in Seq(Shape)

\* The rows of the i-th upstream transaction.
RowsOf(i) == Range(wal[i].msgs) \ {Signal}

SchemaTypes ==
  /\ DOMAIN up \subseteq TableSet
  /\ \A t \in DOMAIN up : up[t] \in TableType
  /\ wal \in Seq(Entry)
  /\ slot \in Nat /\ wm \in Nat /\ cur \in Nat /\ pos \in Nat
  /\ \A t \in DOMAIN local : local[t] \in [cols : SUBSET Shape, rows : SUBSET [tx : Int, has : SUBSET Names]]
  /\ Prints(stored) /\ Prints(started) /\ Prints(expected) /\ Prints(rels) /\ Prints(target)
  /\ sent \subseteq TableSet
  /\ buf \in Seq([t : TableSet, has : SUBSET Names])
  /\ mode \in {"stream", "resync", "relation", "halted"}
  /\ trusted \in BOOLEAN

Alive(t, n) == t \in DOMAIN up /\ n \in ColumnNames(up[t].cols)
Gone(t, n) == <<t>> \in gone \/ <<t, n>> \in gone
Known(t, n) == Alive(t, n) \/ Gone(t, n)
Existed(t) == t \in DOMAIN up \/ <<t>> \in gone

\* Names do not come back.
Once ==
  /\ \A t \in DOMAIN up : <<t>> \notin gone
  /\ \A t, n : Alive(t, n) => <<t, n>> \notin gone
  /\ \A t, n : <<t, n>> \in gone => Existed(t)
  /\ \A i \in DOMAIN wal : \A r \in RowsOf(i) :
       Existed(r.t) /\ \A c \in Range(r.cols) : Known(r.t, c.n)

\* No DDL on t in the transactions i to j.
Calm(t, i, j) == \A k \in i..j : wal[k].op = "insert" \/ wal[k].t # t

\* From transaction i on, until DDL on it, t has these columns.
Lasts(t, i, names) ==
  /\ \A j \in i..Len(wal) : \A q \in RowsOf(j) :
       q.t = t /\ Calm(t, i, j - 1) => ColumnNames(q.cols) = names
  /\ Calm(t, i, Len(wal)) => t \in DOMAIN up /\ ColumnNames(up[t].cols) = names

Stable == \A i \in DOMAIN wal : \A r \in RowsOf(i) : Lasts(r.t, i, ColumnNames(r.cols))

Positions ==
  /\ slot <= cur /\ wm <= cur /\ cur <= Len(wal)
  /\ IF cur < Len(wal) THEN pos <= Len(Tx.msgs) ELSE pos = 0

\* A fingerprint names what there was.
Recorded(f) == \A t \in DOMAIN f : Existed(t) /\ \A n \in ColumnNames(f[t]) : Known(t, n)

Prior ==
  /\ Recorded(stored) /\ Recorded(started) /\ Recorded(expected) /\ Recorded(target)
  /\ trusted => stored = expected

\* What has been announced on this connection is what the rows come with.
Announced ==
  mode # "halted" =>
    /\ DOMAIN rels \subseteq DOMAIN expected
    /\ mode \in {"resync", "relation"} => cur < Len(wal) /\ pos < Len(Tx.msgs)
    /\ mode = "resync" => Msg = Signal /\ \A t \in DOMAIN expected \ DOMAIN target : <<t>> \in gone
    /\ mode = "relation" =>
         /\ Msg # Signal /\ DOMAIN target = DOMAIN expected /\ Msg.t \in DOMAIN target
         /\ ColumnNames(target[Msg.t]) = ColumnNames(Msg.cols)
    /\ \A t \in sent \cap DOMAIN rels :
         (mode = "relation" /\ t = Msg.t) \/ Lasts(t, cur + 1, ColumnNames(rels[t]))

\* The rows of the open transaction are in the buffer.
Buffered ==
  mode # "halted" =>
    \A p \in 1..pos : LET m == Tx.msgs[p] IN
      m # Signal =>
        /\ m.t \in DOMAIN expected \/ <<m.t>> \in gone
        /\ \E b \in Range(buf) : b.t = m.t /\ b.has = ColumnNames(m.cols)

\* A plan drops what is gone, and makes what the fingerprint does not know.
PlanSafe ==
  mode \in {"resync", "relation"} => \A s \in plan :
    /\ s.op \in {"add", "drop", "droptable", "create", "error"}
    /\ s.op = "add" => s.c \in Shape
    /\ s.op = "create" => s.t \in DOMAIN target
    /\ s.op = "drop" => Gone(s.t, s.c.n)
    /\ s.op \in {"droptable", "create"} => <<s.t>> \in gone \/ s.t \notin DOMAIN expected

Kept ==
  trusted => \A i \in 1..cur : \A r \in RowsOf(i) :
    /\ r.t \in DOMAIN expected \/ <<r.t>> \in gone
    /\ \A c \in Range(r.cols) : Alive(r.t, c.n) =>
         r.t \in DOMAIN local /\ \E x \in local[r.t].rows : x.tx = i /\ c.n \in x.has

SchemaInv ==
  SchemaTypes /\ Once /\ Stable /\ Positions /\ Prior /\ Announced /\ Buffered /\ PlanSafe /\ Kept

-----------------------------------------------------------------------------
(* Sequences *)

\* What a sequence holds.
LEMMA RangeFacts ==
  ASSUME NEW S, NEW s \in Seq(S)
  PROVE  /\ Range(s) \subseteq S /\ DOMAIN s = 1..Len(s) /\ Len(s) \in Nat
         /\ \A i \in 1..Len(s) : s[i] \in Range(s) /\ s[i] \in S
         /\ \A x \in Range(s) : \E i \in 1..Len(s) : x = s[i]
         /\ s # <<>> => Len(s) > 0
<1>1. DOMAIN s = 1..Len(s) /\ Len(s) \in Nat /\ \A i \in 1..Len(s) : s[i] \in S
  OBVIOUS
<1>2. s # <<>> => Len(s) > 0
  OBVIOUS
<1> QED BY <1>1, <1>2 DEF Range

\* Sequences of none, one and two.
LEMMA FewFacts ==
  /\ \A S : <<>> \in Seq(S)
  /\ Range(<<>>) = {}
  /\ \A S : \A x \in S : <<x>> \in Seq(S) /\ Range(<<x>>) = {x}
  /\ \A S : \A x, y \in S : <<x, y>> \in Seq(S) /\ Range(<<x, y>>) = {x, y}
<1>1. ASSUME NEW S, NEW x \in S
      PROVE  <<x>> \in Seq(S) /\ Range(<<x>>) = {x}
  BY DEF Range
<1>2. ASSUME NEW S, NEW x \in S, NEW y \in S
      PROVE  <<x, y>> \in Seq(S) /\ Range(<<x, y>>) = {x, y}
  <2>1. DOMAIN <<x, y>> = 1..2 /\ <<x, y>> \in Seq(S)
    OBVIOUS
  <2>2. <<x, y>>[1] = x /\ <<x, y>>[2] = y
    OBVIOUS
  <2> QED BY <2>1, <2>2 DEF Range
<1>3. \A S : <<>> \in Seq(S)
  OBVIOUS
<1>4. Range(<<>>) = {}
  BY DEF Range
<1> QED BY <1>1, <1>2, <1>3, <1>4

\* Append puts one element behind the others.
LEMMA AppendFacts ==
  ASSUME NEW S, NEW s \in Seq(S), NEW e \in S
  PROVE  /\ Append(s, e) \in Seq(S) /\ Append(s, e) # <<>>
         /\ Len(Append(s, e)) = Len(s) + 1
         /\ \A i \in 1..Len(s) : Append(s, e)[i] = s[i]
         /\ Append(s, e)[Len(s) + 1] = e
         /\ Range(Append(s, e)) = Range(s) \cup {e}
<1>1. /\ Append(s, e) \in Seq(S)
      /\ Len(Append(s, e)) = Len(s) + 1
      /\ \A i \in 1..Len(s) : Append(s, e)[i] = s[i]
      /\ Append(s, e)[Len(s) + 1] = e
      /\ Len(s) \in Nat
  OBVIOUS
<1>2. Append(s, e) # <<>>
  BY <1>1
<1>3. DOMAIN s = 1..Len(s) /\ DOMAIN Append(s, e) = 1..(Len(s) + 1)
  BY <1>1
<1>4. Range(Append(s, e)) = Range(s) \cup {e}
  BY <1>1, <1>3 DEF Range
<1> QED BY <1>1, <1>2, <1>4

\* DROP COLUMN takes one column out.
LEMMA CutFacts ==
  ASSUME NEW S, NEW s \in Seq(S), Len(s) > 1, NEW i \in 1..Len(s)
  PROVE  /\ SubSeq(s, 1, i - 1) \o SubSeq(s, i + 1, Len(s)) \in Seq(S) \ {<<>>}
         /\ Range(SubSeq(s, 1, i - 1) \o SubSeq(s, i + 1, Len(s))) \subseteq Range(s)
<1> DEFINE a == SubSeq(s, 1, i - 1)
           b == SubSeq(s, i + 1, Len(s))
<1>1. Len(s) \in Nat /\ DOMAIN s = 1..Len(s)
  OBVIOUS
<1>2. a \in Seq(S) /\ Len(a) = i - 1 /\ \A j \in 1..(i - 1) : a[j] = s[j]
  <2>1. \A j \in 1..(i - 1) : s[j] \in S
    BY <1>1
  <2> QED BY <2>1, <1>1, SubSeqProperties
<1>3. b \in Seq(S) /\ Len(b) = Len(s) - i /\ \A j \in 1..(Len(s) - i) : b[j] = s[i + j]
  <2>1. \A j \in (i + 1)..Len(s) : s[j] \in S
    BY <1>1
  <2>2. i + 1 \in 1..(Len(s) + 1) /\ Len(s) \in i..Len(s)
    BY <1>1
  <2>3. b \in Seq(S)
    BY <2>1, SubSeqProperties
  <2>4. Len(b) = Len(s) - i
    <3>1. i + 1 \in Int /\ Len(s) \in Int
      BY <1>1
    <3>2. Len(b) = IF i + 1 <= Len(s) THEN Len(s) - (i + 1) + 1 ELSE 0
      BY <2>1, <3>1, SubSeqProperties
    <3>3. i \in Int /\ i <= Len(s)
      BY <1>1
    <3>4. (IF i + 1 <= Len(s) THEN Len(s) - (i + 1) + 1 ELSE 0) = Len(s) - i
      BY ONLY <3>1, <3>3
    <3> QED BY <3>2, <3>4
  <2>5. \A j \in 1..(Len(s) - i) : b[j] = s[i + j]
    <3> TAKE j \in 1..(Len(s) - i)
    <3>1. j \in 1..(Len(s) - (i + 1) + 1) /\ (i + 1) + j - 1 = i + j
      BY <1>1
    <3> QED BY <1>1, <2>1, <3>1, SubSeqProperties
  <2> QED BY <2>3, <2>4, <2>5
<1> HIDE DEF a, b
<1>4. a \o b \in Seq(S) /\ Len(a \o b) = Len(s) - 1
  <2>1. Len(a) + Len(b) = Len(s) - 1
    BY <1>1, <1>2, <1>3
  <2>2. a \o b \in Seq(S) /\ Len(a \o b) = Len(a) + Len(b)
    BY <1>2, <1>3, ConcatProperties
  <2> QED BY <2>1, <2>2
<1>5. \A j \in 1..(Len(s) - 1) : (a \o b)[j] = IF j <= i - 1 THEN a[j] ELSE b[j - (i - 1)]
  BY <1>1, <1>2, <1>3
<1>6. \A j \in 1..(Len(s) - 1) : \E k \in 1..Len(s) : (a \o b)[j] = s[k]
  <2> TAKE j \in 1..(Len(s) - 1)
  <2>1. CASE j <= i - 1
    BY <2>1, <1>1, <1>2, <1>5
  <2>2. CASE ~(j <= i - 1)
    <3>1. j - (i - 1) \in 1..(Len(s) - i) /\ i + (j - (i - 1)) \in 1..Len(s)
      BY <2>2, <1>1
    <3>2. (a \o b)[j] = s[i + (j - (i - 1))]
      BY <2>2, <3>1, <1>3, <1>5
    <3> QED BY <3>1, <3>2
  <2> QED BY <2>1, <2>2
<1>7. Range(a \o b) \subseteq Range(s)
  <2>1. DOMAIN (a \o b) = 1..(Len(s) - 1)
    BY <1>4
  <2> QED BY <1>1, <1>6, <2>1 DEF Range
<1>8. a \o b # <<>>
  BY <1>1, <1>4
<1> QED BY <1>4, <1>7, <1>8 DEF a, b

\* ALTER COLUMN TYPE changes nothing but the type.
LEMMA RetypeFacts ==
  ASSUME NEW s \in Seq(Column), NEW i \in 1..Len(s)
  PROVE  LET r == [s EXCEPT ![i].ty = 3 - @]
         IN /\ r \in Seq(Column) /\ Len(r) = Len(s)
            /\ \A c \in Range(r) : \E d \in Range(s) : c.n = d.n
<1> DEFINE r == [s EXCEPT ![i].ty = 3 - @]
<1>1. Len(s) \in Nat /\ DOMAIN s = 1..Len(s) /\ \A j \in 1..Len(s) : s[j] \in Column
  OBVIOUS
<1>2. r = [j \in 1..Len(s) |-> IF j = i THEN [s[j] EXCEPT !.ty = 3 - @] ELSE s[j]]
  BY <1>1
<1>3. \A j \in 1..Len(s) : r[j] \in Column /\ r[j].n = s[j].n
  <2> TAKE j \in 1..Len(s)
  <2>1. r[j] = IF j = i THEN [s[j] EXCEPT !.ty = 3 - @] ELSE s[j]
    BY <1>2
  <2>2. s[j] \in [n : Names, ty : Int, id : Int]
    BY <1>1 DEF Column
  <2>3. [s[j] EXCEPT !.ty = 3 - @] = [n |-> s[j].n, ty |-> 3 - s[j].ty, id |-> s[j].id]
    BY <2>2
  <2>4. s[j].n \in Names /\ s[j].ty \in Int /\ s[j].id \in Int
    BY <2>2
  <2> QED BY <2>1, <2>2, <2>3, <2>4 DEF Column
<1>4. r \in Seq(Column) /\ Len(r) = Len(s)
  BY <1>1, <1>2, <1>3
<1>5. DOMAIN r = 1..Len(s)
  BY <1>2
<1> HIDE DEF r
<1>6. \A c \in Range(r) : \E d \in Range(s) : c.n = d.n
  BY <1>1, <1>3, <1>5 DEF Range
<1> QED BY <1>4, <1>6 DEF r

\* RENAME COLUMN brings one name.
LEMMA RenameFacts ==
  ASSUME NEW s \in Seq(Column), NEW i \in 1..Len(s), NEW n \in Names
  PROVE  LET r == [s EXCEPT ![i].n = n]
         IN /\ r \in Seq(Column) /\ Len(r) = Len(s)
            /\ \A c \in Range(r) : c.n = n \/ \E d \in Range(s) : c.n = d.n
<1> DEFINE r == [s EXCEPT ![i].n = n]
<1>1. Len(s) \in Nat /\ DOMAIN s = 1..Len(s) /\ \A j \in 1..Len(s) : s[j] \in Column
  OBVIOUS
<1>2. r = [j \in 1..Len(s) |-> IF j = i THEN [s[j] EXCEPT !.n = n] ELSE s[j]]
  BY <1>1
<1>3. \A j \in 1..Len(s) : r[j] \in Column /\ (r[j].n = n \/ r[j].n = s[j].n)
  <2> TAKE j \in 1..Len(s)
  <2>1. r[j] = IF j = i THEN [s[j] EXCEPT !.n = n] ELSE s[j]
    BY <1>2
  <2>2. s[j] \in [n : Names, ty : Int, id : Int]
    BY <1>1 DEF Column
  <2>3. [s[j] EXCEPT !.n = n] = [n |-> n, ty |-> s[j].ty, id |-> s[j].id]
    BY <2>2
  <2>4. s[j].n \in Names /\ s[j].ty \in Int /\ s[j].id \in Int
    BY <2>2
  <2> QED BY <2>1, <2>2, <2>3, <2>4 DEF Column
<1>4. r \in Seq(Column) /\ Len(r) = Len(s)
  BY <1>1, <1>2, <1>3
<1>5. DOMAIN r = 1..Len(s)
  BY <1>2
<1> HIDE DEF r
<1>6. \A c \in Range(r) : c.n = n \/ \E d \in Range(s) : c.n = d.n
  BY <1>1, <1>3, <1>5 DEF Range
<1> QED BY <1>4, <1>6 DEF r

\* The fingerprint of a table has its column names.
LEMMA LineFacts ==
  ASSUME NEW cols \in Seq(Column)
  PROVE  /\ FingerprintLine(cols) \in Seq(Shape)
         /\ ColumnNames(FingerprintLine(cols)) = ColumnNames(cols)
         /\ ColumnNames(cols) \subseteq Names
<1>1. Len(cols) \in Nat /\ DOMAIN cols = 1..Len(cols) /\ \A j \in 1..Len(cols) : cols[j] \in Column
  OBVIOUS
<1>2. FingerprintLine(cols) = [i \in 1..Len(cols) |-> [n |-> cols[i].n, ty |-> cols[i].ty]]
  BY <1>1 DEF FingerprintLine
<1>3. \A i \in 1..Len(cols) : FingerprintLine(cols)[i] \in Shape /\ FingerprintLine(cols)[i].n = cols[i].n
  BY <1>1, <1>2 DEF Column, Shape
<1>4. FingerprintLine(cols) \in Seq(Shape) /\ DOMAIN FingerprintLine(cols) = 1..Len(cols)
  BY <1>1, <1>2, <1>3
<1>5. ColumnNames(FingerprintLine(cols)) = ColumnNames(cols)
  BY <1>1, <1>3, <1>4 DEF ColumnNames, Range
<1>6. ColumnNames(cols) \subseteq Names
  BY <1>1 DEF ColumnNames, Range, Column
<1> QED BY <1>4, <1>5, <1>6

-----------------------------------------------------------------------------
(* The upstream *)

\* What a transaction e of the upstream does to the table t.
Changed(t, e) ==
  /\ t \in TableSet /\ e \in Entry /\ e.t = t /\ wal' = Append(wal, e)
  /\ \A r \in Range(e.msgs) \ {Signal} : t \in DOMAIN up /\ r.t = t /\ r.cols = up[t].cols
  /\ \A u : u # t \/ e.op = "insert" =>
       (u \in DOMAIN up' <=> u \in DOMAIN up) /\ (u \in DOMAIN up => up'[u] = up[u])
  /\ t \in DOMAIN up' =>
       /\ up'[t] \in TableType
       /\ \A c \in Range(up'[t].cols) :
            \/ t \in DOMAIN up /\ \E d \in Range(up[t].cols) : d.n = c.n
            \/ ~Known(t, c.n)
  /\ gone \subseteq gone'
  /\ \A u : <<u>> \in gone' => <<u>> \in gone \/ (u = t /\ t \notin DOMAIN up')
  /\ \A u, n : <<u, n>> \in gone' =>
       \/ <<u, n>> \in gone
       \/ u = t /\ t \in DOMAIN up' /\ n \notin ColumnNames(up'[t].cols)
  /\ t \in DOMAIN up => t \in DOMAIN up' \/ <<t>> \in gone'
  /\ t \in DOMAIN up' => <<t>> \notin gone
  /\ \A n : Alive(t, n) => Alive(t, n)' \/ Gone(t, n)'

\* ALTER TABLE t, whose columns become cols.
LEMMA AlterChanges ==
  ASSUME SchemaTypes, Once, NEW t \in DOMAIN up, NEW op \in OpNames, op # "insert", NEW cols,
         cols \in Seq(Column) \ {<<>>}, Alter(op, t, cols),
         \A c \in Range(cols) :
            (\E d \in Range(up[t].cols) : d.n = c.n) \/ ~Known(t, c.n)
  PROVE  \E e : e.op # "insert" /\ Changed(t, e)
<1>0. t \in TableSet /\ up[t] \in TableType /\ DOMAIN up \subseteq TableSet
  BY DEF SchemaTypes
<1>1. Row(t) \in Row1 /\ Row(t).t = t /\ Row(t).cols = up[t].cols
  BY <1>0 DEF Row, Row1, TableType
<1>2. up' = [up EXCEPT ![t].cols = cols]
      /\ gone' = gone \cup {<<t, n>> : n \in ColumnNames(up[t].cols) \ ColumnNames(cols)}
  BY DEF Alter
<1>3. DOMAIN up' = DOMAIN up /\ up'[t].cols = cols /\ up'[t] \in TableType
      /\ \A u \in DOMAIN up : u # t => up'[u] = up[u]
  <2>1. up'[t] = [up[t] EXCEPT !.cols = cols]
    BY <1>2
  <2> QED BY <1>0, <1>2, <2>1 DEF TableType
<1>4. PICK e : /\ e \in Entry /\ e.t = t /\ e.op # "insert" /\ wal' = Append(wal, e)
               /\ \A r \in Range(e.msgs) \ {Signal} : r = Row(t)
  <2> DEFINE entry(o, m, s) == [op |-> o, t |-> t, msgs |-> m, signalled |-> s]
             fits(o, m, s) == /\ o \in OpNames /\ o # "insert" /\ s \in BOOLEAN
                              /\ m \in Seq(Row1 \cup {Signal}) /\ Range(m) \ {Signal} \subseteq {Row(t)}
                              /\ wal' = Append(wal, entry(o, m, s))
  <2>1. \A s \in BOOLEAN : LET m == IF s THEN <<Signal>> ELSE <<>>
                           IN m \in Seq(Row1 \cup {Signal}) /\ Range(m) \ {Signal} = {}
    BY FewFacts
  <2>2. LET m == <<Row(t), Signal>>
        IN m \in Seq(Row1 \cup {Signal}) /\ Range(m) \ {Signal} \subseteq {Row(t)}
    <3> DEFINE S == Row1 \cup {Signal}
               r == Row(t)
    <3>1. r \in S /\ Signal \in S
      BY <1>1
    <3> HIDE DEF S, r
    <3>2. <<r, Signal>> \in Seq(S) /\ Range(<<r, Signal>>) = {r, Signal}
      BY <3>1, FewFacts
    <3> QED BY <3>2 DEF S, r
  <2>3. ASSUME Commit("mixed", t, <<Row(t), Signal>>, TRUE)
        PROVE  \E o, m, s : fits(o, m, s)
    <3>1. "mixed" \in OpNames /\ "mixed" # "insert"
      BY DEF OpNames
    <3>2. fits("mixed", <<Row(t), Signal>>, TRUE)
      BY <2>2, <2>3, <3>1 DEF Commit
    <3> HIDE DEF fits
    <3> QED BY <3>2
  <2>4. ASSUME \E s \in Signals : Commit(op, t, IF s THEN <<Signal>> ELSE <<>>, s)
        PROVE  \E o, m, s : fits(o, m, s)
    <3>1. PICK s \in Signals : Commit(op, t, IF s THEN <<Signal>> ELSE <<>>, s)
      BY <2>4
    <3>2. s \in BOOLEAN
      BY SchemaAssumption
    <3>3. fits(op, IF s THEN <<Signal>> ELSE <<>>, s)
      BY <2>1, <3>1, <3>2 DEF Commit
    <3> HIDE DEF fits
    <3> QED BY <3>3
  <2>5. \E o, m, s : fits(o, m, s)
    <3> HIDE DEF fits
    <3> QED BY <2>3, <2>4 DEF Alter
  <2>6. PICK o, m, s : fits(o, m, s)
    BY <2>5
  <2> DEFINE e == entry(o, m, s)
  <2>7. e \in Entry /\ e.t = t /\ e.op = o /\ e.msgs = m
    BY <2>6, <1>0 DEF Entry
  <2> HIDE DEF e
  <2>8. wal' = Append(wal, e)
    BY <2>6 DEF e
  <2> QED BY <2>6, <2>7, <2>8
<1>5. /\ gone \subseteq gone'
      /\ \A u : <<u>> \in gone' => <<u>> \in gone
      /\ \A u, n : <<u, n>> \in gone' => <<u, n>> \in gone \/ (u = t /\ n \notin ColumnNames(cols))
      /\ \A n \in ColumnNames(up[t].cols) : n \in ColumnNames(cols) \/ <<t, n>> \in gone'
  BY <1>2
<1>6. <<t>> \notin gone
  BY DEF Once
<1>7. \A n : Alive(t, n) => Alive(t, n)' \/ Gone(t, n)'
  BY <1>3, <1>5 DEF Alive, Gone
<1>8. Changed(t, e)
  BY <1>0, <1>1, <1>3, <1>4, <1>5, <1>6, <1>7 DEF Changed
<1> QED BY <1>4, <1>8

\* Every action of the upstream is such a transaction.
LEMMA UpstreamChanges ==
  ASSUME SchemaTypes, Once, Upstream
  PROVE  \E t, e : Changed(t, e)
<1>0. /\ DOMAIN up \subseteq TableSet /\ \A t \in DOMAIN up : up[t] \in TableType
      /\ wal \in Seq(Entry) /\ Len(wal) \in Nat
  BY DEF SchemaTypes
<1>1. CASE UpstreamInsert
  <2>1. PICK t \in DOMAIN up : Commit("insert", t, <<Row(t)>>, TRUE)
    BY <1>1 DEF UpstreamInsert
  <2>2. up' = up /\ gone' = gone
    BY <1>1 DEF UpstreamInsert
  <2>3. Row(t) \in Row1 /\ Row(t).t = t /\ Row(t).cols = up[t].cols
    BY <1>0 DEF Row, Row1, TableType
  <2> DEFINE e == [op |-> "insert", t |-> t, msgs |-> <<Row(t)>>, signalled |-> TRUE]
  <2>4. e \in Entry /\ e.t = t /\ Range(e.msgs) = {Row(t)}
    <3>1. <<Row(t)>> \in Seq(Row1 \cup {Signal}) /\ Range(<<Row(t)>>) = {Row(t)}
      BY <2>3, FewFacts
    <3> QED BY <1>0, <3>1 DEF Entry, OpNames
  <2>5. wal' = Append(wal, e)
    BY <2>1 DEF Commit
  <2>6. <<t>> \notin gone
    BY DEF Once
  <2>7. \A n : Alive(t, n)' <=> Alive(t, n)
    BY <2>2 DEF Alive
  <2> HIDE DEF e
  <2>8. Changed(t, e)
    BY <1>0, <2>2, <2>3, <2>4, <2>5, <2>6, <2>7 DEF Changed
  <2> QED BY <2>8
<1>2. CASE UpstreamAlter
  <2>1. PICK t \in DOMAIN up :
         LET cols == up[t].cols IN
         \/ /\ "add" \in Ops
            /\ \E n \in Names :
                 /\ n \notin ColumnNames(cols) /\ <<t, n>> \notin gone
                 /\ Alter("add", t, Append(cols, [n |-> n, ty |-> 1, id |-> Len(wal) + 1]))
         \/ /\ "drop" \in Ops /\ Len(cols) > 1
            /\ \E i \in DOMAIN cols : Alter("drop", t, SubSeq(cols, 1, i - 1) \o SubSeq(cols, i + 1, Len(cols)))
         \/ /\ "rename" \in Ops
            /\ \E i \in DOMAIN cols, n \in Names :
                 /\ n \notin ColumnNames(cols) /\ <<t, n>> \notin gone
                 /\ Alter("rename", t, [cols EXCEPT ![i].n = n])
         \/ /\ "retype" \in Ops
            /\ \E i \in DOMAIN cols :
                 Alter("retype", t, [cols EXCEPT ![i].ty = 3 - @])
    BY <1>2 DEF UpstreamAlter
  <2> DEFINE cols == up[t].cols
  <2>2. cols \in Seq(Column) /\ cols # <<>> /\ DOMAIN cols = 1..Len(cols)
    BY <1>0, RangeFacts DEF TableType
  <2>4. CASE \E n \in Names :
               /\ n \notin ColumnNames(cols) /\ <<t, n>> \notin gone
               /\ Alter("add", t, Append(cols, [n |-> n, ty |-> 1, id |-> Len(wal) + 1]))
    <3>1. PICK n \in Names :
               /\ n \notin ColumnNames(cols) /\ <<t, n>> \notin gone
               /\ Alter("add", t, Append(cols, [n |-> n, ty |-> 1, id |-> Len(wal) + 1]))
      BY <2>4
    <3> DEFINE x == [n |-> n, ty |-> 1, id |-> Len(wal) + 1]
               new == Append(cols, x)
    <3>2. x \in Column /\ x.n = n
      BY <1>0 DEF Column
    <3>3. ~Known(t, n)
      BY <3>1 DEF Known, Alive, Gone, Once
    <3> HIDE DEF x, cols
    <3>4. new \in Seq(Column) \ {<<>>} /\ Range(new) = Range(cols) \cup {x}
      BY <2>2, <3>2, AppendFacts
    <3>5. \A c \in Range(new) : (\E d \in Range(cols) : d.n = c.n) \/ ~Known(t, c.n)
      BY <3>2, <3>3, <3>4
    <3>6. Alter("add", t, new)
      BY <3>1 DEF x, cols
    <3> HIDE DEF new
    <3>7. \E e : e.op # "insert" /\ Changed(t, e)
      BY <3>4, <3>5, <3>6, AlterChanges DEF cols, OpNames
    <3> QED BY <3>7
  <2>5. CASE Len(cols) > 1 /\ \E i \in DOMAIN cols :
               Alter("drop", t, SubSeq(cols, 1, i - 1) \o SubSeq(cols, i + 1, Len(cols)))
    <3>1. PICK i \in DOMAIN cols :
               Alter("drop", t, SubSeq(cols, 1, i - 1) \o SubSeq(cols, i + 1, Len(cols)))
      BY <2>5
    <3> DEFINE new == SubSeq(cols, 1, i - 1) \o SubSeq(cols, i + 1, Len(cols))
    <3> HIDE DEF cols
    <3>2. new \in Seq(Column) \ {<<>>} /\ Range(new) \subseteq Range(cols)
      <4>1. cols \in Seq(Column) /\ Len(cols) > 1 /\ i \in 1..Len(cols)
        BY <2>2, <2>5
      <4> QED BY <4>1, CutFacts
    <3> HIDE DEF new
    <3>3. Alter("drop", t, new)
      BY <3>1 DEF new
    <3>4. \E e : e.op # "insert" /\ Changed(t, e)
      BY <3>2, <3>3, AlterChanges DEF cols, OpNames
    <3> QED BY <3>4
  <2>6. CASE \E i \in DOMAIN cols : Alter("retype", t, [cols EXCEPT ![i].ty = 3 - @])
    <3>1. PICK i \in DOMAIN cols : Alter("retype", t, [cols EXCEPT ![i].ty = 3 - @])
      BY <2>6
    <3> DEFINE new == [cols EXCEPT ![i].ty = 3 - @]
    <3> HIDE DEF cols
    <3>2. /\ new \in Seq(Column) /\ Len(new) = Len(cols)
          /\ \A c \in Range(new) : \E d \in Range(cols) : c.n = d.n
      BY <2>2, RetypeFacts
    <3>3. Alter("retype", t, new)
      BY <3>1
    <3> HIDE DEF new
    <3>4. new # <<>>
      BY <2>2, <3>2
    <3>5. \E e : e.op # "insert" /\ Changed(t, e)
      BY <3>2, <3>3, <3>4, AlterChanges DEF cols, OpNames
    <3> QED BY <3>5
  <2>7. CASE \E i \in DOMAIN cols, n \in Names :
               /\ n \notin ColumnNames(cols) /\ <<t, n>> \notin gone
               /\ Alter("rename", t, [cols EXCEPT ![i].n = n])
    <3>1. PICK i \in DOMAIN cols, n \in Names :
               /\ n \notin ColumnNames(cols) /\ <<t, n>> \notin gone
               /\ Alter("rename", t, [cols EXCEPT ![i].n = n])
      BY <2>7
    <3>2. ~Known(t, n)
      BY <3>1 DEF Known, Alive, Gone, Once
    <3> DEFINE new == [cols EXCEPT ![i].n = n]
    <3> HIDE DEF cols
    <3>3. /\ new \in Seq(Column) /\ Len(new) = Len(cols)
          /\ \A c \in Range(new) : c.n = n \/ \E d \in Range(cols) : c.n = d.n
      BY <2>2, RenameFacts
    <3>4. Alter("rename", t, new)
      BY <3>1
    <3> HIDE DEF new
    <3>5. new # <<>>
      BY <2>2, <3>3
    <3>6. \A c \in Range(new) : (\E d \in Range(cols) : d.n = c.n) \/ ~Known(t, c.n)
      BY <3>2, <3>3
    <3>7. \E e : e.op # "insert" /\ Changed(t, e)
      BY <3>3, <3>4, <3>5, <3>6, AlterChanges DEF cols, OpNames
    <3> QED BY <3>7
  <2> QED BY <2>1, <2>4, <2>5, <2>6, <2>7
<1>3. CASE UpstreamTable
  <2>1. PICK t \in TableSet, s \in Signals :
         LET msgs == IF s THEN <<Signal>> ELSE <<>> IN
         \/ \E op \in {"create", "unkeyed"} \cap Ops :
              /\ t \notin DOMAIN up /\ <<t>> \notin gone
              /\ up' = With(up, t, NewTable(op = "create", Len(wal) + 1))
              /\ gone' = gone
              /\ Commit(op, t, msgs, s)
         \/ /\ "remove" \in Ops /\ t \in DOMAIN up
            /\ up' = Without(up, t) /\ gone' = gone \cup {<<t>>}
            /\ Commit(IF DOMAIN up = {t} THEN "empty" ELSE "remove", t, msgs, s)
    BY <1>3 DEF UpstreamTable, TableSet
  <2> DEFINE m == IF s THEN <<Signal>> ELSE <<>>
  <2>2. m \in Seq(Row1 \cup {Signal}) /\ Range(m) \ {Signal} = {}
    BY FewFacts
  <2>3. s \in BOOLEAN
    BY SchemaAssumption
  <2>4. CASE \E op \in {"create", "unkeyed"} \cap Ops :
              /\ t \notin DOMAIN up /\ <<t>> \notin gone
              /\ up' = With(up, t, NewTable(op = "create", Len(wal) + 1))
              /\ gone' = gone
              /\ Commit(op, t, m, s)
    <3>1. PICK op \in {"create", "unkeyed"} :
              /\ t \notin DOMAIN up /\ <<t>> \notin gone
              /\ up' = With(up, t, NewTable(op = "create", Len(wal) + 1))
              /\ gone' = gone
              /\ Commit(op, t, m, s)
      BY <2>4
    <3> DEFINE e == [op |-> op, t |-> t, msgs |-> m, signalled |-> s]
               k == CHOOSE n \in Names : TRUE
               x == [n |-> k, ty |-> 1, id |-> Len(wal) + 1]
    <3> HIDE DEF m
    <3>2. e \in Entry /\ e.t = t /\ e.op # "insert" /\ e.msgs = m
      BY <2>2, <2>3 DEF Entry, OpNames
    <3>3. wal' = Append(wal, e)
      BY <3>1 DEF Commit
    <3>4. k \in Names
      BY SchemaAssumption
    <3> HIDE DEF k
    <3>5. x \in Column /\ x.id = Len(wal) + 1
      BY <1>0, <3>4 DEF Column
    <3>6. NewTable(op = "create", Len(wal) + 1) = [oid |-> Len(wal) + 1, keyed |-> op = "create", cols |-> <<x>>]
      BY DEF NewTable, k
    <3> HIDE DEF x, e
    <3>7. up'[t] = [oid |-> Len(wal) + 1, keyed |-> op = "create", cols |-> <<x>>]
          /\ DOMAIN up' = DOMAIN up \cup {t} /\ \A u \in DOMAIN up : up'[u] = up[u]
      BY <3>1, <3>6 DEF With
    <3>8. up'[t] \in TableType /\ Range(up'[t].cols) = {x}
      BY <1>0, <3>5, <3>7 DEF TableType, Range
    <3>9. ~Known(t, x.n)
      BY <3>1 DEF Known, Alive, Gone, Once, Existed
    <3>10. \A n : ~Alive(t, n)
      BY <3>1 DEF Alive
    <3>11. Changed(t, e)
      BY <1>0, <2>2, <3>1, <3>2, <3>3, <3>5, <3>7, <3>8, <3>9, <3>10 DEF Changed
    <3> QED BY <3>11
  <2>5. CASE /\ t \in DOMAIN up
             /\ up' = Without(up, t) /\ gone' = gone \cup {<<t>>}
             /\ Commit(IF DOMAIN up = {t} THEN "empty" ELSE "remove", t, m, s)
    <3> DEFINE op == IF DOMAIN up = {t} THEN "empty" ELSE "remove"
               e == [op |-> op, t |-> t, msgs |-> m, signalled |-> s]
    <3> HIDE DEF m
    <3>1. e \in Entry /\ e.t = t /\ e.op # "insert" /\ e.msgs = m
      BY <2>2, <2>3 DEF Entry, OpNames
    <3>2. wal' = Append(wal, e)
      BY <2>5 DEF Commit
    <3> HIDE DEF op, e
    <3>3. DOMAIN up' = DOMAIN up \ {t} /\ \A u \in DOMAIN up \ {t} : up'[u] = up[u]
      BY <2>5 DEF Without
    <3>4. \A n : Gone(t, n)'
      BY <2>5 DEF Gone
    <3>5. /\ \A u : <<u>> \in gone' => <<u>> \in gone \/ u = t
          /\ \A u, n : <<u, n>> \in gone' => <<u, n>> \in gone
      BY <2>5
    <3>6. Changed(t, e)
      BY <1>0, <2>2, <2>5, <3>1, <3>2, <3>3, <3>4, <3>5 DEF Changed
    <3> QED BY <3>6
  <2> QED BY <2>1, <2>4, <2>5
<1> QED BY <1>1, <1>2, <1>3 DEF Upstream

\* The log grows by that transaction.
LEMMA WalGrows ==
  ASSUME SchemaTypes, NEW t, NEW e, Changed(t, e)
  PROVE  /\ wal' \in Seq(Entry) /\ Len(wal') = Len(wal) + 1 /\ Len(wal) \in Nat
         /\ \A i \in 1..Len(wal) : wal'[i] = wal[i] /\ RowsOf(i)' = RowsOf(i)
         /\ wal'[Len(wal) + 1] = e
         /\ \A i \in Int : i > Len(wal) /\ i <= Len(wal) + 1 =>
              wal'[i] = e /\ RowsOf(i)' = Range(e.msgs) \ {Signal}
         /\ DOMAIN wal = 1..Len(wal) /\ DOMAIN wal' = 1..(Len(wal) + 1)
<1>1. wal \in Seq(Entry) /\ e \in Entry /\ wal' = Append(wal, e)
  BY DEF SchemaTypes, Changed
<1>2. /\ wal' \in Seq(Entry) /\ Len(wal') = Len(wal) + 1 /\ Len(wal) \in Nat
      /\ \A i \in 1..Len(wal) : wal'[i] = wal[i]
      /\ wal'[Len(wal) + 1] = e
  BY <1>1
<1>3. \A i : RowsOf(i)' = Range(wal'[i].msgs) \ {Signal}
  BY DEF RowsOf, Signal
<1>4. DOMAIN wal = 1..Len(wal) /\ DOMAIN wal' = 1..(Len(wal) + 1)
  BY <1>1, <1>2, RangeFacts
<1>5. \A i \in Int : i > Len(wal) /\ i <= Len(wal) + 1 => i = Len(wal) + 1
  BY <1>2
<1> QED BY <1>2, <1>3, <1>4, <1>5 DEF RowsOf

\* A name does not come back.
LEMMA NamesStay ==
  ASSUME SchemaTypes, Once, NEW t, NEW e, Changed(t, e)
  PROVE  \A u : /\ <<u>> \in gone => <<u>> \in gone'
                /\ Existed(u) => Existed(u)'
                /\ \A n : /\ Gone(u, n) => Gone(u, n)'
                          /\ Known(u, n) => Known(u, n)'
                          /\ Alive(u, n)' /\ Known(u, n) => Alive(u, n)
<1>1. gone \subseteq gone'
  BY DEF Changed
<1>2. \A u : Existed(u) => Existed(u)'
  <2> SUFFICES ASSUME NEW u, Existed(u)
               PROVE  Existed(u)'
    OBVIOUS
  <2>1. CASE u # t
    BY <1>1, <2>1 DEF Changed, Existed
  <2>2. CASE u = t
    BY <1>1, <2>2 DEF Changed, Existed
  <2> QED BY <2>1, <2>2
<1>3. \A u, n : Gone(u, n) => Gone(u, n)'
  BY <1>1 DEF Gone
<1>4. \A u, n : Known(u, n) => Known(u, n)'
  <2> SUFFICES ASSUME NEW u, NEW n, Alive(u, n)
               PROVE  Alive(u, n)' \/ Gone(u, n)'
    BY <1>3 DEF Known
  <2>1. CASE u # t
    BY <2>1 DEF Changed, Alive
  <2>2. CASE u = t
    BY <2>2 DEF Changed
  <2> QED BY <2>1, <2>2
<1>5. \A u, n : Alive(u, n)' /\ Known(u, n) => Alive(u, n)
  <2> SUFFICES ASSUME NEW u, NEW n, Alive(u, n)', Known(u, n)
               PROVE  Alive(u, n)
    OBVIOUS
  <2>1. CASE u # t
    BY <2>1 DEF Changed, Alive
  <2>2. CASE u = t
    <3>1. PICK c \in Range(up'[t].cols) : c.n = n
      BY <2>2 DEF Alive, ColumnNames
    <3>2. t \in DOMAIN up /\ \E d \in Range(up[t].cols) : d.n = c.n
      BY <2>2, <3>1 DEF Changed, Alive
    <3> QED BY <2>2, <3>1, <3>2 DEF Alive, ColumnNames
  <2> QED BY <2>1, <2>2
<1> QED BY <1>1, <1>2, <1>3, <1>4, <1>5

\* The transactions of the log and their rows.
LEMMA LogFacts ==
  ASSUME SchemaTypes, NEW i \in DOMAIN wal
  PROVE  /\ wal[i] \in Entry /\ wal[i].msgs \in Seq(Row1 \cup {Signal})
         /\ \A r \in RowsOf(i) : r \in Row1 /\ r.cols \in Seq(Column) /\ Range(r.cols) \subseteq Column
         /\ \A r \in RowsOf(i) : \E p \in 1..Len(wal[i].msgs) : r = wal[i].msgs[p]
         /\ \A p \in 1..Len(wal[i].msgs) : wal[i].msgs[p] # Signal => wal[i].msgs[p] \in RowsOf(i)
<1>1. wal[i] \in Entry
  BY RangeFacts DEF SchemaTypes
<1>2. wal[i].msgs \in Seq(Row1 \cup {Signal})
  BY <1>1 DEF Entry
<1> DEFINE m == wal[i].msgs
<1> HIDE DEF m
<1>3. Range(m) \subseteq Row1 \cup {Signal} /\ \A r \in Range(m) : \E p \in 1..Len(m) : r = m[p]
  BY <1>2, RangeFacts DEF m
<1>4. \A p \in 1..Len(m) : m[p] \in Range(m)
  BY <1>2, RangeFacts DEF m
<1>5. RowsOf(i) = Range(m) \ {Signal}
  BY DEF RowsOf, m
<1>6. \A r \in Row1 : r.cols \in Seq(Column) /\ Range(r.cols) \subseteq Column
  BY RangeFacts DEF Row1
<1> QED BY <1>1, <1>2, <1>3, <1>4, <1>5, <1>6 DEF m

LEMMA OnceStays ==
  ASSUME SchemaTypes, Once, NEW t, NEW e, Changed(t, e)
  PROVE  Once'
<1> DEFINE L == Len(wal)
<1>1. /\ L \in Nat /\ Len(wal') = L + 1 /\ DOMAIN wal = 1..L /\ DOMAIN wal' = 1..(L + 1)
      /\ \A i \in 1..L : RowsOf(i)' = RowsOf(i)
      /\ \A i \in Int : i > L /\ i <= L + 1 => RowsOf(i)' = Range(e.msgs) \ {Signal}
  BY WalGrows
<1> HIDE DEF L
<1>2. \A u \in DOMAIN up' : <<u>> \notin gone'
  <2> TAKE u \in DOMAIN up'
  <2>1. CASE u # t
    BY <2>1 DEF Changed, Once
  <2>2. CASE u = t
    BY <2>2 DEF Changed, Once
  <2> QED BY <2>1, <2>2
<1>3. \A u, n : Alive(u, n)' => <<u, n>> \notin gone'
  <2> SUFFICES ASSUME NEW u, NEW n, Alive(u, n)', <<u, n>> \in gone'
               PROVE  FALSE
    OBVIOUS
  <2>1. CASE <<u, n>> \in gone
    <3>1. Alive(u, n)
      BY <2>1, NamesStay DEF Known, Gone
    <3> QED BY <2>1, <3>1 DEF Once
  <2>2. CASE u = t /\ n \notin ColumnNames(up'[t].cols)
    BY <2>2 DEF Alive, ColumnNames
  <2> QED BY <2>1, <2>2 DEF Changed
<1>4. \A u, n : <<u, n>> \in gone' => Existed(u)'
  <2> SUFFICES ASSUME NEW u, NEW n, <<u, n>> \in gone'
               PROVE  Existed(u)'
    OBVIOUS
  <2>1. CASE <<u, n>> \in gone
    BY <2>1, NamesStay DEF Once
  <2>2. CASE u = t /\ t \in DOMAIN up'
    BY <2>2 DEF Existed
  <2> QED BY <2>1, <2>2 DEF Changed
<1>5. ASSUME NEW i \in DOMAIN wal', NEW r, r \in RowsOf(i)'
      PROVE  Existed(r.t)' /\ \A c \in Range(r.cols) : Known(r.t, c.n)'
  \* Before this transaction it holds of the old catalog.
  <2>1. Existed(r.t) /\ \A c \in Range(r.cols) : Known(r.t, c.n)
    <3>1. CASE i \in 1..L
      <4>1. r \in RowsOf(i) /\ i \in DOMAIN wal
        BY <3>1, <1>1, <1>5
      <4> QED BY <4>1 DEF Once
    <3>2. CASE i > L
      <4>1. t \in DOMAIN up /\ r.t = t /\ r.cols = up[t].cols
        <5>1. r \in RowsOf(i)'
          BY <1>5
        <5>2. r \in Range(e.msgs) \ {Signal}
          BY <3>2, <5>1, <1>1
        <5> QED BY <5>2 DEF Changed
      <4>2. \A c \in Range(r.cols) : Known(t, c.n)
        BY <4>1 DEF Known, Alive, ColumnNames
      <4> QED BY <4>1, <4>2 DEF Existed
    <3> QED BY <3>1, <3>2, <1>1
  <2> QED BY <2>1, NamesStay
<1> QED
  <2>1. \A i \in DOMAIN wal' : \A r \in RowsOf(i)' :
          Existed(r.t)' /\ \A c \in Range(r.cols) : Known(r.t, c.n)'
    BY <1>5
  <2> QED BY <1>2, <1>3, <1>4, <2>1 DEF Once

\* What lasts from a transaction on still does after another.
LEMMA LastsStays ==
  ASSUME SchemaTypes, NEW t, NEW e, Changed(t, e),
         NEW u, NEW i \in 1..(Len(wal) + 1), NEW names, Lasts(u, i, names)
  PROVE  Lasts(u, i, names)'
<1> SUFFICES ASSUME NEW L, L = Len(wal)
             PROVE  Lasts(u, i, names)'
  OBVIOUS
<1>1. /\ L \in Nat /\ Len(wal') = L + 1
      /\ \A j \in 1..L : wal'[j] = wal[j] /\ RowsOf(j)' = RowsOf(j)
      /\ wal'[L + 1] = e
      /\ \A j \in Int : j > L /\ j <= L + 1 => RowsOf(j)' = Range(e.msgs) \ {Signal}
  BY WalGrows
<1>2. i \in 1..(L + 1)
  OBVIOUS
<1>3. \A k \in Int : k <= L => (Calm(u, i, k)' <=> Calm(u, i, k))
  BY <1>1, <1>2 DEF Calm
<1>4. \A k \in Int : i <= k + 1 => (Calm(u, i, k + 1)' => Calm(u, i, k)')
  BY <1>2 DEF Calm
<1>5. \A j \in i..(L + 1) : \A q \in RowsOf(j)' :
        q.t = u /\ Calm(u, i, j - 1)' => ColumnNames(q.cols) = names
  <2> SUFFICES ASSUME NEW j \in i..(L + 1), NEW q, q \in RowsOf(j)', q.t = u, Calm(u, i, j - 1)'
               PROVE  ColumnNames(q.cols) = names
    BY DEF ColumnNames
  <2>1. j \in Int /\ j - 1 <= L
    BY <1>1, <1>2
  <2>2. Calm(u, i, j - 1)
    BY <2>1, <1>3
  <2>3. CASE j \in i..L
    <3>1. q \in RowsOf(j)
      BY <2>3, <1>1, <1>2
    <3> QED BY <2>2, <2>3, <3>1 DEF Lasts
  <2>4. CASE j > L
    <3>1. q \in Range(e.msgs) \ {Signal}
      BY <2>4, <1>1
    <3>2. t \in DOMAIN up /\ q.t = t /\ q.cols = up[t].cols
      BY <3>1 DEF Changed
    <3>3. Calm(u, i, L)
      BY <2>2, <2>4, <1>1
    <3> QED BY <3>2, <3>3 DEF Lasts
  <2> QED BY <2>3, <2>4, <1>1, <1>2
<1>6. Calm(u, i, L + 1)' => u \in DOMAIN up' /\ ColumnNames(up'[u].cols) = names
  <2> SUFFICES ASSUME Calm(u, i, L + 1)'
               PROVE  u \in DOMAIN up' /\ ColumnNames(up'[u].cols) = names
    OBVIOUS
  <2>1. Calm(u, i, L)
    BY <1>1, <1>2, <1>3, <1>4
  <2>2. u \in DOMAIN up /\ ColumnNames(up[u].cols) = names
    BY <2>1 DEF Lasts
  <2>3. e.op = "insert" \/ e.t # u
    <3>1. L + 1 \in i..(L + 1)
      BY <1>1, <1>2
    <3> QED BY <3>1, <1>1 DEF Calm
  <2>4. u \in DOMAIN up' /\ up'[u] = up[u]
    BY <2>2, <2>3 DEF Changed
  <2> QED BY <2>2, <2>4
<1> QED
  <2>1. \A j \in i..Len(wal') : \A q \in RowsOf(j)' :
          q.t = u /\ Calm(u, i, j - 1)' => ColumnNames(q.cols) = names
    BY <1>1, <1>5
  <2>2. Calm(u, i, Len(wal))' => u \in DOMAIN up' /\ ColumnNames(up'[u].cols) = names
    <3>1. Calm(u, i, Len(wal))' => Calm(u, i, L + 1)'
      BY <1>1 DEF Calm
    <3> QED BY <3>1, <1>6
  <2> QED BY <2>1, <2>2 DEF Lasts, ColumnNames

\* A new row comes with the columns its table has and keeps until the next DDL on it.
LEMMA StableStays ==
  ASSUME SchemaTypes, Stable, NEW t, NEW e, Changed(t, e)
  PROVE  Stable'
<1> SUFFICES ASSUME NEW L, L = Len(wal)
             PROVE  Stable'
  OBVIOUS
<1>1. /\ L \in Nat /\ Len(wal') = L + 1
      /\ \A j \in 1..L : RowsOf(j)' = RowsOf(j)
      /\ wal'[L + 1] = e
      /\ \A j \in Int : j > L /\ j <= L + 1 => RowsOf(j)' = Range(e.msgs) \ {Signal}
      /\ DOMAIN wal = 1..L /\ DOMAIN wal' = 1..(L + 1)
  BY WalGrows
<1>2. ASSUME NEW i \in 1..(L + 1), NEW r, r \in RowsOf(i)'
      PROVE  Lasts(r.t, i, ColumnNames(r.cols))'
  <2> DEFINE names == ColumnNames(r.cols)
  <2>1. CASE i \in 1..L
    <3>1. Lasts(r.t, i, names)
      BY <2>1, <1>1, <1>2 DEF Stable
    <3> HIDE DEF names
    <3>2. Lasts(r.t, i, names)'
      BY <3>1, LastsStays
    <3> QED BY <3>2 DEF names, ColumnNames
  <2>2. CASE i > L
    <3>1. r \in Range(e.msgs) \ {Signal}
      BY <2>2, <1>1, <1>2
    <3>2. t \in DOMAIN up /\ r.t = t /\ r.cols = up[t].cols /\ e.t = t
      BY <3>1 DEF Changed
    <3>3. \A q \in Range(e.msgs) \ {Signal} : q.cols = up[t].cols
      BY DEF Changed
    <3>4. \A j \in i..Len(wal') : \A q \in RowsOf(j)' : ColumnNames(q.cols) = names
      BY <1>1, <2>2, <3>2, <3>3
    <3>5. Calm(t, i, Len(wal))' => e.op = "insert"
      <4>1. i \in i..Len(wal') /\ wal'[i] = e
        BY <1>1, <2>2
      <4> QED BY <4>1, <3>2 DEF Calm
    <3>6. e.op = "insert" => t \in DOMAIN up' /\ up'[t] = up[t]
      BY <3>2 DEF Changed
    <3>7. Calm(t, i, Len(wal))' => t \in DOMAIN up' /\ ColumnNames(up'[t].cols) = names
      BY <3>2, <3>5, <3>6
    <3> QED BY <3>2, <3>4, <3>7 DEF Lasts, ColumnNames
  <2> QED BY <2>1, <2>2, <1>1
<1> QED BY <1>1, <1>2 DEF Stable

\* The invariant through the upstream's transactions, at any distance ahead of the stream.
LEMMA UpstreamKeeps ==
  ASSUME SchemaInv, Upstream
  PROVE  SchemaInv'
<1> USE DEF SchemaInv
<1>1. UNCHANGED <<slot, durable, started, stream, work, mode, history>>
  BY DEF Upstream, UpstreamInsert, UpstreamAlter, Alter, UpstreamTable, Commit
<1> USE <1>1 DEF durable, stream, work, history
<1>2. PICK t, e : Changed(t, e)
  BY UpstreamChanges
<1>3. /\ wal' \in Seq(Entry) /\ Len(wal') = Len(wal) + 1 /\ Len(wal) \in Nat
      /\ \A i \in 1..Len(wal) : wal'[i] = wal[i] /\ RowsOf(i)' = RowsOf(i)
      /\ wal'[Len(wal) + 1] = e /\ e \in Entry
      /\ DOMAIN wal = 1..Len(wal) /\ DOMAIN wal' = 1..(Len(wal) + 1)
  BY <1>2, WalGrows DEF Changed
<1>4. /\ \A u : (<<u>> \in gone => <<u>> \in gone') /\ (Existed(u) => Existed(u)')
      /\ \A u, n : /\ Gone(u, n) => Gone(u, n)'
                   /\ Known(u, n) => Known(u, n)'
                   /\ Alive(u, n)' /\ Known(u, n) => Alive(u, n)
  BY <1>2, NamesStay
<1>5. cur \in Nat /\ pos \in Nat /\ cur <= Len(wal) /\ cur < Len(wal')
      /\ (cur < Len(wal) => Tx' = Tx) /\ (pos > 0 => cur < Len(wal))
  BY <1>3 DEF SchemaTypes, Positions, Tx
<1>6. SchemaTypes'
  <2>1. DOMAIN up' \subseteq TableSet /\ \A u \in DOMAIN up' : up'[u] \in TableType
    <3> SUFFICES ASSUME NEW u \in DOMAIN up'
                 PROVE  u \in TableSet /\ up'[u] \in TableType
      OBVIOUS
    <3>1. CASE u # t
      BY <1>2, <3>1 DEF Changed, SchemaTypes
    <3>2. CASE u = t
      BY <1>2, <3>2 DEF Changed
    <3> QED BY <3>1, <3>2
  <2> QED BY <1>3, <2>1 DEF SchemaTypes, Prints
<1>7. Once' /\ Stable'
  BY <1>2, OnceStays, StableStays
<1>8. Positions'
  <2>1. Tx'.msgs \in Seq(Row1 \cup {Signal})
    <3>1. Tx' \in Entry
      BY <1>3, <1>5 DEF Tx
    <3> QED BY <3>1 DEF Entry
  <2>2. Len(Tx'.msgs) \in Nat
    BY <2>1
  <2>3. pos <= Len(Tx'.msgs)
    BY <1>5, <2>2 DEF Positions
  <2> QED BY <1>3, <1>5, <2>3 DEF Positions
<1>9. Prior'
  BY <1>4 DEF Prior, Recorded, ColumnNames
<1>10. Announced'
  <2> SUFFICES ASSUME mode # "halted"
               PROVE  Announced'
    BY DEF Announced
  <2>1. mode \in {"resync", "relation"} => cur < Len(wal) /\ pos < Len(Tx.msgs) /\ Tx' = Tx /\ Msg' = Msg
    BY <1>5 DEF Announced, Msg
  <2>2. mode \in {"resync", "relation"} => cur < Len(wal') /\ pos < Len(Tx'.msgs)
    BY <1>5, <2>1
  <2>3. mode = "resync" => Msg' = Signal /\ \A u \in DOMAIN expected \ DOMAIN target : <<u>> \in gone'
    BY <1>4, <2>1 DEF Announced
  <2>4. mode = "relation" =>
         /\ Msg' # Signal /\ DOMAIN target = DOMAIN expected /\ Msg'.t \in DOMAIN target
         /\ ColumnNames(target[Msg'.t]) = ColumnNames(Msg'.cols)
    BY <2>1 DEF Announced
  <2>5. ASSUME NEW u \in sent \cap DOMAIN rels
        PROVE  (mode = "relation" /\ u = Msg'.t) \/ Lasts(u, cur + 1, ColumnNames(rels[u]))'
    <3>1. CASE mode = "relation" /\ u = Msg.t
      BY <2>1, <3>1
    <3>2. CASE Lasts(u, cur + 1, ColumnNames(rels[u]))
      <4>1. \A i \in 1..(Len(wal) + 1) : \A names : Lasts(u, i, names) => Lasts(u, i, names)'
        BY <1>2, LastsStays
      <4>2. PICK i, names : i = cur + 1 /\ names = ColumnNames(rels[u])
        OBVIOUS
      <4>3. i \in 1..(Len(wal) + 1) /\ Lasts(u, i, names)
        BY <1>3, <1>5, <3>2, <4>2
      <4>4. Lasts(u, i, names)'
        BY <4>1, <4>3
      <4>5. ColumnNames(rels[u])' = names /\ (cur + 1)' = i
        BY <4>2 DEF ColumnNames
      <4> QED BY <4>4, <4>5 DEF Lasts
    <3> QED BY <2>5, <3>1, <3>2 DEF Announced
  <2>6. DOMAIN rels \subseteq DOMAIN expected
    BY DEF Announced
  <2> QED
    <3>1. \A u \in sent \cap DOMAIN rels :
            (mode = "relation" /\ u = Msg'.t) \/ Lasts(u, cur + 1, ColumnNames(rels[u]))'
      BY <2>5
    <3> QED BY <2>2, <2>3, <2>4, <2>6, <3>1 DEF Announced, ColumnNames, Signal
<1>11. Buffered'
  <2>1. pos > 0 => Tx' = Tx
    BY <1>5
  <2>2. mode # "halted" /\ pos > 0 => Buffered'
    BY <1>4, <2>1 DEF Buffered
  <2>3. mode = "halted" \/ ~(pos > 0) => Buffered'
    BY <1>5 DEF Buffered
  <2> QED BY <2>2, <2>3
<1>12. PlanSafe'
  BY <1>4 DEF PlanSafe
<1>13. Kept'
  <2> SUFFICES ASSUME trusted, NEW i \in 1..cur, NEW r, r \in RowsOf(i)'
               PROVE  /\ r.t \in DOMAIN expected \/ <<r.t>> \in gone'
                      /\ \A c \in Range(r.cols) : Alive(r.t, c.n)' =>
                           r.t \in DOMAIN local /\ \E x \in local[r.t].rows : x.tx = i /\ c.n \in x.has
    BY DEF Kept, Range
  <2>1. i \in 1..Len(wal)
    BY <1>3, <1>5
  <2>2. r \in RowsOf(i) /\ i \in DOMAIN wal
    BY <2>1, <1>3
  <2>3. \A c \in Range(r.cols) : Known(r.t, c.n)
    BY <2>2 DEF Once
  <2> QED BY <1>4, <2>2, <2>3 DEF Kept
<1> QED BY <1>6, <1>7, <1>8, <1>9, <1>10, <1>11, <1>12, <1>13

-----------------------------------------------------------------------------
(* The replica *)

\* A step of the replica leaves what is said of the upstream.
LEMMA SameUpstream ==
  ASSUME UNCHANGED upstream
  PROVE  /\ Once' = Once /\ Stable' = Stable
         /\ \A i : RowsOf(i)' = RowsOf(i)
         /\ \A t : Existed(t)' = Existed(t)
         /\ \A t, n : Alive(t, n)' = Alive(t, n) /\ Gone(t, n)' = Gone(t, n) /\ Known(t, n)' = Known(t, n)
         /\ \A t, i, names : Lasts(t, i, names)' = Lasts(t, i, names)
<1>1. up' = up /\ wal' = wal /\ gone' = gone
  BY DEF upstream
<1>2. \A i : RowsOf(i)' = RowsOf(i)
  BY <1>1 DEF RowsOf, Signal, Range
<1>3. /\ \A t : Existed(t)' = Existed(t)
      /\ \A t, n : Alive(t, n)' = Alive(t, n) /\ Gone(t, n)' = Gone(t, n) /\ Known(t, n)' = Known(t, n)
  BY <1>1 DEF Existed, Alive, Gone, Known, ColumnNames, Range
<1>4. \A t, i, names : Lasts(t, i, names)' = Lasts(t, i, names)
  BY <1>1, <1>2 DEF Lasts, Calm, ColumnNames, Range
<1>5. Once' = Once
  BY <1>1, <1>2, <1>3 DEF Once, Range
<1>6. Stable' = Stable
  BY <1>1, <1>2, <1>4 DEF Stable, ColumnNames, Range
<1> QED BY <1>2, <1>3, <1>4, <1>5, <1>6

\* Neither do they come together: a name is alive or gone.
LEMMA NotBoth ==
  ASSUME Once
  PROVE  \A t, n : Alive(t, n) => ~Gone(t, n) /\ <<t>> \notin gone
BY DEF Once, Alive, Gone

\* What is kept stays while the rows and the fingerprint do.
LEMMA KeptSame ==
  ASSUME Kept, UNCHANGED <<upstream, local>>, trusted' => trusted,
         cur \in Nat, cur' \in Nat, cur' <= cur,
         trusted' => \A t \in DOMAIN expected \ DOMAIN expected' : <<t>> \in gone
  PROVE  Kept'
<1>1. UNCHANGED upstream /\ local' = local /\ gone' = gone
  BY DEF upstream
<1>2. \A t, n : Alive(t, n)' = Alive(t, n)
  BY <1>1, SameUpstream
<1>3. \A i : RowsOf(i)' = RowsOf(i)
  BY <1>1, SameUpstream
<1> SUFFICES ASSUME trusted', NEW i \in 1..cur', NEW r, r \in RowsOf(i)'
             PROVE  /\ r.t \in DOMAIN expected' \/ <<r.t>> \in gone'
                    /\ \A c \in Range(r.cols) : Alive(r.t, c.n)' =>
                         r.t \in DOMAIN local' /\ \E x \in local'[r.t].rows : x.tx = i /\ c.n \in x.has
  BY DEF Kept, Range
<1>4. r \in RowsOf(i) /\ i \in 1..cur
  BY <1>3
<1> QED BY <1>1, <1>2, <1>4 DEF Kept

\* A halted replica keeps what it has.
LEMMA HaltKeeps ==
  ASSUME SchemaInv, Halt, UNCHANGED <<upstream, slot, started, trusted>>
  PROVE  SchemaInv'
<1> USE DEF SchemaInv
<1>1. mode' = "halted" /\ UNCHANGED <<up, wal, gone, slot, local, stored, wm, started, expected, rels,
                                      sent, cur, pos, buf, plan, target, trusted>>
  BY DEF Halt, upstream, durable, stream, work
<1>2. UNCHANGED upstream
  OBVIOUS
<1>3. SchemaTypes'
  BY <1>1 DEF SchemaTypes, Prints, Range
<1>4. Once' /\ Stable'
  BY <1>2, SameUpstream
<1>5. Positions'
  BY <1>1 DEF Positions, Tx
<1>6. Prior'
  BY <1>1, <1>2, SameUpstream DEF Prior, Recorded, ColumnNames, Range
<1>7. Announced' /\ Buffered' /\ PlanSafe'
  BY <1>1 DEF Announced, Buffered, PlanSafe
<1>8. Kept'
  BY <1>1, <1>2, KeptSame DEF SchemaTypes
<1> QED BY <1>3, <1>4, <1>5, <1>6, <1>7, <1>8

\* The open transaction.
LEMMA OpenFacts ==
  ASSUME SchemaTypes, Reading
  PROVE  /\ cur \in Nat /\ pos \in Nat /\ cur < Len(wal) /\ Len(wal) \in Nat
         /\ cur + 1 \in DOMAIN wal /\ Tx \in Entry /\ Tx.msgs \in Seq(Row1 \cup {Signal})
         /\ pos < Len(Tx.msgs) /\ Len(Tx.msgs) \in Nat
         /\ Msg # Signal =>
              Msg \in Row1 /\ Msg \in RowsOf(cur + 1) /\ Msg.cols \in Seq(Column) /\ Range(Msg.cols) \subseteq Column
<1>1. cur \in Nat /\ pos \in Nat /\ cur < Len(wal) /\ wal \in Seq(Entry) /\ pos < Len(Tx.msgs)
  BY DEF SchemaTypes, Reading
<1>2. Len(wal) \in Nat /\ DOMAIN wal = 1..Len(wal)
  BY <1>1, RangeFacts
<1>3. cur + 1 \in DOMAIN wal
  BY <1>1, <1>2
<1> DEFINE i == cur + 1
<1> HIDE DEF i
<1>4. i \in DOMAIN wal
  BY <1>3 DEF i
<1>5. /\ wal[i] \in Entry /\ wal[i].msgs \in Seq(Row1 \cup {Signal})
      /\ \A r \in RowsOf(i) : r \in Row1 /\ r.cols \in Seq(Column) /\ Range(r.cols) \subseteq Column
      /\ \A p \in 1..Len(wal[i].msgs) : wal[i].msgs[p] # Signal => wal[i].msgs[p] \in RowsOf(i)
  BY <1>4, LogFacts
<1>6. Tx = wal[i]
  BY DEF Tx, i
<1>7. Len(Tx.msgs) \in Nat
  BY <1>5, <1>6
<1>8. pos + 1 \in 1..Len(Tx.msgs)
  BY <1>1, <1>7
<1>9. Msg # Signal => Msg \in RowsOf(i)
  BY <1>5, <1>6, <1>8 DEF Msg
<1> QED BY <1>1, <1>2, <1>4, <1>5, <1>6, <1>7, <1>9 DEF i

\* A row comes with the columns its table keeps until DDL on it, and names what there was.
LEMMA MsgFacts ==
  ASSUME SchemaTypes, Once, Stable, Reading, Msg # Signal
  PROVE  /\ Lasts(Msg.t, cur + 1, ColumnNames(Msg.cols))
         /\ Existed(Msg.t) /\ \A n \in ColumnNames(Msg.cols) : Known(Msg.t, n)
<1> DEFINE i == cur + 1
<1>1. i \in DOMAIN wal /\ Msg \in RowsOf(i)
  BY OpenFacts
<1> HIDE DEF i
<1>2. Lasts(Msg.t, i, ColumnNames(Msg.cols))
  BY <1>1 DEF Stable
<1>3. Existed(Msg.t) /\ \A c \in Range(Msg.cols) : Known(Msg.t, c.n)
  BY <1>1 DEF Once
<1> QED BY <1>2, <1>3 DEF i, ColumnNames

\* A Relation message: the plan adds columns, and the rows that follow have its columns.
LEMMA ReadRelationKeeps ==
  ASSUME SchemaInv, ReadRelation
  PROVE  SchemaInv'
<1> USE DEF SchemaInv
<1>1. UNCHANGED <<upstream, slot, started, history>> /\ Reading /\ Msg # Signal /\ mode = "stream"
  BY DEF ReadRelation, Reading
<1>2. CASE Halt
  BY <1>1, <1>2, HaltKeeps DEF history
<1> DEFINE t == Msg.t
           line == FingerprintLine(Msg.cols)
<1>3. CASE /\ t \in DOMAIN expected /\ Additive(expected[t], line)
           /\ sent' = sent \cup {t}
           /\ IF line = expected[t]
              THEN rels' = With(rels, t, line) /\ UNCHANGED <<work, mode>>
              ELSE /\ plan' = {Stmt("add", t, i, line[i]) : i \in (Len(expected[t]) + 1)..Len(line)}
                   /\ target' = [expected EXCEPT ![t] = line]
                   /\ mode' = "relation" /\ UNCHANGED rels
           /\ UNCHANGED <<durable, expected, cur, pos, buf>>
  <2> USE <1>1, <1>3 DEF durable, work, history
  <2>1. /\ t \in TableSet /\ line \in Seq(Shape) /\ ColumnNames(line) = ColumnNames(Msg.cols)
        /\ Len(line) \in Nat /\ \A i \in 1..Len(line) : line[i] \in Shape
    <3>1. Msg \in Row1 /\ Msg.cols \in Seq(Column)
      BY OpenFacts
    <3>2. line \in Seq(Shape) /\ ColumnNames(line) = ColumnNames(Msg.cols)
      BY <3>1, LineFacts
    <3>3. t \in TableSet
      BY <3>1 DEF Row1
    <3> HIDE DEF line
    <3> QED BY <3>2, <3>3, RangeFacts
  <2>2. Lasts(t, cur + 1, ColumnNames(line)) /\ Existed(t) /\ \A n \in ColumnNames(line) : Known(t, n)
    BY <2>1, MsgFacts
  <2> HIDE DEF line
  <2>3. UNCHANGED <<up, wal, gone, local, stored, wm, expected, cur, pos, buf, trusted, started, slot>>
    BY DEF upstream
  <2>4. Tx' = Tx /\ Msg' = Msg /\ Signal' = Signal
    BY <2>3 DEF Msg, Tx, Signal
  <2>5. expected[t] \in Seq(Shape) /\ Len(expected[t]) \in Nat
    BY DEF SchemaTypes, Prints
  \* The plan adds columns of the message to the fingerprint's.
  <2>6. mode' = "relation" =>
          /\ target' = [expected EXCEPT ![t] = line] /\ rels' = rels
          /\ \A s \in plan' : s.op = "add" /\ s.c \in Shape
    <3> SUFFICES ASSUME mode' = "relation", NEW s \in plan'
                 PROVE  s.op = "add" /\ s.c \in Shape
      OBVIOUS
    <3>1. PICK i \in (Len(expected[t]) + 1)..Len(line) : s = Stmt("add", t, i, line[i])
      OBVIOUS
    <3>2. i \in 1..Len(line)
      BY <2>1, <2>5
    <3> QED BY <2>1, <3>1, <3>2 DEF Stmt
  <2>7. mode' = "stream" => rels' = With(rels, t, line) /\ target' = target /\ line = expected[t]
    OBVIOUS
  <2>8. mode' \in {"stream", "relation"} /\ (mode' = "relation" => mode' # "stream")
    OBVIOUS
  <2> HIDE <1>3
  <2>9. SchemaTypes'
    <3>1. Prints(target)' /\ Prints(rels)'
      BY <2>1, <2>6, <2>7, <2>8 DEF SchemaTypes, Prints, With
    <3>2. sent' \subseteq TableSet
      BY <1>3, <2>1 DEF SchemaTypes
    <3> QED BY <2>3, <2>8, <3>1, <3>2 DEF SchemaTypes, Prints, Range
  <2>10. Once' /\ Stable'
    BY SameUpstream
  <2>11. Positions'
    BY <2>3, <2>4 DEF Positions
  <2>12. Prior'
    <3>1. \A f : Recorded(f) => Recorded(f)'
      BY SameUpstream DEF Recorded, ColumnNames, Range
    <3>2. Recorded(target)'
      <4>1. CASE mode' = "stream"
        BY <2>7, <3>1, <4>1 DEF Prior, Recorded
      <4>2. CASE mode' = "relation"
        <5>1. Recorded([expected EXCEPT ![t] = line])
          BY <2>2 DEF Prior, Recorded
        <5> QED BY <2>6, <3>1, <4>2, <5>1 DEF Recorded
      <4> QED BY <2>8, <4>1, <4>2
    <3> QED BY <2>3, <3>1, <3>2 DEF Prior, Recorded
  <2>13. Announced'
    <3>1. ASSUME NEW u \in sent' \cap DOMAIN rels'
          PROVE  (mode' = "relation" /\ u = Msg.t) \/ Lasts(u, cur + 1, ColumnNames(rels'[u]))
      <4>1. CASE u # t
        <5>1. u \in sent \cap DOMAIN rels /\ rels'[u] = rels[u]
          BY <1>3, <2>6, <2>7, <2>8, <3>1, <4>1 DEF With
        <5> QED BY <5>1 DEF Announced
      <4>2. CASE u = t /\ mode' = "stream"
        <5>1. rels'[u] = line
          BY <2>7, <4>2 DEF With
        <5> QED BY <2>2, <4>2, <5>1
      <4> QED BY <2>8, <4>1, <4>2
    <3>2. \A u \in sent' \cap DOMAIN rels' :
            (mode' = "relation" /\ u = Msg'.t) \/ Lasts(u, cur + 1, ColumnNames(rels[u]))'
      BY <2>3, <2>4, <3>1, SameUpstream DEF ColumnNames, Range
    <3>3. DOMAIN rels' \subseteq DOMAIN expected
      BY <1>3, <2>6, <2>7, <2>8 DEF Announced, With
    <3>4. mode' = "relation" =>
            /\ Msg # Signal /\ DOMAIN target' = DOMAIN expected /\ t \in DOMAIN target'
            /\ ColumnNames(target'[t]) = ColumnNames(Msg.cols)
      BY <1>3, <2>1, <2>6
    <3>5. cur < Len(wal) /\ pos < Len(Tx.msgs)
      BY OpenFacts
    <3>6. mode' = "relation" =>
            /\ Msg' # Signal /\ DOMAIN target' = DOMAIN expected' /\ Msg'.t \in DOMAIN target'
            /\ ColumnNames(target[Msg.t])' = ColumnNames(Msg.cols)'
      BY <2>3, <2>4, <3>4 DEF ColumnNames, Range
    <3>7. cur' < Len(wal') /\ pos' < Len(Tx'.msgs) /\ mode' # "resync"
      BY <2>3, <2>4, <2>8, <3>5
    <3> QED BY <2>3, <2>4, <3>2, <3>3, <3>6, <3>7 DEF Announced
  <2>14. Buffered'
    BY <2>3, <2>4 DEF Buffered, ColumnNames, Range
  <2>15. PlanSafe'
    BY <2>6, <2>8 DEF PlanSafe, Shape
  <2>16. Kept'
    BY <2>3, KeptSame DEF SchemaTypes
  <2> QED BY <2>9, <2>10, <2>11, <2>12, <2>13, <2>14, <2>15, <2>16
<1> QED BY <1>2, <1>3 DEF ReadRelation

\* The columns have been added: the fingerprint has those of the message.
LEMMA FinishRelationKeeps ==
  ASSUME SchemaInv, FinishRelation
  PROVE  SchemaInv'
<1> USE DEF SchemaInv
<1> DEFINE t == Msg.t
<1>1. /\ mode = "relation" /\ mode' = "stream"
      /\ expected' = target /\ stored' = target /\ rels' = With(rels, t, target[t])
      /\ UNCHANGED upstream
      /\ UNCHANGED <<up, wal, gone, slot, local, wm, started, sent, cur, pos, buf, target, trusted>>
  BY DEF FinishRelation, upstream, work, history
<1>2. /\ DOMAIN target = DOMAIN expected /\ t \in DOMAIN target /\ Msg # Signal
      /\ ColumnNames(target[t]) = ColumnNames(Msg.cols) /\ DOMAIN rels \subseteq DOMAIN expected
      /\ cur < Len(wal) /\ pos < Len(Tx.msgs)
  BY <1>1 DEF Announced
<1>3. Tx' = Tx
  BY <1>1 DEF Tx
<1>4. Lasts(t, cur + 1, ColumnNames(target[t]))
  <2> DEFINE i == cur + 1
  <2>1. i \in DOMAIN wal /\ Msg \in RowsOf(i)
    <3>1. i \in DOMAIN wal
      <4>1. wal \in Seq(Entry) /\ cur \in Nat
        BY DEF SchemaTypes
      <4>2. DOMAIN wal = 1..Len(wal) /\ Len(wal) \in Nat
        BY <4>1, RangeFacts
      <4> QED BY <1>2, <4>1, <4>2
    <3> HIDE DEF i
    <3>2. wal[i].msgs \in Seq(Row1 \cup {Signal})
          /\ \A p \in 1..Len(wal[i].msgs) : wal[i].msgs[p] # Signal => wal[i].msgs[p] \in RowsOf(i)
      BY <3>1, LogFacts
    <3>3. Tx = wal[i]
      BY DEF Tx, i
    <3>4. Len(Tx.msgs) \in Nat /\ pos \in Nat
      BY <3>2, <3>3 DEF SchemaTypes
    <3>5. pos + 1 \in 1..Len(Tx.msgs)
      BY <1>2, <3>4
    <3> QED BY <1>2, <3>1, <3>2, <3>3, <3>5 DEF Msg
  <2> HIDE DEF i
  <2>2. Lasts(Msg.t, i, ColumnNames(Msg.cols))
    BY <2>1 DEF Stable
  <2> QED BY <1>2, <2>2 DEF i
<1> HIDE DEF t
<1>5. SchemaTypes'
  BY <1>1, <1>2 DEF SchemaTypes, Prints, Range, With
<1>6. Once' /\ Stable'
  BY <1>1, SameUpstream
<1>7. Positions'
  BY <1>1, <1>3 DEF Positions
<1>8. Prior'
  BY <1>1, SameUpstream DEF Prior, Recorded, ColumnNames, Range
<1>9. Announced'
  <2>1. ASSUME NEW u \in sent \cap DOMAIN rels'
        PROVE  Lasts(u, cur + 1, ColumnNames(rels'[u]))
    <3>1. CASE u # t
      <4>1. u \in DOMAIN rels /\ rels'[u] = rels[u]
        BY <1>1, <2>1, <3>1 DEF With
      <4> QED BY <1>1, <2>1, <3>1, <4>1 DEF Announced, t
    <3>2. CASE u = t
      <4>1. rels'[u] = target[t]
        BY <1>1, <3>2 DEF With
      <4> QED BY <1>4, <3>2, <4>1
    <3> QED BY <3>1, <3>2
  <2>2. \A u \in sent' \cap DOMAIN rels' : Lasts(u, cur + 1, ColumnNames(rels[u]))'
    BY <1>1, <2>1, SameUpstream DEF ColumnNames, Range
  <2>3. DOMAIN rels' \subseteq DOMAIN expected'
    BY <1>1, <1>2 DEF With
  <2>4. mode' = "stream"
    BY <1>1
  <2> QED BY <2>2, <2>3, <2>4 DEF Announced
<1>10. Buffered'
  BY <1>1, <1>2, <1>3 DEF Buffered, ColumnNames, Range
<1>11. PlanSafe'
  BY <1>1 DEF PlanSafe
<1>12. Kept'
  BY <1>1, <1>2, KeptSame DEF SchemaTypes
<1> QED BY <1>5, <1>6, <1>7, <1>8, <1>9, <1>10, <1>11, <1>12

\* A row is buffered with the columns it was sent with.
LEMMA ReadRowKeeps ==
  ASSUME SchemaInv, ReadRow
  PROVE  SchemaInv'
<1> USE DEF SchemaInv
<1> DEFINE t == Msg.t
<1>1. UNCHANGED <<upstream, slot, started, history>> /\ Reading /\ Msg # Signal /\ t \in sent
      /\ mode = "stream"
  BY DEF ReadRow, Reading
<1>2. CASE Halt
  BY <1>1, <1>2, HaltKeeps DEF history
<1>3. CASE /\ t \in DOMAIN rels
           /\ buf' = Append(buf, [t |-> t, has |-> ColumnNames(rels[t])])
           /\ pos' = pos + 1
           /\ UNCHANGED <<durable, expected, rels, sent, cur, work, mode>>
  <2>1. UNCHANGED <<up, wal, gone, slot, local, stored, wm, started, expected, rels, sent, cur,
                    plan, target, mode, trusted>>
    BY <1>1, <1>3 DEF upstream, durable, work, history
  <2>2. UNCHANGED upstream /\ Tx' = Tx /\ Signal' = Signal
    BY <1>1, <2>1 DEF Tx, Signal
  <2>3. /\ Msg \in Row1 /\ cur \in Nat /\ pos \in Nat /\ cur < Len(wal) /\ pos < Len(Tx.msgs)
        /\ Len(Tx.msgs) \in Nat /\ Len(wal) \in Nat /\ cur + 1 \in DOMAIN wal /\ Msg \in RowsOf(cur + 1)
        /\ Msg.cols \in Seq(Column)
    BY <1>1, OpenFacts
  <2>4. ColumnNames(rels[t]) = ColumnNames(Msg.cols)
    <3> DEFINE i == cur + 1
    <3>1. Lasts(t, i, ColumnNames(rels[t]))
      BY <1>1, <1>3 DEF Announced
    <3>2. i \in i..Len(wal) /\ Msg \in RowsOf(i)
      BY <2>3
    <3>3. Calm(t, i, i - 1)
      BY <2>3 DEF Calm
    <3> HIDE DEF i
    <3> QED BY <3>1, <3>2, <3>3 DEF Lasts
  <2> DEFINE x == [t |-> t, has |-> ColumnNames(rels[t])]
  <2>5. x \in [t : TableSet, has : SUBSET Names]
    BY <2>3, <2>4, LineFacts DEF Row1
  <2>6. buf' = Append(buf, x)
    BY <1>3
  <2>7. x.t = t /\ x.has = ColumnNames(Msg.cols)
    BY <2>4
  <2> HIDE DEF x
  <2>8. buf' \in Seq([t : TableSet, has : SUBSET Names]) /\ Range(buf') = Range(buf) \cup {x}
    <3> DEFINE S == [t : TableSet, has : SUBSET Names]
    <3>1. x \in S /\ buf \in Seq(S)
      BY <2>5 DEF SchemaTypes
    <3> HIDE DEF S
    <3>2. Append(buf, x) \in Seq(S) /\ Range(Append(buf, x)) = Range(buf) \cup {x}
      BY <3>1, AppendFacts
    <3> QED BY <2>6, <3>2 DEF S
  <2> HIDE <1>3 
  <2>9. pos' = pos + 1 /\ t \in DOMAIN rels
    BY <1>3
  <2>10. SchemaTypes'
    BY <2>1, <2>3, <2>8, <2>9 DEF SchemaTypes, Prints
  <2>11. Once' /\ Stable'
    BY <2>2, SameUpstream
  <2>12. Positions'
    BY <2>1, <2>2, <2>3, <2>9 DEF Positions
  <2>13. Prior'
    BY <2>1, <2>2, SameUpstream DEF Prior, Recorded, ColumnNames, Range
  <2>14. Announced'
    <3>1. \A u \in sent' \cap DOMAIN rels' : Lasts(u, cur + 1, ColumnNames(rels[u]))'
      BY <1>1, <2>1, <2>2, SameUpstream DEF Announced, ColumnNames, Range
    <3> QED BY <1>1, <2>1, <3>1 DEF Announced
  <2>15. Buffered'
    <3> DEFINE held(p) == LET m == Tx.msgs[p] IN
                 m # Signal =>
                   /\ m.t \in DOMAIN expected \/ <<m.t>> \in gone
                   /\ \E b \in Range(buf') : b.t = m.t /\ b.has = ColumnNames(m.cols)
    <3>1. \A p \in 1..pos : held(p)
      BY <1>1, <2>8 DEF Buffered
    <3>2. held(pos + 1)
      <4>1. t \in DOMAIN expected
        BY <1>1, <2>9 DEF Announced
      <4>2. x \in Range(buf')
        BY <2>8
      <4> QED BY <2>7, <4>1, <4>2 DEF Msg
    <3>3. \A p \in 1..(pos + 1) : held(p)
      BY <2>3, <3>1, <3>2
    <3>4. \A p \in 1..pos' : held(p)
      BY <2>9, <3>3
    <3> QED BY <2>1, <2>2, <3>4 DEF Buffered, ColumnNames, Range
  <2>16. PlanSafe'
    BY <1>1, <2>1 DEF PlanSafe
  <2>17. Kept'
    BY <2>1, <2>2, KeptSame DEF SchemaTypes
  <2> QED BY <2>10, <2>11, <2>12, <2>13, <2>14, <2>15, <2>16, <2>17
<1> QED BY <1>1, <1>2, <1>3 DEF ReadRow

\* A signal: what the plan drops is gone upstream, what it makes the fingerprint does not know.
LEMMA ReadSignalKeeps ==
  ASSUME SchemaInv, ReadSignal
  PROVE  SchemaInv'
<1> USE DEF SchemaInv
<1> DEFINE new == Fingerprint(up)
<1>1. UNCHANGED <<upstream, slot, started, trusted, torn, faults>> /\ Reading /\ Msg = Signal
      /\ mode = "stream"
  BY DEF ReadSignal, Reading
<1>2. CASE Halt
  BY <1>1, <1>2, HaltKeeps
<1>3. CASE /\ target' = new /\ plan' = SchemaDelta(expected, new) /\ mode' = "resync"
           /\ UNCHANGED <<durable, stream>>
  <2>1. UNCHANGED <<up, wal, gone, slot, local, stored, wm, started, expected, rels, sent, cur, pos, buf, trusted>>
    BY <1>1, <1>3 DEF upstream, durable, stream
  <2>2. UNCHANGED upstream /\ Tx' = Tx /\ Signal' = Signal /\ Msg' = Msg
    BY <1>1, <2>1 DEF Tx, Signal, Msg
  <2>3. cur < Len(wal) /\ pos < Len(Tx.msgs)
    BY <1>1, OpenFacts
  <2>4. /\ DOMAIN new = DOMAIN up
        /\ \A u \in DOMAIN up : /\ new[u] \in Seq(Shape)
                                /\ ColumnNames(new[u]) = ColumnNames(up[u].cols)
                                /\ DOMAIN new[u] = 1..Len(new[u])
                                /\ \A i \in DOMAIN new[u] : new[u][i] \in Shape
    <3>1. DOMAIN new = DOMAIN up /\ \A u \in DOMAIN up : new[u] = FingerprintLine(up[u].cols)
      BY DEF Fingerprint
    <3>2. ASSUME NEW u \in DOMAIN up
          PROVE  /\ new[u] \in Seq(Shape) /\ ColumnNames(new[u]) = ColumnNames(up[u].cols)
                 /\ DOMAIN new[u] = 1..Len(new[u]) /\ \A i \in DOMAIN new[u] : new[u][i] \in Shape
      <4> DEFINE line == new[u]
      <4>1. up[u].cols \in Seq(Column)
        BY DEF SchemaTypes, TableType
      <4>2. line \in Seq(Shape) /\ ColumnNames(line) = ColumnNames(up[u].cols)
        BY <3>1, <4>1, LineFacts
      <4> HIDE DEF line
      <4>3. DOMAIN line = 1..Len(line) /\ \A i \in DOMAIN line : line[i] \in Shape
        BY <4>2, RangeFacts
      <4> QED BY <4>2, <4>3 DEF line
    <3> QED BY <3>1, <3>2
  <2>5. target' = new /\ plan' = SchemaDelta(expected, new) /\ mode' = "resync"
    BY <1>3
  <2> HIDE DEF new
  <2>6. \A u \in DOMAIN expected \ DOMAIN up : <<u>> \in gone
    BY DEF Prior, Recorded, Existed
  \* What a plan for a table that stays holds.
  <2>7. ASSUME NEW u \in DOMAIN expected \cap DOMAIN up, NEW s \in DeltaOfTable(u, expected[u], new[u])
        PROVE  /\ s.op \in {"add", "drop", "error"} /\ s.t = u
               /\ s.op = "add" => s.c \in Shape
               /\ s.op = "drop" => Gone(s.t, s.c.n)
    <3>1. CASE s \in NewColumns(u, expected[u], new[u])
      <4>1. PICK i \in DOMAIN new[u] : s = Stmt("add", u, i, new[u][i])
        BY <3>1 DEF NewColumns
      <4> QED BY <2>4, <4>1 DEF Stmt
    <3>2. CASE s \notin NewColumns(u, expected[u], new[u])
      <4>1. PICK i \in DOMAIN expected[u] :
              s = Stmt(IF expected[u][i].n \in ColumnNames(new[u]) THEN "error" ELSE "drop", u, i, expected[u][i])
        BY <2>7, <3>2 DEF DeltaOfTable
      <4>2. s.t = u /\ s.c = expected[u][i]
            /\ s.op = IF expected[u][i].n \in ColumnNames(new[u]) THEN "error" ELSE "drop"
        BY <4>1 DEF Stmt
      <4>3. expected[u][i].n \in ColumnNames(expected[u])
        BY DEF ColumnNames, Range
      <4>4. Known(u, expected[u][i].n)
        BY <4>3 DEF Prior, Recorded
      <4>5. s.op = "drop" => ~Alive(u, expected[u][i].n)
        BY <2>4, <4>2 DEF Alive
      <4> QED BY <4>2, <4>4, <4>5 DEF Known
    <3> QED BY <3>1, <3>2
  <2>8. ASSUME NEW s \in plan'
        PROVE  /\ s.op \in {"add", "drop", "droptable", "create", "error"}
               /\ s.op = "add" => s.c \in Shape
               /\ s.op = "create" => s.t \in DOMAIN new
               /\ s.op = "drop" => Gone(s.t, s.c.n)
               /\ s.op \in {"droptable", "create"} => <<s.t>> \in gone \/ s.t \notin DOMAIN expected
    <3>1. CASE \E u \in DOMAIN expected \ DOMAIN new : s = OfTable("droptable", u)
      <4>1. PICK u \in DOMAIN expected \ DOMAIN new : s = OfTable("droptable", u)
        BY <3>1
      <4>2. s.op = "droptable" /\ s.t = u
        BY <4>1 DEF OfTable, Stmt
      <4> QED BY <2>4, <2>6, <4>1, <4>2
    <3>2. CASE \E u \in DOMAIN new \ DOMAIN expected : s \in {OfTable("droptable", u), OfTable("create", u)}
      <4>1. PICK u \in DOMAIN new \ DOMAIN expected : s \in {OfTable("droptable", u), OfTable("create", u)}
        BY <3>2
      <4>2. \A op : OfTable(op, u).op = op /\ OfTable(op, u).t = u
        BY DEF OfTable, Stmt
      <4>3. s.op \in {"droptable", "create"} /\ s.t = u
        BY ONLY <4>1, <4>2
      <4> QED BY <4>1, <4>3
    <3>3. CASE \E u \in DOMAIN expected \cap DOMAIN new : s \in DeltaOfTable(u, expected[u], new[u])
      <4>1. PICK u \in DOMAIN expected \cap DOMAIN new : s \in DeltaOfTable(u, expected[u], new[u])
        BY <3>3
      <4>2. u \in DOMAIN expected \cap DOMAIN up
        BY <2>4
      <4> QED BY <2>7, <4>1, <4>2
    <3>4. s \in SchemaDelta(expected, new)
      BY <2>5, <2>8
    <3>6. \/ \E u \in DOMAIN expected \ DOMAIN new : s = OfTable("droptable", u)
          \/ \E u \in DOMAIN new \ DOMAIN expected : s \in {OfTable("droptable", u), OfTable("create", u)}
          \/ \E u \in DOMAIN expected \cap DOMAIN new : s \in DeltaOfTable(u, expected[u], new[u])
      BY <3>4 DEF SchemaDelta
    <3> QED BY <3>1, <3>2, <3>3, <3>6
  <2>9. SchemaTypes'
    BY <2>1, <2>4, <2>5 DEF SchemaTypes, Prints, Range
  <2>10. Once' /\ Stable'
    BY <2>2, SameUpstream
  <2>11. Positions'
    BY <2>1, <2>2 DEF Positions
  <2>12. Prior'
    <3>1. \A f : Recorded(f) => Recorded(f)'
      BY <2>2, SameUpstream DEF Recorded, ColumnNames, Range
    <3>2. Recorded(new)
      BY <2>4 DEF Recorded, Existed, Known, Alive
    <3> QED BY <2>1, <2>5, <3>1, <3>2 DEF Prior, Recorded
  <2>13. Announced'
    <3>1. \A u \in sent' \cap DOMAIN rels' : Lasts(u, cur + 1, ColumnNames(rels[u]))'
      BY <1>1, <2>1, <2>2, SameUpstream DEF Announced, ColumnNames, Range
    <3>2. \A u \in DOMAIN expected' \ DOMAIN target' : <<u>> \in gone'
      BY <2>1, <2>4, <2>5, <2>6
    <3>3. DOMAIN rels' \subseteq DOMAIN expected' /\ cur' < Len(wal') /\ pos' < Len(Tx'.msgs) /\ Msg' = Signal
      BY <1>1, <2>1, <2>2, <2>3 DEF Announced
    <3>4. mode' = "resync"
      BY <2>5
    <3> QED BY <2>2, <3>1, <3>2, <3>3, <3>4 DEF Announced
  <2>14. Buffered'
    BY <1>1, <2>1, <2>2 DEF Buffered, ColumnNames, Range
  <2>15. PlanSafe'
    BY <2>1, <2>2, <2>5, <2>8, SameUpstream DEF PlanSafe, Shape
  <2>16. Kept'
    BY <2>1, <2>2, KeptSame DEF SchemaTypes
  <2> QED BY <2>9, <2>10, <2>11, <2>12, <2>13, <2>14, <2>15, <2>16
<1> QED BY <1>1, <1>2, <1>3 DEF ReadSignal

\* One local statement: no value of a living column goes with it.
LEMMA RunStatementKeeps ==
  ASSUME SchemaInv, RunStatement
  PROVE  SchemaInv'
<1> USE DEF SchemaInv
<1>1. UNCHANGED <<upstream, slot, started, history>> /\ mode \in {"resync", "relation"}
  BY DEF RunStatement
<1>2. CASE Halt
  BY <1>1, <1>2, HaltKeeps DEF history
<1>3. ASSUME NEW s \in plan, ~Fails(s),
             Effect(s), plan' = plan \ {s}, UNCHANGED <<stored, wm, stream, target, mode>>
      PROVE  SchemaInv'
  <2>1. UNCHANGED <<up, wal, gone, slot, stored, wm, started, expected, rels, sent, cur, pos, buf, target,
                    mode, trusted>>
    BY <1>1, <1>3 DEF upstream, stream, history
  <2>2. UNCHANGED upstream /\ Tx' = Tx /\ Signal' = Signal /\ Msg' = Msg
    BY <1>1, <2>1 DEF Tx, Signal, Msg
  <2>3. /\ s.op \in {"add", "drop", "droptable", "create"}
        /\ s.op \in {"add", "drop"} => s.t \in DOMAIN local
        /\ s.op = "add" => s.c \in Shape
        /\ s.op = "create" => s.t \in DOMAIN target
        /\ s.op = "drop" => Gone(s.t, s.c.n)
        /\ s.op \in {"droptable", "create"} => <<s.t>> \in gone \/ s.t \notin DOMAIN expected
    BY <1>1, <1>3 DEF PlanSafe, Fails
  <2>4. /\ s.op = "droptable" => local' = Without(local, s.t)
        /\ s.op = "create" => local' = With(local, s.t, Created(target[s.t]))
        /\ s.op = "add" =>
             \/ local' = local
             \/ local' = [local EXCEPT ![s.t].cols = @ \cup {s.c}]
        /\ s.op = "drop" =>
             local' = [local EXCEPT
               ![s.t].cols = {c \in @ : c.n # s.c.n},
               ![s.t].rows = {[r EXCEPT !.has = @ \ {s.c.n}] : r \in @}]
    BY <1>3 DEF Effect
  <2> DEFINE RowType == [tx : Int, has : SUBSET Names]
             LocalTables == [cols : SUBSET Shape, rows : SUBSET RowType]
  <2>5. \A t \in DOMAIN local' : local'[t] \in LocalTables
    <3>0. \A t \in DOMAIN local : local[t] \in LocalTables
      BY DEF SchemaTypes
    <3>1. CASE s.op = "droptable"
      BY <2>4, <3>0, <3>1 DEF Without
    <3>2. CASE s.op = "create"
      <4>1. target[s.t] \in Seq(Shape)
        BY <2>3, <3>2 DEF SchemaTypes, Prints
      <4>2. Range(target[s.t]) \subseteq Shape
        BY <4>1, RangeFacts
      <4>3. Created(target[s.t]) \in LocalTables
        BY <4>2 DEF Created
      <4> HIDE DEF LocalTables
      <4> QED BY <2>4, <3>0, <3>2, <4>3 DEF With
    <3>3. CASE s.op = "add"
      BY <2>3, <2>4, <3>0, <3>3
    <3>4. CASE s.op = "drop"
      <4>1. s.t \in DOMAIN local /\ local[s.t].cols \subseteq Shape /\ local[s.t].rows \subseteq RowType
        BY <2>3, <3>0, <3>4
      <4> DEFINE cut == {[r EXCEPT !.has = @ \ {s.c.n}] : r \in local[s.t].rows}
                 stay == {c \in local[s.t].cols : c.n # s.c.n}
      <4>2. cut \subseteq RowType
        <5>1. \A r \in RowType : [r EXCEPT !.has = @ \ {s.c.n}] \in RowType
          OBVIOUS
        <5> QED BY <4>1, <5>1
      <4>3. stay \subseteq Shape
        BY <4>1
      <4>4. /\ DOMAIN local' = DOMAIN local
            /\ \A t \in DOMAIN local : t # s.t => local'[t] = local[t]
            /\ local'[s.t] = [cols |-> stay, rows |-> cut]
        BY <2>4, <3>0, <3>4, <4>1
      <4> HIDE DEF cut, stay
      <4> QED BY <3>0, <4>2, <4>3, <4>4
    <3> QED BY <2>3, <3>1, <3>2, <3>3, <3>4
  \* The rows: a living column of a table the fingerprint knows keeps its values.
  <2>6. ASSUME NEW t \in DOMAIN local, NEW n, Alive(t, n), t \in DOMAIN expected,
               NEW x \in local[t].rows, n \in x.has
        PROVE  t \in DOMAIN local' /\ \E y \in local'[t].rows : y.tx = x.tx /\ n \in y.has
    <3>0. ~Gone(t, n) /\ <<t>> \notin gone
      BY <2>6, NotBoth
    <3>1. CASE s.op = "droptable"
      BY <2>3, <2>4, <2>6, <3>0, <3>1 DEF Without
    <3>2. CASE s.op = "create"
      BY <2>3, <2>4, <2>6, <3>0, <3>2 DEF With
    <3>3. CASE s.op = "add"
      <4>1. local[t] \in LocalTables
        BY DEF SchemaTypes
      <4>2. t \in DOMAIN local' /\ local'[t].rows = local[t].rows
        BY <2>4, <3>3, <4>1
      <4> QED BY <2>6, <4>2
    <3>4. CASE s.op = "drop"
      <4>1. local[t] \in LocalTables /\ x \in RowType
        BY DEF SchemaTypes
      <4>2. CASE t # s.t
        BY <2>4, <2>6, <3>4, <4>2
      <4>3. CASE t = s.t
        <5>1. n # s.c.n
          BY <2>3, <3>0, <3>4, <4>3
        <5>2. t \in DOMAIN local' /\ local'[t].rows = {[r EXCEPT !.has = @ \ {s.c.n}] : r \in local[t].rows}
          <6> DEFINE cut == {[r EXCEPT !.has = @ \ {s.c.n}] : r \in local[s.t].rows}
                     stay == {c \in local[s.t].cols : c.n # s.c.n}
          <6>1. s.t \in DOMAIN local' /\ local'[s.t] = [cols |-> stay, rows |-> cut]
            BY <2>4, <3>4, <4>1, <4>3
          <6> HIDE DEF stay
          <6> QED BY <4>3, <6>1
        <5> DEFINE y == [x EXCEPT !.has = @ \ {s.c.n}]
        <5>3. y \in local'[t].rows
          BY <5>2
        <5>4. y.tx = x.tx /\ n \in y.has
          BY <2>6, <4>1, <5>1
        <5> QED BY <5>2, <5>3, <5>4
      <4> QED BY <4>2, <4>3
    <3> QED BY <2>3, <3>1, <3>2, <3>3, <3>4
  <2>7. SchemaTypes'
    BY <2>1, <2>5 DEF SchemaTypes, Prints, Range
  <2>8. Once' /\ Stable'
    BY <2>2, SameUpstream
  <2>9. Positions'
    BY <2>1, <2>2 DEF Positions
  <2>10. Prior'
    BY <2>1, <2>2, SameUpstream DEF Prior, Recorded, ColumnNames, Range
  <2>11. Announced'
    <3>1. \A u \in sent \cap DOMAIN rels :
            Lasts(u, cur + 1, ColumnNames(rels[u]))' <=> Lasts(u, cur + 1, ColumnNames(rels[u]))
      BY <2>1, <2>2, SameUpstream DEF ColumnNames, Range
    <3>2. \A u \in sent' \cap DOMAIN rels' :
            (mode' = "relation" /\ u = Msg'.t) \/ Lasts(u, cur + 1, ColumnNames(rels[u]))'
      BY <1>1, <2>1, <2>2, <3>1 DEF Announced
    <3>3. mode' = "relation" =>
            /\ Msg' # Signal /\ DOMAIN target' = DOMAIN expected' /\ Msg'.t \in DOMAIN target'
            /\ ColumnNames(target'[Msg'.t]) = ColumnNames(Msg'.cols)
      <4>1. mode = "relation" =>
              /\ Msg # Signal /\ DOMAIN target = DOMAIN expected /\ Msg.t \in DOMAIN target
              /\ ColumnNames(target[Msg.t]) = ColumnNames(Msg.cols)
        BY DEF Announced
      <4> QED BY <2>1, <2>2, <4>1
    <3>4. mode' = "resync" => Msg' = Signal /\ \A u \in DOMAIN expected' \ DOMAIN target' : <<u>> \in gone'
      BY <2>1, <2>2 DEF Announced
    <3>5. DOMAIN rels' \subseteq DOMAIN expected' /\ cur' < Len(wal') /\ pos' < Len(Tx'.msgs)
      BY <1>1, <2>1, <2>2 DEF Announced
    <3> QED BY <2>2, <3>2, <3>3, <3>4, <3>5 DEF Announced
  <2>12. Buffered'
    BY <2>1, <2>2 DEF Buffered, ColumnNames, Range
  <2>13. PlanSafe'
    BY <1>3, <2>1, <2>2, SameUpstream DEF PlanSafe, Shape
  <2>14. Kept'
    <3>1. \A i : RowsOf(i)' = RowsOf(i)
      BY <2>2, SameUpstream
    <3>2. \A t, n : Alive(t, n)' = Alive(t, n)
      BY <2>2, SameUpstream
    <3> SUFFICES ASSUME trusted, NEW i \in 1..cur, NEW r, r \in RowsOf(i)'
                 PROVE  /\ r.t \in DOMAIN expected \/ <<r.t>> \in gone
                        /\ \A c \in Range(r.cols) : Alive(r.t, c.n)' =>
                             r.t \in DOMAIN local' /\ \E x \in local'[r.t].rows : x.tx = i /\ c.n \in x.has
      BY <2>1 DEF Kept, Range
    <3>3. r \in RowsOf(i)
      BY <3>1
    <3>4. r.t \in DOMAIN expected \/ <<r.t>> \in gone
      BY <3>3 DEF Kept
    <3>5. ASSUME NEW c \in Range(r.cols), Alive(r.t, c.n)
          PROVE  r.t \in DOMAIN local' /\ \E x \in local'[r.t].rows : x.tx = i /\ c.n \in x.has
      <4>1. r.t \in DOMAIN local
        BY <3>3, <3>5 DEF Kept
      <4>2. PICK x \in local[r.t].rows : x.tx = i /\ c.n \in x.has
        BY <3>3, <3>5 DEF Kept
      <4>3. r.t \in DOMAIN expected
        BY <3>4, <3>5, NotBoth
      <4> QED BY <2>6, <3>5, <4>1, <4>2, <4>3
    <3> QED BY <3>2, <3>4, <3>5
  <2> QED BY <2>7, <2>8, <2>9, <2>10, <2>11, <2>12, <2>13, <2>14
<1> QED BY <1>2, <1>3 DEF RunStatement

\* The signal is done with: what the fingerprint forgets is gone upstream.
LEMMA FinishResyncKeeps ==
  ASSUME SchemaInv, FinishResync
  PROVE  SchemaInv'
<1> USE DEF SchemaInv
<1>1. /\ mode = "resync" /\ mode' = "stream" /\ pos' = pos + 1 /\ UNCHANGED upstream
      /\ UNCHANGED <<up, wal, gone, slot, local, wm, started, sent, cur, buf, target, trusted>>
      /\ IF target = expected
         THEN UNCHANGED <<stored, expected, rels>>
         ELSE /\ stored' = target /\ expected' = target
              /\ rels' = [t \in DOMAIN rels \cap DOMAIN target |-> rels[t]]
  BY DEF FinishResync, upstream, work, history
<1>2. /\ expected' = target /\ (stored' = expected' \/ (stored' = stored /\ expected' = expected))
      /\ stored' \in {stored, target}
      /\ DOMAIN rels' \subseteq DOMAIN rels
      /\ \A t \in DOMAIN rels' : rels'[t] = rels[t]
  BY <1>1
<1>3. DOMAIN rels' \subseteq DOMAIN expected'
  BY <1>1 DEF Announced
<1>4. /\ cur < Len(wal) /\ pos < Len(Tx.msgs) /\ Msg = Signal /\ Tx' = Tx /\ Signal' = Signal
      /\ \A t \in DOMAIN expected \ DOMAIN expected' : <<t>> \in gone
      /\ cur \in Nat /\ pos \in Nat
  BY <1>1, <1>2 DEF Announced, Tx, Signal, SchemaTypes
<1>5. SchemaTypes'
  BY <1>1, <1>2, <1>4 DEF SchemaTypes, Prints, Range
<1>6. Once' /\ Stable'
  BY <1>1, SameUpstream
<1>7. Positions'
  <2>1. Len(Tx.msgs) \in Nat
    <3>1. wal \in Seq(Entry) /\ cur + 1 \in 1..Len(wal)
      BY <1>4 DEF SchemaTypes
    <3>2. Tx \in Entry
      BY <3>1 DEF Tx
    <3> QED BY <3>2 DEF Entry
  <2> QED BY <1>1, <1>4, <2>1 DEF Positions
<1>8. Prior'
  <2>1. \A f : Recorded(f) => Recorded(f)'
    BY <1>1, SameUpstream DEF Recorded, ColumnNames, Range
  <2> QED BY <1>1, <1>2, <2>1 DEF Prior, Recorded
<1>9. Announced'
  <2>1. \A u \in sent' \cap DOMAIN rels' : Lasts(u, cur + 1, ColumnNames(rels'[u]))
    BY <1>1, <1>2 DEF Announced
  <2>2. \A u \in sent' \cap DOMAIN rels' : Lasts(u, cur + 1, ColumnNames(rels[u]))'
    BY <1>1, <2>1, SameUpstream DEF ColumnNames, Range
  <2> QED BY <1>1, <1>3, <2>2 DEF Announced
<1>10. Buffered'
  <2> DEFINE held(p) == LET m == Tx.msgs[p] IN
               m # Signal =>
                 /\ m.t \in DOMAIN expected' \/ <<m.t>> \in gone
                 /\ \E b \in Range(buf) : b.t = m.t /\ b.has = ColumnNames(m.cols)
  <2>1. \A p \in 1..pos : held(p)
    BY <1>1, <1>4 DEF Buffered
  <2>2. held(pos + 1)
    BY <1>4 DEF Msg
  <2>3. \A p \in 1..(pos + 1) : held(p)
    BY <1>4, <2>1, <2>2
  <2>4. \A p \in 1..pos' : held(p)
    BY <1>1, <2>3
  <2>5. Tx' = Tx /\ Signal' = Signal /\ buf' = buf /\ gone' = gone
    BY <1>1, <1>4
  <2> QED BY <2>4, <2>5 DEF Buffered, ColumnNames, Range
<1>11. PlanSafe'
  BY <1>1 DEF PlanSafe
<1>12. Kept'
  BY <1>1, <1>4, KeptSame
<1> QED BY <1>5, <1>6, <1>7, <1>8, <1>9, <1>10, <1>11, <1>12

\* The end of a transaction: its rows are in the local tables.
LEMMA ReadCommitKeeps ==
  ASSUME SchemaInv, ReadCommit
  PROVE  SchemaInv'
<1> USE DEF SchemaInv
<1>1. /\ UNCHANGED <<upstream, started, history>> /\ mode = "stream"
      /\ cur < Len(wal) /\ pos = Len(Tx.msgs) /\ cur \in Nat
  BY DEF ReadCommit, SchemaTypes
<1>2. CASE Halt /\ slot' = slot
  BY <1>1, <1>2, HaltKeeps DEF history
<1>3. CASE /\ \A b \in Range(buf) : b.t \in DOMAIN local
           /\ local' = [t \in DOMAIN local |-> [local[t] EXCEPT !.rows =
                          @ \cup {[tx |-> cur + 1, has |-> b.has] : b \in {x \in Range(buf) : x.t = t}}]]
           /\ IF buf = <<>> THEN wm' = wm /\ slot' \in {slot, cur + 1}
              ELSE wm' = cur + 1 /\ slot' = slot
           /\ cur' = cur + 1 /\ pos' = 0 /\ buf' = <<>>
           /\ sent' = IF Tx.op = "insert" THEN sent ELSE sent \ {Tx.t}
           /\ UNCHANGED <<stored, expected, rels, work, mode>>
  <2>1. UNCHANGED <<up, wal, gone, stored, started, expected, rels, plan, target, mode, trusted>>
    BY <1>1, <1>3 DEF upstream, work, history
  <2>2. UNCHANGED upstream /\ Signal' = Signal
    BY <1>1 DEF Signal
  <2>3. /\ wal \in Seq(Entry) /\ Len(wal) \in Nat /\ DOMAIN wal = 1..Len(wal) /\ cur + 1 \in DOMAIN wal
        /\ Tx \in Entry
    <3>1. wal \in Seq(Entry)
      BY DEF SchemaTypes
    <3>2. Len(wal) \in Nat /\ DOMAIN wal = 1..Len(wal)
      BY <3>1, RangeFacts
    <3> QED BY <1>1, <3>1, <3>2 DEF Tx
  <2> DEFINE RowType == [tx : Int, has : SUBSET Names]
             LocalTables == [cols : SUBSET Shape, rows : SUBSET RowType]
             new(t) == {[tx |-> cur + 1, has |-> b.has] : b \in {x \in Range(buf) : x.t = t}}
  <2>4. \A t \in DOMAIN local : local[t] \in LocalTables
    BY DEF SchemaTypes
  <2>5. \A t \in DOMAIN local : new(t) \subseteq RowType
    <3>1. Range(buf) \subseteq [t : TableSet, has : SUBSET Names]
      BY RangeFacts DEF SchemaTypes
    <3> QED BY <1>1, <3>1
  <2>6. DOMAIN local' = DOMAIN local
        /\ \A t \in DOMAIN local : local'[t] = [cols |-> local[t].cols, rows |-> local[t].rows \cup new(t)]
    BY <1>3, <2>4
  <2>7. SchemaTypes'
    <3>1. \A t \in DOMAIN local' : local'[t] \in LocalTables
      <4> HIDE DEF new
      <4> QED BY <2>4, <2>5, <2>6
    <3>2. buf' \in Seq([t : TableSet, has : SUBSET Names])
      BY <1>3, FewFacts
    <3>3. slot' \in Nat /\ wm' \in Nat /\ cur' \in Nat /\ pos' \in Nat /\ sent' \subseteq TableSet
      BY <1>1, <1>3 DEF SchemaTypes
    <3> QED BY <2>1, <3>1, <3>2, <3>3 DEF SchemaTypes, Prints, Range
  <2>8. Once' /\ Stable'
    BY <2>2, SameUpstream
  <2>9. Positions'
    <3>1. slot' <= cur' /\ wm' <= cur' /\ cur' <= Len(wal') /\ pos' = 0
      BY <1>1, <1>3, <2>1, <2>3 DEF Positions, SchemaTypes
    <3>2. cur' < Len(wal') => pos' <= Len(Tx'.msgs)
      <4> SUFFICES ASSUME cur' < Len(wal')
                   PROVE  0 <= Len(Tx'.msgs)
        BY <3>1
      <4>1. cur' + 1 \in 1..Len(wal)
        BY <1>1, <1>3, <2>1, <2>3
      <4>2. Tx' = wal[cur' + 1]
        BY <2>1 DEF Tx
      <4>3. Tx' \in Entry
        BY <2>3, <4>1, <4>2
      <4> QED BY <4>3 DEF Entry
    <3> QED BY <3>1, <3>2 DEF Positions
  <2>10. Prior'
    BY <2>1, <2>2, SameUpstream DEF Prior, Recorded, ColumnNames, Range
  \* What was announced lasts past this transaction, unless it was DDL on the table.
  <2>11. Announced'
    <3>1. ASSUME NEW u \in sent' \cap DOMAIN rels'
          PROVE  Lasts(u, cur + 2, ColumnNames(rels[u]))
      <4> DEFINE i == cur + 1
                 names == ColumnNames(rels[u])
      <4>1. u \in sent \cap DOMAIN rels
        BY <1>3, <2>1, <3>1
      <4>2. Lasts(u, i, names)
        BY <1>1, <4>1 DEF Announced
      <4>3. wal[i].op = "insert" \/ wal[i].t # u
        BY <1>3, <3>1 DEF Tx
      <4>4. i \in Int /\ cur + 2 = i + 1
        BY <1>1
      <4> HIDE DEF i, names
      <4>5. \A j : Calm(u, i + 1, j) => Calm(u, i, j)
        BY <4>3, <4>4 DEF Calm
      <4>6. \A j \in (i + 1)..Len(wal) : j \in i..Len(wal)
        BY <2>3, <4>4
      <4>7. Lasts(u, i + 1, names)
        BY <4>2, <4>5, <4>6 DEF Lasts
      <4> QED BY <4>4, <4>7 DEF names
    <3>2. cur' + 1 = cur + 2
      BY <1>1, <1>3
    <3>3. \A u \in sent' \cap DOMAIN rels' : Lasts(u, cur' + 1, ColumnNames(rels'[u]))
      BY <2>1, <3>1, <3>2
    <3>4. \A u \in sent' \cap DOMAIN rels' : Lasts(u, cur + 1, ColumnNames(rels[u]))'
      BY <2>2, <3>3, SameUpstream DEF ColumnNames, Range
    <3> QED BY <1>1, <2>1, <3>4 DEF Announced
  <2>12. Buffered'
    BY <1>3 DEF Buffered
  <2>13. PlanSafe'
    BY <1>1, <2>1 DEF PlanSafe
  <2>14. Kept'
    <3>1. \A i : RowsOf(i)' = RowsOf(i)
      BY <2>2, SameUpstream
    <3>2. \A t, n : Alive(t, n)' = Alive(t, n)
      BY <2>2, SameUpstream
    <3> SUFFICES ASSUME trusted, NEW i \in 1..(cur + 1), NEW r, r \in RowsOf(i)'
                 PROVE  /\ r.t \in DOMAIN expected \/ <<r.t>> \in gone
                        /\ \A c \in Range(r.cols) : Alive(r.t, c.n)' =>
                             r.t \in DOMAIN local' /\ \E x \in local'[r.t].rows : x.tx = i /\ c.n \in x.has
      BY <1>3, <2>1, ZenonT(60) DEF Kept, Range
    <3>3. r \in RowsOf(i)
      BY <3>1
    <3>4. CASE i \in 1..cur
      <4>1. r.t \in DOMAIN expected \/ <<r.t>> \in gone
        BY <3>3, <3>4 DEF Kept
      <4>2. ASSUME NEW c \in Range(r.cols), Alive(r.t, c.n)
            PROVE  r.t \in DOMAIN local' /\ \E x \in local'[r.t].rows : x.tx = i /\ c.n \in x.has
        <5>1. r.t \in DOMAIN local /\ \E x \in local[r.t].rows : x.tx = i /\ c.n \in x.has
          BY <3>3, <3>4, <4>2 DEF Kept
        <5> HIDE DEF new
        <5>2. local[r.t].rows \subseteq local'[r.t].rows
          BY <2>6, <5>1
        <5> QED BY <2>6, <5>1, <5>2
      <4> QED BY <3>2, <4>1, <4>2
    <3>5. CASE i > cur
      <4>1. i = cur + 1 /\ i \in DOMAIN wal
        BY <1>1, <2>3, <3>5
      <4>2. Tx = wal[i]
        BY <4>1 DEF Tx
      <4>3. PICK p \in 1..pos : r = Tx.msgs[p] /\ r # Signal
        <5>1. \E p \in 1..Len(wal[i].msgs) : r = wal[i].msgs[p]
          BY <3>3, <4>1, LogFacts
        <5>2. r # Signal
          BY <3>3 DEF RowsOf
        <5> QED BY <1>1, <4>2, <5>1, <5>2
      <4>4. /\ r.t \in DOMAIN expected \/ <<r.t>> \in gone
            /\ \E b \in Range(buf) : b.t = r.t /\ b.has = ColumnNames(r.cols)
        BY <1>1, <4>3 DEF Buffered
      <4>5. PICK b \in Range(buf) : b.t = r.t /\ b.has = ColumnNames(r.cols)
        BY <4>4
      <4>6. r.t \in DOMAIN local
        BY <1>3, <4>5
      <4> DEFINE x == [tx |-> cur + 1, has |-> b.has]
      <4>7. x \in local'[r.t].rows
        BY <2>6, <4>5, <4>6
      <4>8. x.tx = i /\ \A c \in Range(r.cols) : c.n \in x.has
        BY <4>1, <4>5 DEF ColumnNames
      <4> QED BY <2>6, <4>4, <4>6, <4>7, <4>8
    <3> QED BY <1>1, <3>4, <3>5
  <2> QED BY <2>7, <2>8, <2>9, <2>10, <2>11, <2>12, <2>13, <2>14
<1> QED BY <1>2, <1>3 DEF ReadCommit

\* A new connection: nothing is announced, and the trusted fingerprint is the one in use.
LEMMA BeginKeeps ==
  ASSUME SchemaInv, NEW fp, fp \in {started, stored}, Begin(fp), started' \in {started, stored}
  PROVE  SchemaInv'
<1> USE DEF SchemaInv
<1>1. /\ expected' = fp /\ rels' = NoTables /\ sent' = {}
      /\ cur' = MaxOf(slot, wm) /\ pos' = 0 /\ buf' = <<>>
      /\ plan' = {} /\ target' = fp /\ mode' = "stream"
      /\ trusted' = (trusted /\ fp = stored)
      /\ UNCHANGED upstream /\ UNCHANGED <<up, wal, gone, slot, local, stored, wm>>
  BY DEF Begin, upstream, durable
<1>2. cur' \in Nat /\ cur' <= cur /\ cur' <= Len(wal) /\ slot <= cur' /\ wm <= cur' /\ cur \in Nat
  <2>1. slot \in Nat /\ wm \in Nat /\ cur \in Nat /\ slot <= cur /\ wm <= cur /\ cur <= Len(wal)
    BY DEF SchemaTypes, Positions
  <2>2. wal \in Seq(Entry) /\ Len(wal) \in Nat
    BY DEF SchemaTypes
  <2> QED BY <1>1, <2>1, <2>2 DEF MaxOf
<1>3. SchemaTypes'
  <2>1. Prints(stored)' /\ Prints(started)' /\ Prints(expected)' /\ Prints(target)' /\ Prints(rels)'
    <3>1. Prints(stored) /\ Prints(started)
      BY DEF SchemaTypes
    <3>2. DOMAIN NoTables = {}
      BY DEF NoTables
    <3> QED BY <1>1, <3>1, <3>2 DEF Prints
  <2>2. buf' \in Seq([t : TableSet, has : SUBSET Names]) /\ sent' \subseteq TableSet
    BY <1>1, FewFacts
  <2>3. trusted' \in BOOLEAN /\ mode' = "stream" /\ pos' \in Nat
    BY <1>1
  <2> QED BY <1>1, <1>2, <2>1, <2>2, <2>3 DEF SchemaTypes, Range
<1>4. Once' /\ Stable'
  BY <1>1, SameUpstream
<1>5. Positions'
  <2>1. cur' < Len(wal') => pos' <= Len(Tx'.msgs)
    <3> SUFFICES ASSUME cur' < Len(wal)
                 PROVE  0 <= Len(Tx'.msgs)
      BY <1>1
    <3>1. wal \in Seq(Entry) /\ cur' + 1 \in 1..Len(wal)
      <4>1. wal \in Seq(Entry) /\ Len(wal) \in Nat
        BY DEF SchemaTypes
      <4>2. cur' < Len(wal) /\ cur' \in Nat /\ Len(wal) \in Nat
        BY <1>2, <4>1
      <4>3. cur' + 1 \in 1..Len(wal)
        <5>1. \A a, b \in Nat : a < b => a + 1 \in 1..b
          OBVIOUS
        <5> QED BY ONLY <4>2, <5>1
      <4> QED BY <4>1, <4>3
    <3>2. Tx' = wal[cur' + 1]
      BY <1>1 DEF Tx
    <3>3. Tx' \in Entry
      BY <3>1, <3>2
    <3> QED BY <3>3 DEF Entry
  <2> QED BY <1>1, <1>2, <2>1 DEF Positions
<1>6. Prior'
  <2>1. \A f : Recorded(f) => Recorded(f)'
    BY <1>1, SameUpstream DEF Recorded, ColumnNames, Range
  <2> QED BY <1>1, <2>1 DEF Prior, Recorded
<1>7. Announced' /\ Buffered' /\ PlanSafe'
  <2>1. Announced'
    <3>1. DOMAIN rels' \subseteq DOMAIN expected'
      BY <1>1 DEF NoTables
    <3> QED BY <1>1, <3>1 DEF Announced
  <2>2. Buffered'
    BY <1>1 DEF Buffered
  <2>3. PlanSafe'
    BY <1>1 DEF PlanSafe
  <2> QED BY <2>1, <2>2, <2>3
<1>8. Kept'
  <2>1. trusted' => trusted /\ expected' = expected
    BY <1>1 DEF Prior, SchemaTypes
  <2> QED BY <1>1, <1>2, <2>1, KeptSame
<1> QED BY <1>3, <1>4, <1>5, <1>6, <1>7, <1>8

-----------------------------------------------------------------------------
(* The theorems *)

LEMMA InitSchema ==
  ASSUME Init
  PROVE  SchemaInv
<1> USE DEF Init
<1> DEFINE t0 == Tables[1]
           k == CHOOSE n \in Names : TRUE
           x == [n |-> k, ty |-> 1, id |-> 0]
<1>1. t0 \in TableSet
  BY SchemaAssumption, RangeFacts DEF TableSet
<1>2. k \in Names
  BY SchemaAssumption
<1>3. x \in Column /\ x.n = k
  BY <1>2 DEF Column
<1>4. NewTable(TRUE, 0) = [oid |-> 0, keyed |-> TRUE, cols |-> <<x>>]
  BY DEF NewTable
<1> HIDE DEF k, x
<1>5. <<x>> \in Seq(Column) \ {<<>>} /\ Range(<<x>>) = {x}
  BY <1>3, FewFacts
<1>6. DOMAIN up = {t0} /\ up[t0] = [oid |-> 0, keyed |-> TRUE, cols |-> <<x>>]
  BY <1>4
<1>7. up[t0] \in TableType /\ up[t0].cols \in Seq(Column) /\ Range(up[t0].cols) = {x}
  <2>1. up[t0].cols = <<x>> /\ up[t0].oid = 0 /\ up[t0].keyed = TRUE
    BY ONLY <1>6
  <2>2. up[t0] \in TableType
    BY ONLY <1>5, <1>6 DEF TableType
  <2> QED BY <1>5, <2>1, <2>2
<1> HIDE DEF t0
<1>8. /\ DOMAIN stored = {t0} /\ stored[t0] \in Seq(Shape)
      /\ ColumnNames(stored[t0]) = ColumnNames(up[t0].cols) /\ Range(stored[t0]) \subseteq Shape
  <2>1. stored = [t \in {t0} |-> FingerprintLine(up[t].cols)]
    BY <1>6 DEF Fingerprint
  <2>2. stored[t0] = FingerprintLine(up[t0].cols) /\ DOMAIN stored = {t0}
    BY <2>1
  <2>3. stored[t0] \in Seq(Shape) /\ ColumnNames(stored[t0]) = ColumnNames(up[t0].cols)
    BY <1>7, <2>2, LineFacts
  <2> DEFINE line == stored[t0]
  <2> HIDE DEF line
  <2>4. line \in Seq(Shape) => Range(line) \subseteq Shape
    BY RangeFacts
  <2> QED BY <2>2, <2>3, <2>4 DEF line
<1>9. wal = <<>> /\ Len(wal) = 0 /\ DOMAIN wal = {} /\ gone = {}
  OBVIOUS
<1>10. SchemaTypes
  <2>1. \A t \in DOMAIN local : local[t] \in [cols : SUBSET Shape, rows : SUBSET [tx : Int, has : SUBSET Names]]
    BY <1>6, <1>8 DEF Created
  <2>2. Prints(stored) /\ Prints(rels)
    BY <1>8 DEF Prints, NoTables
  <2>3. wal \in Seq(Entry) /\ buf \in Seq([t : TableSet, has : SUBSET Names])
    BY FewFacts
  <2> QED BY <1>1, <1>6, <1>7, <2>1, <2>2, <2>3 DEF SchemaTypes
<1>11. Once
  <2>1. \A t \in DOMAIN up : <<t>> \notin gone
    BY <1>9
  <2> QED BY <1>9, <2>1 DEF Once
<1>12. Stable /\ Positions
  BY <1>9 DEF Stable, Positions
<1>13. Prior
  <2>1. Recorded(stored)
    BY <1>6, <1>8 DEF Recorded, Existed, Known, Alive
  <2> QED BY <2>1 DEF Prior
<1>14. Announced /\ Buffered /\ PlanSafe /\ Kept
  <2>1. Announced
    BY DEF Announced, NoTables
  <2>2. Buffered
    BY DEF Buffered
  <2>3. PlanSafe /\ Kept
    BY DEF PlanSafe, Kept
  <2> QED BY <2>1, <2>2, <2>3
<1> QED BY <1>10, <1>11, <1>12, <1>13, <1>14 DEF SchemaInv

\* What clients do with the local database, and nothing at all.
LEMMA StutterSchema ==
  ASSUME SchemaInv, UNCHANGED replica
  PROVE  SchemaInv'
<1>1. UNCHANGED upstream /\ UNCHANGED <<up, wal, gone, slot, local, stored, wm, started, expected, rels, sent,
                                        cur, pos, buf, plan, target, mode, trusted>>
  BY DEF replica, upstream, durable, stream, work, history
<1>2. SchemaTypes' /\ Positions'
  BY <1>1 DEF SchemaInv, SchemaTypes, Prints, Positions, Tx, Range
<1>3. Once' /\ Stable'
  BY <1>1, SameUpstream DEF SchemaInv
<1>4. Prior' /\ PlanSafe'
  BY <1>1, SameUpstream DEF SchemaInv, Prior, Recorded, PlanSafe, Shape, ColumnNames, Range
<1>5. Announced'
  <2>1. Tx' = Tx /\ Signal' = Signal /\ Msg' = Msg
    BY <1>1 DEF Msg, Tx, Signal
  <2>2. \A u \in sent' \cap DOMAIN rels' : mode' # "halted" =>
          (mode' = "relation" /\ u = Msg'.t) \/ Lasts(u, cur + 1, ColumnNames(rels[u]))'
    <3>1. \A u \in sent \cap DOMAIN rels : mode # "halted" =>
            (mode = "relation" /\ u = Msg.t) \/ Lasts(u, cur + 1, ColumnNames(rels[u]))
      BY DEF SchemaInv, Announced
    <3> QED BY <1>1, <2>1, <3>1, SameUpstream DEF ColumnNames, Range
  <2>3. mode' = "relation" =>
          /\ Msg' # Signal /\ DOMAIN target' = DOMAIN expected' /\ Msg'.t \in DOMAIN target'
          /\ ColumnNames(target'[Msg'.t]) = ColumnNames(Msg'.cols)
    <3>1. mode = "relation" =>
            /\ Msg # Signal /\ DOMAIN target = DOMAIN expected /\ Msg.t \in DOMAIN target
            /\ ColumnNames(target[Msg.t]) = ColumnNames(Msg.cols)
      BY DEF SchemaInv, Announced
    <3> QED BY <1>1, <2>1, <3>1
  <2>4. mode' = "resync" => Msg' = Signal /\ \A u \in DOMAIN expected' \ DOMAIN target' : <<u>> \in gone'
    BY <1>1, <2>1 DEF SchemaInv, Announced
  <2>5. mode' # "halted" =>
          /\ DOMAIN rels' \subseteq DOMAIN expected'
          /\ mode' \in {"resync", "relation"} => cur' < Len(wal') /\ pos' < Len(Tx'.msgs)
    BY <1>1, <2>1 DEF SchemaInv, Announced
  <2> QED BY <2>1, <2>2, <2>3, <2>4, <2>5 DEF Announced
<1>6. Buffered'
  <2>1. Tx' = Tx /\ Signal' = Signal
    BY <1>1 DEF Tx, Signal
  <2> QED BY <1>1, <2>1 DEF SchemaInv, Buffered, ColumnNames, Range
<1>7. Kept'
  BY <1>1, KeptSame DEF SchemaInv, SchemaTypes
<1> QED BY <1>2, <1>3, <1>4, <1>5, <1>6, <1>7 DEF SchemaInv

\* Through DDL at any distance ahead of the stream, signals, lost connections and restarts the
\* fingerprints name what there was, what was announced is what rows come with, plans drop only
\* what is gone, and the rows of living columns are in the local tables.
THEOREM SchemaInvariance == Spec => []SchemaInv
<1>1. Init => SchemaInv
  BY InitSchema
<1>2. SchemaInv /\ [Next]_vars => SchemaInv'
  <2> SUFFICES ASSUME SchemaInv, [Next]_vars
               PROVE  SchemaInv'
    OBVIOUS
  <2>1. CASE Upstream
    BY <2>1, UpstreamKeeps
  <2>2. CASE Read
    BY <2>2, ReadRelationKeeps, ReadRowKeeps, ReadSignalKeeps, ReadCommitKeeps DEF Read
  <2>3. CASE Local
    BY <2>3, RunStatementKeeps, FinishRelationKeeps, FinishResyncKeeps DEF Local
  <2>4. CASE Reconnect
    BY <2>4, BeginKeeps DEF Reconnect
  <2>5. CASE Restart
    BY <2>5, BeginKeeps DEF Restart
  <2>6. CASE Depend \/ Undepend
    BY <2>6, StutterSchema DEF Depend, Undepend
  <2>7. CASE UNCHANGED vars
    BY <2>7, StutterSchema DEF vars
  <2> QED BY <2>1, <2>2, <2>3, <2>4, <2>5, <2>6, <2>7 DEF Next
<1> QED BY <1>1, <1>2, PTL DEF Spec

\* A value that came with the stream is lost only with its own column or table upstream, or with
\* the name that column had, whatever DDL follows and wherever a resync is cut off.
THEOREM NoValueLost == Spec => []ValuesKept
<1>1. SchemaInv => ValuesKept
  <2> SUFFICES ASSUME SchemaInv, trusted, NEW i \in 1..cur, NEW r \in Range(wal[i].msgs) \ {Signal},
                      r.t \in DOMAIN up, NEW c \in Range(r.cols),
                      NEW d \in Range(up[r.t].cols), d.n = c.n
               PROVE  /\ r.t \in DOMAIN local
                      /\ \E x \in local[r.t].rows : x.tx = i /\ c.n \in x.has
    BY DEF ValuesKept
  <2>1. r \in RowsOf(i)
    BY DEF RowsOf
  <2>2. Alive(r.t, c.n)
    BY DEF Alive, ColumnNames
  <2> QED BY <2>1, <2>2 DEF SchemaInv, Kept
<1> QED BY <1>1, SchemaInvariance, PTL

=============================================================================
