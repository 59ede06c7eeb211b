------------------------- MODULE ReplicaFollowProof -------------------------
(***************************************************************************)
(* What the replica ends with, and when it halts, for every number of      *)
(* tables, columns, transactions, lost connections and restarts.           *)
(*                                                                         *)
(* SchemaConverges: LogInv is about the upstream, CatalogInv follows the   *)
(* local tables through every plan, from the one fingerprint to the other. *)
(* HaltJustified: ReadyInv says that as long as the changes can be         *)
(* followed, what the stream still brings meets a fingerprint, and tables, *)
(* that serve it.                                                          *)
(***************************************************************************)
EXTENDS ReplicaSchemaProof

\* Columns have different names.
Distinct(cols) == \A i, j \in DOMAIN cols : cols[i].n = cols[j].n => i = j
\* No column was given another type.
Plain(cols) == \A i \in DOMAIN cols : cols[i].ty = 1

\* What a transaction is made of.
WellMade(e) ==
  /\ e.op = "insert" => Len(e.msgs) = 1 /\ e.msgs[1] # Signal
  /\ e.op # "insert" /\ e.msgs # <<>> => e.msgs[Len(e.msgs)] = Signal
  /\ e.op # "mixed" => Len(e.msgs) <= 1
  /\ e.signalled => e.msgs # <<>>

\* What a transaction e of the upstream does to the shape of the table t.
Shifted(t, e) ==
  /\ WellMade(e)
  /\ t \in DOMAIN up' =>
       /\ (t \in DOMAIN up => Distinct(up[t].cols)) => Distinct(up'[t].cols)
       /\ e.op \notin {"retype", "mixed"} /\ (t \in DOMAIN up => Plain(up[t].cols)) => Plain(up'[t].cols)
       /\ e.op # "unkeyed" /\ (t \in DOMAIN up => up[t].keyed) => up'[t].keyed
       /\ e.op \in {"insert", "add"} => t \in DOMAIN up /\ Additive(up[t].cols, up'[t].cols)
  /\ DOMAIN up' = {} => e.op = "empty"

-----------------------------------------------------------------------------
(* Columns and fingerprints *)

\* Columns that only grow: an order.
LEMMA AdditiveFacts ==
  /\ \A S : \A a \in Seq(S) : Additive(a, a)
  /\ \A S : \A a, b \in Seq(S) : Additive(a, b) =>
       /\ Range(a) \subseteq Range(b) /\ ColumnNames(a) \subseteq ColumnNames(b)
       /\ \A c \in Seq(S) : Additive(b, c) => Additive(a, c)
<1>1. ASSUME NEW S, NEW a \in Seq(S)
      PROVE  Additive(a, a)
  <2>1. Len(a) \in Nat
    OBVIOUS
  <2> QED BY <2>1 DEF Additive
<1>2. ASSUME NEW S, NEW a \in Seq(S), NEW b \in Seq(S), Additive(a, b)
      PROVE  /\ Range(a) \subseteq Range(b) /\ ColumnNames(a) \subseteq ColumnNames(b)
             /\ \A c \in Seq(S) : Additive(b, c) => Additive(a, c)
  <2>1. /\ Len(a) \in Nat /\ Len(b) \in Nat /\ DOMAIN a = 1..Len(a) /\ DOMAIN b = 1..Len(b)
        /\ Len(b) >= Len(a) /\ \A i \in DOMAIN a : i \in DOMAIN b /\ b[i] = a[i]
    <3>1. /\ Len(a) \in Nat /\ Len(b) \in Nat /\ DOMAIN a = 1..Len(a) /\ DOMAIN b = 1..Len(b)
      OBVIOUS
    <3> QED BY <1>2, <3>1 DEF Additive
  <2>2. Range(a) \subseteq Range(b)
    BY <2>1 DEF Range
  <2>3. ColumnNames(a) \subseteq ColumnNames(b)
    BY <2>2 DEF ColumnNames
  <2>4. ASSUME NEW c \in Seq(S), Additive(b, c)
        PROVE  Additive(a, c)
    <3>1. Len(c) \in Nat /\ Len(c) >= Len(b) /\ \A i \in DOMAIN b : c[i] = b[i]
      BY <2>4 DEF Additive
    <3> QED BY <2>1, <3>1 DEF Additive
  <2> QED BY <2>2, <2>3, <2>4
<1> QED BY <1>1, <1>2

\* A column of a fingerprint.
LEMMA LineColumns ==
  ASSUME NEW cols \in Seq(Column)
  PROVE  LET line == FingerprintLine(cols)
         IN /\ line \in Seq(Shape) /\ Len(line) = Len(cols) /\ DOMAIN line = DOMAIN cols
            /\ Len(cols) \in Nat /\ DOMAIN cols = 1..Len(cols)
            /\ \A i \in DOMAIN cols : line[i] = [n |-> cols[i].n, ty |-> cols[i].ty]
            /\ Distinct(cols) => Distinct(line)
            /\ Plain(cols) => Plain(line)
            /\ ColumnNames(line) = ColumnNames(cols)
<1> DEFINE line == FingerprintLine(cols)
<1>1. Len(cols) \in Nat /\ DOMAIN cols = 1..Len(cols)
  OBVIOUS
<1>2. line \in Seq(Shape) /\ ColumnNames(line) = ColumnNames(cols)
  BY LineFacts
<1>3. DOMAIN line = DOMAIN cols /\ \A i \in DOMAIN cols : line[i] = [n |-> cols[i].n, ty |-> cols[i].ty]
  BY DEF FingerprintLine
<1> HIDE DEF line
<1>4. Len(line) = Len(cols)
  <2>1. DOMAIN line = 1..Len(line) /\ Len(line) \in Nat
    BY <1>2
  <2> QED BY <1>1, <1>3, <2>1
<1>5. Distinct(cols) => Distinct(line)
  BY <1>3 DEF Distinct
<1>6. Plain(cols) => Plain(line)
  BY <1>3 DEF Plain
<1> QED BY <1>1, <1>2, <1>3, <1>4, <1>5, <1>6 DEF line

LEMMA LineGrows ==
  ASSUME NEW a \in Seq(Column), NEW b \in Seq(Column), Additive(a, b)
  PROVE  Additive(FingerprintLine(a), FingerprintLine(b))
<1> DEFINE la == FingerprintLine(a)
           lb == FingerprintLine(b)
<1>1. /\ Len(la) = Len(a) /\ DOMAIN la = DOMAIN a /\ Len(a) \in Nat /\ DOMAIN a = 1..Len(a)
      /\ \A i \in DOMAIN a : la[i] = [n |-> a[i].n, ty |-> a[i].ty]
  BY LineColumns
<1>2. /\ Len(lb) = Len(b) /\ DOMAIN lb = DOMAIN b /\ Len(b) \in Nat /\ DOMAIN b = 1..Len(b)
      /\ \A i \in DOMAIN b : lb[i] = [n |-> b[i].n, ty |-> b[i].ty]
  BY LineColumns
<1> HIDE DEF la, lb
<1>3. Len(b) >= Len(a) /\ \A i \in DOMAIN a : b[i] = a[i]
  BY DEF Additive
<1>4. \A i \in DOMAIN a : i \in DOMAIN b
  BY <1>1, <1>2, <1>3
<1>5. Additive(la, lb)
  BY <1>1, <1>2, <1>3, <1>4 DEF Additive
<1> QED BY <1>5 DEF la, lb

\* Of different names there is one column each.
LEMMA DistinctFacts ==
  ASSUME NEW line, Distinct(line)
  PROVE  \A c, d \in Range(line) : c.n = d.n => c = d
BY DEF Distinct, Range

\* ADD COLUMN of a name that is not there.
LEMMA AddShape ==
  ASSUME NEW cols \in Seq(Column), NEW x \in Column, x.ty = 1, x.n \notin ColumnNames(cols)
  PROVE  LET new == Append(cols, x)
         IN /\ Distinct(cols) => Distinct(new)
            /\ Plain(cols) => Plain(new)
            /\ Additive(cols, new)
<1> DEFINE new == Append(cols, x)
<1>1. /\ new \in Seq(Column) /\ Len(new) = Len(cols) + 1 /\ Len(cols) \in Nat
      /\ \A i \in 1..Len(cols) : new[i] = cols[i]
      /\ new[Len(cols) + 1] = x
  OBVIOUS
<1>2. DOMAIN cols = 1..Len(cols) /\ DOMAIN new = 1..(Len(cols) + 1)
  BY <1>1
<1> HIDE DEF new
<1>3. \A i \in DOMAIN new : i \in DOMAIN cols \/ i = Len(cols) + 1
  BY <1>1, <1>2
<1>4. \A i \in DOMAIN cols : cols[i].n # x.n
  BY DEF ColumnNames, Range
<1>5. Distinct(cols) => Distinct(new)
  <2> SUFFICES ASSUME Distinct(cols), NEW i \in DOMAIN new, NEW j \in DOMAIN new, new[i].n = new[j].n
               PROVE  i = j
    BY DEF Distinct
  <2>1. CASE i \in DOMAIN cols /\ j \in DOMAIN cols
    BY <1>1, <1>2, <2>1 DEF Distinct
  <2>2. CASE i \notin DOMAIN cols \/ j \notin DOMAIN cols
    BY <1>1, <1>2, <1>3, <1>4, <2>2
  <2> QED BY <2>1, <2>2
<1>6. Plain(cols) => Plain(new)
  BY <1>1, <1>2, <1>3 DEF Plain
<1>7. Additive(cols, new)
  BY <1>1, <1>2 DEF Additive
<1> QED BY <1>5, <1>6, <1>7 DEF new

\* DROP COLUMN closes the gap.
LEMMA CutShape ==
  ASSUME NEW cols \in Seq(Column), Len(cols) > 1, NEW i \in 1..Len(cols)
  PROVE  LET new == SubSeq(cols, 1, i - 1) \o SubSeq(cols, i + 1, Len(cols))
         IN /\ Distinct(cols) => Distinct(new)
            /\ Plain(cols) => Plain(new)
<1> DEFINE a == SubSeq(cols, 1, i - 1)
           b == SubSeq(cols, i + 1, Len(cols))
           new == a \o b
           from(j) == IF j <= i - 1 THEN j ELSE j + 1
<1>1. Len(cols) \in Nat /\ DOMAIN cols = 1..Len(cols) /\ i \in Int /\ i >= 1 /\ i <= Len(cols)
  OBVIOUS
<1>2. a \in Seq(Column) /\ Len(a) = i - 1 /\ \A j \in 1..(i - 1) : a[j] = cols[j]
  <2>1. \A j \in 1..(i - 1) : cols[j] \in Column
    BY <1>1
  <2> QED BY <2>1, <1>1, SubSeqProperties
<1>3. b \in Seq(Column) /\ Len(b) = Len(cols) - i /\ \A j \in 1..(Len(cols) - i) : b[j] = cols[i + j]
  <2>1. \A j \in (i + 1)..Len(cols) : cols[j] \in Column
    BY <1>1
  <2>2. b \in Seq(Column)
    BY <2>1, SubSeqProperties
  <2>3. Len(b) = Len(cols) - i
    <3>1. i + 1 \in Int /\ Len(cols) \in Int
      BY <1>1
    <3>2. Len(b) = IF i + 1 <= Len(cols) THEN Len(cols) - (i + 1) + 1 ELSE 0
      BY <2>1, <3>1, SubSeqProperties
    <3>3. i \in Int /\ i <= Len(cols)
      BY <1>1
    <3>4. (IF i + 1 <= Len(cols) THEN Len(cols) - (i + 1) + 1 ELSE 0) = Len(cols) - i
      BY ONLY <3>1, <3>3
    <3> QED BY <3>2, <3>4
  <2>4. \A j \in 1..(Len(cols) - i) : b[j] = cols[i + j]
    <3> TAKE j \in 1..(Len(cols) - i)
    <3>1. j \in 1..(Len(cols) - (i + 1) + 1) /\ (i + 1) + j - 1 = i + j
      BY <1>1
    <3> QED BY <1>1, <2>1, <3>1, SubSeqProperties
  <2> QED BY <2>2, <2>3, <2>4
<1> HIDE DEF a, b
<1>4. new \in Seq(Column) /\ Len(new) = Len(cols) - 1
  <2>1. Len(a) + Len(b) = Len(cols) - 1
    BY <1>1, <1>2, <1>3
  <2>2. new \in Seq(Column) /\ Len(new) = Len(a) + Len(b)
    BY <1>2, <1>3, ConcatProperties
  <2> QED BY <2>1, <2>2
<1>5. DOMAIN new = 1..(Len(cols) - 1)
  BY <1>4
<1>6. \A j \in 1..(Len(cols) - 1) : new[j] = IF j <= i - 1 THEN a[j] ELSE b[j - (i - 1)]
  BY <1>1, <1>2, <1>3
<1> HIDE DEF new
<1>7. \A j \in DOMAIN new : from(j) \in DOMAIN cols /\ new[j] = cols[from(j)]
  <2> SUFFICES ASSUME NEW j \in 1..(Len(cols) - 1)
               PROVE  from(j) \in 1..Len(cols) /\ new[j] = cols[from(j)]
    BY <1>1, <1>5
  <2>1. CASE j <= i - 1
    BY <2>1, <1>1, <1>2, <1>6
  <2>2. CASE ~(j <= i - 1)
    <3>1. j - (i - 1) \in 1..(Len(cols) - i) /\ i + (j - (i - 1)) = j + 1 /\ j + 1 \in 1..Len(cols)
      BY <2>2, <1>1
    <3> QED BY <2>2, <3>1, <1>3, <1>6
  <2> QED BY <2>1, <2>2
<1>8. \A j, k \in DOMAIN new : from(j) = from(k) => j = k
  BY <1>1, <1>5
<1> HIDE DEF from
<1>9. Distinct(cols) => Distinct(new)
  BY <1>7, <1>8 DEF Distinct
<1>10. Plain(cols) => Plain(new)
  BY <1>7 DEF Plain
<1> QED BY <1>9, <1>10 DEF new, a, b

\* ALTER COLUMN TYPE keeps the names.
LEMMA RetypeShape ==
  ASSUME NEW cols \in Seq(Column), NEW i \in 1..Len(cols), Distinct(cols)
  PROVE  Distinct([cols EXCEPT ![i].ty = 3 - @])
<1> DEFINE new == [cols EXCEPT ![i].ty = 3 - @]
<1>1. DOMAIN cols = 1..Len(cols) /\ \A j \in DOMAIN cols : cols[j] \in Column
  OBVIOUS
<1>2. DOMAIN new = DOMAIN cols /\ \A j \in DOMAIN cols : new[j].n = cols[j].n
  <2>1. DOMAIN new = DOMAIN cols
    OBVIOUS
  <2>2. ASSUME NEW j \in DOMAIN cols
        PROVE  new[j].n = cols[j].n
    <3>1. new[j] = IF j = i THEN [cols[j] EXCEPT !.ty = 3 - @] ELSE cols[j]
      BY <1>1
    <3>2. cols[j] \in [n : Names, ty : Int, id : Int]
      BY <1>1 DEF Column
    <3>3. [cols[j] EXCEPT !.ty = 3 - @].n = cols[j].n
      BY <3>2
    <3> QED BY <3>1, <3>3
  <2> QED BY <2>1, <2>2
<1> HIDE DEF new
<1>3. Distinct(new)
  BY <1>2 DEF Distinct
<1> QED BY <1>3 DEF new

\* RENAME COLUMN to a name that is not there.
LEMMA RenameShape ==
  ASSUME NEW cols \in Seq(Column), NEW i \in 1..Len(cols), NEW n \in Names, n \notin ColumnNames(cols)
  PROVE  LET new == [cols EXCEPT ![i].n = n]
         IN /\ Distinct(cols) => Distinct(new)
            /\ Plain(cols) => Plain(new)
<1> DEFINE new == [cols EXCEPT ![i].n = n]
<1>1. DOMAIN cols = 1..Len(cols) /\ \A j \in DOMAIN cols : cols[j] \in Column
  OBVIOUS
<1>2. DOMAIN new = DOMAIN cols
      /\ \A j \in DOMAIN cols : new[j].n = (IF j = i THEN n ELSE cols[j].n) /\ new[j].ty = cols[j].ty
  <2>1. DOMAIN new = DOMAIN cols
    OBVIOUS
  <2>2. ASSUME NEW j \in DOMAIN cols
        PROVE  new[j].n = (IF j = i THEN n ELSE cols[j].n) /\ new[j].ty = cols[j].ty
    <3>1. new[j] = IF j = i THEN [cols[j] EXCEPT !.n = n] ELSE cols[j]
      BY <1>1
    <3>2. cols[j] \in [n : Names, ty : Int, id : Int]
      BY <1>1 DEF Column
    <3>3. [cols[j] EXCEPT !.n = n].n = n /\ [cols[j] EXCEPT !.n = n].ty = cols[j].ty
      BY <3>2
    <3> QED BY <3>1, <3>3
  <2> QED BY <2>1, <2>2
<1>3. \A j \in DOMAIN cols : cols[j].n # n
  BY DEF ColumnNames, Range
<1> HIDE DEF new
<1>4. Distinct(cols) => Distinct(new)
  BY <1>2, <1>3 DEF Distinct
<1>5. Plain(cols) => Plain(new)
  BY <1>2 DEF Plain
<1> QED BY <1>4, <1>5 DEF new

-----------------------------------------------------------------------------
(* The upstream *)

\* The messages of a transaction: none, a row, the signal, or both.
LEMMA MessageFacts ==
  ASSUME SchemaTypes, NEW t \in DOMAIN up
  PROVE  /\ Len(<<Row(t)>>) = 1 /\ <<Row(t)>>[1] # Signal
         /\ <<Row(t)>> # <<>> /\ <<Signal>> # <<>> /\ <<Row(t), Signal>> # <<>>
         /\ Len(<<Signal>>) = 1 /\ <<Signal>>[1] = Signal /\ Len(<<>>) = 0
         /\ Len(<<Row(t), Signal>>) = 2 /\ <<Row(t), Signal>>[2] = Signal
<1>1. up[t] \in TableType
  BY DEF SchemaTypes
<1>2. Row(t).cols # <<>> /\ Signal.cols = <<>>
  BY <1>1 DEF Row, Signal, TableType
<1>3. Row(t) # Signal
  BY <1>2
<1> DEFINE r == Row(t)
           s == Signal
<1> HIDE DEF r, s
<1>4. /\ Len(<<r>>) = 1 /\ <<r>>[1] = r /\ Len(<<s>>) = 1 /\ <<s>>[1] = s /\ Len(<<>>) = 0
      /\ Len(<<r, s>>) = 2 /\ <<r, s>>[2] = s
      /\ <<r>> # <<>> /\ <<s>> # <<>> /\ <<r, s>> # <<>>
  OBVIOUS
<1> QED BY <1>3, <1>4 DEF r, s

\* A transaction of DDL, with its signal or without.
LEMMA SignalMade ==
  ASSUME NEW s \in BOOLEAN, NEW op \in OpNames, op # "insert", NEW t
  PROVE  WellMade([op |-> op, t |-> t, msgs |-> IF s THEN <<Signal>> ELSE <<>>, signalled |-> s])
<1> DEFINE x == Signal
           m == IF s THEN <<x>> ELSE <<>>
           e == [op |-> op, t |-> t, msgs |-> m, signalled |-> s]
<1> HIDE DEF x
<1>1. s => m # <<>>
  BY DEF m
<1>2. m # <<>> => m = <<x>>
  BY DEF m
<1>3. Len(m) <= 1 /\ (m # <<>> => m[Len(m)] = x)
  <2>1. Len(<<x>>) = 1 /\ <<x>>[1] = x /\ Len(<<>>) = 0
    OBVIOUS
  <2> QED BY <2>1, <1>2
<1> HIDE DEF m
<1>4. e.op = op /\ e.msgs = m /\ e.signalled = s
  OBVIOUS
<1>5. WellMade(e)
  BY <1>1, <1>3, <1>4 DEF WellMade, x
<1> QED BY <1>5 DEF m, x

\* ALTER TABLE t, whose columns become cols.
LEMMA AlterShifts ==
  ASSUME SchemaTypes, NEW t \in DOMAIN up, NEW op \in {"add", "drop", "rename", "retype"}, NEW cols,
         Alter(op, t, cols),
         Distinct(up[t].cols) => Distinct(cols),
         op # "retype" /\ Plain(up[t].cols) => Plain(cols),
         op = "add" => Additive(up[t].cols, cols)
  PROVE  \E e : wal' = Append(wal, e) /\ e.t = t /\ Shifted(t, e)
<1>1. up' = [up EXCEPT ![t].cols = cols] /\ up[t] \in TableType
  BY DEF Alter, SchemaTypes
<1>2. DOMAIN up' = DOMAIN up /\ up'[t].cols = cols /\ up'[t].keyed = up[t].keyed
  BY <1>1 DEF TableType
<1>3. ASSUME NEW o, NEW m, NEW s, Commit(o, t, m, s), o \in {op, "mixed"},
             WellMade([op |-> o, t |-> t, msgs |-> m, signalled |-> s])
      PROVE  \E e : wal' = Append(wal, e) /\ e.t = t /\ Shifted(t, e)
  <2> DEFINE e == [op |-> o, t |-> t, msgs |-> m, signalled |-> s]
  <2>1. wal' = Append(wal, e)
    BY <1>3 DEF Commit
  <2>2. e.t = t /\ e.op = o
    OBVIOUS
  <2>3. WellMade(e)
    BY <1>3
  <2> HIDE DEF e
  <2>4. Shifted(t, e)
    BY <1>2, <1>3, <2>2, <2>3 DEF Shifted
  <2> QED BY <2>1, <2>2, <2>4
<1>4. CASE \E s \in Signals : Commit(op, t, IF s THEN <<Signal>> ELSE <<>>, s)
  <2>1. PICK s \in Signals : Commit(op, t, IF s THEN <<Signal>> ELSE <<>>, s)
    BY <1>4
  <2>2. s \in BOOLEAN /\ op \in OpNames /\ op # "insert"
    BY SchemaAssumption DEF OpNames
  <2> QED BY <2>1, <2>2, <1>3, SignalMade
<1>5. CASE Commit("mixed", t, <<Row(t), Signal>>, TRUE)
  <2> DEFINE m == <<Row(t), Signal>>
  <2>1. m # <<>> /\ Len(m) = 2 /\ m[2] = Signal
    BY MessageFacts
  <2> HIDE DEF m
  <2>2. WellMade([op |-> "mixed", t |-> t, msgs |-> m, signalled |-> TRUE])
    BY <2>1 DEF WellMade
  <2>3. Commit("mixed", t, m, TRUE)
    BY <1>5 DEF m
  <2> QED BY <2>2, <2>3, <1>3
<1> QED BY <1>4, <1>5 DEF Alter

\* Every action of the upstream is such a transaction.
LEMMA UpstreamShape ==
  ASSUME SchemaTypes, Upstream
  PROVE  \E t, e : wal' = Append(wal, e) /\ e.t = t /\ Shifted(t, e)
<1>0. /\ \A t \in DOMAIN up : up[t] \in TableType
      /\ wal \in Seq(Entry) /\ Len(wal) \in Nat
  BY DEF SchemaTypes
<1>1. CASE UpstreamInsert
  <2>1. PICK t \in DOMAIN up : Commit("insert", t, <<Row(t)>>, TRUE)
    BY <1>1 DEF UpstreamInsert
  <2>2. up' = up
    BY <1>1 DEF UpstreamInsert
  <2> DEFINE m == <<Row(t)>>
             e == [op |-> "insert", t |-> t, msgs |-> m, signalled |-> TRUE]
  <2>3. m # <<>> /\ Len(m) = 1 /\ m[1] # Signal
    BY MessageFacts
  <2>4. wal' = Append(wal, e)
    BY <2>1 DEF Commit
  <2> HIDE DEF m
  <2>5. WellMade(e)
    <3>1. e.op = "insert" /\ e.msgs = m /\ 1 <= 1
      OBVIOUS
    <3> QED BY <2>3, <3>1 DEF WellMade
  <2>6. Additive(up[t].cols, up[t].cols)
    BY <1>0, AdditiveFacts DEF TableType
  <2>7. e.op = "insert" /\ e.t = t
    OBVIOUS
  <2> HIDE DEF e
  <2>8. Shifted(t, e)
    BY <2>2, <2>5, <2>6, <2>7 DEF Shifted
  <2> QED BY <2>4, <2>7, <2>8
<1>2. CASE UpstreamAlter
  <2>1. PICK t \in DOMAIN up :
         LET cols == up[t].cols IN
         \/ /\ "add" \in Ops
            /\ \E n \in Names :
                 /\ n \notin ColumnNames(cols) /\ <<t, n>> \notin gone
                 /\ Alter("add", t, Append(cols, [n |-> n, ty |-> 1, id |-> Len(wal) + 1]))
         \/ /\ "drop" \in Ops /\ Len(cols) > 1
            /\ \E i \in DOMAIN cols : Alter("drop", t, SubSeq(cols, 1, i - 1) \o SubSeq(cols, i + 1, Len(cols)))
         \/ /\ "rename" \in Ops
            /\ \E i \in DOMAIN cols, n \in Names :
                 /\ n \notin ColumnNames(cols) /\ <<t, n>> \notin gone
                 /\ Alter("rename", t, [cols EXCEPT ![i].n = n])
         \/ /\ "retype" \in Ops
            /\ \E i \in DOMAIN cols :
                 Alter("retype", t, [cols EXCEPT ![i].ty = 3 - @])
    BY <1>2 DEF UpstreamAlter
  <2> DEFINE cols == up[t].cols
  <2>2. cols \in Seq(Column) /\ DOMAIN cols = 1..Len(cols)
    BY <1>0, RangeFacts DEF TableType
  <2>3. CASE \E n \in Names :
               /\ n \notin ColumnNames(cols) /\ <<t, n>> \notin gone
               /\ Alter("add", t, Append(cols, [n |-> n, ty |-> 1, id |-> Len(wal) + 1]))
    <3>1. PICK n \in Names : /\ n \notin ColumnNames(cols)
                             /\ Alter("add", t, Append(cols, [n |-> n, ty |-> 1, id |-> Len(wal) + 1]))
      BY <2>3
    <3> DEFINE x == [n |-> n, ty |-> 1, id |-> Len(wal) + 1]
    <3>2. x \in Column /\ x.n = n /\ x.ty = 1
      BY <1>0 DEF Column
    <3> HIDE DEF x, cols
    <3> DEFINE new == Append(cols, x)
    <3>3. (Distinct(cols) => Distinct(new)) /\ (Plain(cols) => Plain(new)) /\ Additive(cols, new)
      BY <2>2, <3>1, <3>2, AddShape
    <3>4. Alter("add", t, new)
      BY <3>1 DEF x
    <3> HIDE DEF new
    <3> QED BY <3>3, <3>4, AlterShifts DEF cols
  <2>4. CASE Len(cols) > 1 /\ \E i \in DOMAIN cols :
               Alter("drop", t, SubSeq(cols, 1, i - 1) \o SubSeq(cols, i + 1, Len(cols)))
    <3>1. PICK i \in DOMAIN cols :
               Alter("drop", t, SubSeq(cols, 1, i - 1) \o SubSeq(cols, i + 1, Len(cols)))
      BY <2>4
    <3> DEFINE new == SubSeq(cols, 1, i - 1) \o SubSeq(cols, i + 1, Len(cols))
    <3> HIDE DEF cols
    <3>2. (Distinct(cols) => Distinct(new)) /\ (Plain(cols) => Plain(new))
      <4>1. cols \in Seq(Column) /\ Len(cols) > 1 /\ i \in 1..Len(cols)
        BY <2>2, <2>4
      <4> QED BY <4>1, CutShape
    <3>3. Alter("drop", t, new)
      BY <3>1
    <3> HIDE DEF new
    <3> QED BY <3>2, <3>3, AlterShifts DEF cols
  <2>5. CASE \E i \in DOMAIN cols : Alter("retype", t, [cols EXCEPT ![i].ty = 3 - @])
    <3>1. PICK i \in DOMAIN cols : Alter("retype", t, [cols EXCEPT ![i].ty = 3 - @])
      BY <2>5
    <3> DEFINE new == [cols EXCEPT ![i].ty = 3 - @]
    <3> HIDE DEF cols
    <3>2. Distinct(cols) => Distinct(new)
      BY <2>2, RetypeShape
    <3>3. Alter("retype", t, new)
      BY <3>1
    <3> HIDE DEF new
    <3> QED BY <3>2, <3>3, AlterShifts DEF cols
  <2>6. CASE \E i \in DOMAIN cols, n \in Names :
               /\ n \notin ColumnNames(cols) /\ <<t, n>> \notin gone
               /\ Alter("rename", t, [cols EXCEPT ![i].n = n])
    <3>1. PICK i \in DOMAIN cols, n \in Names :
               n \notin ColumnNames(cols) /\ Alter("rename", t, [cols EXCEPT ![i].n = n])
      BY <2>6
    <3> DEFINE new == [cols EXCEPT ![i].n = n]
    <3> HIDE DEF cols
    <3>2. (Distinct(cols) => Distinct(new)) /\ (Plain(cols) => Plain(new))
      BY <2>2, <3>1, RenameShape
    <3>3. Alter("rename", t, new)
      BY <3>1
    <3> HIDE DEF new
    <3> QED BY <3>2, <3>3, AlterShifts DEF cols
  <2> QED BY <2>1, <2>3, <2>4, <2>5, <2>6
<1>3. CASE UpstreamTable
  <2>1. PICK t \in TableSet, s \in Signals :
         LET msgs == IF s THEN <<Signal>> ELSE <<>> IN
         \/ \E op \in {"create", "unkeyed"} \cap Ops :
              /\ t \notin DOMAIN up /\ <<t>> \notin gone
              /\ up' = With(up, t, NewTable(op = "create", Len(wal) + 1))
              /\ gone' = gone
              /\ Commit(op, t, msgs, s)
         \/ /\ "remove" \in Ops /\ t \in DOMAIN up
            /\ up' = Without(up, t) /\ gone' = gone \cup {<<t>>}
            /\ Commit(IF DOMAIN up = {t} THEN "empty" ELSE "remove", t, msgs, s)
    BY <1>3 DEF UpstreamTable, TableSet
  <2> DEFINE m == IF s THEN <<Signal>> ELSE <<>>
             e(op) == [op |-> op, t |-> t, msgs |-> m, signalled |-> s]
  <2>2. \A op \in OpNames \ {"insert"} : WellMade(e(op))
    <3>1. s \in BOOLEAN
      BY SchemaAssumption
    <3> HIDE DEF e
    <3>2. ASSUME NEW op \in OpNames \ {"insert"} PROVE WellMade(e(op))
      BY <3>1, SignalMade DEF e
    <3> QED BY <3>2
  <2>3. \A op : e(op).op = op /\ e(op).t = t
    OBVIOUS
  <2>4. \A op : Commit(op, t, m, s) => wal' = Append(wal, e(op))
    BY DEF Commit
  <2> HIDE DEF e
  <2>5. CASE \E op \in {"create", "unkeyed"} \cap Ops :
              /\ t \notin DOMAIN up /\ <<t>> \notin gone
              /\ up' = With(up, t, NewTable(op = "create", Len(wal) + 1))
              /\ gone' = gone
              /\ Commit(op, t, m, s)
    <3>1. PICK op \in {"create", "unkeyed"} :
              /\ t \notin DOMAIN up
              /\ up' = With(up, t, NewTable(op = "create", Len(wal) + 1))
              /\ Commit(op, t, m, s)
      BY <2>5
    <3> DEFINE k == CHOOSE n \in Names : TRUE
               x == [n |-> k, ty |-> 1, id |-> Len(wal) + 1]
    <3>2. NewTable(op = "create", Len(wal) + 1) = [oid |-> Len(wal) + 1, keyed |-> op = "create", cols |-> <<x>>]
      BY DEF NewTable
    <3>3. x.ty = 1
      OBVIOUS
    <3> HIDE DEF k, x
    <3>4. up'[t].cols = <<x>> /\ up'[t].keyed = (op = "create") /\ t \in DOMAIN up'
      BY <3>1, <3>2 DEF With
    <3>5. Distinct(<<x>>) /\ Plain(<<x>>)
      <4>1. DOMAIN <<x>> = {1} /\ <<x>>[1] = x
        OBVIOUS
      <4> QED BY <3>3, <4>1 DEF Distinct, Plain
    <3>6. Shifted(t, e(op))
      BY <2>2, <2>3, <3>1, <3>4, <3>5 DEF Shifted, OpNames
    <3> QED BY <2>3, <2>4, <3>1, <3>6
  <2>6. CASE /\ t \in DOMAIN up
             /\ up' = Without(up, t) /\ gone' = gone \cup {<<t>>}
             /\ Commit(IF DOMAIN up = {t} THEN "empty" ELSE "remove", t, m, s)
    <3> DEFINE op == IF DOMAIN up = {t} THEN "empty" ELSE "remove"
    <3>1. op \in OpNames \ {"insert"}
      BY DEF OpNames
    <3>2. DOMAIN up' = DOMAIN up \ {t}
      BY <2>6 DEF Without
    <3>3. DOMAIN up' = {} => op = "empty"
      BY <2>6, <3>2
    <3>4. Commit(op, t, m, s)
      BY <2>6
    <3> HIDE DEF op
    <3>5. Shifted(t, e(op))
      BY <2>2, <2>3, <3>1, <3>2, <3>3 DEF Shifted
    <3> QED BY <2>3, <2>4, <3>4, <3>5
  <2> QED BY <2>1, <2>5, <2>6
<1> QED BY <1>1, <1>2, <1>3 DEF Upstream

LEMMA UpstreamShifts ==
  ASSUME SchemaTypes, Once, Upstream
  PROVE  \E t, e : Changed(t, e) /\ Shifted(t, e)
<1>1. PICK t, e : wal' = Append(wal, e) /\ e.t = t /\ Shifted(t, e)
  BY UpstreamShape
<1>2. PICK u, f : Changed(u, f)
  BY UpstreamChanges
<1>3. wal' = Append(wal, f) /\ f.t = u
  BY <1>2 DEF Changed
<1>4. e = f
  <2>1. wal \in Seq(Entry) /\ Len(wal) \in Nat
    BY DEF SchemaTypes
  <2>2. Append(wal, e)[Len(wal) + 1] = e /\ Append(wal, f)[Len(wal) + 1] = f
    BY <2>1
  <2> QED BY <1>1, <1>3, <2>2
<1> QED BY <1>1, <1>2, <1>3, <1>4

-----------------------------------------------------------------------------
(* The log *)

\* A type was changed, or rows and DDL share a transaction.
Retyped == \E i \in DOMAIN wal : wal[i].op \in {"retype", "mixed"}
Sound(line) == Distinct(line) /\ (Retyped \/ Plain(line))

\* What is done to t in the transactions i to j is to add columns.
OnlyAdds(t, i, j) == \A k \in i..j : wal[k].t # t \/ wal[k].op \in {"insert", "add"}

\* From transaction i on t has rows, or is there in the end, before anything but ADD COLUMN.
Due(t, i) ==
  \/ \E j \in i..Len(wal) : OnlyAdds(t, i, j - 1) /\ \E q \in RowsOf(j) : q.t = t
  \/ OnlyAdds(t, i, Len(wal)) /\ t \in DOMAIN up

\* Until then what it has begins with these columns.
Fits(t, i, line) ==
  /\ \A j \in i..Len(wal) : \A q \in RowsOf(j) :
       OnlyAdds(t, i, j - 1) /\ q.t = t => Additive(line, FingerprintLine(q.cols))
  /\ OnlyAdds(t, i, Len(wal)) /\ t \in DOMAIN up => Additive(line, FingerprintLine(up[t].cols))

\* A row comes with the columns its table has until DDL on it, the first until more than that.
Lasting == \A i \in DOMAIN wal : \A r \in RowsOf(i) :
  Calm(r.t, i, Len(wal)) => r.t \in DOMAIN up /\ up[r.t].cols = r.cols
Grows == \A i \in DOMAIN wal : \A r \in RowsOf(i) : Fits(r.t, i, FingerprintLine(r.cols))

SoundLog ==
  /\ \A i \in DOMAIN wal : WellMade(wal[i]) /\ \A r \in RowsOf(i) : Sound(r.cols)
  /\ \A t \in DOMAIN up : Sound(up[t].cols)

\* A catalog that introspect refuses has a transaction that made it so.
Keyed ==
  /\ DOMAIN up = {} => \E i \in DOMAIN wal : wal[i].op = "empty"
  /\ \A t \in DOMAIN up : up[t].keyed \/ \E i \in DOMAIN wal : wal[i].op = "unkeyed"

LogInv == Lasting /\ Grows /\ SoundLog /\ Keyed

\* A transaction does not make due what was not, and what fitted still does.
LEMMA FitsStays ==
  ASSUME SchemaTypes, NEW t, NEW e, Changed(t, e), Shifted(t, e),
         NEW u, NEW i \in 1..(Len(wal) + 1)
  PROVE  /\ Due(u, i)' => Due(u, i)
         /\ \A line \in Seq(Shape) : Fits(u, i, line) => Fits(u, i, line)'
<1> SUFFICES ASSUME NEW L, L = Len(wal)
             PROVE  /\ Due(u, i)' => Due(u, i)
                    /\ \A line \in Seq(Shape) : Fits(u, i, line) => Fits(u, i, line)'
  OBVIOUS
<1>1. /\ L \in Nat /\ Len(wal') = L + 1
      /\ \A j \in 1..L : wal'[j] = wal[j] /\ RowsOf(j)' = RowsOf(j)
      /\ wal'[L + 1] = e /\ e.t = t
      /\ \A j \in Int : j > L /\ j <= L + 1 => RowsOf(j)' = Range(e.msgs) \ {Signal}
  BY WalGrows DEF Changed
<1>2. i \in 1..(L + 1)
  OBVIOUS
<1>3. \A k \in Int : k <= L => (OnlyAdds(u, i, k)' <=> OnlyAdds(u, i, k))
  BY <1>1, <1>2 DEF OnlyAdds
<1>4. OnlyAdds(u, i, L + 1)' => OnlyAdds(u, i, L) /\ (u # t \/ e.op \in {"insert", "add"})
  BY <1>1, <1>2 DEF OnlyAdds
<1>5. OnlyAdds(u, i, Len(wal))' <=> OnlyAdds(u, i, L + 1)'
  BY <1>1 DEF OnlyAdds
\* What is there then was there before.
<1>6. ASSUME OnlyAdds(u, i, L + 1)', u \in DOMAIN up'
      PROVE  /\ OnlyAdds(u, i, L) /\ u \in DOMAIN up
             /\ up[u].cols \in Seq(Column) /\ up'[u].cols \in Seq(Column)
             /\ Additive(up[u].cols, up'[u].cols)
  <2>1. OnlyAdds(u, i, L)
    BY <1>4, <1>6
  <2>2. CASE u = t
    <3>1. u \in DOMAIN up /\ Additive(up[u].cols, up'[u].cols)
      BY <1>4, <1>6, <2>2 DEF Shifted
    <3>2. up[u] \in TableType /\ up'[u] \in TableType
      BY <1>6, <2>2, <3>1 DEF Changed, SchemaTypes
    <3> QED BY <2>1, <3>1, <3>2 DEF TableType
  <2>3. CASE u # t
    <3>1. u \in DOMAIN up /\ up'[u] = up[u]
      BY <1>6, <2>3 DEF Changed
    <3>2. up[u] \in TableType
      BY <3>1 DEF SchemaTypes
    <3>3. Additive(up[u].cols, up[u].cols)
      BY <3>2, AdditiveFacts DEF TableType
    <3> QED BY <2>1, <3>1, <3>2, <3>3 DEF TableType
  <2> QED BY <2>2, <2>3
\* A new row is one of a table that is there.
<1>7. ASSUME NEW j \in i..(L + 1), j > L, NEW q, q \in RowsOf(j)', q.t = u, OnlyAdds(u, i, j - 1)'
      PROVE  OnlyAdds(u, i, L) /\ u \in DOMAIN up /\ q.cols = up[u].cols
  <2>1. q \in Range(e.msgs) \ {Signal} /\ j = L + 1
    BY <1>1, <1>2, <1>7
  <2>2. t \in DOMAIN up /\ q.t = t /\ q.cols = up[t].cols
    BY <2>1 DEF Changed
  <2>3. OnlyAdds(u, i, L)
    BY <1>1, <1>3, <1>7, <2>1
  <2> QED BY <1>7, <2>2, <2>3
<1>8. ASSUME NEW j \in i..L
      PROVE  RowsOf(j)' = RowsOf(j) /\ (OnlyAdds(u, i, j - 1)' <=> OnlyAdds(u, i, j - 1))
  BY <1>1, <1>2, <1>3
<1>9. \A j \in i..(L + 1) : j \in i..L \/ j > L
  BY <1>1, <1>2
<1>10. Due(u, i)' => Due(u, i)
  <2>1. CASE \E j \in i..(L + 1) : OnlyAdds(u, i, j - 1)' /\ \E q \in RowsOf(j)' : q.t = u
    <3>0. PICK j \in i..(L + 1) : OnlyAdds(u, i, j - 1)' /\ \E q \in RowsOf(j)' : q.t = u
      BY <2>1
    <3>1. PICK q \in RowsOf(j)' : q.t = u
      BY <3>0
    <3>2. CASE j \in i..L
      BY <1>8, <3>0, <3>1, <3>2 DEF Due
    <3>3. CASE j > L
      BY <1>7, <3>0, <3>1, <3>3 DEF Due
    <3> QED BY <1>9, <3>2, <3>3
  <2>2. CASE OnlyAdds(u, i, L + 1)' /\ u \in DOMAIN up'
    BY <1>6, <2>2 DEF Due
  <2>3. Due(u, i)' => \/ \E j \in i..(L + 1) : OnlyAdds(u, i, j - 1)' /\ \E q \in RowsOf(j)' : q.t = u
                      \/ OnlyAdds(u, i, L + 1)' /\ u \in DOMAIN up'
    BY <1>1, <1>5 DEF Due
  <2> QED BY <2>1, <2>2, <2>3
<1>11. ASSUME NEW line \in Seq(Shape), Fits(u, i, line)
       PROVE  Fits(u, i, line)'
  <2>1. ASSUME NEW j \in i..(L + 1), NEW q, q \in RowsOf(j)', OnlyAdds(u, i, j - 1)', q.t = u
        PROVE  Additive(line, FingerprintLine(q.cols))
    <3>1. CASE j \in i..L
      BY <1>8, <1>11, <2>1, <3>1 DEF Fits
    <3>2. CASE j > L
      BY <1>7, <1>11, <2>1, <3>2 DEF Fits
    <3> QED BY <1>9, <3>1, <3>2
  <2>2. ASSUME OnlyAdds(u, i, L + 1)', u \in DOMAIN up'
        PROVE  Additive(line, FingerprintLine(up'[u].cols))
    <3>1. /\ OnlyAdds(u, i, L) /\ u \in DOMAIN up /\ up[u].cols \in Seq(Column) /\ up'[u].cols \in Seq(Column)
          /\ Additive(up[u].cols, up'[u].cols)
      BY <1>6, <2>2
    <3> DEFINE a == FingerprintLine(up[u].cols)
               b == FingerprintLine(up'[u].cols)
    <3>2. a \in Seq(Shape) /\ b \in Seq(Shape)
      BY <3>1, LineFacts
    <3>3. Additive(line, a) /\ Additive(a, b)
      BY <1>11, <3>1, LineGrows DEF Fits
    <3> HIDE DEF a, b
    <3>4. Additive(line, b)
      BY <3>2, <3>3, AdditiveFacts
    <3> QED BY <3>4 DEF b
  <2>3. \A j \in i..Len(wal') : \A q \in RowsOf(j)' :
          OnlyAdds(u, i, j - 1)' /\ q.t = u => Additive(line, FingerprintLine(q.cols))
    BY <1>1, <2>1
  <2>4. OnlyAdds(u, i, Len(wal))' /\ u \in DOMAIN up' => Additive(line, FingerprintLine(up'[u].cols))
    BY <1>5, <2>2
  <2>5. OnlyAdds(u, i, Len(wal))' /\ u \in DOMAIN up' => Additive(line, FingerprintLine(up[u].cols))'
    BY <2>4 DEF FingerprintLine, Additive
  <2>6. \A j \in i..Len(wal') : \A q \in RowsOf(j)' :
          OnlyAdds(u, i, j - 1)' /\ q.t = u => Additive(line, FingerprintLine(q.cols))'
    BY <2>3 DEF FingerprintLine, Additive
  <2> QED BY <2>5, <2>6 DEF Fits
<1> QED BY <1>10, <1>11

LEMMA LogStays ==
  ASSUME SchemaTypes, LogInv, NEW t, NEW e, Changed(t, e), Shifted(t, e)
  PROVE  LogInv'
<1> SUFFICES ASSUME NEW L, L = Len(wal)
             PROVE  LogInv'
  OBVIOUS
<1>1. /\ L \in Nat /\ Len(wal') = L + 1 /\ DOMAIN wal = 1..L /\ DOMAIN wal' = 1..(L + 1)
      /\ \A j \in 1..L : wal'[j] = wal[j] /\ RowsOf(j)' = RowsOf(j)
      /\ wal'[L + 1] = e /\ e.t = t
      /\ \A j \in Int : j > L /\ j <= L + 1 => RowsOf(j)' = Range(e.msgs) \ {Signal}
  BY WalGrows DEF Changed
\* A row is an old one, or a new one with the columns of its table.
<1>2. ASSUME NEW i \in 1..(L + 1), NEW r, r \in RowsOf(i)'
      PROVE  \/ i \in 1..L /\ r \in RowsOf(i)
             \/ i = L + 1 /\ t \in DOMAIN up /\ r.t = t /\ r.cols = up[t].cols
  <2>1. CASE i \in 1..L
    BY <1>1, <1>2, <2>1
  <2>2. CASE i = L + 1
    <3>1. r \in Range(e.msgs) \ {Signal}
      BY <1>1, <1>2, <2>2
    <3> QED BY <2>2, <3>1 DEF Changed
  <2> QED BY <1>1, <2>1, <2>2
<1>3. \A u \in DOMAIN up : up[u].cols \in Seq(Column)
  BY DEF SchemaTypes, TableType
<1>4. Retyped' <=> Retyped \/ e.op \in {"retype", "mixed"}
  <2>1. \A i \in 1..(L + 1) : i \in 1..L \/ i = L + 1
    BY <1>1
  <2>2. L + 1 \in 1..(L + 1) /\ \A i \in 1..L : i \in 1..(L + 1)
    BY <1>1
  <2> QED BY <1>1, <2>1, <2>2 DEF Retyped
<1>5. Lasting'
  <2>1. ASSUME NEW i \in 1..(L + 1), NEW r, r \in RowsOf(i)', Calm(r.t, i, L + 1)'
        PROVE  r.t \in DOMAIN up' /\ up'[r.t].cols = r.cols
    <3>1. e.op = "insert" \/ r.t # t
      <4>1. L + 1 \in i..(L + 1)
        BY <1>1
      <4> QED BY <1>1, <2>1, <4>1 DEF Calm
    <3>2. r.t \in DOMAIN up /\ up[r.t].cols = r.cols
      <4>1. CASE i \in 1..L /\ r \in RowsOf(i)
        <5>1. Calm(r.t, i, L)
          BY <1>1, <2>1, <4>1 DEF Calm
        <5> QED BY <1>1, <4>1, <5>1 DEF LogInv, Lasting
      <4>2. CASE r.t = t /\ t \in DOMAIN up /\ r.cols = up[t].cols
        BY <4>2
      <4> QED BY <1>2, <2>1, <4>1, <4>2
    <3> QED BY <3>1, <3>2 DEF Changed
  <2>2. \A r, i : Calm(r.t, i, Len(wal))' <=> Calm(r.t, i, L + 1)'
    BY <1>1 DEF Calm
  <2> QED BY <1>1, <2>1, <2>2 DEF Lasting
<1>6. Grows'
  <2>1. ASSUME NEW i \in 1..(L + 1), NEW r, r \in RowsOf(i)'
        PROVE  Fits(r.t, i, FingerprintLine(r.cols))'
    <3> DEFINE line == FingerprintLine(r.cols)
    <3>1. line \in Seq(Shape) /\ Fits(r.t, i, line)
      <4>1. CASE i \in 1..L /\ r \in RowsOf(i)
        <5>1. r.cols \in Seq(Column)
          BY <1>1, <4>1, LogFacts
        <5> QED BY <1>1, <4>1, <5>1, LineFacts DEF LogInv, Grows
      <4>2. CASE i = L + 1 /\ r.t = t /\ t \in DOMAIN up /\ r.cols = up[t].cols
        <5>1. line \in Seq(Shape)
          BY <1>3, <4>2, LineFacts
        <5>2. Additive(line, line)
          BY <5>1, AdditiveFacts
        <5>3. i..L = {}
          BY <1>1, <4>2
        <5> QED BY <4>2, <5>1, <5>2, <5>3 DEF Fits
      <4> QED BY <1>2, <2>1, <4>1, <4>2
    <3> HIDE DEF line
    <3>2. Fits(r.t, i, line)'
      BY <3>1, FitsStays
    <3> QED BY <3>2 DEF line, FingerprintLine
  <2> QED BY <1>1, <2>1 DEF Grows
<1>7. SoundLog'
  <2>1. ASSUME NEW i \in 1..(L + 1)
        PROVE  WellMade(wal'[i])
    <3>1. i \in 1..L \/ i = L + 1
      BY <1>1
    <3> QED BY <1>1, <3>1 DEF LogInv, SoundLog, Shifted
  <2>2. ASSUME NEW i \in 1..(L + 1), NEW r, r \in RowsOf(i)'
        PROVE  Distinct(r.cols) /\ (Retyped' \/ Plain(r.cols))
    <3>1. Sound(r.cols)
      BY <1>1, <1>2, <2>2 DEF LogInv, SoundLog
    <3> QED BY <1>4, <3>1 DEF Sound
  <2>3. ASSUME NEW u \in DOMAIN up'
        PROVE  Distinct(up'[u].cols) /\ (Retyped' \/ Plain(up'[u].cols))
    <3>1. u \in DOMAIN up => Sound(up[u].cols)
      BY DEF LogInv, SoundLog
    <3>2. CASE u = t
      BY <1>4, <3>1, <3>2 DEF Shifted, Sound
    <3>3. CASE u # t
      BY <1>4, <3>1, <3>3 DEF Changed, Sound
    <3> QED BY <3>2, <3>3
  <2>4. \A i \in 1..(L + 1) : WellMade(wal[i])'
    BY <2>1 DEF WellMade, Signal
  <2>5. \A i \in 1..(L + 1) : \A r \in RowsOf(i)' : Sound(r.cols)'
    BY <2>2 DEF Sound, Distinct, Plain
  <2>6. \A u \in DOMAIN up' : Sound(up[u].cols)'
    BY <2>3 DEF Sound, Distinct, Plain
  <2> QED BY <1>1, <2>4, <2>5, <2>6 DEF SoundLog
<1>8. Keyed'
  <2>1. L + 1 \in DOMAIN wal' /\ \A i \in DOMAIN wal : i \in DOMAIN wal' /\ wal'[i] = wal[i]
    BY <1>1
  <2>2. DOMAIN up' = {} => \E i \in DOMAIN wal' : wal'[i].op = "empty"
    BY <1>1, <2>1 DEF Shifted
  <2>3. ASSUME NEW u \in DOMAIN up'
        PROVE  up'[u].keyed \/ \E i \in DOMAIN wal' : wal'[i].op = "unkeyed"
    <3>1. u \in DOMAIN up => up[u].keyed \/ \E i \in DOMAIN wal' : wal'[i].op = "unkeyed"
      BY <2>1 DEF LogInv, Keyed
    <3>2. CASE u = t
      BY <1>1, <2>1, <3>1, <3>2 DEF Shifted
    <3>3. CASE u # t
      BY <3>1, <3>3 DEF Changed
    <3> QED BY <3>2, <3>3
  <2> QED BY <2>2, <2>3 DEF Keyed
<1> QED BY <1>5, <1>6, <1>7, <1>8 DEF LogInv

\* A step of the replica leaves the log.
LEMMA SameLog ==
  ASSUME UNCHANGED upstream
  PROVE  /\ LogInv' = LogInv /\ Retyped' = Retyped
         /\ \A t, i, j : OnlyAdds(t, i, j)' = OnlyAdds(t, i, j) /\ Calm(t, i, j)' = Calm(t, i, j)
         /\ \A t, i : Due(t, i)' = Due(t, i)
         /\ \A t, i, line : Fits(t, i, line)' = Fits(t, i, line)
         /\ \A line : Sound(line)' = Sound(line)
<1>1. up' = up /\ wal' = wal /\ gone' = gone
  BY DEF upstream
<1>2. \A i : RowsOf(i)' = RowsOf(i)
  BY <1>1 DEF RowsOf, Signal, Range
<1>3. \A t, i, j : OnlyAdds(t, i, j)' = OnlyAdds(t, i, j) /\ Calm(t, i, j)' = Calm(t, i, j)
  BY <1>1 DEF OnlyAdds, Calm
<1>4. Retyped' = Retyped
  BY <1>1 DEF Retyped
<1>5. \A t, i : Due(t, i)' = Due(t, i)
  BY <1>1, <1>2, <1>3 DEF Due
<1>6. ASSUME NEW t, NEW i, NEW line
      PROVE  Fits(t, i, line)' = Fits(t, i, line)
  <2>1. /\ \A j : OnlyAdds(t, i, j)' = OnlyAdds(t, i, j)
        /\ OnlyAdds(t, i, Len(wal))' = OnlyAdds(t, i, Len(wal))
    BY <1>1, <1>3 DEF OnlyAdds
  <2>2. Additive(line, FingerprintLine(up[t].cols))' = Additive(line, FingerprintLine(up[t].cols))
    BY <1>1 DEF FingerprintLine, Additive
  <2>3. \A q : Additive(line, FingerprintLine(q.cols))' = Additive(line, FingerprintLine(q.cols))
    BY DEF FingerprintLine, Additive
  <2> QED BY <1>1, <1>2, <2>1, <2>2, <2>3 DEF Fits
<1>7. \A line : Sound(line)' = Sound(line)
  BY <1>4 DEF Sound, Distinct, Plain
<1>8. Lasting' = Lasting /\ Keyed' = Keyed
  BY <1>1, <1>2, <1>3 DEF Lasting, Keyed
<1>9. Grows' = Grows
  BY <1>1, <1>2, <1>6 DEF Grows, FingerprintLine
<1>10. SoundLog' = SoundLog
  BY <1>1, <1>2, <1>4 DEF SoundLog, Sound, Distinct, Plain, WellMade, Signal
<1> QED BY <1>3, <1>4, <1>5, <1>6, <1>7, <1>8, <1>9, <1>10 DEF LogInv

-----------------------------------------------------------------------------
(* The local tables, the fingerprints and the plans *)

Lines(f) == DOMAIN f \subseteq TableSet /\ \A t \in DOMAIN f : Sound(f[t])
Catalogs == Lines(stored) /\ Lines(started) /\ Lines(expected) /\ Lines(target)

\* The last transaction whose DDL the replica has seen.
Seen == IF pos > 0 /\ pos = Len(Tx.msgs) /\ Tx.op # "insert" THEN cur + 1 ELSE cur

Agree(f, t) == (t \in DOMAIN f <=> t \in DOMAIN up) /\ (t \in DOMAIN up => f[t] = FingerprintLine(up[t].cols))

\* A table without DDL still to come is in the fingerprint as it is upstream.
Informed ==
  /\ trusted /\ Signalled => \A t \in TableSet : Calm(t, Seen + 1, Len(wal)) => Agree(expected, t)
  /\ mode = "resync" => \A t \in TableSet : Calm(t, cur + 2, Len(wal)) => Agree(target, t)

PlanMode == mode \in {"resync", "relation"}
Both == DOMAIN expected \cap DOMAIN target

\* What a statement of a plan is there for.
Purpose(s) ==
  /\ s.op \in {"add", "drop", "error", "droptable", "create"} /\ s.t \in TableSet
  /\ s.op \in {"add", "drop", "error"} => s.t \in Both
  /\ s.op = "add" => s.c \in Range(target[s.t]) /\ s.c.n \notin ColumnNames(expected[s.t])
  /\ s.op = "drop" => s.c \in Range(expected[s.t]) /\ s.c.n \notin ColumnNames(target[s.t])
  /\ s.op = "error" => s.c \in Range(expected[s.t]) \ Range(target[s.t]) /\ s.c.n \in ColumnNames(target[s.t])
  /\ s.op = "droptable" =>
       /\ s = OfTable("droptable", s.t) /\ s.t \notin Both
       /\ s.t \in DOMAIN target => OfTable("create", s.t) \in plan
  /\ s.op = "create" => s = OfTable("create", s.t) /\ s.t \in DOMAIN target \ DOMAIN expected

Planned ==
  /\ mode = "stream" => plan = {}
  /\ PlanMode => \A s \in plan : Purpose(s)
  /\ mode = "relation" =>
       /\ target = [expected EXCEPT ![Msg.t] = FingerprintLine(Msg.cols)]
       /\ Msg.t \in DOMAIN expected /\ Additive(expected[Msg.t], FingerprintLine(Msg.cols))
       /\ \A s \in plan : s.op = "add"

LocalNames(t) == {c.n : c \in local[t].cols}
Has(t, names) == t \in DOMAIN local /\ names \subseteq LocalNames(t)

\* What the plan brings is there or still to come.
Arriving == PlanMode => \A t \in DOMAIN target :
  /\ t \notin DOMAIN expected => OfTable("create", t) \in plan \/ Has(t, ColumnNames(target[t]))
  /\ t \in DOMAIN expected => \A n \in ColumnNames(target[t]) \ ColumnNames(expected[t]) :
       (\E s \in plan : s.op = "add" /\ s.t = t /\ s.c.n = n) \/ Has(t, {n})

\* What the fingerprint names is here, or gone upstream.
Backed == trusted => \A t \in DOMAIN expected :
  <<t>> \in gone \/ (t \in DOMAIN local /\ \A n \in ColumnNames(expected[t]) : Gone(t, n) \/ n \in LocalNames(t))

\* A resync begins with what stays.
Base == mode = "resync" /\ trusted => \A t \in Both :
  Has(t, ColumnNames(target[t]) \cap ColumnNames(expected[t]))

\* Before a plan the local tables are those of the fingerprint, and on its way each table and
\* each column is what it was or what it becomes.
Settled == DOMAIN local = DOMAIN expected /\ \A t \in DOMAIN expected : local[t].cols = Range(expected[t])
Halfway ==
  /\ DOMAIN local \subseteq DOMAIN expected \cup DOMAIN target
  /\ \A t \in DOMAIN expected \ DOMAIN target : OfTable("droptable", t) \in plan \/ t \notin DOMAIN local
  /\ \A t \in DOMAIN target \ DOMAIN expected :
       OfTable("create", t) \in plan \/ (t \in DOMAIN local /\ local[t].cols = Range(target[t]))
  /\ \A t \in Both :
       /\ t \in DOMAIN local
       /\ \A c \in local[t].cols :
            c \in Range(target[t]) \/ \E s \in plan : s.op \in {"drop", "error"} /\ s.t = t /\ s.c = c
       /\ \A c \in Range(target[t]) :
            c \in local[t].cols \/ \E s \in plan : s.t = t /\ (s.op = "error" \/ (s.op = "add" /\ s.c = c))
Shaped == trusted /\ ~torn =>
  /\ ~PlanMode /\ plan = {} => Settled
  /\ PlanMode => Halfway

CatalogInv == Catalogs /\ Informed /\ Planned /\ Arriving /\ Backed /\ Base /\ Shaped

\* What each part looks at.
LEMMA CatalogFrame ==
  /\ UNCHANGED <<stored, started, expected, target, wal>> => Catalogs' = Catalogs
  /\ UNCHANGED <<mode, expected, target, local, plan>> => Arriving' = Arriving
  /\ UNCHANGED <<trusted, expected, gone, local>> => Backed' = Backed
  /\ UNCHANGED <<mode, trusted, expected, target, local>> => Base' = Base
  /\ UNCHANGED <<trusted, torn, mode, plan, expected, target, local>> => Shaped' = Shaped
  /\ UNCHANGED <<expected, local>> => Settled' = Settled
<1>1. UNCHANGED <<stored, started, expected, target, wal>> => Catalogs' = Catalogs
  BY DEF Catalogs, Lines, TableSet, Sound, Retyped, Distinct, Plain
<1>2. UNCHANGED <<mode, expected, target, local, plan>> => Arriving' = Arriving
  BY DEF Arriving, PlanMode, OfTable, Stmt, Has, LocalNames, ColumnNames, Range
<1>3. UNCHANGED <<trusted, expected, gone, local>> => Backed' = Backed
  BY DEF Backed, Gone, LocalNames, ColumnNames, Range
<1>4. UNCHANGED <<mode, trusted, expected, target, local>> => Base' = Base
  BY DEF Base, Both, Has, LocalNames, ColumnNames, Range
<1>5. UNCHANGED <<expected, local>> => Settled' = Settled
  BY DEF Settled, Range
<1>6. UNCHANGED <<trusted, torn, mode, plan, expected, target, local>> => Shaped' = Shaped
  BY <1>5 DEF Shaped, Halfway, PlanMode, Both, OfTable, Stmt, Range
<1> QED BY <1>1, <1>2, <1>3, <1>4, <1>5, <1>6

\* A halted replica keeps its tables.
LEMMA HaltKeepsCatalog ==
  ASSUME CatalogInv, Halt, UNCHANGED <<upstream, started, trusted, torn>>, mode = "stream" \/ plan # {}
  PROVE  CatalogInv'
<1> USE DEF CatalogInv
<1>1. /\ mode' = "halted"
      /\ UNCHANGED <<up, wal, gone, local, stored, wm, started, expected, rels, sent, cur, pos, buf, plan, target,
                     trusted, torn>>
  BY DEF Halt, upstream, durable, stream, work
<1>2. Catalogs' /\ Backed'
  BY <1>1, CatalogFrame
<1>3. Informed'
  BY <1>1, SameLog DEF Informed, Signalled, Seen, Tx, Agree, TableSet, Range, FingerprintLine
<1>4. Planned' /\ Arriving' /\ Base'
  BY <1>1 DEF Planned, PlanMode, Arriving, Base
<1>5. Shaped'
  <2>1. Settled' = Settled
    BY <1>1, CatalogFrame
  <2>2. plan = {} => ~PlanMode
    BY DEF PlanMode
  <2> QED BY <1>1, <2>1, <2>2 DEF Shaped, PlanMode
<1> QED BY <1>2, <1>3, <1>4, <1>5

\* The upstream's transactions: what the replica has read is behind them.
LEMMA UpstreamFrame ==
  ASSUME SchemaInv, NEW t, NEW e, Changed(t, e), UNCHANGED <<cur, pos>>
  PROVE  /\ Seen' = Seen /\ Seen \in Nat /\ Seen >= cur /\ Seen <= cur + 1 /\ Seen <= Len(wal)
         /\ cur \in Nat /\ pos \in Nat /\ cur <= Len(wal) /\ Len(wal) \in Nat
         /\ cur < Len(wal) => Tx' = Tx /\ Msg' = Msg
<1> USE DEF SchemaInv
<1>1. /\ Len(wal) \in Nat /\ \A i \in 1..Len(wal) : wal'[i] = wal[i]
  BY WalGrows
<1>2. cur \in Nat /\ pos \in Nat /\ cur <= Len(wal) /\ (cur < Len(wal) \/ pos = 0)
  BY DEF SchemaTypes, Positions
<1>3. cur < Len(wal) => Tx' = Tx /\ Msg' = Msg
  <2> SUFFICES ASSUME cur < Len(wal)
               PROVE  Tx' = Tx /\ Msg' = Msg
    OBVIOUS
  <2>1. cur + 1 \in 1..Len(wal)
    BY <1>1, <1>2
  <2>2. Tx' = Tx
    BY <1>1, <2>1 DEF Tx
  <2> QED BY <2>2 DEF Msg
<1>4. pos > 0 => cur < Len(wal)
  BY <1>2
<1>5. Seen' = Seen
  BY <1>3, <1>4 DEF Seen
<1>6. Seen \in Nat /\ Seen >= cur /\ Seen <= cur + 1 /\ Seen <= Len(wal)
  BY <1>1, <1>2, <1>4 DEF Seen
<1> QED BY <1>1, <1>2, <1>3, <1>5, <1>6

LEMMA UpstreamKeepsCatalog ==
  ASSUME SchemaInv, CatalogInv, Upstream
  PROVE  CatalogInv'
<1> USE DEF CatalogInv, SchemaInv
<1>1. UNCHANGED <<slot, durable, started, stream, work, mode, history>>
  BY DEF Upstream, UpstreamInsert, UpstreamAlter, Alter, UpstreamTable, Commit
<1>2. UNCHANGED <<slot, local, stored, wm, started, expected, rels, sent, cur, pos, buf, plan, target, mode,
                  trusted, torn>>
  BY <1>1 DEF durable, stream, work, history
<1>3. PICK t, e : Changed(t, e) /\ Shifted(t, e)
  BY UpstreamShifts
<1>4. /\ Len(wal') = Len(wal) + 1 /\ Len(wal) \in Nat
      /\ \A i \in 1..Len(wal) : wal'[i] = wal[i]
      /\ wal'[Len(wal) + 1] = e /\ e.t = t
      /\ DOMAIN wal = 1..Len(wal) /\ DOMAIN wal' = 1..(Len(wal) + 1)
  BY <1>3, WalGrows DEF Changed
<1>5. /\ Seen' = Seen /\ Seen \in Nat /\ Seen <= Len(wal)
      /\ cur \in Nat /\ cur <= Len(wal)
      /\ cur < Len(wal) => Tx' = Tx /\ Msg' = Msg
  BY <1>2, <1>3, UpstreamFrame
<1>6. Catalogs'
  <2>1. Retyped => Retyped'
    BY <1>4 DEF Retyped
  <2> QED BY <1>2, <2>1 DEF Catalogs, Lines, TableSet, Sound, Distinct, Plain
<1>7. ASSUME NEW i \in 1..(Len(wal) + 1), NEW u, Calm(u, i, Len(wal))', NEW f
      PROVE  Calm(u, i, Len(wal)) /\ (Agree(f, u) => Agree(f, u)')
  <2>1. \A k \in i..(Len(wal) + 1) : wal'[k].op = "insert" \/ wal'[k].t # u
    BY <1>4, <1>7 DEF Calm
  <2>2. Calm(u, i, Len(wal))
    BY <1>4, <2>1 DEF Calm
  <2>3. e.op = "insert" \/ t # u
    <3>1. Len(wal) + 1 \in i..(Len(wal) + 1)
      BY <1>4
    <3> QED BY <1>4, <2>1, <3>1
  <2>4. (u \in DOMAIN up' <=> u \in DOMAIN up) /\ (u \in DOMAIN up => up'[u] = up[u])
    BY <1>3, <2>3 DEF Changed
  <2> QED BY <2>2, <2>4 DEF Agree, FingerprintLine
<1>8. Informed'
  <2>1. Signalled' => Signalled
    BY <1>4 DEF Signalled
  <2>2. ASSUME trusted, Signalled', NEW u \in TableSet, Calm(u, Seen + 1, Len(wal))'
        PROVE  Agree(expected, u)'
    <3> DEFINE i == Seen + 1
               f == expected
    <3>1. i \in 1..(Len(wal) + 1) /\ i' = i /\ f' = f
      BY <1>2, <1>4, <1>5
    <3>a. Calm(u, i, Len(wal)) => Agree(f, u)
      BY <2>1, <2>2 DEF Informed
    <3> HIDE DEF i, f
    <3>3. Calm(u, i, Len(wal))'
      BY <2>2, <3>1 DEF i
    <3>4. \A k \in i..(Len(wal) + 1) : wal'[k].op = "insert" \/ wal'[k].t # u
      BY <1>4, <3>1, <3>3 DEF Calm
    <3>5. PICK j, g : j = i /\ g = f
      OBVIOUS
    <3>6. Calm(u, j, Len(wal))'
      BY <1>4, <3>4, <3>5 DEF Calm
    <3>7. Agree(g, u)'
      BY <1>7, <3>1, <3>6, <3>a, <3>5
    <3> QED BY <3>1, <3>5, <3>7 DEF f, Agree
  <2>3. ASSUME mode = "resync", NEW u \in TableSet, Calm(u, cur + 2, Len(wal))'
        PROVE  Agree(target, u)'
    <3>1. PICK j, g : j = cur + 2 /\ g = target
      OBVIOUS
    <3>2. j \in 1..(Len(wal) + 1)
      <4>1. cur < Len(wal)
        BY <2>3 DEF Announced
      <4> QED BY <1>4, <1>5, <3>1, <4>1
    <3>3. Calm(u, j, Len(wal))'
      BY <1>2, <2>3, <3>1 DEF Calm
    <3>4. Agree(g, u)'
      BY <1>7, <2>3, <3>1, <3>2, <3>3 DEF Informed
    <3> QED BY <1>2, <3>1, <3>4 DEF Agree
  <2> QED BY <1>2, <2>2, <2>3 DEF Informed, TableSet, Range
<1>9. Planned'
  <2>1. mode = "relation" => cur < Len(wal)
    BY DEF Announced
  <2>2. PlanMode' = PlanMode /\ \A s : Purpose(s)' = Purpose(s)
    BY <1>2 DEF PlanMode, Purpose, Both, TableSet, Range, ColumnNames, OfTable, Stmt
  <2> QED BY <1>2, <1>5, <2>1, <2>2 DEF Planned, Additive, FingerprintLine
<1>10. Backed'
  <2>1. \A u : /\ <<u>> \in gone => <<u>> \in gone'
               /\ \A n : Gone(u, n) => Gone(u, n)'
    BY <1>3, NamesStay
  <2>2. ASSUME trusted, NEW u \in DOMAIN expected, <<u>> \notin gone'
        PROVE  u \in DOMAIN local /\ \A n \in ColumnNames(expected[u]) : Gone(u, n)' \/ n \in LocalNames(u)
    BY <2>1, <2>2 DEF Backed
  <2>3. \A u : LocalNames(u)' = LocalNames(u) /\ ColumnNames(expected[u])' = ColumnNames(expected[u])
    BY <1>2 DEF LocalNames, ColumnNames, Range
  <2> QED BY <1>2, <2>2, <2>3 DEF Backed
<1>11. Arriving' /\ Base' /\ Shaped'
  BY <1>2, CatalogFrame
<1> QED BY <1>6, <1>8, <1>9, <1>10, <1>11

\* The next message of the open transaction, when it is a row.
LEMMA MsgRow ==
  ASSUME SchemaTypes, cur < Len(wal), pos < Len(Tx.msgs), Msg # Signal
  PROVE  cur + 1 \in DOMAIN wal /\ Msg \in RowsOf(cur + 1)
<1> DEFINE i == cur + 1
<1>1. wal \in Seq(Entry) /\ cur \in Nat /\ pos \in Nat
  BY DEF SchemaTypes
<1>2. DOMAIN wal = 1..Len(wal) /\ Len(wal) \in Nat
  BY <1>1, RangeFacts
<1>3. i \in DOMAIN wal /\ Tx = wal[i]
  BY <1>1, <1>2 DEF Tx
<1> HIDE DEF i
<1>4. wal[i].msgs \in Seq(Row1 \cup {Signal})
      /\ \A p \in 1..Len(wal[i].msgs) : wal[i].msgs[p] # Signal => wal[i].msgs[p] \in RowsOf(i)
  BY <1>3, LogFacts
<1>5. Len(Tx.msgs) \in Nat
  BY <1>3, <1>4
<1>6. pos + 1 \in 1..Len(Tx.msgs)
  BY <1>1, <1>5
<1>7. Msg \in RowsOf(i)
  BY <1>3, <1>4, <1>6 DEF Msg
<1> QED BY <1>3, <1>7 DEF i

\* The row to be read next is one of the log.
LEMMA MsgSound ==
  ASSUME SchemaInv, LogInv, Reading, Msg # Signal
  PROVE  LET line == FingerprintLine(Msg.cols)
         IN /\ Msg.t \in TableSet /\ Msg.cols \in Seq(Column) /\ line \in Seq(Shape)
            /\ DOMAIN line = 1..Len(line) /\ Len(line) \in Nat
            /\ Sound(line) /\ Fits(Msg.t, cur + 1, line)
            /\ Calm(Msg.t, cur + 1, Len(wal)) => Msg.t \in DOMAIN up /\ up[Msg.t].cols = Msg.cols
            /\ WellMade(Tx)
<1> DEFINE i == cur + 1
           line == FingerprintLine(Msg.cols)
<1>1. i \in DOMAIN wal /\ Msg \in RowsOf(i) /\ Msg \in Row1 /\ Msg.cols \in Seq(Column)
  BY OpenFacts DEF SchemaInv
<1>2. Tx = wal[i]
  BY DEF Tx
<1> HIDE DEF i
<1>3. Msg.t \in TableSet
  BY <1>1 DEF Row1
<1>4. line \in Seq(Shape) /\ (Distinct(Msg.cols) => Distinct(line)) /\ (Plain(Msg.cols) => Plain(line))
  BY <1>1, LineColumns
<1>5. Sound(Msg.cols) /\ WellMade(wal[i])
  BY <1>1 DEF LogInv, SoundLog
<1>6. Fits(Msg.t, i, line)
  BY <1>1 DEF LogInv, Grows
<1>7. Calm(Msg.t, i, Len(wal)) => Msg.t \in DOMAIN up /\ up[Msg.t].cols = Msg.cols
  BY <1>1 DEF LogInv, Lasting
<1>8. Sound(line)
  BY <1>4, <1>5 DEF Sound
<1> HIDE DEF line
<1>9. DOMAIN line = 1..Len(line) /\ Len(line) \in Nat
  BY <1>4
<1> QED BY <1>1, <1>2, <1>3, <1>4, <1>5, <1>6, <1>7, <1>8, <1>9 DEF line, i

\* A message of the open transaction is not past its DDL.
LEMMA SeenFacts ==
  ASSUME SchemaInv
  PROVE  /\ Seen \in Nat /\ cur \in Nat /\ pos \in Nat /\ Len(wal) \in Nat
         /\ Seen >= cur /\ Seen <= cur + 1 /\ Seen <= Len(wal) /\ Seen \in {cur, cur + 1}
         /\ pos < Len(Tx.msgs) => Seen = cur
<1>1. cur \in Nat /\ pos \in Nat /\ wal \in Seq(Entry) /\ cur <= Len(wal) /\ (cur < Len(wal) \/ pos = 0)
  BY DEF SchemaInv, SchemaTypes, Positions
<1>2. Len(wal) \in Nat
  BY <1>1
<1>3. pos < Len(Tx.msgs) => pos # Len(Tx.msgs)
  <2>1. CASE pos = Len(Tx.msgs)
    <3>1. ~(pos < pos)
      BY <1>1
    <3> QED BY <2>1, <3>1
  <2> QED BY <2>1
<1> QED BY <1>1, <1>2, <1>3 DEF Seen

\* A Relation message: the plan adds what the message has more than the fingerprint.
LEMMA ReadRelationKeepsCatalog ==
  ASSUME SchemaInv, LogInv, CatalogInv, ReadRelation
  PROVE  CatalogInv'
<1> USE DEF CatalogInv
<1>1. UNCHANGED <<upstream, slot, started, history>> /\ Reading /\ Msg # Signal /\ mode = "stream"
  BY DEF ReadRelation, Reading
<1>2. CASE Halt
  BY <1>1, <1>2, HaltKeepsCatalog DEF history
<1> DEFINE t == Msg.t
           line == FingerprintLine(Msg.cols)
<1>3. CASE /\ t \in DOMAIN expected /\ Additive(expected[t], line)
           /\ IF line = expected[t]
              THEN UNCHANGED <<work, mode>>
              ELSE /\ plan' = {Stmt("add", t, i, line[i]) : i \in (Len(expected[t]) + 1)..Len(line)}
                   /\ target' = [expected EXCEPT ![t] = line]
                   /\ mode' = "relation"
           /\ UNCHANGED <<durable, expected, cur, pos, buf>>
  <2>1. UNCHANGED <<up, wal, gone, local, stored, wm, expected, cur, pos, trusted, torn, started>>
    BY <1>1, <1>3 DEF upstream, durable, history
  <2>2. Tx' = Tx /\ Msg' = Msg
    BY <2>1 DEF Msg, Tx
  <2>3. Backed'
    BY <2>1, CatalogFrame
  <2>4. Informed'
    <3>1. mode' # "resync"
      BY <1>1, <1>3 DEF work
    <3> QED BY <1>1, <2>1, <2>2, <3>1, SameLog DEF Informed, Signalled, Seen, Agree, TableSet, Range, FingerprintLine
  <2>5. CASE line = expected[t]
    <3>1. UNCHANGED <<plan, target, mode>>
      BY <1>3, <2>5 DEF work
    <3>2. Catalogs' /\ Arriving' /\ Base' /\ Shaped'
      BY <2>1, <3>1, CatalogFrame
    <3>3. Planned'
      BY <1>1, <3>1 DEF Planned, PlanMode
    <3> QED BY <2>3, <2>4, <3>2, <3>3
  <2>6. CASE line # expected[t]
    <3>1. /\ plan' = {Stmt("add", t, i, line[i]) : i \in (Len(expected[t]) + 1)..Len(line)}
          /\ target' = [expected EXCEPT ![t] = line] /\ mode' = "relation"
      BY <1>3, <2>6
    <3>2. /\ t \in TableSet /\ line \in Seq(Shape) /\ Sound(line)
          /\ DOMAIN line = 1..Len(line) /\ Len(line) \in Nat
      BY <1>1, MsgSound
    <3>3. /\ t \in DOMAIN expected /\ expected[t] \in Seq(Shape) /\ Additive(expected[t], line)
          /\ DOMAIN expected[t] = 1..Len(expected[t]) /\ Len(expected[t]) \in Nat
      <4>1. t \in DOMAIN expected /\ expected[t] \in Seq(Shape) /\ Additive(expected[t], line)
        BY <1>3 DEF SchemaInv, SchemaTypes, Prints
      <4> QED BY <4>1
    <3> HIDE DEF line, t
    <3>4. \A i \in DOMAIN expected[t] : i \in DOMAIN line /\ line[i] = expected[t][i]
      BY <3>2, <3>3 DEF Additive
    \* What the message has more has other names.
    <3>5. \A i \in DOMAIN line : \/ line[i] \in Range(expected[t])
                                 \/ /\ Stmt("add", t, i, line[i]) \in plan'
                                    /\ line[i].n \notin ColumnNames(expected[t])
      <4> TAKE i \in DOMAIN line
      <4>1. CASE i \in DOMAIN expected[t]
        BY <3>4, <4>1 DEF Range
      <4>2. CASE i \notin DOMAIN expected[t]
        <5>1. i \in (Len(expected[t]) + 1)..Len(line)
          BY <3>2, <3>3, <4>2
        <5>2. Stmt("add", t, i, line[i]) \in plan'
          BY <3>1, <5>1
        <5>3. ASSUME line[i].n \in ColumnNames(expected[t])
              PROVE  FALSE
          <6>1. PICK j \in DOMAIN expected[t] : expected[t][j].n = line[i].n
            BY <5>3 DEF ColumnNames, Range
          <6>2. j \in DOMAIN line /\ line[j].n = line[i].n
            BY <3>4, <6>1
          <6>3. j = i
            BY <3>2, <6>2 DEF Sound, Distinct
          <6> QED BY <4>2, <6>1, <6>3
        <5> QED BY <5>2, <5>3
      <4> QED BY <4>1, <4>2
    <3>6. /\ DOMAIN target' = DOMAIN expected /\ target'[t] = line
          /\ \A u \in DOMAIN expected : u # t => target'[u] = expected[u]
      BY <3>1, <3>3
    <3>7. Range(expected[t]) \subseteq Range(line)
      BY <3>2, <3>3, AdditiveFacts
    <3>8. \A s \in plan' : \E i \in DOMAIN line :
            s = Stmt("add", t, i, line[i]) /\ line[i].n \notin ColumnNames(expected[t])
      <4> SUFFICES ASSUME NEW s \in plan'
                   PROVE  \E i \in DOMAIN line :
                            s = Stmt("add", t, i, line[i]) /\ line[i].n \notin ColumnNames(expected[t])
        OBVIOUS
      <4>1. PICK i \in (Len(expected[t]) + 1)..Len(line) : s = Stmt("add", t, i, line[i])
        BY <3>1
      <4>2. i \in DOMAIN line /\ i \notin DOMAIN expected[t]
        BY <3>2, <3>3, <4>1
      <4>3. ASSUME line[i].n \in ColumnNames(expected[t])
            PROVE  FALSE
        <5>1. PICK j \in DOMAIN expected[t] : expected[t][j].n = line[i].n
          BY <4>3 DEF ColumnNames, Range
        <5>2. j \in DOMAIN line /\ line[j].n = line[i].n
          BY <3>4, <5>1
        <5>3. j = i
          BY <3>2, <4>2, <5>2 DEF Sound, Distinct
        <5> QED BY <4>2, <5>1, <5>3
      <4> QED BY <4>1, <4>2, <4>3
    <3>9. Catalogs'
      <4>1. \A x : Sound(x)' = Sound(x)
        BY <1>1, SameLog
      <4>2. \A u \in DOMAIN target' : Sound(target'[u])
        BY <3>2, <3>6 DEF Catalogs, Lines
      <4>3. DOMAIN target' \subseteq TableSet
        BY <3>6 DEF Catalogs, Lines
      <4>4. \A u \in DOMAIN target' : Sound(target[u])'
        BY <2>1, <4>2, <1>1 DEF Sound, Retyped, Distinct, Plain, upstream
      <4>5. Lines(target)'
        BY <4>3, <4>4 DEF Lines, TableSet
      <4>6. Lines(stored)' /\ Lines(started)' /\ Lines(expected)'
        BY <2>1 DEF Catalogs, Lines, TableSet, Sound, Retyped, Distinct, Plain
      <4> QED BY <4>5, <4>6 DEF Catalogs
    <3>10. Planned'
      <4>1. ASSUME NEW s \in plan'
            PROVE  Purpose(s)'
        <5>1. PICK i \in DOMAIN line : s = Stmt("add", t, i, line[i]) /\ line[i].n \notin ColumnNames(expected[t])
          BY <3>8
        <5>2. s.op = "add" /\ s.t = t /\ s.c = line[i]
          BY <5>1 DEF Stmt
        <5>3. s.c \in Range(target'[s.t]) /\ s.c.n \notin ColumnNames(expected'[s.t])
          BY <2>1, <3>6, <5>1, <5>2 DEF Range
        <5>4. t \in TableSet' /\ t \in DOMAIN expected' \cap DOMAIN target'
          BY <2>1, <3>2, <3>3, <3>6 DEF TableSet
        <5> QED BY <5>2, <5>3, <5>4 DEF Purpose, Both, ColumnNames, Range
      <4>2. /\ target' = [expected' EXCEPT ![Msg'.t] = FingerprintLine(Msg'.cols)]
            /\ Msg'.t \in DOMAIN expected' /\ Additive(expected'[Msg'.t], FingerprintLine(Msg'.cols))
        BY <2>1, <2>2, <3>1, <3>3 DEF t, line
      <4>3. \A s \in plan' : s.op = "add"
        BY <3>8 DEF Stmt
      <4>4. mode' = "relation"
        BY <3>1
      <4>5. (Additive(expected[Msg.t], FingerprintLine(Msg.cols)))'
        BY <4>2 DEF Additive, FingerprintLine
      <4>6. target' = ([expected EXCEPT ![Msg.t] = FingerprintLine(Msg.cols)])'
        BY <4>2 DEF FingerprintLine
      <4> QED BY <4>1, <4>2, <4>3, <4>4, <4>5, <4>6 DEF Planned
    <3>11. Arriving'
      <4>1. ASSUME NEW n \in ColumnNames(line) \ ColumnNames(expected[t])
            PROVE  \E s \in plan' : s.op = "add" /\ s.t = t /\ s.c.n = n
        <5>1. PICK i \in DOMAIN line : line[i].n = n
          BY DEF ColumnNames, Range
        <5>2. line[i] \notin Range(expected[t])
          BY <5>1 DEF ColumnNames
        <5>3. Stmt("add", t, i, line[i]) \in plan'
          BY <3>5, <5>2
        <5> QED BY <5>1, <5>3 DEF Stmt
      <4>2. \A u \in DOMAIN target' : u \in DOMAIN expected /\
              \A n \in ColumnNames(target'[u]) \ ColumnNames(expected[u]) :
                \E s \in plan' : s.op = "add" /\ s.t = u /\ s.c.n = n
        BY <3>6, <4>1
      <4> QED BY <2>1, <4>2 DEF Arriving, ColumnNames, Range
    <3>12. Base'
      BY <3>1 DEF Base
    <3>13. Shaped'
      <4>1. ASSUME trusted, ~torn
            PROVE  Halfway'
        <5>1. Settled
          BY <1>1, <4>1 DEF Shaped, Planned, PlanMode
        <5>2. ASSUME NEW u \in DOMAIN expected
              PROVE  /\ u \in DOMAIN local
                     /\ \A c \in local[u].cols : c \in Range(target'[u])
                     /\ \A c \in Range(target'[u]) : c \in local[u].cols \/ \E s \in plan' : s.t = u /\ s.op = "add" /\ s.c = c
          <6>1. u \in DOMAIN local /\ local[u].cols = Range(expected[u])
            BY <5>1 DEF Settled
          <6>2. CASE u # t
            BY <3>6, <6>1, <6>2
          <6>3. CASE u = t
            <7>1. ASSUME NEW c \in Range(line), c \notin Range(expected[t])
                  PROVE  \E s \in plan' : s.t = t /\ s.op = "add" /\ s.c = c
              <8>1. PICK i \in DOMAIN line : line[i] = c
                BY DEF Range
              <8>2. Stmt("add", t, i, line[i]) \in plan'
                BY <3>5, <7>1, <8>1
              <8> QED BY <8>1, <8>2 DEF Stmt
            <7> QED BY <3>6, <3>7, <6>1, <6>3, <7>1
          <6> QED BY <6>2, <6>3
        <5>3. DOMAIN local = DOMAIN expected /\ DOMAIN target' = DOMAIN expected
          BY <3>6, <5>1 DEF Settled
        <5> QED BY <2>1, <5>2, <5>3 DEF Halfway, Both, Range
      <4>2. mode' = "relation"
        BY <3>1
      <4> QED BY <2>1, <4>1, <4>2 DEF Shaped, PlanMode
    <3> QED BY <2>3, <2>4, <3>9, <3>10, <3>11, <3>12, <3>13
  <2> QED BY <2>5, <2>6
<1> QED BY <1>2, <1>3 DEF ReadRelation

\* A plan that has run: the local tables are as it wanted them.
LEMMA PlanDone ==
  ASSUME CatalogInv, PlanMode, plan = {}
  PROVE  /\ trusted => \A t \in DOMAIN target :
              <<t>> \in gone \/ (t \in DOMAIN local /\ \A n \in ColumnNames(target[t]) : Gone(t, n) \/ n \in LocalNames(t))
         /\ trusted /\ ~torn =>
              DOMAIN local = DOMAIN target /\ \A t \in DOMAIN target : local[t].cols = Range(target[t])
<1> USE DEF CatalogInv
<1>1. ASSUME trusted, NEW t \in DOMAIN target, <<t>> \notin gone
      PROVE  t \in DOMAIN local /\ \A n \in ColumnNames(target[t]) : Gone(t, n) \/ n \in LocalNames(t)
  <2>1. CASE t \notin DOMAIN expected
    BY <1>1, <2>1 DEF Arriving, Has
  <2>2. CASE t \in DOMAIN expected
    <3>1. t \in DOMAIN local /\ \A n \in ColumnNames(expected[t]) : Gone(t, n) \/ n \in LocalNames(t)
      BY <1>1, <2>2 DEF Backed
    <3>2. \A n \in ColumnNames(target[t]) \ ColumnNames(expected[t]) : n \in LocalNames(t)
      BY <2>2 DEF Arriving, Has
    <3> QED BY <3>1, <3>2
  <2> QED BY <2>1, <2>2
<1>2. ASSUME trusted, ~torn
      PROVE  DOMAIN local = DOMAIN target /\ \A t \in DOMAIN target : local[t].cols = Range(target[t])
  <2>1. Halfway
    BY <1>2 DEF Shaped
  <2>2. \A t \in DOMAIN target : t \in DOMAIN local /\ local[t].cols = Range(target[t])
    BY <2>1 DEF Halfway, Both
  <2>3. \A t \in DOMAIN local : t \in DOMAIN target
    BY <2>1 DEF Halfway
  <2> QED BY <2>2, <2>3
<1> QED BY <1>1, <1>2

LEMMA FinishRelationKeepsCatalog ==
  ASSUME SchemaInv, LogInv, CatalogInv, FinishRelation
  PROVE  CatalogInv'
<1> USE DEF CatalogInv
<1> DEFINE t == Msg.t
<1>1. /\ mode = "relation" /\ mode' = "stream" /\ plan = {} /\ plan' = {}
      /\ expected' = target /\ stored' = target
      /\ UNCHANGED upstream
      /\ UNCHANGED <<up, wal, gone, slot, local, wm, started, sent, cur, pos, buf, target, trusted, torn>>
  BY DEF FinishRelation, upstream, work, history
<1>2. /\ cur < Len(wal) /\ pos < Len(Tx.msgs) /\ Tx' = Tx
      /\ Msg # Signal /\ target = [expected EXCEPT ![t] = FingerprintLine(Msg.cols)] /\ t \in DOMAIN expected
  BY <1>1 DEF SchemaInv, Announced, Planned, Tx
<1>3. Catalogs'
  <2>1. Lines(target)' /\ Lines(started)'
    BY <1>1 DEF Catalogs, Lines, TableSet, Sound, Retyped, Distinct, Plain
  <2> QED BY <1>1, <2>1 DEF Catalogs, Lines, Sound, Distinct, Plain
<1>4. Calm(t, cur + 1, Len(wal)) => t \in DOMAIN up /\ up[t].cols = Msg.cols
  <2> DEFINE i == cur + 1
  <2>1. i \in DOMAIN wal /\ Msg \in RowsOf(i)
    BY <1>2, MsgRow DEF SchemaInv
  <2> HIDE DEF i
  <2>2. Calm(t, i, Len(wal)) => t \in DOMAIN up /\ up[t].cols = Msg.cols
    BY <2>1 DEF LogInv, Lasting
  <2> QED BY <2>2 DEF i
<1>5. Informed'
  <2>1. Seen = cur /\ Seen' = Seen
    BY <1>1, <1>2, SeenFacts DEF Seen
  <2>2. ASSUME trusted, Signalled, NEW u \in TableSet, Calm(u, Seen + 1, Len(wal))
        PROVE  Agree(target, u)
    <3>1. Agree(expected, u)
      BY <2>2 DEF Informed
    <3>2. CASE u # t
      BY <1>2, <3>1, <3>2 DEF Agree
    <3>3. CASE u = t
      BY <1>2, <1>4, <2>1, <2>2, <3>3 DEF Agree
    <3> QED BY <3>2, <3>3
  <2> QED BY <1>1, <2>1, <2>2, SameLog DEF Informed, Signalled, Agree, TableSet, Range, FingerprintLine
<1>6. Planned' /\ Arriving' /\ Base'
  BY <1>1 DEF Planned, Arriving, Base, PlanMode
<1>7. PlanMode
  BY <1>1 DEF PlanMode
<1>8. Backed'
  <2>1. trusted => \A u \in DOMAIN target :
          <<u>> \in gone \/ (u \in DOMAIN local /\ \A n \in ColumnNames(target[u]) : Gone(u, n) \/ n \in LocalNames(u))
    BY <1>1, <1>7, PlanDone
  <2>2. \A u : /\ LocalNames(u)' = LocalNames(u) /\ ColumnNames(expected[u])' = ColumnNames(target[u])
              /\ \A n : Gone(u, n)' = Gone(u, n)
    BY <1>1 DEF LocalNames, ColumnNames, Range, Gone
  <2> QED BY <1>1, <2>1, <2>2 DEF Backed
<1>9. Shaped'
  BY <1>1, <1>7, PlanDone DEF Shaped, PlanMode, Settled, Range
<1> QED BY <1>3, <1>5, <1>6, <1>8, <1>9

LEMMA FinishResyncKeepsCatalog ==
  ASSUME SchemaInv, CatalogInv, FinishResync
  PROVE  CatalogInv'
<1> USE DEF CatalogInv
<1>1. /\ mode = "resync" /\ mode' = "stream" /\ plan = {} /\ plan' = {} /\ pos' = pos + 1
      /\ expected' = target /\ stored' \in {stored, target}
      /\ UNCHANGED upstream
      /\ UNCHANGED <<up, wal, gone, slot, local, wm, started, sent, cur, buf, target, trusted, torn>>
  BY DEF FinishResync, upstream, work, history
<1>2. PlanMode
  BY <1>1 DEF PlanMode
<1>3. Catalogs'
  <2>1. Lines(target)' /\ Lines(started)' /\ \A f \in {stored, target} : Lines(f)'
    BY <1>1 DEF Catalogs, Lines, TableSet, Sound, Retyped, Distinct, Plain
  <2> QED BY <1>1, <2>1 DEF Catalogs, Lines, Sound, Distinct, Plain
<1>4. Informed'
  <2>1. cur \in Nat /\ Len(wal) \in Nat /\ cur' = cur
    BY <1>1, SeenFacts
  <2>2. Seen' \in {cur, cur + 1}
    BY <1>1 DEF Seen
  <2>3. ASSUME NEW u \in TableSet, Calm(u, Seen' + 1, Len(wal))
        PROVE  Agree(target, u)
    <3> DEFINE x == Seen'
    <3>0. x = cur \/ x = cur + 1
      BY <2>2
    <3> HIDE DEF x
    <3>1. \A k \in (cur + 2)..Len(wal) : k \in (x + 1)..Len(wal)
      BY <2>1, <3>0
    <3>2. Calm(u, x + 1, Len(wal))
      BY <2>3 DEF x
    <3>3. Calm(u, cur + 2, Len(wal))
      BY <3>1, <3>2 DEF Calm
    <3> QED BY <1>1, <3>3 DEF Informed
  <2>4. \A u \in TableSet' : Calm(u, Seen + 1, Len(wal))' => Calm(u, Seen' + 1, Len(wal))
    BY <1>1 DEF Calm
  <2>5. ASSUME NEW u \in TableSet', Calm(u, Seen + 1, Len(wal))'
        PROVE  Agree(expected, u)'
    <3>1. u \in TableSet /\ Agree(target, u)
      BY <2>3, <2>4, <2>5 DEF TableSet, Range
    <3> QED BY <1>1, <3>1 DEF Agree, FingerprintLine
  <2> QED BY <1>1, <2>5 DEF Informed
<1>5. Planned' /\ Arriving' /\ Base'
  BY <1>1 DEF Planned, Arriving, Base, PlanMode
<1>6. Backed'
  <2>1. trusted => \A u \in DOMAIN target :
          <<u>> \in gone \/ (u \in DOMAIN local /\ \A n \in ColumnNames(target[u]) : Gone(u, n) \/ n \in LocalNames(u))
    BY <1>1, <1>2, PlanDone
  <2>2. \A u : /\ LocalNames(u)' = LocalNames(u) /\ ColumnNames(expected[u])' = ColumnNames(target[u])
              /\ \A n : Gone(u, n)' = Gone(u, n)
    BY <1>1 DEF LocalNames, ColumnNames, Range, Gone
  <2> QED BY <1>1, <2>1, <2>2 DEF Backed
<1>7. Shaped'
  BY <1>1, <1>2, PlanDone DEF Shaped, PlanMode, Settled, Range
<1> QED BY <1>3, <1>4, <1>5, <1>6, <1>7

\* A row is not past the DDL of its transaction.
LEMMA RowSeen ==
  ASSUME SchemaInv, LogInv, Reading, Msg # Signal, UNCHANGED <<upstream, cur>>, pos' = pos + 1
  PROVE  Seen' = cur /\ Seen = cur
<1>1. WellMade(Tx)
  BY MsgSound
<1>2. pos < Len(Tx.msgs) /\ pos \in Nat /\ Len(Tx.msgs) \in Nat /\ Tx.msgs \in Seq(Row1 \cup {Signal})
  BY OpenFacts DEF SchemaInv
<1>3. Tx' = Tx
  BY DEF Tx, upstream
<1>4. pos + 1 = Len(Tx.msgs) => Tx.op = "insert"
  <2> SUFFICES ASSUME pos + 1 = Len(Tx.msgs), Tx.op # "insert"
               PROVE  FALSE
    OBVIOUS
  <2>1. Tx.msgs # <<>>
    BY <1>2
  <2>2. Tx.msgs[Len(Tx.msgs)] = Signal
    BY <1>1, <2>1 DEF WellMade
  <2> QED BY <2>2 DEF Msg
<1>5. Seen' = cur
  BY <1>3, <1>4 DEF Seen
<1> QED BY <1>2, <1>5, SeenFacts

LEMMA ReadRowKeepsCatalog ==
  ASSUME SchemaInv, LogInv, CatalogInv, ReadRow
  PROVE  CatalogInv'
<1> USE DEF CatalogInv
<1>1. UNCHANGED <<upstream, slot, started, history>> /\ Reading /\ Msg # Signal /\ mode = "stream"
  BY DEF ReadRow, Reading
<1>2. CASE Halt
  BY <1>1, <1>2, HaltKeepsCatalog DEF history
<1>3. CASE pos' = pos + 1 /\ UNCHANGED <<durable, expected, rels, sent, cur, work, mode>>
  <2>1. UNCHANGED <<up, wal, gone, local, stored, started, expected, cur, plan, target, mode, trusted, torn>>
    BY <1>1, <1>3 DEF upstream, durable, work, history
  <2>2. Seen' = Seen
    BY <1>1, <1>3, RowSeen
  <2>3. Informed'
    BY <1>1, <2>1, <2>2, SameLog DEF Informed, Signalled, Agree, TableSet, Range, FingerprintLine
  <2>4. Planned'
    BY <1>1, <2>1 DEF Planned, PlanMode
  <2> QED BY <2>1, <2>3, <2>4, CatalogFrame
<1> QED BY <1>2, <1>3 DEF ReadRow

\* A signalled transaction of DDL ends after its signal.
LEMMA ReadCommitKeepsCatalog ==
  ASSUME SchemaInv, LogInv, CatalogInv, ReadCommit
  PROVE  CatalogInv'
<1> USE DEF CatalogInv
<1>1. UNCHANGED <<upstream, started, history>> /\ mode = "stream" /\ cur < Len(wal) /\ pos = Len(Tx.msgs)
  BY DEF ReadCommit
<1>2. CASE Halt
  BY <1>1, <1>2, HaltKeepsCatalog DEF history
<1>3. CASE /\ local' = [t \in DOMAIN local |-> [local[t] EXCEPT !.rows =
                          @ \cup {[tx |-> cur + 1, has |-> b.has] : b \in {x \in Range(buf) : x.t = t}}]]
           /\ cur' = cur + 1 /\ pos' = 0
           /\ UNCHANGED <<stored, expected, rels, work, mode>>
  <2>1. UNCHANGED <<up, wal, gone, stored, started, expected, plan, target, mode, trusted, torn>>
    BY <1>1, <1>3 DEF upstream, work, history
  <2>2. DOMAIN local' = DOMAIN local /\ \A t \in DOMAIN local : local'[t].cols = local[t].cols
    <3>1. \A t \in DOMAIN local : local[t] \in [cols : SUBSET Shape, rows : SUBSET [tx : Int, has : SUBSET Names]]
      BY DEF SchemaInv, SchemaTypes
    <3> DEFINE new(t) == {[tx |-> cur + 1, has |-> b.has] : b \in {x \in Range(buf) : x.t = t}}
    <3>2. local' = [t \in DOMAIN local |-> [local[t] EXCEPT !.rows = @ \cup new(t)]]
      BY <1>3
    <3> HIDE DEF new
    <3> QED BY <3>1, <3>2
  <2>3. Catalogs'
    BY <2>1, CatalogFrame
  <2>4. Informed'
    <3>1. /\ Seen \in {cur, cur + 1} /\ cur \in Nat /\ Len(wal) \in Nat /\ pos \in Nat /\ Seen' = cur + 1
      BY <1>3, SeenFacts DEF Seen
    <3>2. WellMade(Tx) /\ Tx = wal[cur + 1] /\ cur + 1 \in DOMAIN wal /\ Tx.msgs \in Seq(Row1 \cup {Signal})
      <4>1. cur + 1 \in DOMAIN wal
        <5>1. wal \in Seq(Entry)
          BY DEF SchemaInv, SchemaTypes
        <5>2. DOMAIN wal = 1..Len(wal)
          BY <5>1, RangeFacts
        <5> QED BY <1>1, <3>1, <5>2
      <4>2. wal[cur + 1].msgs \in Seq(Row1 \cup {Signal})
        BY <4>1, LogFacts DEF SchemaInv
      <4> QED BY <4>1, <4>2 DEF Tx, LogInv, SoundLog
    <3>3. Signalled /\ Seen = cur => Tx.op = "insert"
      <4> SUFFICES ASSUME Signalled, Seen = cur, Tx.op # "insert"
                   PROVE  FALSE
        OBVIOUS
      <4>1. Tx.msgs # <<>>
        BY <3>2 DEF Signalled, WellMade
      <4>2. pos > 0
        BY <1>1, <3>2, <4>1
      <4>3. Seen = cur + 1
        BY <1>1, <4>2 DEF Seen
      <4> QED BY <3>1, <4>3
    <3>4. ASSUME trusted, Signalled, NEW u \in TableSet, Calm(u, cur + 2, Len(wal))
          PROVE  Agree(expected, u)
      <4>1. CASE Seen = cur + 1
        <5>1. Seen + 1 = cur + 2
          BY <3>1, <4>1
        <5> QED BY <3>4, <5>1 DEF Informed
      <4>2. CASE Seen = cur
        <5>1. wal[cur + 1].op = "insert"
          BY <3>2, <3>3, <3>4, <4>2
        <5>2. \A k \in (cur + 1)..Len(wal) : k = cur + 1 \/ k \in (cur + 2)..Len(wal)
          BY <3>1
        <5>3. Calm(u, Seen + 1, Len(wal))
          BY <3>4, <4>2, <5>1, <5>2 DEF Calm
        <5> QED BY <3>4, <5>3 DEF Informed
      <4> QED BY <3>1, <4>1, <4>2
    <3>5. ASSUME trusted', Signalled', NEW u \in TableSet', Calm(u, Seen + 1, Len(wal))'
          PROVE  Agree(expected, u)'
      <4>1. Seen' + 1 = cur + 2
        BY <3>1
      <4>2. trusted /\ Signalled /\ u \in TableSet
        BY <2>1, <3>5 DEF Signalled, TableSet, Range
      <4>3. Calm(u, Seen' + 1, Len(wal))
        BY <2>1, <3>5 DEF Calm
      <4>4. Agree(expected, u)
        BY <3>4, <4>1, <4>2, <4>3
      <4> QED BY <2>1, <4>4 DEF Agree, FingerprintLine
    <3> QED BY <1>1, <2>1, <3>5 DEF Informed
  <2>5. Planned' /\ Arriving' /\ Base'
    BY <1>1, <2>1 DEF Planned, PlanMode, Arriving, Base
  <2>6. Backed'
    <3>1. \A u \in DOMAIN local : LocalNames(u)' = LocalNames(u)
      BY <2>2 DEF LocalNames
    <3>2. \A u : ColumnNames(expected[u])' = ColumnNames(expected[u]) /\ \A n : Gone(u, n)' = Gone(u, n)
      BY <2>1 DEF ColumnNames, Range, Gone
    <3> QED BY <2>1, <2>2, <3>1, <3>2 DEF Backed
  <2>7. Shaped'
    <3>1. Settled => Settled'
      BY <2>1, <2>2 DEF Settled, Range
    <3> QED BY <1>1, <2>1, <3>1 DEF Shaped, PlanMode
  <2> QED BY <2>3, <2>4, <2>5, <2>6, <2>7
<1> QED BY <1>2, <1>3 DEF ReadCommit

\* A new connection: the trusted fingerprint is the one in use, and the stream goes back.
LEMMA BeginKeepsCatalog ==
  ASSUME SchemaInv, CatalogInv, NEW fp, fp \in {started, stored}, Begin(fp), started' \in {started, stored}
  PROVE  CatalogInv'
<1> USE DEF CatalogInv
<1>1. /\ expected' = fp /\ target' = fp /\ plan' = {} /\ mode' = "stream"
      /\ cur' = MaxOf(slot, wm) /\ pos' = 0
      /\ trusted' = (trusted /\ fp = stored)
      /\ torn' = (torn \/ mode \in {"resync", "relation"} \/ plan # {})
      /\ UNCHANGED upstream /\ UNCHANGED <<up, wal, gone, local, stored>>
  BY DEF Begin, upstream, durable
<1>2. trusted' => trusted /\ expected' = expected
  BY <1>1 DEF SchemaInv, Prior
<1>3. Catalogs'
  <2>1. \A f \in {stored, started} : Lines(f)'
    BY <1>1 DEF Catalogs, Lines, TableSet, Sound, Retyped, Distinct, Plain
  <2> QED BY <1>1, <2>1 DEF Catalogs, Lines, Sound, Distinct, Plain
<1>4. Informed'
  <2>1. Seen' = cur' /\ cur' \in Nat /\ cur' <= Seen /\ Seen \in Nat
    <3>1. slot \in Nat /\ wm \in Nat /\ cur \in Nat /\ slot <= cur /\ wm <= cur
      BY DEF SchemaInv, SchemaTypes, Positions
    <3>2. Seen' = cur'
      BY <1>1 DEF Seen
    <3> QED BY <1>1, <3>1, <3>2, SeenFacts DEF MaxOf
  <2>2. ASSUME trusted', Signalled', NEW u \in TableSet', Calm(u, Seen + 1, Len(wal))'
        PROVE  Agree(expected, u)'
    <3>1. trusted /\ expected' = expected /\ Signalled /\ u \in TableSet
      BY <1>1, <1>2, <2>2 DEF Signalled, TableSet, Range
    <3>2. Len(wal) \in Nat
      BY SeenFacts
    <3> DEFINE x == Seen'
               y == Seen
    <3>3. x \in Nat /\ y \in Nat /\ x <= y
      BY <2>1
    <3>a. \A k \in (x + 1)..Len(wal) : wal[k].op = "insert" \/ wal[k].t # u
      BY <1>1, <2>2 DEF Calm
    <3> HIDE DEF x, y
    <3>b. \A k \in (y + 1)..Len(wal) : wal[k].op = "insert" \/ wal[k].t # u
      BY <3>2, <3>3, <3>a
    <3>4. Calm(u, Seen + 1, Len(wal))
      BY <3>b DEF Calm, y
    <3>5. Agree(expected, u)
      BY <3>1, <3>4 DEF Informed
    <3> QED BY <1>1, <3>1, <3>5 DEF Agree, FingerprintLine
  <2> QED BY <1>1, <2>2 DEF Informed
<1>5. Planned' /\ Arriving' /\ Base'
  BY <1>1 DEF Planned, Arriving, Base, PlanMode
<1>6. Backed'
  <2>1. \A u \in DOMAIN expected : LocalNames(u)' = LocalNames(u) /\ \A n : Gone(u, n)' = Gone(u, n)
    BY <1>1 DEF LocalNames, Gone
  <2>2. expected' = expected => \A u : ColumnNames(expected[u])' = ColumnNames(expected[u])
    BY DEF ColumnNames, Range
  <2> QED BY <1>1, <1>2, <2>1, <2>2 DEF Backed
<1>7. Shaped'
  <2>1. expected' = expected => Settled' = Settled
    BY <1>1, CatalogFrame
  <2> QED BY <1>1, <1>2, <2>1 DEF Shaped, PlanMode
<1> QED BY <1>3, <1>4, <1>5, <1>6, <1>7

\* What the plan of a resync consists of.
LEMMA DeltaFacts ==
  ASSUME NEW old, NEW new
  PROVE  LET d == SchemaDelta(old, new)
             both == DOMAIN old \cap DOMAIN new
         IN /\ \A s \in d :
                 \/ s.op = "droptable" /\ s = OfTable("droptable", s.t) /\ s.t \in DOMAIN old \ DOMAIN new
                 \/ /\ s.op \in {"droptable", "create"} /\ s = OfTable(s.op, s.t)
                    /\ s.t \in DOMAIN new \ DOMAIN old
                 \/ /\ s.op = "add" /\ s.t \in both
                    /\ s.c \in Range(new[s.t]) /\ s.c.n \notin ColumnNames(old[s.t])
                 \/ /\ s.op \in {"drop", "error"} /\ s.t \in both
                    /\ s.c \in Range(old[s.t]) \ Range(new[s.t])
                    /\ s.op = "error" <=> s.c.n \in ColumnNames(new[s.t])
            /\ \A t \in DOMAIN old \ DOMAIN new : OfTable("droptable", t) \in d
            /\ \A t \in DOMAIN new \ DOMAIN old : OfTable("create", t) \in d
            /\ \A t \in both : \A c \in Range(new[t]) : c.n \notin ColumnNames(old[t]) =>
                 \E s \in d : s.op = "add" /\ s.t = t /\ s.c = c
            /\ \A t \in both : \A c \in Range(old[t]) \ Range(new[t]) :
                 \E s \in d : s.t = t /\ s.c = c /\ s.op = IF c.n \in ColumnNames(new[t]) THEN "error" ELSE "drop"
<1> DEFINE d == SchemaDelta(old, new)
           both == DOMAIN old \cap DOMAIN new
<1>1. /\ \A op, t : OfTable(op, t).op = op /\ OfTable(op, t).t = t
      /\ \A op, t, i, c : Stmt(op, t, i, c).op = op /\ Stmt(op, t, i, c).t = t /\ Stmt(op, t, i, c).c = c
  BY DEF OfTable, Stmt
<1>2. ASSUME NEW t \in both, NEW s \in DeltaOfTable(t, old[t], new[t])
      PROVE  \/ /\ s.op = "add" /\ s.t = t
                /\ s.c \in Range(new[t]) /\ s.c.n \notin ColumnNames(old[t])
             \/ /\ s.op \in {"drop", "error"} /\ s.t = t
                /\ s.c \in Range(old[t]) \ Range(new[t])
                /\ s.op = "error" <=> s.c.n \in ColumnNames(new[t])
  <2>1. CASE s \in NewColumns(t, old[t], new[t])
    <3>1. PICK i \in DOMAIN new[t] : new[t][i].n \notin ColumnNames(old[t]) /\ s = Stmt("add", t, i, new[t][i])
      BY <2>1 DEF NewColumns
    <3>2. s.op = "add" /\ s.t = t /\ s.c = new[t][i]
      BY <1>1, <3>1
    <3> QED BY <3>1, <3>2 DEF Range
  <2>2. CASE s \notin NewColumns(t, old[t], new[t])
    <3>1. PICK i \in DOMAIN old[t] :
            /\ old[t][i] \notin Range(new[t])
            /\ s = Stmt(IF old[t][i].n \in ColumnNames(new[t]) THEN "error" ELSE "drop", t, i, old[t][i])
      BY <1>2, <2>2 DEF DeltaOfTable
    <3>2. s.op = (IF old[t][i].n \in ColumnNames(new[t]) THEN "error" ELSE "drop") /\ s.t = t /\ s.c = old[t][i]
      BY <1>1, <3>1
    <3> QED BY <3>1, <3>2 DEF Range
  <2> QED BY <2>1, <2>2
<1>3. ASSUME NEW s \in d
      PROVE  \/ s.op = "droptable" /\ s = OfTable("droptable", s.t) /\ s.t \in DOMAIN old \ DOMAIN new
             \/ /\ s.op \in {"droptable", "create"} /\ s = OfTable(s.op, s.t)
                /\ s.t \in DOMAIN new \ DOMAIN old
             \/ /\ s.op = "add" /\ s.t \in both
                /\ s.c \in Range(new[s.t]) /\ s.c.n \notin ColumnNames(old[s.t])
             \/ /\ s.op \in {"drop", "error"} /\ s.t \in both
                /\ s.c \in Range(old[s.t]) \ Range(new[s.t])
                /\ s.op = "error" <=> s.c.n \in ColumnNames(new[s.t])
  <2>1. CASE \E t \in DOMAIN old \ DOMAIN new : s = OfTable("droptable", t)
    BY <1>1, <2>1
  <2>2. CASE \E t \in DOMAIN new \ DOMAIN old : s \in {OfTable("droptable", t), OfTable("create", t)}
    <3>1. PICK t \in DOMAIN new \ DOMAIN old : s = OfTable("droptable", t) \/ s = OfTable("create", t)
      BY <2>2
    <3>2. s.t = t /\ s.op \in {"droptable", "create"} /\ s = OfTable(s.op, t)
      BY <1>1, <3>1
    <3> QED BY <3>2
  <2>3. CASE \E t \in both : s \in DeltaOfTable(t, old[t], new[t])
    BY <1>2, <2>3
  <2> QED BY <2>1, <2>2, <2>3 DEF SchemaDelta
<1>4. /\ \A t \in DOMAIN old \ DOMAIN new : OfTable("droptable", t) \in d
      /\ \A t \in DOMAIN new \ DOMAIN old : OfTable("create", t) \in d
  BY DEF SchemaDelta
<1>5. \A t \in both : DeltaOfTable(t, old[t], new[t]) \subseteq d
  BY DEF SchemaDelta
<1> HIDE DEF d
<1>6. ASSUME NEW t \in both, NEW c \in Range(new[t]), c.n \notin ColumnNames(old[t])
      PROVE  \E s \in d : s.op = "add" /\ s.t = t /\ s.c = c
  <2>1. PICK i \in DOMAIN new[t] : c = new[t][i]
    BY DEF Range
  <2>2. Stmt("add", t, i, new[t][i]) \in d
    BY <1>5, <1>6, <2>1 DEF DeltaOfTable, NewColumns
  <2> QED BY <1>1, <2>1, <2>2
<1>7. ASSUME NEW t \in both, NEW c \in Range(old[t]) \ Range(new[t])
      PROVE  \E s \in d : s.t = t /\ s.c = c /\ s.op = IF c.n \in ColumnNames(new[t]) THEN "error" ELSE "drop"
  <2>1. PICK i \in DOMAIN old[t] : c = old[t][i]
    BY DEF Range
  <2> DEFINE op == IF old[t][i].n \in ColumnNames(new[t]) THEN "error" ELSE "drop"
  <2>2. Stmt(op, t, i, old[t][i]) \in d
    BY <1>5, <1>7, <2>1 DEF DeltaOfTable
  <2> HIDE DEF op
  <2>3. op = IF c.n \in ColumnNames(new[t]) THEN "error" ELSE "drop"
    BY <2>1 DEF op
  <2> QED BY <1>1, <2>1, <2>2, <2>3
<1> QED BY <1>3, <1>4, <1>6, <1>7 DEF d

\* The catalog of the upstream, read.
LEMMA CatalogFacts ==
  ASSUME SchemaTypes, LogInv
  PROVE  LET new == Fingerprint(up)
         IN /\ DOMAIN new = DOMAIN up /\ DOMAIN up \subseteq TableSet
            /\ \A t \in DOMAIN up :
                 /\ up[t].cols \in Seq(Column) /\ new[t] = FingerprintLine(up[t].cols)
                 /\ new[t] \in Seq(Shape) /\ ColumnNames(new[t]) = ColumnNames(up[t].cols)
                 /\ Sound(new[t])
            /\ \A t : Agree(new, t)
<1>1. \A t \in DOMAIN up : up[t].cols \in Seq(Column)
  BY DEF SchemaTypes, TableType
<1>2. ASSUME NEW t \in DOMAIN up
      PROVE  LET line == FingerprintLine(up[t].cols)
             IN line \in Seq(Shape) /\ ColumnNames(line) = ColumnNames(up[t].cols) /\ Sound(line)
  BY <1>1, LineColumns DEF LogInv, SoundLog, Sound
<1> QED BY <1>1, <1>2 DEF Fingerprint, SchemaTypes, Agree

\* The DDL signal: the plan leads from the fingerprint to the catalog.
LEMMA ReadSignalKeepsCatalog ==
  ASSUME SchemaInv, LogInv, CatalogInv, ReadSignal
  PROVE  CatalogInv'
<1> USE DEF CatalogInv
<1> DEFINE new == Fingerprint(up)
           both == DOMAIN expected \cap DOMAIN new
<1>1. UNCHANGED upstream /\ UNCHANGED <<started, trusted, torn>> /\ Reading /\ Msg = Signal /\ mode = "stream"
  BY DEF ReadSignal, Reading
<1>2. CASE Halt
  BY <1>1, <1>2, HaltKeepsCatalog
<1>3. CASE /\ target' = new /\ plan' = SchemaDelta(expected, new) /\ mode' = "resync"
           /\ UNCHANGED <<durable, stream>>
  <2>1. UNCHANGED <<up, wal, gone, local, stored, started, expected, cur, pos, trusted, torn>>
    BY <1>1, <1>3 DEF upstream, durable, stream
  <2>2. /\ DOMAIN new = DOMAIN up /\ DOMAIN up \subseteq TableSet
        /\ \A t \in DOMAIN up : ColumnNames(new[t]) = ColumnNames(up[t].cols) /\ Sound(new[t])
        /\ \A t : Agree(new, t)
    BY CatalogFacts DEF SchemaInv
  <2>3. /\ \A s \in plan' :
             \/ s.op = "droptable" /\ s = OfTable("droptable", s.t) /\ s.t \in DOMAIN expected \ DOMAIN new
             \/ /\ s.op \in {"droptable", "create"} /\ s = OfTable(s.op, s.t)
                /\ s.t \in DOMAIN new \ DOMAIN expected
             \/ /\ s.op = "add" /\ s.t \in both
                /\ s.c \in Range(new[s.t]) /\ s.c.n \notin ColumnNames(expected[s.t])
             \/ /\ s.op \in {"drop", "error"} /\ s.t \in both
                /\ s.c \in Range(expected[s.t]) \ Range(new[s.t])
                /\ s.op = "error" <=> s.c.n \in ColumnNames(new[s.t])
        /\ \A t \in DOMAIN expected \ DOMAIN new : OfTable("droptable", t) \in plan'
        /\ \A t \in DOMAIN new \ DOMAIN expected : OfTable("create", t) \in plan'
        /\ \A t \in both : \A c \in Range(new[t]) : c.n \notin ColumnNames(expected[t]) =>
             \E s \in plan' : s.op = "add" /\ s.t = t /\ s.c = c
        /\ \A t \in both : \A c \in Range(expected[t]) \ Range(new[t]) :
             \E s \in plan' : s.t = t /\ s.c = c /\ s.op = IF c.n \in ColumnNames(new[t]) THEN "error" ELSE "drop"
    <3> HIDE DEF new
    <3> QED BY <1>3, DeltaFacts
  <2>4. target' = new /\ mode' = "resync"
    BY <1>3
  <2> HIDE DEF new
  <2>5. /\ \A t : /\ Range(target[t])' = Range(new[t]) /\ ColumnNames(target[t])' = ColumnNames(new[t])
                  /\ Range(expected[t])' = Range(expected[t])
                  /\ ColumnNames(expected[t])' = ColumnNames(expected[t])
        /\ \A op, t : OfTable(op, t)' = OfTable(op, t)
        /\ Both' = both /\ TableSet' = TableSet
        /\ \A t, names : Has(t, names)' = Has(t, names)
    BY <2>1, <2>4 DEF Range, ColumnNames, OfTable, Stmt, Both, TableSet, Has, LocalNames
  <2>6. Catalogs'
    <3>1. \A line : Sound(line)' = Sound(line)
      BY <1>1, SameLog
    <3>2. Lines(new)' /\ Lines(stored)' /\ Lines(started)' /\ Lines(expected)'
      <4>1. Lines(new)
        BY <2>2 DEF Lines
      <4>2. \A f : Lines(f) => Lines(f)'
        BY <2>5, <3>1 DEF Lines, Sound, Distinct, Plain
      <4>3. Lines(new)'
        <5>1. PICK f : f = new
          OBVIOUS
        <5>2. Lines(f)'
          BY <4>1, <4>2, <5>1
        <5>3. new' = new
          BY <2>1 DEF new, Fingerprint, FingerprintLine
        <5> QED BY <5>1, <5>2, <5>3 DEF Lines, Sound, Distinct, Plain
      <4> QED BY <2>1, <4>2, <4>3 DEF Catalogs, Lines, Sound, Distinct, Plain
    <3>3. new' = new
      BY <2>1 DEF new, Fingerprint, FingerprintLine
    <3> QED BY <2>1, <2>4, <3>2, <3>3 DEF Catalogs, Lines, Sound, Distinct, Plain
  <2>7. Informed'
    <3>1. \A t \in TableSet' : Agree(target, t)'
      BY <2>1, <2>2, <2>4 DEF Agree, FingerprintLine
    <3>2. trusted' /\ Signalled' => \A t \in TableSet' : Calm(t, Seen + 1, Len(wal))' => Agree(expected, t)'
      BY <2>1, SameLog DEF Informed, Signalled, Seen, Tx, Agree, TableSet, Range, FingerprintLine, Calm
    <3> QED BY <3>1, <3>2 DEF Informed
  <2>8. Planned'
    <3>1. ASSUME NEW s \in plan'
          PROVE  Purpose(s)'
      <4>1. DOMAIN expected \subseteq TableSet /\ DOMAIN new \subseteq TableSet
        BY <2>2 DEF Catalogs, Lines
      <4>2. \A c \in Range(new[s.t]) : c.n \in ColumnNames(new[s.t])
        BY DEF ColumnNames
      <4>3. s.op \in {"add", "drop", "error", "droptable", "create"} /\ s.t \in TableSet
        BY <2>3, <4>1
      <4>4. s.op \in {"add", "drop", "error"} => s.t \in both
        BY <2>3
      <4>5. /\ s.op = "add" => s.c \in Range(new[s.t]) /\ s.c.n \notin ColumnNames(expected[s.t])
            /\ s.op = "drop" => s.c \in Range(expected[s.t]) /\ s.c.n \notin ColumnNames(new[s.t])
            /\ s.op = "error" => s.c \in Range(expected[s.t]) \ Range(new[s.t]) /\ s.c.n \in ColumnNames(new[s.t])
        BY <2>3
      <4>6. s.op = "droptable" =>
              /\ s = OfTable("droptable", s.t) /\ s.t \notin both
              /\ s.t \in DOMAIN new => OfTable("create", s.t) \in plan'
        BY <2>3
      <4>7. s.op = "create" => s = OfTable("create", s.t) /\ s.t \in DOMAIN new \ DOMAIN expected
        BY <2>3
      <4> QED BY <2>1, <2>4, <2>5, <4>3, <4>4, <4>5, <4>6, <4>7 DEF Purpose
    <3> QED BY <2>4, <3>1 DEF Planned
  <2>9. Arriving'
    <3>1. ASSUME NEW t \in DOMAIN new \ DOMAIN expected
          PROVE  OfTable("create", t) \in plan'
      BY <2>3
    <3>2. ASSUME NEW t \in both, NEW n \in ColumnNames(new[t]) \ ColumnNames(expected[t])
          PROVE  \E s \in plan' : s.op = "add" /\ s.t = t /\ s.c.n = n
      <4>1. PICK c \in Range(new[t]) : c.n = n
        BY DEF ColumnNames
      <4> QED BY <2>3, <3>2, <4>1
    <3> QED BY <2>1, <2>4, <2>5, <3>1, <3>2 DEF Arriving
  <2>10. Backed'
    BY <2>1, CatalogFrame
  <2>11. Base'
    <3> SUFFICES ASSUME trusted, NEW t \in both
                 PROVE  Has(t, ColumnNames(new[t]) \cap ColumnNames(expected[t]))
      BY <2>1, <2>5 DEF Base
    <3>1. t \in DOMAIN up /\ t \in DOMAIN expected
      BY <2>2
    <3>2. <<t>> \notin gone /\ \A n \in ColumnNames(new[t]) : ~Gone(t, n)
      BY <2>2, <3>1, NotBoth DEF SchemaInv, Alive, Once
    <3> QED BY <3>1, <3>2 DEF Backed, Has
  <2>12. Shaped'
    <3> SUFFICES ASSUME trusted, ~torn
                 PROVE  Halfway'
      BY <2>1, <2>4 DEF Shaped, PlanMode
    <3>1. DOMAIN local = DOMAIN expected /\ \A t \in DOMAIN expected : local[t].cols = Range(expected[t])
      BY <1>1 DEF Shaped, PlanMode, Planned, Settled
    <3>2. ASSUME NEW t \in both, NEW c \in Range(new[t]), c \notin Range(expected[t])
          PROVE  \E s \in plan' : s.t = t /\ (s.op = "error" \/ (s.op = "add" /\ s.c = c))
      <4>1. CASE c.n \notin ColumnNames(expected[t])
        BY <2>3, <4>1
      <4>2. CASE c.n \in ColumnNames(expected[t])
        <5>1. PICK d \in Range(expected[t]) : d.n = c.n
          BY <4>2 DEF ColumnNames
        <5>2. d \notin Range(new[t])
          <6>1. Distinct(new[t])
            BY <2>2 DEF Sound
          <6> QED BY <3>2, <5>1, <6>1, DistinctFacts
        <5>3. d.n \in ColumnNames(new[t])
          BY <5>1 DEF ColumnNames
        <5> QED BY <2>3, <5>2, <5>3
      <4> QED BY <4>1, <4>2
    <3>3. ASSUME NEW t \in both, NEW c \in Range(expected[t]), c \notin Range(new[t])
          PROVE  \E s \in plan' : s.op \in {"drop", "error"} /\ s.t = t /\ s.c = c
      BY <2>3, <3>3
    <3> QED BY <2>1, <2>3, <2>4, <2>5, <3>1, <3>2, <3>3 DEF Halfway
  <2> QED BY <2>6, <2>7, <2>8, <2>9, <2>10, <2>11, <2>12
<1> QED BY <1>1, <1>2, <1>3 DEF ReadSignal

\* One local statement changes one table.
LEMMA StatementFacts ==
  ASSUME SchemaTypes, NEW s, s.op \in {"add", "drop", "droptable", "create"}, Effect(s),
         s.op \in {"add", "drop"} => s.t \in DOMAIN local
  PROVE  /\ \A u : u # s.t =>
              (u \in DOMAIN local' <=> u \in DOMAIN local) /\ (u \in DOMAIN local => local'[u].cols = local[u].cols)
         /\ s.op = "add" => s.t \in DOMAIN local' /\
              local'[s.t].cols = IF \E c \in local[s.t].cols : c.n = s.c.n THEN local[s.t].cols
                                 ELSE local[s.t].cols \cup {s.c}
         /\ s.op = "drop" => s.t \in DOMAIN local' /\ local'[s.t].cols = {c \in local[s.t].cols : c.n # s.c.n}
         /\ s.op = "droptable" => s.t \notin DOMAIN local'
         /\ s.op = "create" => s.t \in DOMAIN local' /\ local'[s.t].cols = Range(target[s.t])
<1>0. \A t \in DOMAIN local : local[t] \in [cols : SUBSET Shape, rows : SUBSET [tx : Int, has : SUBSET Names]]
  BY DEF SchemaTypes
<1>1. CASE s.op = "droptable"
  <2>1. local' = Without(local, s.t)
    BY <1>1 DEF Effect
  <2> QED BY <1>1, <2>1 DEF Without
<1>2. CASE s.op = "create"
  <2>1. local' = With(local, s.t, Created(target[s.t]))
    BY <1>2 DEF Effect
  <2>2. Created(target[s.t]).cols = Range(target[s.t])
    BY DEF Created
  <2> QED BY <1>2, <2>1, <2>2 DEF With
<1>3. CASE s.op = "add"
  <2>1. local' = IF \E c \in local[s.t].cols : c.n = s.c.n THEN local
                 ELSE [local EXCEPT ![s.t].cols = @ \cup {s.c}]
    BY <1>3 DEF Effect
  <2>2. CASE \E c \in local[s.t].cols : c.n = s.c.n
    BY <1>3, <2>1, <2>2
  <2>3. CASE ~\E c \in local[s.t].cols : c.n = s.c.n
    <3> DEFINE new == local[s.t].cols \cup {s.c}
    <3>1. local' = [local EXCEPT ![s.t] = [@ EXCEPT !.cols = new]]
      BY <2>1, <2>3
    <3> HIDE DEF new
    <3>2. DOMAIN local' = DOMAIN local /\ local'[s.t].cols = new /\ \A u \in DOMAIN local : u # s.t => local'[u] = local[u]
      BY <1>0, <1>3, <3>1
    <3> QED BY <1>3, <2>3, <3>2 DEF new
  <2> QED BY <2>2, <2>3
<1>4. CASE s.op = "drop"
  <2> DEFINE stay == {c \in local[s.t].cols : c.n # s.c.n}
             cut == {[r EXCEPT !.has = @ \ {s.c.n}] : r \in local[s.t].rows}
  <2>1. local' = [local EXCEPT
             ![s.t].cols = {c \in @ : c.n # s.c.n},
             ![s.t].rows = {[r EXCEPT !.has = @ \ {s.c.n}] : r \in @}]
    BY <1>4 DEF Effect
  <2>2. /\ DOMAIN local' = DOMAIN local
        /\ \A t \in DOMAIN local : t # s.t => local'[t] = local[t]
        /\ local'[s.t] = [cols |-> stay, rows |-> cut]
    BY <1>0, <1>4, <2>1
  <2> HIDE DEF cut, stay
  <2>3. local'[s.t].cols = stay
    BY <2>2
  <2> QED BY <1>4, <2>2, <2>3 DEF stay
<1> QED BY <1>1, <1>2, <1>3, <1>4

\* A table that is made anew is dropped before.
LEMMA DropFirst ==
  ASSUME SchemaTypes, NEW r, NEW s, r.op = "droptable", s.op = "create", r.t = s.t, s.t \in TableSet
  PROVE  ~Before(s, r)
<1> DEFINE idx == CHOOSE i \in DOMAIN Tables : Tables[i] = s.t
<1>1. idx \in Nat
  <2>1. \E i \in DOMAIN Tables : Tables[i] = s.t
    BY DEF TableSet, Range
  <2>2. idx \in DOMAIN Tables
    BY <2>1
  <2>3. DOMAIN Tables = 1..Len(Tables) /\ Len(Tables) \in Nat
    BY SchemaAssumption
  <2> HIDE DEF idx
  <2> QED BY <2>2, <2>3
<1> DEFINE x == IF s.t \in DOMAIN target THEN 1 ELSE 0
<1>2. Place(s) = <<x, idx, 1, s.i>> /\ Place(r) = <<x, idx, 0, r.i>>
  BY DEF Place
<1>3. x \in Nat
  OBVIOUS
<1> HIDE DEF x, idx
<1>4. /\ Place(s)[1] = x /\ Place(s)[2] = idx /\ Place(s)[3] = 1
      /\ Place(r)[1] = x /\ Place(r)[2] = idx /\ Place(r)[3] = 0
  BY <1>2
<1>5. ~(x < x) /\ ~(idx < idx)
  BY <1>1, <1>3
<1> SUFFICES ASSUME NEW i \in 1..4, Place(s)[i] < Place(r)[i], \A j \in 1..(i - 1) : Place(s)[j] = Place(r)[j]
             PROVE  FALSE
  BY DEF Before
<1>6. CASE i = 1 \/ i = 2 \/ i = 3
  BY <1>4, <1>5, <1>6
<1>7. CASE i = 4
  <2>1. 3 \in 1..(i - 1)
    BY <1>7
  <2> QED BY <1>4, <2>1
<1> QED BY <1>6, <1>7

\* One local statement: what it brings is no longer to come, what it takes was not to stay.
LEMMA RunStatementKeepsCatalog ==
  ASSUME SchemaInv, CatalogInv, RunStatement
  PROVE  CatalogInv'
<1> USE DEF CatalogInv
<1>1. UNCHANGED <<upstream, slot, started, history>> /\ PlanMode
  BY DEF RunStatement, PlanMode
<1>2. ASSUME NEW s \in plan, Halt
      PROVE  CatalogInv'
  BY <1>1, <1>2, HaltKeepsCatalog DEF history
<1>3. ASSUME NEW s \in plan, \A r \in plan \ {s} : Before(s, r),
             ~Fails(s),
             Effect(s), plan' = plan \ {s}, UNCHANGED <<stored, wm, stream, target, mode>>
      PROVE  CatalogInv'
  <2>1. UNCHANGED <<up, wal, gone, stored, started, expected, cur, pos, target, mode, trusted, torn>>
    BY <1>1, <1>3 DEF upstream, stream, history
  <2>2. Purpose(s) /\ s.op \in {"add", "drop", "droptable", "create"} /\ (s.op \in {"add", "drop"} => s.t \in DOMAIN local)
    BY <1>1, <1>3 DEF Planned, Purpose, Fails
  <2>3. /\ s.op \in {"add", "drop"} => s.t \in Both
        /\ s.op \in {"droptable", "create"} => s.t \notin Both
    BY <2>2 DEF Purpose, Both
  <2>4. /\ \A u : u # s.t =>
              (u \in DOMAIN local' <=> u \in DOMAIN local) /\ (u \in DOMAIN local => local'[u].cols = local[u].cols)
        /\ s.op = "add" => s.t \in DOMAIN local' /\
              local'[s.t].cols = IF \E c \in local[s.t].cols : c.n = s.c.n THEN local[s.t].cols
                                 ELSE local[s.t].cols \cup {s.c}
        /\ s.op = "drop" => s.t \in DOMAIN local' /\ local'[s.t].cols = {c \in local[s.t].cols : c.n # s.c.n}
        /\ s.op = "droptable" => s.t \notin DOMAIN local'
        /\ s.op = "create" => s.t \in DOMAIN local' /\ local'[s.t].cols = Range(target[s.t])
    BY <1>3, <2>2, StatementFacts DEF SchemaInv
  <2>5. /\ \A u, n : u \in DOMAIN local /\ n \in LocalNames(u)
                      /\ ~(u = s.t /\ (s.op \in {"droptable", "create"} \/ (s.op = "drop" /\ s.c.n = n))) =>
              u \in DOMAIN local' /\ n \in LocalNames(u)'
        /\ \A u : u \in DOMAIN local /\ ~(u = s.t /\ s.op \in {"droptable", "create"}) => u \in DOMAIN local'
        /\ s.op = "add" => s.c.n \in LocalNames(s.t)'
        /\ s.op = "create" => LocalNames(s.t)' = ColumnNames(target[s.t])
    <3>1. ASSUME NEW u \in DOMAIN local, NEW n \in LocalNames(u),
                 ~(u = s.t /\ (s.op \in {"droptable", "create"} \/ (s.op = "drop" /\ s.c.n = n)))
          PROVE  u \in DOMAIN local' /\ n \in LocalNames(u)'
      <4>1. PICK c \in local[u].cols : c.n = n
        BY DEF LocalNames
      <4>2. u \in DOMAIN local' /\ c \in local'[u].cols
        BY <2>2, <2>4, <3>1, <4>1
      <4> QED BY <4>1, <4>2 DEF LocalNames
    <3>2. \A u : u \in DOMAIN local /\ ~(u = s.t /\ s.op \in {"droptable", "create"}) => u \in DOMAIN local'
      BY <2>2, <2>4
    <3>3. s.op = "add" => s.c.n \in LocalNames(s.t)'
      <4>1. s.op = "add" => \E c \in local'[s.t].cols : c.n = s.c.n
        BY <2>4
      <4> QED BY <4>1 DEF LocalNames
    <3>4. s.op = "create" => LocalNames(s.t)' = ColumnNames(target[s.t])
      BY <2>4 DEF LocalNames, ColumnNames
    <3> QED BY <3>1, <3>2, <3>3, <3>4
  <2>6. \A r \in plan : r # s => r \in plan'
    BY <1>3
  <2>7. \A r \in plan : r.op = "droptable" /\ r.t = s.t => s.op # "create"
    <3> SUFFICES ASSUME NEW r \in plan, r.op = "droptable", r.t = s.t, s.op = "create"
                 PROVE  FALSE
      OBVIOUS
    <3>1. r # s /\ s.t \in TableSet
      BY <2>2 DEF Purpose
    <3>2. Before(s, r)
      BY <1>3, <3>1
    <3> QED BY <3>1, <3>2, DropFirst DEF SchemaInv
  <2>8. /\ \A t : /\ Range(target[t])' = Range(target[t]) /\ ColumnNames(target[t])' = ColumnNames(target[t])
                  /\ Range(expected[t])' = Range(expected[t])
                  /\ ColumnNames(expected[t])' = ColumnNames(expected[t])
                  /\ \A n : Gone(t, n)' = Gone(t, n)
        /\ \A op, t : OfTable(op, t)' = OfTable(op, t)
        /\ Both' = Both /\ TableSet' = TableSet
        /\ PlanMode' = PlanMode
    BY <2>1 DEF Range, ColumnNames, OfTable, Stmt, Both, TableSet, PlanMode, Gone
  <2>9. Catalogs'
    BY <2>1, CatalogFrame
  <2>10. Informed'
    <3>1. Seen' = Seen /\ Signalled' = Signalled /\ \A f, t : Agree(f, t)' = Agree(f, t)
      BY <2>1 DEF Seen, Tx, Signalled, Agree, FingerprintLine
    <3>2. \A t : Agree(expected, t)' = Agree(expected, t) /\ Agree(target, t)' = Agree(target, t)
      BY <2>1 DEF Agree, FingerprintLine
    <3>3. \A t : /\ Calm(t, Seen + 1, Len(wal))' = Calm(t, Seen + 1, Len(wal))
                /\ Calm(t, cur + 2, Len(wal))' = Calm(t, cur + 2, Len(wal))
      BY <2>1, <3>1 DEF Calm
    <3> QED BY <2>1, <2>8, <3>1, <3>2, <3>3 DEF Informed
  <2>11. Planned'
    <3>1. ASSUME NEW r \in plan'
          PROVE  Purpose(r)'
      <4>1. Purpose(r) /\ r \in plan
        BY <1>1, <1>3 DEF Planned
      <4>2. r.op = "droptable" /\ r.t \in DOMAIN target => OfTable("create", r.t) \in plan'
        <5> SUFFICES ASSUME r.op = "droptable", r.t \in DOMAIN target
                     PROVE  OfTable("create", r.t) # s
          BY <2>6, <4>1 DEF Purpose
        <5>1. OfTable("create", r.t).op = "create" /\ OfTable("create", r.t).t = r.t
          BY DEF OfTable, Stmt
        <5> QED BY <2>7, <4>1, <5>1
      <4> QED BY <2>1, <2>8, <4>1, <4>2 DEF Purpose
    <3>2. mode = "relation" =>
            /\ target' = [expected' EXCEPT ![Msg.t] = FingerprintLine(Msg.cols)]
            /\ Msg.t \in DOMAIN expected /\ Additive(expected[Msg.t], FingerprintLine(Msg.cols))
            /\ \A r \in plan' : r.op = "add"
      BY <1>3, <2>1 DEF Planned
    <3>3. Msg' = Msg
      BY <2>1 DEF Msg, Tx
    <3>4. FingerprintLine(Msg.cols)' = FingerprintLine(Msg.cols)
          /\ Additive(expected[Msg.t], FingerprintLine(Msg.cols))' = Additive(expected[Msg.t], FingerprintLine(Msg.cols))
      BY <2>1, <3>3 DEF FingerprintLine, Additive
    <3>5. mode' # "stream"
      BY <1>1, <2>1 DEF PlanMode
    <3> QED BY <2>1, <3>1, <3>2, <3>3, <3>4, <3>5 DEF Planned
  <2>12. \A t, n : Has(t, {n}) /\ t \in Both /\ ~(t = s.t /\ s.op = "drop" /\ s.c.n = n) => Has(t, {n})'
    BY <2>3, <2>5 DEF Has
  <2>13. Arriving'
    <3>1. ASSUME NEW t \in DOMAIN target \ DOMAIN expected
          PROVE  OfTable("create", t) \in plan' \/ Has(t, ColumnNames(target[t]))'
      <4>1. OfTable("create", t).op = "create" /\ OfTable("create", t).t = t
        BY DEF OfTable, Stmt
      <4>2. CASE s = OfTable("create", t)
        BY <2>4, <2>5, <2>8, <4>1, <4>2 DEF Has
      <4>3. CASE s # OfTable("create", t) /\ OfTable("create", t) \in plan
        BY <2>6, <4>3
      <4>4. CASE OfTable("create", t) \notin plan
        <5>1. s.t # t
          <6> SUFFICES ASSUME s.t = t PROVE FALSE
            OBVIOUS
          <6>1. s.op \in {"droptable", "create"}
            BY <2>2, <2>3 DEF Both
          <6> QED BY <2>2, <4>4, <6>1 DEF Purpose
        <5>2. Has(t, ColumnNames(target[t]))
          BY <1>1, <4>4 DEF Arriving
        <5> QED BY <2>4, <2>5, <2>8, <5>1, <5>2 DEF Has
      <4> QED BY <4>2, <4>3, <4>4
    <3>2. ASSUME NEW t \in Both, NEW n \in ColumnNames(target[t]) \ ColumnNames(expected[t])
          PROVE  (\E r \in plan' : r.op = "add" /\ r.t = t /\ r.c.n = n) \/ Has(t, {n})'
      <4>1. CASE \E r \in plan : r.op = "add" /\ r.t = t /\ r.c.n = n
        <5>1. PICK r \in plan : r.op = "add" /\ r.t = t /\ r.c.n = n
          BY <4>1
        <5>2. CASE r = s
          BY <2>4, <2>5, <5>1, <5>2 DEF Has
        <5> QED BY <2>6, <5>1, <5>2
      <4>2. CASE Has(t, {n})
        <5>1. ~(t = s.t /\ s.op = "drop" /\ s.c.n = n)
          <6> SUFFICES ASSUME t = s.t, s.op = "drop" PROVE s.c.n \in ColumnNames(expected[t])
            BY <3>2
          <6> QED BY <2>2 DEF Purpose, ColumnNames
        <5> QED BY <2>12, <4>2, <5>1
      <4> QED BY <1>1, <4>1, <4>2 DEF Arriving, Both
    <3>3. \A t : Has(t, ColumnNames(target[t]))' = (t \in DOMAIN local' /\ ColumnNames(target[t]) \subseteq LocalNames(t)')
      BY <2>8 DEF Has
    <3>4. \A t \in DOMAIN target' : t \notin DOMAIN expected' =>
            OfTable("create", t)' \in plan' \/ Has(t, ColumnNames(target[t]))'
      BY <2>1, <2>8, <3>1
    <3>5. \A t \in DOMAIN target' : t \in DOMAIN expected' =>
            \A n \in ColumnNames(target[t])' \ ColumnNames(expected[t])' :
              (\E r \in plan' : r.op = "add" /\ r.t = t /\ r.c.n = n) \/ Has(t, {n})'
      BY <2>1, <2>8, <3>2 DEF Both
    <3> QED BY <3>4, <3>5 DEF Arriving
  <2>14. Backed'
    <3> SUFFICES ASSUME trusted, NEW t \in DOMAIN expected, <<t>> \notin gone
                 PROVE  t \in DOMAIN local' /\ \A n \in ColumnNames(expected[t]) : Gone(t, n) \/ n \in LocalNames(t)'
      BY <2>1, <2>8 DEF Backed
    <3>1. t \in DOMAIN local /\ \A n \in ColumnNames(expected[t]) : Gone(t, n) \/ n \in LocalNames(t)
      BY DEF Backed
    <3>2. t = s.t => s.op \notin {"droptable", "create"}
      BY <1>1, <1>3 DEF SchemaInv, PlanSafe, PlanMode
    <3>3. s.op = "drop" => Gone(s.t, s.c.n)
      BY <1>1, <1>3 DEF SchemaInv, PlanSafe, PlanMode
    <3> QED BY <2>5, <3>1, <3>2, <3>3
  <2>15. Base'
    <3> SUFFICES ASSUME trusted, mode = "resync", NEW t \in Both
                 PROVE  /\ t \in DOMAIN local'
                        /\ \A n \in ColumnNames(target[t]) \cap ColumnNames(expected[t]) : n \in LocalNames(t)'
      BY <2>1, <2>8 DEF Base, Has
    <3>1. t \in DOMAIN local /\ \A n \in ColumnNames(target[t]) \cap ColumnNames(expected[t]) : n \in LocalNames(t)
      BY DEF Base, Has
    <3>2. t = s.t => s.op \notin {"droptable", "create"}
      BY <2>3
    <3>3. t = s.t /\ s.op = "drop" => s.c.n \notin ColumnNames(target[t])
      BY <2>2 DEF Purpose
    <3> QED BY <2>5, <3>1, <3>2, <3>3
  <2>16. Shaped'
    <3> SUFFICES ASSUME trusted, ~torn
                 PROVE  Halfway'
      BY <1>1, <2>1, <2>8 DEF Shaped
    <3>0. Halfway
      BY <1>1 DEF Shaped
    <3>1. DOMAIN local' \subseteq DOMAIN expected \cup DOMAIN target
      <4>1. s.t \in DOMAIN expected \cup DOMAIN target \/ s.op = "droptable"
        BY <2>2, <2>3 DEF Purpose, Both
      <4> QED BY <2>4, <3>0, <4>1 DEF Halfway
    <3>2. ASSUME NEW t \in DOMAIN expected \ DOMAIN target
          PROVE  OfTable("droptable", t) \in plan' \/ t \notin DOMAIN local'
      <4>1. OfTable("droptable", t).op = "droptable" /\ OfTable("droptable", t).t = t
        BY DEF OfTable, Stmt
      <4>2. CASE s = OfTable("droptable", t)
        BY <2>4, <4>1, <4>2
      <4>3. CASE s # OfTable("droptable", t) /\ OfTable("droptable", t) \in plan
        BY <2>6, <4>3
      <4>4. CASE OfTable("droptable", t) \notin plan
        <5>1. t \notin DOMAIN local
          BY <3>0, <4>4 DEF Halfway
        <5>2. t = s.t => s.op = "droptable"
          BY <2>2, <2>3 DEF Both, Purpose
        <5> QED BY <2>4, <5>1, <5>2
      <4> QED BY <4>2, <4>3, <4>4
    <3>3. ASSUME NEW t \in DOMAIN target \ DOMAIN expected
          PROVE  OfTable("create", t) \in plan' \/ (t \in DOMAIN local' /\ local'[t].cols = Range(target[t]))
      <4>1. OfTable("create", t).op = "create" /\ OfTable("create", t).t = t
        BY DEF OfTable, Stmt
      <4>2. CASE s = OfTable("create", t)
        BY <2>4, <4>1, <4>2
      <4>3. CASE s # OfTable("create", t) /\ OfTable("create", t) \in plan
        BY <2>6, <4>3
      <4>4. CASE OfTable("create", t) \notin plan
        <5>1. s.t # t
          <6> SUFFICES ASSUME s.t = t PROVE FALSE
            OBVIOUS
          <6>1. s.op \in {"droptable", "create"}
            BY <2>2, <2>3 DEF Both
          <6> QED BY <2>2, <4>4, <6>1 DEF Purpose
        <5>2. t \in DOMAIN local /\ local[t].cols = Range(target[t])
          BY <3>0, <4>4 DEF Halfway
        <5> QED BY <2>4, <5>1, <5>2
      <4> QED BY <4>2, <4>3, <4>4
    <3>4. ASSUME NEW t \in Both
          PROVE  /\ t \in DOMAIN local /\ t \in DOMAIN local'
                 /\ \A c \in local[t].cols :
                      c \in Range(target[t]) \/ \E r \in plan : r.op \in {"drop", "error"} /\ r.t = t /\ r.c = c
                 /\ \A c \in Range(target[t]) :
                      c \in local[t].cols \/ \E r \in plan : r.t = t /\ (r.op = "error" \/ (r.op = "add" /\ r.c = c))
                 /\ t = s.t => s.op \in {"add", "drop"}
      <4>1. t = s.t => s.op \in {"add", "drop"}
        BY <2>2, <2>3
      <4>2. t \in DOMAIN local
        BY <3>0 DEF Halfway
      <4>3. t \in DOMAIN local'
        BY <2>5, <4>1, <4>2
      <4> QED BY <3>0, <4>1, <4>2, <4>3 DEF Halfway
    <3>5. ASSUME NEW t \in Both, NEW c \in local'[t].cols
          PROVE  c \in Range(target[t]) \/ \E r \in plan' : r.op \in {"drop", "error"} /\ r.t = t /\ r.c = c
      <4>1. CASE c \notin local[t].cols
        <5>1. t = s.t /\ s.op = "add" /\ c = s.c
          BY <2>4, <3>4, <3>5, <4>1
        <5> QED BY <2>2, <5>1 DEF Purpose
      <4>2. CASE c \in local[t].cols /\ c \notin Range(target[t])
        <5>1. PICK r \in plan : r.op \in {"drop", "error"} /\ r.t = t /\ r.c = c
          BY <3>4, <4>2
        <5>2. r # s
          BY <2>2, <2>4, <3>5, <5>1
        <5> QED BY <2>6, <5>1, <5>2
      <4> QED BY <4>1, <4>2
    <3>6. ASSUME NEW t \in Both, NEW c \in Range(target[t])
          PROVE  c \in local'[t].cols \/ \E r \in plan' : r.t = t /\ (r.op = "error" \/ (r.op = "add" /\ r.c = c))
      <4>0. c.n \in ColumnNames(target[t])
        BY DEF ColumnNames
      <4>1. CASE c \in local[t].cols
        <5>1. t = s.t /\ s.op = "drop" => s.c.n # c.n
          BY <2>2, <4>0 DEF Purpose
        <5> QED BY <2>4, <3>4, <4>1, <5>1
      <4>2. CASE c \notin local[t].cols
        <5>1. PICK r \in plan : r.t = t /\ (r.op = "error" \/ (r.op = "add" /\ r.c = c))
          BY <3>4, <4>2
        <5>2. CASE r # s
          BY <2>6, <5>1, <5>2
        <5>3. CASE r = s
          <6>1. s.op = "add" /\ s.c = c /\ s.t = t
            BY <2>2, <5>1, <5>3
          <6>2. ASSUME NEW d \in local[t].cols, d.n = c.n
                PROVE  FALSE
            <7>1. CASE d \in Range(target[t])
              <8>1. Distinct(target[t])
                BY DEF Catalogs, Lines, Sound, Both
              <8>2. d = c
                BY <6>2, <7>1, <8>1, DistinctFacts
              <8> QED BY <4>2, <8>2
            <7>2. CASE d \notin Range(target[t])
              <8>1. PICK q \in plan : q.op \in {"drop", "error"} /\ q.t = t /\ q.c = d
                BY <3>4, <7>2
              <8>2. Purpose(q)
                BY <1>1 DEF Planned
              <8>3. d.n \in ColumnNames(expected[t])
                BY <8>1, <8>2 DEF Purpose, ColumnNames
              <8>4. c.n \notin ColumnNames(expected[t])
                BY <2>2, <6>1 DEF Purpose
              <8> QED BY <6>2, <8>3, <8>4
            <7> QED BY <7>1, <7>2
          <6> QED BY <2>4, <6>1, <6>2
        <5> QED BY <5>2, <5>3
      <4> QED BY <4>1, <4>2
    <3> QED BY <2>1, <2>8, <3>1, <3>2, <3>3, <3>4, <3>5, <3>6 DEF Halfway
  <2> QED BY <2>9, <2>10, <2>11, <2>13, <2>14, <2>15, <2>16
<1> QED BY <1>2, <1>3 DEF RunStatement

\* After the first run the local tables are those of the upstream.
LEMMA InitCatalog ==
  ASSUME Init
  PROVE  LogInv /\ CatalogInv
<1>1. SchemaTypes
  BY InitSchema DEF SchemaInv
<1>2. LogInv
  <2> DEFINE t0 == Tables[1]
             x == [n |-> CHOOSE n \in Names : TRUE, ty |-> 1, id |-> 0]
  <2>1. up = [t \in {t0} |-> NewTable(TRUE, 0)] /\ wal = <<>>
    BY DEF Init
  <2>2. NewTable(TRUE, 0) = [oid |-> 0, keyed |-> TRUE, cols |-> <<x>>]
    BY DEF NewTable
  <2>3. x.ty = 1
    OBVIOUS
  <2> HIDE DEF t0, x
  <2>4. DOMAIN up = {t0} /\ up[t0].keyed = TRUE /\ up[t0].cols = <<x>>
    <3>1. DOMAIN up = {t0} /\ up[t0] = NewTable(TRUE, 0)
      BY <2>1
    <3>2. up[t0] = [oid |-> 0, keyed |-> TRUE, cols |-> <<x>>]
      BY <2>2, <3>1
    <3>3. up[t0].keyed = TRUE /\ up[t0].cols = <<x>>
      BY ONLY <3>2
    <3> QED BY <3>1, <3>3
  <2>5. Sound(<<x>>)
    <3>1. DOMAIN <<x>> = {1} /\ <<x>>[1] = x
      OBVIOUS
    <3> QED BY <2>3, <3>1 DEF Sound, Distinct, Plain
  <2>6. DOMAIN wal = {}
    BY <2>1
  <2> QED BY <2>4, <2>5, <2>6 DEF LogInv, Lasting, Grows, SoundLog, Keyed
<1>3. /\ stored = Fingerprint(up) /\ started = stored /\ expected = stored /\ target = stored
      /\ local = [t \in DOMAIN up |-> Created(stored[t])]
      /\ plan = {} /\ mode = "stream"
  BY DEF Init
<1>4. /\ DOMAIN stored = DOMAIN up /\ DOMAIN up \subseteq TableSet
      /\ \A t \in DOMAIN up : Sound(stored[t])
      /\ \A t : Agree(stored, t)
  BY <1>1, <1>2, <1>3, CatalogFacts
<1>5. DOMAIN local = DOMAIN stored /\ \A t \in DOMAIN stored : local[t].cols = Range(stored[t])
  BY <1>3, <1>4 DEF Created
<1>6. Catalogs /\ Informed
  BY <1>3, <1>4 DEF Catalogs, Lines, Informed
<1>7. Planned /\ Arriving /\ Base
  BY <1>3 DEF Planned, Arriving, Base, PlanMode
<1>8. Backed /\ Shaped
  BY <1>3, <1>5 DEF Backed, LocalNames, ColumnNames, Shaped, Settled, PlanMode
<1> QED BY <1>2, <1>6, <1>7, <1>8 DEF CatalogInv

LEMMA StutterCatalog ==
  ASSUME CatalogInv, UNCHANGED replica
  PROVE  CatalogInv'
<1> USE DEF CatalogInv
<1>1. UNCHANGED upstream /\ UNCHANGED <<up, wal, gone, local, stored, started, expected, cur, pos, plan, target,
                                        mode, trusted, torn>>
  BY DEF replica, upstream, durable, stream, work, history
<1>2. Catalogs' /\ Arriving' /\ Backed' /\ Base' /\ Shaped'
  BY <1>1, CatalogFrame
<1>3. Informed'
  <2>1. Seen' = Seen /\ Signalled' = Signalled /\ TableSet' = TableSet
    BY <1>1 DEF Seen, Tx, Signalled, TableSet, Range
  <2>2. \A t : Agree(expected, t)' = Agree(expected, t) /\ Agree(target, t)' = Agree(target, t)
    BY <1>1 DEF Agree, FingerprintLine
  <2>3. \A t : /\ Calm(t, Seen + 1, Len(wal))' = Calm(t, Seen + 1, Len(wal))
               /\ Calm(t, cur + 2, Len(wal))' = Calm(t, cur + 2, Len(wal))
    BY <1>1, <2>1 DEF Calm
  <2> QED BY <1>1, <2>1, <2>2, <2>3 DEF Informed
<1>4. Planned'
  <2>1. Msg' = Msg /\ PlanMode' = PlanMode /\ \A s : Purpose(s)' = Purpose(s)
    BY <1>1 DEF Msg, Tx, PlanMode, Purpose, Both, TableSet, Range, ColumnNames, OfTable, Stmt
  <2>2. FingerprintLine(Msg.cols)' = FingerprintLine(Msg.cols)
        /\ Additive(expected[Msg.t], FingerprintLine(Msg.cols))' = Additive(expected[Msg.t], FingerprintLine(Msg.cols))
    BY <1>1, <2>1 DEF FingerprintLine, Additive
  <2> QED BY <1>1, <2>1, <2>2 DEF Planned
<1> QED BY <1>2, <1>3, <1>4

\* What the rows of the stream have is what the tables had and keep until DDL; the fingerprint
\* knows the shape of every table without DDL to come; and at any point of a plan each local
\* table is on its way from the one fingerprint to the other.
THEOREM CatalogInvariance == Spec => [](LogInv /\ CatalogInv)
<1>1. Init => LogInv /\ CatalogInv
  BY InitCatalog
<1>2. SchemaInv /\ LogInv /\ CatalogInv /\ [Next]_vars => (LogInv /\ CatalogInv)'
  <2> SUFFICES ASSUME SchemaInv, LogInv, CatalogInv, [Next]_vars
               PROVE  LogInv' /\ CatalogInv'
    OBVIOUS
  <2>1. CASE Upstream
    <3>1. SchemaTypes /\ Once
      BY DEF SchemaInv
    <3>2. PICK t, e : Changed(t, e) /\ Shifted(t, e)
      BY <2>1, <3>1, UpstreamShifts
    <3> QED BY <2>1, <3>1, <3>2, LogStays, UpstreamKeepsCatalog
  <2>2. CASE Read
    <3>1. UNCHANGED upstream
      BY <2>2 DEF Read, ReadRelation, ReadRow, ReadSignal, ReadCommit
    <3>2. LogInv'
      BY <3>1, SameLog
    <3> QED BY <2>2, <3>2, ReadRelationKeepsCatalog, ReadRowKeepsCatalog, ReadSignalKeepsCatalog,
               ReadCommitKeepsCatalog DEF Read
  <2>3. CASE Local
    <3>1. UNCHANGED upstream
      BY <2>3 DEF Local, RunStatement, FinishRelation, FinishResync
    <3>2. LogInv'
      BY <3>1, SameLog
    <3> QED BY <2>3, <3>2, RunStatementKeepsCatalog, FinishRelationKeepsCatalog, FinishResyncKeepsCatalog
            DEF Local
  <2>4. CASE Reconnect \/ Restart
    <3>1. PICK fp \in {started, stored} : Begin(fp) /\ started' \in {started, stored}
      BY <2>4 DEF Reconnect, Restart
    <3>2. UNCHANGED upstream
      BY <3>1 DEF Begin
    <3>3. LogInv'
      BY <3>2, SameLog
    <3> QED BY <3>1, <3>3, BeginKeepsCatalog
  <2>5. CASE Depend \/ Undepend \/ UNCHANGED vars
    <3>1. UNCHANGED replica
      BY <2>5 DEF Depend, Undepend, vars
    <3>2. LogInv'
      BY <3>1, SameLog DEF replica
    <3> QED BY <3>1, <3>2, StutterCatalog
  <2> QED BY <2>1, <2>2, <2>3, <2>4, <2>5 DEF Next
<1> QED BY <1>1, <1>2, SchemaInvariance, PTL DEF Spec

\* At the end of a stream with all its signals the local tables have the columns of the
\* upstream ones, and exactly these unless a resync was cut off on the way.
THEOREM ConvergesToUpstream == Spec => []SchemaConverges
<1>1. SchemaInv /\ CatalogInv => SchemaConverges
  <2> SUFFICES ASSUME SchemaInv, CatalogInv, mode = "stream", cur = Len(wal), Signalled, trusted, NEW t \in Range(Tables)
               PROVE  /\ t \in DOMAIN up =>
                           t \in DOMAIN local /\ ColumnNames(up[t].cols) \subseteq {c.n : c \in local[t].cols}
                      /\ ~torn =>
                           /\ t \in DOMAIN local <=> t \in DOMAIN up
                           /\ t \in DOMAIN up => local[t].cols = Range(FingerprintLine(up[t].cols))
    BY DEF SchemaConverges, Drained
  <2>1. Seen = cur /\ cur \in Nat
    <3>1. cur \in Nat /\ pos = 0
      BY DEF SchemaInv, Positions, SchemaTypes
    <3> QED BY <3>1 DEF Seen
  <2>2. Agree(expected, t)
    <3>1. Calm(t, Seen + 1, Len(wal)) /\ t \in TableSet
      BY <2>1 DEF Calm, TableSet
    <3> QED BY <3>1 DEF CatalogInv, Informed
  <2>3. ASSUME t \in DOMAIN up
        PROVE  t \in DOMAIN local /\ ColumnNames(up[t].cols) \subseteq {c.n : c \in local[t].cols}
    <3>1. up[t].cols \in Seq(Column)
      BY <2>3 DEF SchemaInv, SchemaTypes, TableType
    <3>2. t \in DOMAIN expected /\ ColumnNames(expected[t]) = ColumnNames(up[t].cols)
      BY <2>2, <2>3, <3>1, LineFacts DEF Agree
    <3>3. <<t>> \notin gone /\ \A n \in ColumnNames(up[t].cols) : ~Gone(t, n)
      BY <2>3, NotBoth DEF SchemaInv, Alive, Once
    <3> QED BY <3>2, <3>3 DEF CatalogInv, Backed, LocalNames
  <2>4. ASSUME ~torn
        PROVE  /\ t \in DOMAIN local <=> t \in DOMAIN up
               /\ t \in DOMAIN up => local[t].cols = Range(FingerprintLine(up[t].cols))
    <3>1. Settled
      BY <2>4 DEF CatalogInv, Shaped, PlanMode, Planned
    <3> QED BY <2>2, <3>1 DEF Settled, Agree
  <2> QED BY <2>3, <2>4
<1> QED BY <1>1, SchemaInvariance, CatalogInvariance, PTL

-----------------------------------------------------------------------------
(* What keeps the replica running *)

\* Changes the replica can follow, none of them ahead of the stream when it resyncs.
Benign ==
  /\ ~ahead
  /\ \A i \in DOMAIN wal :
       /\ wal[i].op \notin {"retype", "unkeyed", "mixed", "empty"}
       /\ wal[i].op \in {"drop", "rename", "create", "remove"} => wal[i].signalled

\* f serves the stream from transaction i on, until more than ADD COLUMN.
Follows(f, i) == \A t \in TableSet : Due(t, i) => t \in DOMAIN f /\ Fits(t, i, f[t])

\* What is read and not durable is without rows, between transactions nothing is buffered.
Passed ==
  /\ \A i \in (MaxOf(slot, wm) + 1)..cur : RowsOf(i) = {}
  /\ pos = 0 => buf = <<>>

\* An announced table whose shape is not known is gone.
Listed == mode # "halted" =>
  \A t \in sent \ DOMAIN rels :
    \/ mode = "relation" /\ t = Msg.t
    \/ <<t>> \in gone /\ t \notin DOMAIN expected /\ (mode = "resync" => t \notin DOMAIN target)

\* For the tables the stream still needs: the fingerprint and the local tables serve it, a plan
\* only adds to them, and rows are sent with columns of the fingerprint; so still when a column
\* that goes is held here.
Ready == trusted /\ Benign =>
  /\ mode = "halted" => blocked
  /\ Follows(expected, Seen + 1)
  /\ \A t \in TableSet : Due(t, Seen + 1) => Has(t, ColumnNames(expected[t]))
  /\ \A b \in Range(buf) : Has(b.t, b.has)
  /\ PlanMode => \A t \in TableSet : Due(t, cur + 1) => t \in DOMAIN target /\ Additive(expected[t], target[t])
  /\ mode = "resync" => Follows(target, cur + 2)
  /\ \A t \in sent \cap DOMAIN rels :
       Due(t, cur + 1) /\ ~(mode = "relation" /\ t = Msg.t) => ColumnNames(rels[t]) \subseteq ColumnNames(expected[t])

ReadyInv == Passed /\ Listed /\ Ready

\* A transaction that does no more to t than to add columns can be left behind.
LEMMA LeaveBehind ==
  ASSUME NEW t, NEW i \in Nat, Len(wal) \in Nat, wal[i].t # t \/ wal[i].op \in {"insert", "add"}
  PROVE  /\ Due(t, i + 1) => Due(t, i)
         /\ \A line : Fits(t, i, line) => Fits(t, i + 1, line)
<1>1. \A k \in Int : OnlyAdds(t, i + 1, k) => OnlyAdds(t, i, k)
  <2> SUFFICES ASSUME NEW k \in Int, OnlyAdds(t, i + 1, k), NEW p \in i..k
               PROVE  wal[p].t # t \/ wal[p].op \in {"insert", "add"}
    BY DEF OnlyAdds
  <2>1. p = i \/ p \in (i + 1)..k
    OBVIOUS
  <2> QED BY <2>1 DEF OnlyAdds
<1>2. \A j \in (i + 1)..Len(wal) : j \in i..Len(wal) /\ j - 1 \in Int
  OBVIOUS
<1>3. Due(t, i + 1) => Due(t, i)
  BY <1>1, <1>2 DEF Due
<1>4. \A line : Fits(t, i, line) => Fits(t, i + 1, line)
  BY <1>1, <1>2 DEF Fits
<1> QED BY <1>3, <1>4

\* Transactions without rows can be read again.
LEMMA GoBack ==
  ASSUME NEW t, NEW i \in Nat, NEW j \in Nat, i <= j, Len(wal) \in Nat, j <= Len(wal),
         \A k \in (i + 1)..j : RowsOf(k) = {}
  PROVE  /\ Due(t, i + 1) => Due(t, j + 1)
         /\ \A line : Fits(t, j + 1, line) => Fits(t, i + 1, line)
<1>1. \A k \in Int : OnlyAdds(t, i + 1, k) => OnlyAdds(t, j + 1, k)
  <2> SUFFICES ASSUME NEW k \in Int, OnlyAdds(t, i + 1, k), NEW p \in (j + 1)..k
               PROVE  wal[p].t # t \/ wal[p].op \in {"insert", "add"}
    BY DEF OnlyAdds
  <2>1. p \in (i + 1)..k
    OBVIOUS
  <2> QED BY <2>1 DEF OnlyAdds
<1>2. \A k \in (i + 1)..Len(wal) : k - 1 \in Int /\ (RowsOf(k) # {} => k \in (j + 1)..Len(wal))
  <2> TAKE k \in (i + 1)..Len(wal)
  <2>1. k \in (i + 1)..j \/ k \in (j + 1)..Len(wal)
    OBVIOUS
  <2> QED BY <2>1
<1>3. ASSUME Due(t, i + 1)
      PROVE  Due(t, j + 1)
  <2>1. CASE OnlyAdds(t, i + 1, Len(wal)) /\ t \in DOMAIN up
    BY <1>1, <2>1 DEF Due
  <2>2. CASE \E k \in (i + 1)..Len(wal) : OnlyAdds(t, i + 1, k - 1) /\ \E q \in RowsOf(k) : q.t = t
    <3>1. PICK k \in (i + 1)..Len(wal) : OnlyAdds(t, i + 1, k - 1) /\ \E q \in RowsOf(k) : q.t = t
      BY <2>2
    <3>2. k \in (j + 1)..Len(wal) /\ OnlyAdds(t, j + 1, k - 1)
      BY <1>1, <1>2, <3>1
    <3> QED BY <3>1, <3>2 DEF Due
  <2> QED BY <1>3, <2>1, <2>2 DEF Due
<1>4. ASSUME NEW line, Fits(t, j + 1, line)
      PROVE  Fits(t, i + 1, line)
  <2>1. ASSUME NEW k \in (i + 1)..Len(wal), NEW q \in RowsOf(k), OnlyAdds(t, i + 1, k - 1), q.t = t
        PROVE  Additive(line, FingerprintLine(q.cols))
    <3>1. k \in (j + 1)..Len(wal) /\ OnlyAdds(t, j + 1, k - 1)
      BY <1>1, <1>2, <2>1
    <3> QED BY <1>4, <2>1, <3>1 DEF Fits
  <2>2. OnlyAdds(t, i + 1, Len(wal)) /\ t \in DOMAIN up => Additive(line, FingerprintLine(up[t].cols))
    BY <1>1, <1>4 DEF Fits
  <2> QED BY <2>1, <2>2 DEF Fits
<1> QED BY <1>3, <1>4

\* Of benign changes there is one message a transaction.
LEMMA BenignTx ==
  ASSUME SchemaInv, LogInv, Benign
  PROVE  /\ ~Retyped
         /\ cur < Len(wal) =>
              /\ WellMade(Tx) /\ Tx = wal[cur + 1] /\ cur + 1 \in DOMAIN wal
              /\ Len(Tx.msgs) \in Nat /\ Len(Tx.msgs) <= 1 /\ (Tx.msgs # <<>> => Len(Tx.msgs) = 1)
              /\ Tx.op \in {"insert", "add"} \/ (Tx.op \in {"drop", "rename", "create", "remove"} /\ Tx.msgs # <<>>)
              /\ Tx.op # "insert" => RowsOf(cur + 1) = {}
<1>1. ~Retyped
  BY DEF Benign, Retyped
<1>2. ASSUME cur < Len(wal)
      PROVE  /\ WellMade(Tx) /\ Tx = wal[cur + 1] /\ cur + 1 \in DOMAIN wal
             /\ Len(Tx.msgs) \in Nat /\ Len(Tx.msgs) <= 1 /\ (Tx.msgs # <<>> => Len(Tx.msgs) = 1)
             /\ Tx.op \in {"insert", "add"} \/ (Tx.op \in {"drop", "rename", "create", "remove"} /\ Tx.msgs # <<>>)
             /\ Tx.op # "insert" => RowsOf(cur + 1) = {}
  <2>1. wal \in Seq(Entry) /\ cur \in Nat
    BY DEF SchemaInv, SchemaTypes
  <2>2. DOMAIN wal = 1..Len(wal) /\ Len(wal) \in Nat
    BY <2>1, RangeFacts
  <2> DEFINE i == cur + 1
  <2>3. i \in DOMAIN wal /\ Tx = wal[i]
    BY <1>2, <2>1, <2>2 DEF Tx
  <2> HIDE DEF i
  <2>4. wal[i] \in Entry /\ wal[i].msgs \in Seq(Row1 \cup {Signal})
    BY <2>3, LogFacts DEF SchemaInv
  <2>5. WellMade(wal[i])
    BY <2>3 DEF LogInv, SoundLog
  <2>6. wal[i].op \in OpNames
    BY <2>4 DEF Entry
  <2>7. /\ wal[i].op \notin {"retype", "unkeyed", "mixed", "empty"}
        /\ wal[i].op \in {"drop", "rename", "create", "remove"} => wal[i].signalled
    BY <2>3 DEF Benign
  <2>8. wal[i].op \in {"insert", "add"} \/ (wal[i].op \in {"drop", "rename", "create", "remove"} /\ wal[i].msgs # <<>>)
    BY <2>5, <2>6, <2>7 DEF OpNames, WellMade
  <2> DEFINE m == wal[i].msgs
  <2>9. Len(m) <= 1 /\ (wal[i].op # "insert" /\ m # <<>> => m[Len(m)] = Signal)
    BY <2>5, <2>7 DEF WellMade
  <2>10. Len(m) \in Nat /\ DOMAIN m = 1..Len(m) /\ (m # <<>> => Len(m) > 0)
    BY <2>4, RangeFacts
  <2> HIDE DEF m
  <2>11. m # <<>> => Len(m) = 1
    BY <2>9, <2>10
  <2>12. wal[i].op # "insert" => Range(m) \subseteq {Signal}
    <3> SUFFICES ASSUME wal[i].op # "insert", NEW k \in DOMAIN m
                 PROVE  m[k] = Signal
      BY DEF Range
    <3>1. k = 1 /\ Len(m) = 1
      BY <2>9, <2>10
    <3> QED BY <2>9, <2>11, <3>1, <2>10
  <2>13. wal[i].op # "insert" => RowsOf(i) = {}
    BY <2>12 DEF RowsOf, m
  <2> QED BY <2>3, <2>5, <2>8, <2>9, <2>10, <2>11, <2>13 DEF m, i
<1> QED BY <1>1, <1>2

\* A plan begins between transactions.
LEMMA PlanStart ==
  ASSUME SchemaInv, LogInv, Passed, Benign, PlanMode
  PROVE  /\ pos = 0 /\ buf = <<>> /\ Seen = cur /\ cur < Len(wal) /\ Len(Tx.msgs) = 1
         /\ mode = "resync" => Tx.op # "insert"
<1>1. cur < Len(wal) /\ pos < Len(Tx.msgs) /\ pos \in Nat
  BY DEF SchemaInv, Announced, PlanMode, SchemaTypes
<1>2. Len(Tx.msgs) \in Nat /\ Len(Tx.msgs) <= 1 /\ WellMade(Tx)
  BY <1>1, BenignTx
<1>3. pos = 0 /\ Len(Tx.msgs) = 1
  <2>1. \A n \in Nat, p \in Nat : p < n /\ n <= 1 => p = 0 /\ n = 1
    OBVIOUS
  <2> QED BY <1>1, <1>2, <2>1
<1>4. mode = "resync" => Tx.msgs[1] = Signal
  BY <1>3 DEF SchemaInv, Announced, Msg
<1> QED BY <1>1, <1>2, <1>3, <1>4, SeenFacts DEF Passed, WellMade

\* What is to be shown of a step of the replica.
StillReady ==
  /\ mode' = "halted" => blocked'
  /\ Follows(expected', Seen' + 1)
  /\ \A t \in TableSet : Due(t, Seen' + 1) =>
       t \in DOMAIN local' /\ ColumnNames(expected'[t]) \subseteq {c.n : c \in local'[t].cols}
  /\ \A b \in Range(buf') : b.t \in DOMAIN local' /\ b.has \subseteq {c.n : c \in local'[b.t].cols}
  /\ mode' \in {"resync", "relation"} =>
       \A t \in TableSet : Due(t, cur' + 1) => t \in DOMAIN target' /\ Additive(expected'[t], target'[t])
  /\ mode' = "resync" => Follows(target', cur' + 2)
  /\ \A t \in sent' \cap DOMAIN rels' : Due(t, cur' + 1) /\ ~(mode' = "relation" /\ t = Msg'.t) =>
       ColumnNames(rels'[t]) \subseteq ColumnNames(expected'[t])

LEMMA ReadyStep ==
  ASSUME UNCHANGED upstream, trusted' /\ Benign' => StillReady
  PROVE  Ready'
<1> USE DEF StillReady
<1>1. up' = up /\ wal' = wal
  BY DEF upstream
<1>2. \A i : RowsOf(i)' = RowsOf(i)
  BY <1>1 DEF RowsOf, Signal, Range
<1>3. PICK s, c, f, g : s = Seen' /\ c = cur' /\ f = expected' /\ g = target'
  OBVIOUS
<1>4. /\ \A t : Due(t, Seen + 1)' = Due(t, s + 1)
      /\ \A t : Due(t, cur + 1)' = Due(t, c + 1)
  <2>1. \A t : Due(t, Seen + 1)' = Due(t, s + 1)
    BY <1>1, <1>2, <1>3 DEF Due, OnlyAdds
  <2>2. \A t : Due(t, cur + 1)' = Due(t, c + 1)
    BY <1>1, <1>2, <1>3 DEF Due, OnlyAdds
  <2> QED BY <2>1, <2>2
<1>5. \A t : Fits(t, Seen + 1, expected[t])' = Fits(t, s + 1, f[t])
  <2>1. \A t, k : OnlyAdds(t, Seen + 1, k)' = OnlyAdds(t, s + 1, k)
    BY <1>1, <1>3 DEF OnlyAdds
  <2>2. \A t : OnlyAdds(t, Seen + 1, Len(wal))' = OnlyAdds(t, s + 1, Len(wal))
    BY <1>1, <1>3 DEF OnlyAdds
  <2>3. \A t, q : Additive(expected[t], FingerprintLine(q.cols))' = Additive(f[t], FingerprintLine(q.cols))
    BY <1>3 DEF Additive, FingerprintLine
  <2>4. \A t : Additive(expected[t], FingerprintLine(up[t].cols))' = Additive(f[t], FingerprintLine(up[t].cols))
    BY <1>1, <1>3 DEF Additive, FingerprintLine
  <2> QED BY <1>1, <1>2, <1>3, <2>1, <2>2, <2>3, <2>4 DEF Fits
<1>a. \A t : Due(t, cur + 2)' = Due(t, c + 2)
  BY <1>1, <1>2, <1>3 DEF Due, OnlyAdds
<1>b. \A t : Fits(t, cur + 2, target[t])' = Fits(t, c + 2, g[t])
  <2>1. \A t, k : OnlyAdds(t, cur + 2, k)' = OnlyAdds(t, c + 2, k)
    BY <1>1, <1>3 DEF OnlyAdds
  <2>2. \A t : OnlyAdds(t, cur + 2, Len(wal))' = OnlyAdds(t, c + 2, Len(wal))
    BY <1>1, <1>3 DEF OnlyAdds
  <2>3. \A t, q : Additive(target[t], FingerprintLine(q.cols))' = Additive(g[t], FingerprintLine(q.cols))
    BY <1>3 DEF Additive, FingerprintLine
  <2>4. \A t : Additive(target[t], FingerprintLine(up[t].cols))' = Additive(g[t], FingerprintLine(up[t].cols))
    BY <1>1, <1>3 DEF Additive, FingerprintLine
  <2> QED BY <1>1, <1>2, <1>3, <2>1, <2>2, <2>3, <2>4 DEF Fits
<1>6. TableSet' = TableSet
  BY DEF TableSet, Range
<1> SUFFICES ASSUME trusted', Benign'
             PROVE  /\ mode' = "halted" => blocked'
                    /\ Follows(expected, Seen + 1)'
                    /\ \A t \in TableSet' : Due(t, Seen + 1)' => Has(t, ColumnNames(expected[t]))'
                    /\ \A b \in Range(buf)' : Has(b.t, b.has)'
                    /\ PlanMode' => \A t \in TableSet' :
                         Due(t, cur + 1)' => t \in DOMAIN target' /\ Additive(expected[t], target[t])'
                    /\ mode' = "resync" => Follows(target, cur + 2)'
                    /\ \A t \in sent' \cap DOMAIN rels' :
                         Due(t, cur + 1)' /\ ~(mode' = "relation" /\ t = Msg'.t) =>
                           ColumnNames(rels[t])' \subseteq ColumnNames(expected[t])'
  BY DEF Ready
<1>7. Follows(expected, Seen + 1)'
  BY <1>3, <1>4, <1>5, <1>6 DEF Follows
<1>8. mode' = "resync" => Follows(target, cur + 2)'
  BY <1>3, <1>a, <1>b, <1>6 DEF Follows
<1>9. \A t \in TableSet' : Due(t, Seen + 1)' => Has(t, ColumnNames(expected[t]))'
  BY <1>3, <1>4, <1>6 DEF Has, LocalNames, ColumnNames, Range
<1>10. \A b \in Range(buf)' : Has(b.t, b.has)'
  BY DEF Has, LocalNames, Range
<1>11. PlanMode' => \A t \in TableSet' :
          Due(t, cur + 1)' => t \in DOMAIN target' /\ Additive(expected[t], target[t])'
  BY <1>3, <1>4, <1>6 DEF PlanMode, Additive
<1>12. \A t \in sent' \cap DOMAIN rels' :
          Due(t, cur + 1)' /\ ~(mode' = "relation" /\ t = Msg'.t) =>
            ColumnNames(rels[t])' \subseteq ColumnNames(expected[t])'
  BY <1>3, <1>4 DEF ColumnNames, Range
<1> QED BY <1>7, <1>8, <1>9, <1>10, <1>11, <1>12

\* Benign changes and trust do not come back.
LEMMA StaysBenign ==
  /\ UNCHANGED upstream /\ (ahead => ahead') /\ Benign' => Benign
  /\ UNCHANGED <<upstream, history>> => Benign' = Benign /\ trusted' = trusted
BY DEF Benign, upstream, history

\* What the commits already did is left as it is.
LEMMA PassedFrame ==
  ASSUME Passed, UNCHANGED <<wal, slot, wm, cur>>
  PROVE  UNCHANGED <<pos, buf>> \/ pos' # 0 => Passed'
<1>1. \A i : RowsOf(i)' = RowsOf(i)
  BY DEF RowsOf, Range, Signal
<1>2. MaxOf(slot, wm)' = MaxOf(slot, wm)
  BY DEF MaxOf
<1>3. (\A i \in (MaxOf(slot, wm) + 1)..cur : RowsOf(i) = {})'
  BY <1>1, <1>2 DEF Passed
<1>4. UNCHANGED <<pos, buf>> \/ pos' # 0 => (pos' = 0 => buf' = <<>>)
  BY DEF Passed
<1> QED BY <1>3, <1>4 DEF Passed

\* The row that follows is one the stream needs.
LEMMA MsgDue ==
  ASSUME SchemaInv, Reading, Msg # Signal
  PROVE  Due(Msg.t, cur + 1)
<1> DEFINE i == cur + 1
<1>1. i \in DOMAIN wal /\ Msg \in RowsOf(i) /\ cur \in Nat /\ Len(wal) \in Nat /\ cur < Len(wal)
  BY OpenFacts DEF SchemaInv
<1>2. i \in i..Len(wal) /\ \A t : OnlyAdds(t, i, i - 1)
  BY <1>1 DEF OnlyAdds
<1> HIDE DEF i
<1>3. Due(Msg.t, i)
  BY <1>1, <1>2 DEF Due
<1> QED BY <1>3 DEF i

\* A transaction of the upstream, benign as those before it, asks no more of the replica.
LEMMA UpstreamKeepsReady ==
  ASSUME SchemaInv, LogInv, CatalogInv, ReadyInv, Upstream
  PROVE  ReadyInv'
<1> USE DEF ReadyInv
<1>1. UNCHANGED <<slot, durable, started, stream, work, mode, history, clients>>
  BY DEF Upstream, UpstreamInsert, UpstreamAlter, Alter, UpstreamTable, Commit
<1>2. UNCHANGED <<slot, local, stored, wm, started, expected, rels, sent, cur, pos, buf, plan, target, mode,
                  trusted, torn, ahead, blocked>>
  BY <1>1 DEF durable, stream, work, history, clients
<1>3. PICK t, e : Changed(t, e) /\ Shifted(t, e)
  BY UpstreamShifts DEF SchemaInv
<1>4. /\ Len(wal') = Len(wal) + 1 /\ Len(wal) \in Nat
      /\ \A i \in 1..Len(wal) : wal'[i] = wal[i] /\ RowsOf(i)' = RowsOf(i)
      /\ DOMAIN wal = 1..Len(wal) /\ DOMAIN wal' = 1..(Len(wal) + 1)
  BY <1>3, WalGrows DEF Changed, SchemaInv
<1>5. /\ Seen' = Seen /\ Seen \in Nat /\ Seen <= Len(wal)
      /\ cur \in Nat /\ cur <= Len(wal)
      /\ cur < Len(wal) => Tx' = Tx /\ Msg' = Msg
  BY <1>2, <1>3, UpstreamFrame
<1>6. mode \in {"resync", "relation"} => cur < Len(wal)
  BY DEF SchemaInv, Announced
<1>7. Passed'
  <2>1. slot \in Nat /\ wm \in Nat
    BY DEF SchemaInv, SchemaTypes
  <2>2. \A i \in (MaxOf(slot, wm) + 1)..cur : i \in 1..Len(wal)
    BY <1>4, <1>5, <2>1 DEF MaxOf
  <2>3. \A i \in (MaxOf(slot, wm) + 1)..cur : RowsOf(i)' = {}
    BY <1>4, <2>2 DEF Passed
  <2> QED BY <1>2, <2>3 DEF Passed, MaxOf
<1>8. Listed'
  <2>1. gone \subseteq gone'
    BY <1>3 DEF Changed
  <2> QED BY <1>2, <1>5, <1>6, <2>1 DEF Listed
<1>9. Benign' => Benign
  <2> SUFFICES ASSUME Benign', NEW i \in DOMAIN wal
               PROVE  /\ wal[i].op \notin {"retype", "unkeyed", "mixed", "empty"}
                      /\ wal[i].op \in {"drop", "rename", "create", "remove"} => wal[i].signalled
    BY <1>2 DEF Benign
  <2>1. i \in DOMAIN wal' /\ wal'[i] = wal[i]
    BY <1>4
  <2> QED BY <2>1 DEF Benign
<1>10. PICK s, c, f, g : s = Seen /\ c = cur /\ f = expected /\ g = target
  OBVIOUS
<1>11. /\ s + 1 \in 1..(Len(wal) + 1) /\ c + 1 \in 1..(Len(wal) + 1)
       /\ mode = "resync" => c + 2 \in 1..(Len(wal) + 1)
  BY <1>4, <1>5, <1>6, <1>10
<1>12. \A i \in 1..(Len(wal) + 1) : \A u : /\ Due(u, i)' => Due(u, i)
                                          /\ \A line \in Seq(Shape) : Fits(u, i, line) => Fits(u, i, line)'
  BY <1>3, FitsStays DEF SchemaInv
<1>13. /\ \A u : Due(u, Seen + 1)' => Due(u, s + 1)
       /\ \A u : Due(u, cur + 1)' => Due(u, c + 1)
       /\ mode = "resync" => \A u : Due(u, cur + 2)' => Due(u, c + 2)
  <2>1. \A u : Due(u, Seen + 1)' = Due(u, s + 1)'
    BY <1>5, <1>10 DEF Due, OnlyAdds
  <2>2. \A u : Due(u, cur + 1)' = Due(u, c + 1)'
    BY <1>2, <1>10 DEF Due, OnlyAdds
  <2>3. \A u : Due(u, cur + 2)' = Due(u, c + 2)'
    BY <1>2, <1>10 DEF Due, OnlyAdds
  <2>4. /\ \A u : Due(u, s + 1)' => Due(u, s + 1)
        /\ \A u : Due(u, c + 1)' => Due(u, c + 1)
        /\ mode = "resync" => \A u : Due(u, c + 2)' => Due(u, c + 2)
    BY <1>11, <1>12
  <2> QED BY <2>1, <2>2, <2>3, <2>4
<1>14. Ready'
  <2> SUFFICES ASSUME trusted', Benign'
               PROVE  /\ mode' = "halted" => blocked'
                      /\ Follows(expected, Seen + 1)'
                      /\ \A u \in TableSet' : Due(u, Seen + 1)' => Has(u, ColumnNames(expected[u]))'
                      /\ \A b \in Range(buf)' : Has(b.t, b.has)'
                      /\ PlanMode' => \A u \in TableSet' :
                           Due(u, cur + 1)' => u \in DOMAIN target' /\ Additive(expected[u], target[u])'
                      /\ mode' = "resync" => Follows(target, cur + 2)'
                      /\ \A u \in sent' \cap DOMAIN rels' :
                           Due(u, cur + 1)' /\ ~(mode' = "relation" /\ u = Msg'.t) =>
                             ColumnNames(rels[u])' \subseteq ColumnNames(expected[u])'
    BY DEF Ready
  <2>1. trusted /\ Benign /\ (mode = "halted" => blocked)
    BY <1>2, <1>9 DEF Ready
  <2>2. Follows(f, s + 1)
    BY <1>10, <2>1 DEF Ready
  <2>3. mode = "resync" => Follows(g, c + 2)
    BY <1>10, <2>1 DEF Ready
  <2>4. TableSet' = TableSet /\ PlanMode' = PlanMode
    BY <1>2 DEF TableSet, Range, PlanMode
  <2>5. Follows(expected, Seen + 1)'
    <3>1. ASSUME NEW u \in TableSet, Due(u, Seen + 1)'
          PROVE  u \in DOMAIN f /\ Fits(u, s + 1, f[u])'
      <4>1. u \in DOMAIN f /\ Fits(u, s + 1, f[u])
        BY <1>13, <2>2, <3>1 DEF Follows
      <4>2. f[u] \in Seq(Shape)
        BY <1>10, <4>1 DEF SchemaInv, SchemaTypes, Prints
      <4> DEFINE line == f[u]
      <4>3. Fits(u, s + 1, line)'
        <5> HIDE DEF line
        <5> QED BY <1>11, <1>12, <4>1, <4>2 DEF line
      <4> QED BY <4>1, <4>3
    <3>2. \A u : Fits(u, Seen + 1, expected[u])' = Fits(u, s + 1, f[u])'
      BY <1>2, <1>5, <1>10 DEF Fits, OnlyAdds, Additive
    <3> QED BY <1>2, <1>10, <2>4, <3>1, <3>2 DEF Follows
  <2>6. mode' = "resync" => Follows(target, cur + 2)'
    <3>1. ASSUME mode = "resync", NEW u \in TableSet, Due(u, cur + 2)'
          PROVE  u \in DOMAIN g /\ Fits(u, c + 2, g[u])'
      <4>1. u \in DOMAIN g /\ Fits(u, c + 2, g[u])
        BY <1>13, <2>3, <3>1 DEF Follows
      <4>2. g[u] \in Seq(Shape)
        BY <1>10, <4>1 DEF SchemaInv, SchemaTypes, Prints
      <4> DEFINE line == g[u]
      <4>3. Fits(u, c + 2, line)'
        <5> HIDE DEF line
        <5> QED BY <1>11, <1>12, <3>1, <4>1, <4>2 DEF line
      <4> QED BY <4>1, <4>3
    <3>2. \A u : Fits(u, cur + 2, target[u])' = Fits(u, c + 2, g[u])'
      BY <1>2, <1>10 DEF Fits, OnlyAdds, Additive
    <3> QED BY <1>2, <1>10, <2>4, <3>1, <3>2 DEF Follows
  <2>7. \A u, names : Has(u, names)' = Has(u, names)
    BY <1>2 DEF Has, LocalNames
  <2>8. \A u \in TableSet' : Due(u, Seen + 1)' => Has(u, ColumnNames(expected[u]))'
    <3>1. \A u \in TableSet : Due(u, Seen + 1)' => Has(u, ColumnNames(expected[u]))
      BY <1>10, <1>13, <2>1 DEF Ready
    <3>2. \A u : Has(u, ColumnNames(expected[u]))' = Has(u, ColumnNames(expected[u]))
      BY <1>2 DEF Has, LocalNames, ColumnNames, Range
    <3> QED BY <2>4, <3>1, <3>2
  <2>9. \A b \in Range(buf)' : Has(b.t, b.has)'
    BY <1>2, <2>1 DEF Ready, Has, LocalNames, Range
  <2>10. PlanMode' => \A u \in TableSet' :
           Due(u, cur + 1)' => u \in DOMAIN target' /\ Additive(expected[u], target[u])'
    <3>1. PlanMode => \A u \in TableSet : Due(u, cur + 1)' => u \in DOMAIN target /\ Additive(expected[u], target[u])
      BY <1>10, <1>13, <2>1 DEF Ready
    <3>2. \A u : Additive(expected[u], target[u])' = Additive(expected[u], target[u])
      BY <1>2 DEF Additive
    <3> QED BY <1>2, <2>4, <3>1, <3>2
  <2>11. \A u \in sent' \cap DOMAIN rels' :
           Due(u, cur + 1)' /\ ~(mode' = "relation" /\ u = Msg'.t) =>
             ColumnNames(rels[u])' \subseteq ColumnNames(expected[u])'
    <3>1. \A u \in sent \cap DOMAIN rels :
            Due(u, cur + 1)' /\ ~(mode = "relation" /\ u = Msg.t) => ColumnNames(rels[u]) \subseteq ColumnNames(expected[u])
      BY <1>10, <1>13, <2>1 DEF Ready
    <3>2. \A u : ColumnNames(rels[u])' = ColumnNames(rels[u]) /\ ColumnNames(expected[u])' = ColumnNames(expected[u])
      BY <1>2 DEF ColumnNames, Range
    <3> QED BY <1>2, <1>5, <1>6, <3>1, <3>2
  <2> QED BY <1>2, <2>1, <2>5, <2>6, <2>8, <2>9, <2>10, <2>11
<1> QED BY <1>7, <1>8, <1>14

\* A Relation message: the columns known so far are the first of its columns.
LEMMA ReadRelationKeepsReady ==
  ASSUME SchemaInv, LogInv, CatalogInv, ReadyInv, ReadRelation
  PROVE  ReadyInv'
<1> USE DEF ReadyInv
<1> DEFINE t == Msg.t
           line == FingerprintLine(Msg.cols)
<1>1. UNCHANGED <<upstream, slot, started, history>> /\ Reading /\ Msg # Signal /\ mode = "stream"
  BY DEF ReadRelation, Reading
<1>2. UNCHANGED <<slot, local, stored, wm, expected, cur, pos, buf>>
  BY <1>1 DEF ReadRelation, Halt, durable, stream
<1>3. UNCHANGED upstream /\ UNCHANGED <<up, wal, gone>> /\ Tx' = Tx /\ Msg' = Msg /\ Seen' = Seen
  BY <1>1, <1>2 DEF upstream, Tx, Msg, Seen
<1>4. Seen = cur /\ Due(t, cur + 1) /\ t \in TableSet /\ Fits(t, cur + 1, line) /\ Msg \in RowsOf(cur + 1)
      /\ cur + 1 \in (cur + 1)..Len(wal) /\ OnlyAdds(t, cur + 1, (cur + 1) - 1)
  <2>1. /\ cur \in Nat /\ Len(wal) \in Nat /\ cur < Len(wal) /\ Msg \in RowsOf(cur + 1)
        /\ pos < Len(Tx.msgs)
    BY <1>1, OpenFacts DEF SchemaInv
  <2> QED BY <1>1, <2>1, SeenFacts, MsgDue, MsgSound DEF OnlyAdds
<1> HIDE DEF line
<1>5. Passed'
  BY <1>2, <1>3, PassedFrame
<1>6. ASSUME trusted', Benign'
      PROVE  /\ trusted /\ Benign
             /\ t \in DOMAIN expected /\ Additive(expected[t], line)
  <2>1. trusted /\ Benign
    BY <1>1, <1>6, StaysBenign
  <2>2. Follows(expected, cur + 1)
    BY <1>4, <2>1 DEF Ready
  <2>3. t \in DOMAIN expected /\ Fits(t, cur + 1, expected[t])
    BY <1>4, <2>2 DEF Follows
  <2>4. Additive(expected[t], line)
    BY <1>4, <2>3 DEF Fits, line
  <2> QED BY <2>1, <2>3, <2>4
<1>7. CASE t \notin DOMAIN expected \/ ~Additive(expected[t], line)
  <2>1. mode' = "halted"
    BY <1>7 DEF ReadRelation, Halt, line
  <2>2. ~(trusted' /\ Benign')
    BY <1>6, <1>7
  <2> QED BY <1>5, <2>1, <2>2 DEF Listed, Ready
<1>8. CASE t \in DOMAIN expected /\ Additive(expected[t], line)
  <2>1. /\ sent' = sent \cup {t}
        /\ \/ line = expected[t] /\ rels' = With(rels, t, line) /\ mode' = "stream"
           \/ mode' = "relation" /\ rels' = rels /\ target' = [expected EXCEPT ![t] = line]
    BY <1>1, <1>8 DEF ReadRelation, line
  <2>2. Listed'
    <3>1. \A u \in sent' \ DOMAIN rels' : u \in sent \ DOMAIN rels \/ (mode' = "relation" /\ u = t)
      BY <2>1 DEF With
    <3> QED BY <1>1, <1>2, <1>3, <2>1, <3>1 DEF Listed
  <2>3. Ready'
    <3> SUFFICES ASSUME trusted', Benign'
                 PROVE  StillReady
      BY <1>3, ReadyStep
    <3>1. /\ Follows(expected, Seen + 1)
          /\ \A u \in TableSet : Due(u, Seen + 1) => Has(u, ColumnNames(expected[u]))
          /\ \A b \in Range(buf) : Has(b.t, b.has)
          /\ \A u \in sent \cap DOMAIN rels : Due(u, cur + 1) => ColumnNames(rels[u]) \subseteq ColumnNames(expected[u])
      BY <1>1, <1>6 DEF Ready
    <3>2. mode' # "halted" /\ mode' # "resync"
      BY <2>1
    <3>3. \A u \in TableSet : Due(u, Seen' + 1) =>
            u \in DOMAIN local' /\ ColumnNames(expected'[u]) \subseteq {c.n : c \in local'[u].cols}
      BY <1>2, <1>3, <3>1 DEF Has, LocalNames
    <3>4. \A b \in Range(buf') : b.t \in DOMAIN local' /\ b.has \subseteq {c.n : c \in local'[b.t].cols}
      BY <1>2, <3>1 DEF Has, LocalNames
    <3>5. ASSUME mode' = "relation", NEW u \in TableSet, Due(u, cur + 1)
          PROVE  u \in DOMAIN target' /\ Additive(expected[u], target'[u])
      <4>1. u \in DOMAIN expected /\ expected[u] \in Seq(Shape)
        BY <1>4, <3>1, <3>5 DEF Follows, SchemaInv, SchemaTypes, Prints
      <4>2. target' = [expected EXCEPT ![t] = line]
        BY <2>1, <3>5
      <4>3. Additive(expected[u], expected[u])
        BY <4>1, AdditiveFacts
      <4> QED BY <1>8, <4>1, <4>2, <4>3
    <3>6. ASSUME NEW u \in sent' \cap DOMAIN rels', Due(u, cur + 1), ~(mode' = "relation" /\ u = t)
          PROVE  ColumnNames(rels'[u]) \subseteq ColumnNames(expected[u])
      <4>1. CASE u = t
        BY <2>1, <3>6, <4>1 DEF With
      <4>2. CASE u # t
        <5>1. u \in sent \cap DOMAIN rels /\ rels'[u] = rels[u]
          BY <2>1, <3>6, <4>2 DEF With
        <5> QED BY <3>1, <3>6, <5>1
      <4> QED BY <4>1, <4>2
    <3>7. Follows(expected', Seen' + 1)
      BY <1>2, <1>3, <3>1
    <3>8. mode' \in {"resync", "relation"} =>
            \A u \in TableSet : Due(u, cur' + 1) => u \in DOMAIN target' /\ Additive(expected'[u], target'[u])
      BY <1>2, <3>2, <3>5
    <3>9. \A u \in sent' \cap DOMAIN rels' : Due(u, cur' + 1) /\ ~(mode' = "relation" /\ u = Msg'.t) =>
            ColumnNames(rels'[u]) \subseteq ColumnNames(expected'[u])
      BY <1>2, <1>3, <3>6
    <3> QED BY <3>2, <3>3, <3>4, <3>7, <3>8, <3>9 DEF StillReady
  <2> QED BY <1>5, <2>2, <2>3
<1> QED BY <1>7, <1>8

\* The columns of a Relation message are added.
LEMMA FinishRelationKeepsReady ==
  ASSUME SchemaInv, LogInv, CatalogInv, ReadyInv, FinishRelation
  PROVE  ReadyInv'
<1> USE DEF ReadyInv
<1> DEFINE t == Msg.t
<1>1. /\ mode = "relation" /\ mode' = "stream" /\ plan = {} /\ expected' = target
      /\ rels' = With(rels, t, target[t])
      /\ UNCHANGED <<upstream, history>>
      /\ UNCHANGED <<up, wal, gone, slot, local, wm, sent, cur, pos, buf, target, trusted>>
  BY DEF FinishRelation, upstream, work, history
<1>2. /\ cur < Len(wal) /\ pos < Len(Tx.msgs) /\ Tx' = Tx /\ Seen' = Seen /\ Seen = cur
      /\ Msg # Signal /\ target = [expected EXCEPT ![t] = FingerprintLine(Msg.cols)] /\ t \in DOMAIN expected
  <2>1. cur < Len(wal) /\ pos < Len(Tx.msgs) /\ Tx' = Tx /\ Msg # Signal
    BY <1>1 DEF SchemaInv, Announced, Tx
  <2> QED BY <1>1, <2>1, SeenFacts DEF CatalogInv, Planned, Seen
<1>3. /\ DOMAIN target = DOMAIN expected /\ target[t] = FingerprintLine(Msg.cols)
      /\ \A u : u # t => target[u] = expected[u]
  BY <1>2
<1>4. Fits(t, cur + 1, target[t])
  <2> DEFINE i == cur + 1
  <2>1. i \in DOMAIN wal /\ Msg \in RowsOf(i)
    BY <1>2, MsgRow DEF SchemaInv
  <2> HIDE DEF i
  <2>2. Fits(t, i, FingerprintLine(Msg.cols))
    BY <2>1 DEF LogInv, Grows
  <2> QED BY <1>3, <2>2 DEF i
<1>5. Passed'
  BY <1>1, PassedFrame
<1>6. Listed'
  <2>1. \A u \in sent' \ DOMAIN rels' : u \in sent \ DOMAIN rels /\ u # t
    BY <1>1 DEF With
  <2> QED BY <1>1, <1>3, <2>1 DEF Listed
<1>7. Ready'
  <2> SUFFICES ASSUME trusted', Benign'
               PROVE  StillReady
    BY <1>1, ReadyStep
  <2>1. trusted /\ Benign
    BY <1>1, StaysBenign
  <2>2. /\ \A u \in TableSet : Due(u, cur + 1) =>
              u \in DOMAIN expected /\ Fits(u, cur + 1, expected[u]) /\ Has(u, ColumnNames(expected[u]))
        /\ \A b \in Range(buf) : Has(b.t, b.has)
        /\ \A u \in sent \cap DOMAIN rels :
             Due(u, cur + 1) /\ u # t => ColumnNames(rels[u]) \subseteq ColumnNames(expected[u])
    BY <1>1, <1>2, <2>1 DEF Ready, Follows
  <2>3. Follows(target, cur + 1)
    <3>1. ASSUME NEW u \in TableSet, Due(u, cur + 1)
          PROVE  u \in DOMAIN target /\ Fits(u, cur + 1, target[u])
      BY <1>3, <1>4, <2>2, <3>1
    <3> QED BY <3>1 DEF Follows
  <2>4. ASSUME NEW u \in TableSet, Due(u, cur + 1)
        PROVE  u \in DOMAIN local /\ ColumnNames(target[u]) \subseteq LocalNames(u)
    <3>1. Has(u, ColumnNames(expected[u])) /\ u \in DOMAIN expected
      BY <2>2, <2>4
    <3>2. \A n \in ColumnNames(target[u]) \ ColumnNames(expected[u]) : Has(u, {n})
      BY <1>1, <1>3, <3>1 DEF CatalogInv, Arriving, PlanMode
    <3> QED BY <3>1, <3>2 DEF Has
  <2>5. ASSUME NEW u \in sent \cap DOMAIN rels', Due(u, cur + 1)
        PROVE  ColumnNames(rels'[u]) \subseteq ColumnNames(target[u])
    <3>1. CASE u = t
      BY <1>1, <3>1 DEF With
    <3>2. CASE u # t
      <4>1. u \in DOMAIN rels /\ rels'[u] = rels[u]
        BY <1>1, <2>5, <3>2 DEF With
      <4>2. ColumnNames(rels[u]) \subseteq ColumnNames(expected[u])
        BY <2>2, <2>5, <3>2, <4>1
      <4> QED BY <1>3, <3>2, <4>1, <4>2
    <3> QED BY <3>1, <3>2
  <2>6. Follows(expected', Seen' + 1)
    BY <1>1, <1>2, <2>3
  <2>7. \A u \in TableSet : Due(u, Seen' + 1) =>
          u \in DOMAIN local' /\ ColumnNames(expected'[u]) \subseteq {c.n : c \in local'[u].cols}
    BY <1>1, <1>2, <2>4 DEF LocalNames
  <2>8. \A b \in Range(buf') : b.t \in DOMAIN local' /\ b.has \subseteq {c.n : c \in local'[b.t].cols}
    BY <1>1, <2>2 DEF Has, LocalNames
  <2>9. \A u \in sent' \cap DOMAIN rels' : Due(u, cur' + 1) => ColumnNames(rels'[u]) \subseteq ColumnNames(expected'[u])
    BY <1>1, <2>5
  <2>10. mode' = "stream"
    BY <1>1
  <2> QED BY <2>6, <2>7, <2>8, <2>9, <2>10 DEF StillReady
<1> QED BY <1>5, <1>6, <1>7

\* A row: the shape it is read with is known, and here.
LEMMA ReadRowKeepsReady ==
  ASSUME SchemaInv, LogInv, CatalogInv, ReadyInv, ReadRow
  PROVE  ReadyInv'
<1> USE DEF ReadyInv
<1> DEFINE t == Msg.t
<1>1. UNCHANGED <<upstream, slot, started, history>> /\ Reading /\ Msg # Signal /\ mode = "stream" /\ t \in sent
  BY DEF ReadRow, Reading
<1>2. UNCHANGED upstream /\ UNCHANGED <<up, wal, gone>>
  BY <1>1 DEF upstream
<1>3. Seen = cur /\ Due(t, cur + 1) /\ t \in TableSet /\ pos \in Nat
  <2>1. pos < Len(Tx.msgs) /\ pos \in Nat
    BY <1>1, OpenFacts DEF SchemaInv
  <2> QED BY <1>1, <2>1, SeenFacts, MsgDue, MsgSound
<1>4. ASSUME trusted', Benign'
      PROVE  /\ trusted /\ Benign /\ mode' = "stream"
             /\ t \in DOMAIN expected /\ t \in DOMAIN rels
             /\ Has(t, ColumnNames(rels[t]))
  <2>1. trusted /\ Benign
    BY <1>1, <1>4, StaysBenign
  <2>2. t \in DOMAIN expected /\ Has(t, ColumnNames(expected[t]))
    BY <1>3, <2>1 DEF Ready, Follows
  <2>3. t \in DOMAIN rels
    BY <1>1, <2>2 DEF Listed
  <2>4. ColumnNames(rels[t]) \subseteq ColumnNames(expected[t])
    BY <1>1, <1>3, <2>1, <2>3 DEF Ready
  <2>5. mode' = "stream"
    BY <1>1, <2>3 DEF ReadRow, work
  <2> QED BY <2>1, <2>2, <2>3, <2>4, <2>5 DEF Has
<1>5. CASE t \notin DOMAIN rels
  <2>1. mode' = "halted" /\ UNCHANGED <<slot, wm, cur, pos, buf>>
    BY <1>1, <1>5 DEF ReadRow, Halt, durable, stream
  <2>2. ~(trusted' /\ Benign')
    BY <1>4, <1>5
  <2>3. Passed'
    BY <1>2, <2>1, PassedFrame
  <2> QED BY <2>1, <2>2, <2>3 DEF Listed, Ready
<1>6. CASE t \in DOMAIN rels
  <2>1. /\ buf' = Append(buf, [t |-> t, has |-> ColumnNames(rels[t])]) /\ pos' = pos + 1
        /\ UNCHANGED <<slot, wm, local, expected, rels, sent, cur, target, mode>>
    BY <1>1, <1>6 DEF ReadRow, durable, work
  <2>2. Seen' = cur
    BY <1>1, <1>2, <2>1, RowSeen
  <2>3. Passed'
    <3>1. pos' # 0
      BY <1>3, <2>1
    <3> QED BY <1>2, <2>1, <3>1, PassedFrame
  <2>4. Listed'
    BY <1>1, <1>2, <2>1 DEF Listed
  <2>5. Ready'
    <3> SUFFICES ASSUME trusted', Benign'
                 PROVE  StillReady
      BY <1>2, ReadyStep
    <3>1. trusted /\ Benign /\ mode' = "stream" /\ Has(t, ColumnNames(rels[t]))
      BY <1>4
    <3>2. /\ Follows(expected, cur + 1)
          /\ \A u \in TableSet : Due(u, cur + 1) => Has(u, ColumnNames(expected[u]))
          /\ \A b \in Range(buf) : Has(b.t, b.has)
          /\ \A u \in sent \cap DOMAIN rels : Due(u, cur + 1) => ColumnNames(rels[u]) \subseteq ColumnNames(expected[u])
      BY <1>1, <1>3, <3>1 DEF Ready
    <3>3. ASSUME NEW b \in Range(buf')
          PROVE  Has(b.t, b.has)
      <4> DEFINE new == [t |-> t, has |-> ColumnNames(rels[t])]
                 R == [t : TableSet, has : SUBSET Names]
      <4>1. buf \in Seq(R)
        BY DEF SchemaInv, SchemaTypes
      <4>2. new \in R
        <5>1. rels[t] \in Seq(Shape)
          BY <1>6 DEF SchemaInv, SchemaTypes, Prints
        <5>2. Range(rels[t]) \subseteq Shape
          BY <5>1, RangeFacts
        <5>3. ColumnNames(rels[t]) \subseteq Names
          BY <5>2 DEF ColumnNames, Shape
        <5> QED BY <1>3, <5>3
      <4>3. new.t = t /\ new.has = ColumnNames(rels[t])
        OBVIOUS
      <4> HIDE DEF new, R
      <4>4. Range(buf') = Range(buf) \cup {new}
        BY <2>1, <4>1, <4>2, AppendFacts DEF new
      <4> QED BY <3>1, <3>2, <3>3, <4>3, <4>4
    <3>4. Follows(expected', Seen' + 1)
      BY <2>1, <2>2, <3>2
    <3>5. \A u \in TableSet : Due(u, Seen' + 1) =>
            u \in DOMAIN local' /\ ColumnNames(expected'[u]) \subseteq {c.n : c \in local'[u].cols}
      BY <2>1, <2>2, <3>2 DEF Has, LocalNames
    <3>6. \A b \in Range(buf') : b.t \in DOMAIN local' /\ b.has \subseteq {c.n : c \in local'[b.t].cols}
      BY <2>1, <3>3 DEF Has, LocalNames
    <3>7. \A u \in sent' \cap DOMAIN rels' : Due(u, cur' + 1) => ColumnNames(rels'[u]) \subseteq ColumnNames(expected'[u])
      BY <2>1, <3>2
    <3> QED BY <3>1, <3>4, <3>5, <3>6, <3>7 DEF StillReady
  <2> QED BY <2>3, <2>4, <2>5
<1> QED BY <1>5, <1>6

\* Where only rows are to come, the catalog of this moment is that of the stream.
LEMMA LevelFacts ==
  ASSUME SchemaInv, LogInv, NEW i \in Nat \ {0}, \A k \in i..Len(wal) : wal[k].op = "insert"
  PROVE  \A t : /\ Due(t, i) => t \in DOMAIN up
                /\ t \in DOMAIN up => Fits(t, i, FingerprintLine(up[t].cols))
<1>1. wal \in Seq(Entry) /\ \A t \in DOMAIN up : up[t].cols \in Seq(Column)
  BY DEF SchemaInv, SchemaTypes, TableType
<1>2. DOMAIN wal = 1..Len(wal) /\ Len(wal) \in Nat
  BY <1>1, RangeFacts
<1>3. ASSUME NEW j \in i..Len(wal), NEW q \in RowsOf(j)
      PROVE  q.t \in DOMAIN up /\ up[q.t].cols = q.cols
  <2>1. j \in DOMAIN wal /\ \A k \in j..Len(wal) : k \in i..Len(wal)
    BY <1>2
  <2>2. Calm(q.t, j, Len(wal))
    BY <2>1 DEF Calm
  <2> QED BY <2>1, <2>2 DEF LogInv, Lasting
<1>4. ASSUME NEW t, Due(t, i)
      PROVE  t \in DOMAIN up
  BY <1>3, <1>4 DEF Due
<1>5. ASSUME NEW t \in DOMAIN up
      PROVE  Fits(t, i, FingerprintLine(up[t].cols))
  <2> DEFINE line == FingerprintLine(up[t].cols)
  <2>1. line \in Seq(Shape)
    BY <1>1, LineColumns
  <2>2. Additive(line, line)
    BY <2>1, AdditiveFacts
  <2>3. \A j \in i..Len(wal) : \A q \in RowsOf(j) : q.t = t => FingerprintLine(q.cols) = line
    BY <1>3
  <2> HIDE DEF line
  <2>4. line = FingerprintLine(up[t].cols)
    BY DEF line
  <2>5. Fits(t, i, line)
    BY <2>2, <2>3, <2>4 DEF Fits
  <2> QED BY <2>5 DEF line
<1> QED BY <1>4, <1>5

\* The DDL signal, read when nothing but rows is behind it.
LEMMA ReadSignalKeepsReady ==
  ASSUME SchemaInv, LogInv, CatalogInv, ReadyInv, ReadSignal
  PROVE  ReadyInv'
<1> USE DEF ReadyInv
<1> DEFINE new == Fingerprint(up)
<1>1. /\ UNCHANGED upstream /\ UNCHANGED <<up, wal, gone, slot, trusted>> /\ Reading /\ Msg = Signal /\ mode = "stream"
      /\ ahead' = (ahead \/ \E i \in (cur + 2)..Len(wal) : wal[i].op # "insert")
  BY DEF ReadSignal, Reading, upstream
<1>2. UNCHANGED <<local, stored, wm, expected, rels, sent, cur, pos, buf>>
  BY DEF ReadSignal, Halt, durable, stream
<1>3. Tx' = Tx /\ Msg' = Msg /\ Seen' = Seen /\ Seen = cur /\ cur \in Nat /\ Len(wal) \in Nat /\ cur < Len(wal)
  <2>1. pos < Len(Tx.msgs) /\ cur < Len(wal)
    BY <1>1 DEF Reading
  <2>2. Tx' = Tx
    BY <1>1, <1>2 DEF Tx
  <2> QED BY <1>2, <2>1, <2>2, SeenFacts DEF Msg, Seen
<1>4. Passed'
  BY <1>1, <1>2, PassedFrame
<1>5. DOMAIN new = DOMAIN up /\ \A t \in DOMAIN up : new[t] = FingerprintLine(up[t].cols)
  BY CatalogFacts DEF SchemaInv
<1>6. ASSUME trusted', Benign'
      PROVE  /\ trusted /\ Benign /\ ~IntrospectFails
             /\ \A k \in (cur + 2)..Len(wal) : wal[k].op = "insert"
             /\ RowsOf(cur + 1) = {}
  <2>1. trusted /\ Benign
    BY <1>1, <1>6, StaysBenign
  <2>2. ~IntrospectFails
    BY <2>1 DEF LogInv, Keyed, IntrospectFails, Benign
  <2>3. \A k \in (cur + 2)..Len(wal) : wal[k].op = "insert"
    BY <1>1, <1>6 DEF Benign
  <2>4. RowsOf(cur + 1) = {}
    <3>1. /\ Len(Tx.msgs) \in Nat /\ Len(Tx.msgs) <= 1 /\ WellMade(Tx)
          /\ Tx.op # "insert" => RowsOf(cur + 1) = {}
      BY <1>3, <2>1, BenignTx
    <3>2. pos < Len(Tx.msgs) /\ pos \in Nat
      BY <1>1, SeenFacts DEF Reading
    <3>3. pos + 1 = 1
      <4>1. \A n \in Nat, p \in Nat : p < n /\ n <= 1 => p + 1 = 1
        OBVIOUS
      <4> QED BY <3>1, <3>2, <4>1
    <3>4. Tx.op # "insert"
      BY <1>1, <3>1, <3>3 DEF WellMade, Msg
    <3> QED BY <3>1, <3>4
  <2> QED BY <2>1, <2>2, <2>3, <2>4
<1>7. CASE IntrospectFails
  <2>1. mode' = "halted"
    BY <1>7 DEF ReadSignal, Halt
  <2>2. ~(trusted' /\ Benign')
    BY <1>6, <1>7
  <2> QED BY <1>4, <2>1, <2>2 DEF Listed, Ready
<1>8. CASE ~IntrospectFails
  <2>1. target' = new /\ mode' = "resync"
    BY <1>8 DEF ReadSignal
  <2> HIDE DEF new
  <2>2. Listed'
    <3>1. \A t \in sent \ DOMAIN rels : <<t>> \in gone /\ t \notin DOMAIN expected
      BY <1>1 DEF Listed
    <3>2. \A t : <<t>> \in gone => t \notin DOMAIN new
      BY <1>5 DEF SchemaInv, Once
    <3> QED BY <1>1, <1>2, <2>1, <3>1, <3>2 DEF Listed
  <2>3. Ready'
    <3> SUFFICES ASSUME trusted', Benign'
                 PROVE  StillReady
      BY <1>1, ReadyStep
    <3>1. /\ Follows(expected, cur + 1)
          /\ \A t \in TableSet : Due(t, cur + 1) => Has(t, ColumnNames(expected[t]))
          /\ \A b \in Range(buf) : Has(b.t, b.has)
          /\ \A t \in sent \cap DOMAIN rels : Due(t, cur + 1) => ColumnNames(rels[t]) \subseteq ColumnNames(expected[t])
      BY <1>1, <1>3, <1>6 DEF Ready
    <3>2. /\ \A k \in (cur + 2)..Len(wal) : wal[k].op = "insert"
          /\ RowsOf(cur + 1) = {}
      BY <1>6
    <3>3. \A t : /\ Due(t, cur + 2) => t \in DOMAIN up
                 /\ t \in DOMAIN up => Fits(t, cur + 2, FingerprintLine(up[t].cols))
      <4>1. cur + 2 \in Nat \ {0}
        BY <1>3
      <4> QED BY <3>2, <4>1, LevelFacts
    <3>4. Follows(new, cur + 2)
      BY <1>5, <3>3 DEF Follows
    <3>5. ASSUME NEW t \in TableSet, Due(t, cur + 1)
          PROVE  t \in DOMAIN new /\ Additive(expected[t], new[t])
      <4>1. OnlyAdds(t, cur + 1, Len(wal)) /\ t \in DOMAIN up
        <5>1. CASE \E j \in (cur + 1)..Len(wal) : OnlyAdds(t, cur + 1, j - 1) /\ \E q \in RowsOf(j) : q.t = t
          <6>1. PICK j \in (cur + 1)..Len(wal) : OnlyAdds(t, cur + 1, j - 1) /\ \E q \in RowsOf(j) : q.t = t
            BY <5>1
          <6>2. j # cur + 1
            BY <3>2, <6>1
          <6>3. j \in (cur + 2)..Len(wal) /\ cur + 1 \in (cur + 1)..(j - 1)
            BY <1>3, <6>2
          <6>4. OnlyAdds(t, cur + 2, j - 1)
            <7>1. \A k \in (cur + 2)..(j - 1) : k \in (cur + 1)..(j - 1)
              BY <1>3
            <7> QED BY <6>1, <7>1 DEF OnlyAdds
          <6>5. Due(t, cur + 2)
            BY <6>1, <6>3, <6>4 DEF Due
          <6>6. \A k \in (cur + 1)..Len(wal) : k = cur + 1 \/ k \in (cur + 2)..Len(wal)
            BY <1>3
          <6>7. OnlyAdds(t, cur + 1, Len(wal))
            BY <3>2, <6>1, <6>3, <6>6 DEF OnlyAdds
          <6> QED BY <3>3, <6>5, <6>7
        <5> QED BY <3>5, <5>1 DEF Due
      <4>2. Fits(t, cur + 1, expected[t])
        BY <3>1, <3>5 DEF Follows
      <4> QED BY <1>5, <4>1, <4>2 DEF Fits
    <3>6. Follows(expected', Seen' + 1)
      BY <1>2, <1>3, <3>1
    <3>7. \A t \in TableSet : Due(t, Seen' + 1) =>
            t \in DOMAIN local' /\ ColumnNames(expected'[t]) \subseteq {c.n : c \in local'[t].cols}
      BY <1>2, <1>3, <3>1 DEF Has, LocalNames
    <3>8. \A b \in Range(buf') : b.t \in DOMAIN local' /\ b.has \subseteq {c.n : c \in local'[b.t].cols}
      BY <1>2, <3>1 DEF Has, LocalNames
    <3>9. \A t \in TableSet : Due(t, cur' + 1) => t \in DOMAIN target' /\ Additive(expected'[t], target'[t])
      BY <1>2, <2>1, <3>5
    <3>10. Follows(target', cur' + 2)
      BY <1>2, <2>1, <3>4
    <3>11. \A t \in sent' \cap DOMAIN rels' : Due(t, cur' + 1) => ColumnNames(rels'[t]) \subseteq ColumnNames(expected'[t])
      BY <1>2, <3>1
    <3> QED BY <2>1, <3>6, <3>7, <3>8, <3>9, <3>10, <3>11 DEF StillReady
  <2> QED BY <1>4, <2>2, <2>3
<1> QED BY <1>7, <1>8

\* A commit: what the buffer was filled for is here, and the rows are behind.
LEMMA ReadCommitKeepsReady ==
  ASSUME SchemaInv, LogInv, CatalogInv, ReadyInv, ReadCommit
  PROVE  ReadyInv'
<1> USE DEF ReadyInv
<1>1. UNCHANGED <<upstream, started, history>> /\ mode = "stream" /\ cur < Len(wal) /\ pos = Len(Tx.msgs)
  BY DEF ReadCommit
<1>2. UNCHANGED upstream /\ UNCHANGED <<up, wal, gone>> /\ Tx = wal[cur + 1]
  BY <1>1 DEF upstream, Tx
<1>3. /\ cur \in Nat /\ slot \in Nat /\ wm \in Nat /\ slot <= cur /\ wm <= cur /\ pos \in Nat /\ Len(wal) \in Nat
      /\ cur + 1 \in DOMAIN wal
  <2>1. cur \in Nat /\ slot \in Nat /\ wm \in Nat /\ slot <= cur /\ wm <= cur /\ pos \in Nat /\ wal \in Seq(Entry)
    BY DEF SchemaInv, SchemaTypes, Positions
  <2>2. DOMAIN wal = 1..Len(wal) /\ Len(wal) \in Nat
    BY <2>1, RangeFacts
  <2> QED BY <1>1, <2>1, <2>2
<1>4. ASSUME trusted', Benign'
      PROVE  trusted /\ Benign /\ \A b \in Range(buf) : Has(b.t, b.has)
  <2>1. trusted /\ Benign
    BY <1>1, <1>4, StaysBenign
  <2> QED BY <2>1 DEF Ready
<1>5. CASE Halt /\ slot' = slot /\ \E b \in Range(buf) : ~Has(b.t, b.has)
  <2>1. mode' = "halted" /\ UNCHANGED <<slot, wm, cur, pos, buf>>
    BY <1>5 DEF Halt, durable, stream
  <2>2. ~(trusted' /\ Benign')
    BY <1>4, <1>5
  <2>3. Passed'
    BY <1>2, <2>1, PassedFrame
  <2> QED BY <2>1, <2>2, <2>3 DEF Listed, Ready
<1>6. CASE /\ local' = [t \in DOMAIN local |-> [local[t] EXCEPT !.rows =
                          @ \cup {[tx |-> cur + 1, has |-> b.has] : b \in {x \in Range(buf) : x.t = t}}]]
           /\ IF buf = <<>> THEN wm' = wm /\ slot' \in {slot, cur + 1}
              ELSE wm' = cur + 1 /\ slot' = slot
           /\ cur' = cur + 1 /\ pos' = 0 /\ buf' = <<>>
           /\ sent' = IF Tx.op = "insert" THEN sent ELSE sent \ {Tx.t}
           /\ UNCHANGED <<stored, expected, rels, work, mode>>
  <2>1. UNCHANGED <<expected, rels, target, mode>> /\ mode' = "stream"
    BY <1>1, <1>6 DEF work
  <2>2. DOMAIN local' = DOMAIN local /\ \A t \in DOMAIN local : local'[t].cols = local[t].cols
    <3>1. \A t \in DOMAIN local : local[t] \in [cols : SUBSET Shape, rows : SUBSET [tx : Int, has : SUBSET Names]]
      BY DEF SchemaInv, SchemaTypes
    <3> DEFINE new(t) == {[tx |-> cur + 1, has |-> b.has] : b \in {x \in Range(buf) : x.t = t}}
    <3>2. local' = [t \in DOMAIN local |-> [local[t] EXCEPT !.rows = @ \cup new(t)]]
      BY <1>6
    <3> HIDE DEF new
    <3> QED BY <3>1, <3>2
  <2>3. Passed'
    <3>1. ASSUME buf = <<>>
          PROVE  RowsOf(cur + 1) = {}
      <4>1. \A p \in 1..pos : Tx.msgs[p] = Signal
        BY <1>1, <3>1, FewFacts DEF SchemaInv, Buffered
      <4>2. DOMAIN Tx.msgs = 1..pos
        <5>1. wal[cur + 1].msgs \in Seq(Row1 \cup {Signal})
          BY <1>3, LogFacts DEF SchemaInv
        <5>2. DOMAIN wal[cur + 1].msgs = 1..Len(wal[cur + 1].msgs)
          BY <5>1, RangeFacts
        <5> QED BY <1>1, <1>2, <5>2
      <4> QED BY <1>2, <4>1, <4>2 DEF RowsOf, Range
    <3>2. \A i \in (MaxOf(slot, wm) + 1)..cur : RowsOf(i) = {}
      BY DEF Passed
    <3>3. ASSUME NEW i \in (MaxOf(slot', wm') + 1)..(cur + 1)
          PROVE  RowsOf(i) = {}
      <4>1. CASE buf = <<>> /\ slot' = slot /\ wm' = wm
        <5>1. i = cur + 1 \/ i \in (MaxOf(slot, wm) + 1)..cur
          BY <1>3, <3>3, <4>1 DEF MaxOf
        <5> QED BY <3>1, <3>2, <4>1, <5>1
      <4>2. CASE (slot' = cur + 1 /\ wm' = wm) \/ (wm' = cur + 1 /\ slot' = slot)
        BY <1>3, <3>3, <4>2 DEF MaxOf
      <4> QED BY <1>6, <4>1, <4>2
    <3>4. \A i : RowsOf(i)' = RowsOf(i)
      BY <1>2 DEF RowsOf, Range, Signal
    <3>5. MaxOf(slot, wm)' = MaxOf(slot', wm')
      BY DEF MaxOf
    <3> QED BY <1>6, <3>3, <3>4, <3>5 DEF Passed
  <2>4. Listed'
    BY <1>1, <1>2, <1>6, <2>1 DEF Listed
  <2>5. Ready'
    <3> SUFFICES ASSUME trusted', Benign'
                 PROVE  StillReady
      BY <1>2, ReadyStep
    <3>1. /\ Follows(expected, Seen + 1)
          /\ \A t \in TableSet : Due(t, Seen + 1) => Has(t, ColumnNames(expected[t]))
          /\ \A t \in sent \cap DOMAIN rels : Due(t, cur + 1) => ColumnNames(rels[t]) \subseteq ColumnNames(expected[t])
      BY <1>1, <1>4 DEF Ready
    <3>2. Seen' = cur + 1 /\ (Seen + 1 = cur + 2 \/ Seen = cur) /\ (cur + 1) + 1 = cur + 2
      BY <1>3, <1>6, SeenFacts DEF Seen
    <3>3. Seen = cur => Tx.op \in {"insert", "add"}
      <4> SUFFICES ASSUME Tx.op \notin {"insert", "add"}
                   PROVE  Seen # cur
        OBVIOUS
      <4>1. Tx.msgs # <<>> /\ Len(Tx.msgs) = 1
        BY <1>1, <1>4, BenignTx
      <4>2. pos > 0 /\ pos = Len(Tx.msgs) /\ Tx.op # "insert"
        BY <1>1, <4>1
      <4>3. Seen = cur + 1
        BY <4>2 DEF Seen
      <4> QED BY <1>3, <4>3
    <3>4. \A t : wal[cur + 1].t # t \/ wal[cur + 1].op \in {"insert", "add"} =>
            /\ Due(t, cur + 2) => Due(t, cur + 1)
            /\ \A line : Fits(t, cur + 1, line) => Fits(t, cur + 2, line)
      <4> DEFINE i == cur + 1
      <4>1. i \in Nat /\ cur + 2 = i + 1
        BY <1>3
      <4> HIDE DEF i
      <4>2. \A t : wal[i].t # t \/ wal[i].op \in {"insert", "add"} =>
              /\ Due(t, i + 1) => Due(t, i)
              /\ \A line : Fits(t, i, line) => Fits(t, i + 1, line)
        BY <1>3, <4>1, LeaveBehind
      <4> QED BY <4>1, <4>2 DEF i
    <3>5. \A t : /\ Due(t, cur + 2) => Due(t, Seen + 1)
                 /\ \A line : Fits(t, Seen + 1, line) => Fits(t, cur + 2, line)
      <4>1. CASE Seen + 1 = cur + 2
        BY <4>1
      <4>2. CASE Seen = cur
        BY <1>2, <3>3, <3>4, <4>2
      <4> QED BY <3>2, <4>1, <4>2
    <3>6. Follows(expected, cur + 2)
      BY <3>1, <3>5 DEF Follows
    <3>7. ASSUME NEW t \in TableSet, Due(t, cur + 2)
          PROVE  t \in DOMAIN local' /\ ColumnNames(expected[t]) \subseteq {c.n : c \in local'[t].cols}
      BY <2>2, <3>1, <3>5, <3>7 DEF Has, LocalNames
    <3>8. ASSUME NEW t \in sent' \cap DOMAIN rels, Due(t, cur + 2)
          PROVE  ColumnNames(rels[t]) \subseteq ColumnNames(expected[t])
      <4>1. t \in sent /\ (Tx.op = "insert" \/ t # Tx.t)
        BY <1>6
      <4>2. Due(t, cur + 1)
        BY <1>2, <3>4, <3>8, <4>1
      <4> QED BY <3>1, <3>8, <4>1, <4>2
    <3>9. Follows(expected', Seen' + 1)
      BY <2>1, <3>2, <3>6
    <3>10. \A t \in TableSet : Due(t, Seen' + 1) =>
             t \in DOMAIN local' /\ ColumnNames(expected'[t]) \subseteq {c.n : c \in local'[t].cols}
      BY <2>1, <3>2, <3>7
    <3>11. \A b \in Range(buf') : b.t \in DOMAIN local' /\ b.has \subseteq {c.n : c \in local'[b.t].cols}
      BY <1>6, FewFacts
    <3>12. \A t \in sent' \cap DOMAIN rels' : Due(t, cur' + 1) => ColumnNames(rels'[t]) \subseteq ColumnNames(expected'[t])
      BY <1>6, <2>1, <3>2, <3>8
    <3> QED BY <2>1, <3>9, <3>10, <3>11, <3>12 DEF StillReady
  <2> QED BY <2>3, <2>4, <2>5
<1> QED
  <2>1. CASE \E b \in Range(buf) : b.t \notin DOMAIN local \/ ~(b.has \subseteq {c.n : c \in local[b.t].cols})
    <3>1. \E b \in Range(buf) : ~Has(b.t, b.has)
      BY <2>1 DEF Has, LocalNames
    <3> QED BY <1>5, <2>1, <3>1 DEF ReadCommit
  <2>2. CASE ~\E b \in Range(buf) : b.t \notin DOMAIN local \/ ~(b.has \subseteq {c.n : c \in local[b.t].cols})
    BY <1>6, <2>2 DEF ReadCommit
  <2> QED BY <2>1, <2>2

\* A new connection: what is read again is without rows.
LEMMA BeginKeepsReady ==
  ASSUME SchemaInv, LogInv, CatalogInv, ReadyInv, NEW fp, Begin(fp)
  PROVE  ReadyInv'
<1> USE DEF ReadyInv
<1>1. /\ expected' = fp /\ sent' = {} /\ cur' = MaxOf(slot, wm) /\ pos' = 0 /\ buf' = <<>> /\ mode' = "stream"
      /\ trusted' = (trusted /\ fp = stored) /\ ahead' = ahead
      /\ UNCHANGED upstream /\ UNCHANGED <<up, wal, gone, slot, wm, local, stored>>
  BY DEF Begin, upstream, durable
<1> DEFINE x == MaxOf(slot, wm)
<1>2. /\ x \in Nat /\ x <= cur /\ cur \in Nat /\ Len(wal) \in Nat
      /\ Seen \in {cur, cur + 1} /\ Seen <= Len(wal) /\ Seen \in Nat
      /\ Seen' = x
  <2>1. slot \in Nat /\ wm \in Nat /\ cur \in Nat /\ slot <= cur /\ wm <= cur
    BY DEF SchemaInv, SchemaTypes, Positions
  <2>2. Seen' = x
    BY <1>1 DEF Seen
  <2> QED BY <2>1, <2>2, SeenFacts DEF MaxOf
<1>3. x' = x
  BY <1>1 DEF MaxOf
<1>4. Passed'
  <2>1. ~\E i \in (x + 1)..x : TRUE
    BY <1>2
  <2> QED BY <1>1, <1>3, <2>1 DEF Passed
<1>5. Listed'
  BY <1>1 DEF Listed
<1>6. \A k \in (x + 1)..cur : RowsOf(k) = {}
  BY DEF Passed
<1> HIDE DEF x
<1>7. Ready'
  <2> SUFFICES ASSUME trusted', Benign'
               PROVE  StillReady
    BY <1>1, ReadyStep
  <2>1. trusted /\ Benign /\ expected' = expected
    BY <1>1, StaysBenign DEF SchemaInv, Prior
  <2>2. /\ Follows(expected, Seen + 1)
        /\ \A t \in TableSet : Due(t, Seen + 1) => Has(t, ColumnNames(expected[t]))
    BY <2>1 DEF Ready
  <2>3. \A k \in (x + 1)..Seen : RowsOf(k) = {}
    <3>1. Seen = cur + 1 => RowsOf(cur + 1) = {}
      <4> SUFFICES ASSUME Seen = cur + 1
                   PROVE  RowsOf(cur + 1) = {}
        OBVIOUS
      <4>1. Seen # cur
        BY <1>2
      <4>2. pos > 0 /\ Tx.op # "insert"
        BY <4>1 DEF Seen
      <4>3. cur < Len(wal)
        BY <1>2, <4>2 DEF SchemaInv, Positions
      <4> QED BY <2>1, <4>2, <4>3, BenignTx
    <3> TAKE k \in (x + 1)..Seen
    <3>2. k \in (x + 1)..cur \/ (k = cur + 1 /\ Seen = cur + 1)
      BY <1>2
    <3> QED BY <1>6, <3>1, <3>2
  <2>4. \A t : /\ Due(t, x + 1) => Due(t, Seen + 1)
               /\ \A line : Fits(t, Seen + 1, line) => Fits(t, x + 1, line)
    <3> DEFINE j == Seen
    <3>1. j \in Nat /\ x <= j /\ j <= Len(wal) /\ \A k \in (x + 1)..j : RowsOf(k) = {}
      BY <1>2, <2>3
    <3> HIDE DEF j
    <3>2. \A t : /\ Due(t, x + 1) => Due(t, j + 1)
                 /\ \A line : Fits(t, j + 1, line) => Fits(t, x + 1, line)
      BY <1>2, <3>1, GoBack
    <3> QED BY <3>2 DEF j
  <2>5. Follows(expected, x + 1)
    BY <2>2, <2>4 DEF Follows
  <2>6. ASSUME NEW t \in TableSet, Due(t, x + 1)
        PROVE  t \in DOMAIN local' /\ ColumnNames(expected[t]) \subseteq {c.n : c \in local'[t].cols}
    BY <1>1, <2>2, <2>4, <2>6 DEF Has, LocalNames
  <2>7. \A b \in Range(buf') : b.t \in DOMAIN local' /\ b.has \subseteq {c.n : c \in local'[b.t].cols}
    BY <1>1, FewFacts
  <2>8. Follows(expected', Seen' + 1)
    BY <1>2, <2>1, <2>5
  <2>9. \A t \in TableSet : Due(t, Seen' + 1) =>
          t \in DOMAIN local' /\ ColumnNames(expected'[t]) \subseteq {c.n : c \in local'[t].cols}
    BY <1>2, <2>1, <2>6
  <2> QED BY <1>1, <2>7, <2>8, <2>9 DEF StillReady
<1> QED BY <1>4, <1>5, <1>7

\* The fingerprint of the catalog that was read takes over.
LEMMA FinishResyncKeepsReady ==
  ASSUME SchemaInv, LogInv, CatalogInv, ReadyInv, FinishResync
  PROVE  ReadyInv'
<1> USE DEF ReadyInv
<1>1. /\ mode = "resync" /\ mode' = "stream" /\ plan = {} /\ pos' = pos + 1 /\ expected' = target
      /\ UNCHANGED <<upstream, history>>
      /\ UNCHANGED <<up, wal, gone, slot, local, wm, sent, cur, buf, trusted>>
  BY DEF FinishResync, upstream, work, history
<1>2. PlanMode
  BY <1>1 DEF PlanMode
<1>3. DOMAIN rels \subseteq DOMAIN expected /\ \A t \in DOMAIN expected \ DOMAIN target : <<t>> \in gone
  BY <1>1 DEF SchemaInv, Announced
<1>4. \A t : /\ t \in DOMAIN rels' <=> t \in DOMAIN rels /\ t \in DOMAIN target
             /\ t \in DOMAIN rels' => rels'[t] = rels[t]
  <2>1. CASE target = expected
    BY <1>3, <2>1 DEF FinishResync
  <2>2. CASE target # expected
    <3>1. rels' = [t \in DOMAIN rels \cap DOMAIN target |-> rels[t]]
      BY <2>2 DEF FinishResync
    <3> QED BY <3>1
  <2> QED BY <2>1, <2>2
<1>5. Passed'
  <2>1. pos' # 0
    BY <1>1, SeenFacts
  <2> QED BY <1>1, <2>1, PassedFrame
<1>6. Listed'
  <2>1. \A t \in sent \ DOMAIN rels' : <<t>> \in gone /\ t \notin DOMAIN target
    BY <1>1, <1>3, <1>4 DEF Listed
  <2> QED BY <1>1, <2>1 DEF Listed
<1>7. Ready'
  <2> SUFFICES ASSUME trusted', Benign'
               PROVE  StillReady
    BY <1>1, ReadyStep
  <2>1. trusted /\ Benign
    BY <1>1, StaysBenign
  <2>2. pos = 0 /\ Seen = cur /\ Len(Tx.msgs) = 1 /\ Tx.op # "insert" /\ cur \in Nat
    BY <1>1, <1>2, <2>1, PlanStart, SeenFacts
  <2>3. Seen' = cur + 1 /\ (cur + 1) + 1 = cur + 2
    <3>1. Tx' = Tx
      BY <1>1 DEF Tx
    <3> QED BY <1>1, <2>2, <3>1 DEF Seen
  <2>4. /\ \A t \in TableSet : Due(t, cur + 1) => t \in DOMAIN target /\ Additive(expected[t], target[t])
        /\ Follows(target, cur + 2)
        /\ \A b \in Range(buf) : Has(b.t, b.has)
        /\ \A t \in sent \cap DOMAIN rels : Due(t, cur + 1) => ColumnNames(rels[t]) \subseteq ColumnNames(expected[t])
    BY <1>1, <1>2, <2>1 DEF Ready
  <2>5. ASSUME NEW t \in TableSet, Due(t, cur + 2)
        PROVE  Has(t, ColumnNames(target[t]))
    <3>1. t \in DOMAIN target
      BY <2>4, <2>5 DEF Follows
    <3>2. CASE t \notin DOMAIN expected
      BY <1>1, <1>2, <3>1, <3>2 DEF CatalogInv, Arriving
    <3>3. CASE t \in DOMAIN expected
      <4>1. \A n \in ColumnNames(target[t]) \ ColumnNames(expected[t]) : Has(t, {n})
        BY <1>1, <1>2, <3>1, <3>3 DEF CatalogInv, Arriving
      <4>2. Has(t, ColumnNames(target[t]) \cap ColumnNames(expected[t]))
        BY <1>1, <2>1, <3>1, <3>3 DEF CatalogInv, Base, Both
      <4> QED BY <4>1, <4>2 DEF Has
    <3> QED BY <3>2, <3>3
  <2>6. ASSUME NEW t \in sent \cap DOMAIN rels', Due(t, cur + 1)
        PROVE  ColumnNames(rels'[t]) \subseteq ColumnNames(target[t])
    <3>1. t \in sent \cap DOMAIN rels /\ t \in DOMAIN expected /\ t \in TableSet /\ rels'[t] = rels[t]
      BY <1>3, <1>4, <2>6 DEF SchemaInv, SchemaTypes
    <3>2. t \in DOMAIN target /\ Additive(expected[t], target[t])
      BY <2>4, <2>6, <3>1
    <3>3. expected[t] \in Seq(Shape) /\ target[t] \in Seq(Shape)
      BY <3>1, <3>2 DEF SchemaInv, SchemaTypes, Prints
    <3>4. ColumnNames(expected[t]) \subseteq ColumnNames(target[t])
      BY <3>2, <3>3, AdditiveFacts
    <3> QED BY <2>4, <2>6, <3>1, <3>4
  <2>7. Follows(expected', Seen' + 1)
    BY <1>1, <2>3, <2>4
  <2>8. \A t \in TableSet : Due(t, Seen' + 1) =>
          t \in DOMAIN local' /\ ColumnNames(expected'[t]) \subseteq {c.n : c \in local'[t].cols}
    BY <1>1, <2>3, <2>5 DEF Has, LocalNames
  <2>9. \A b \in Range(buf') : b.t \in DOMAIN local' /\ b.has \subseteq {c.n : c \in local'[b.t].cols}
    BY <1>1, <2>4 DEF Has, LocalNames
  <2>10. \A t \in sent' \cap DOMAIN rels' : Due(t, cur' + 1) => ColumnNames(rels'[t]) \subseteq ColumnNames(expected'[t])
    BY <1>1, <2>6
  <2> QED BY <1>1, <2>7, <2>8, <2>9, <2>10 DEF StillReady
<1> QED BY <1>5, <1>6, <1>7

\* A statement of a plan runs, and takes nothing that the stream needs.
LEMMA RunStatementKeepsReady ==
  ASSUME SchemaInv, LogInv, CatalogInv, ReadyInv, RunStatement
  PROVE  ReadyInv'
<1> USE DEF ReadyInv
<1>1. PICK s \in plan :
        IF Fails(s)
        THEN Halt /\ blocked' = Refused(s)
        ELSE Effect(s) /\ plan' = plan \ {s} /\ UNCHANGED <<stored, wm, stream, target, mode>>
  BY DEF RunStatement
<1>2. PlanMode /\ UNCHANGED <<upstream, slot, started, history>>
  BY DEF RunStatement, PlanMode
<1>3. UNCHANGED upstream /\ UNCHANGED <<up, wal, gone, slot, wm, expected, rels, sent, cur, pos, buf>>
  BY <1>1, <1>2 DEF upstream, Halt, durable, stream
<1>4. Tx' = Tx /\ Msg' = Msg /\ Seen' = Seen
  BY <1>3 DEF Tx, Msg, Seen
<1>5. Purpose(s)
  BY <1>2 DEF CatalogInv, Planned
<1>6. Passed'
  BY <1>3, PassedFrame
<1>7. ASSUME trusted', Benign'
      PROVE  /\ trusted /\ Benign /\ buf = <<>> /\ Seen = cur
             /\ s.op # "error" /\ (s.op \in {"add", "drop"} => s.t \in DOMAIN local)
  <2>1. trusted /\ Benign
    BY <1>2, <1>7, StaysBenign
  <2>2. buf = <<>> /\ Seen = cur /\ cur < Len(wal) /\ pos < Len(Tx.msgs)
    <3>1. pos < Len(Tx.msgs)
      BY <1>2 DEF SchemaInv, Announced, PlanMode
    <3> QED BY <1>2, <2>1, <3>1, PlanStart
  <2>3. s.op # "error"
    <3> SUFFICES ASSUME s.op = "error"
                 PROVE  FALSE
      OBVIOUS
    <3> DEFINE t == s.t
    <3>1. /\ t \in DOMAIN expected /\ t \in DOMAIN target
          /\ s.c \in Range(expected[t]) \ Range(target[t]) /\ s.c.n \in ColumnNames(target[t])
      BY <1>5 DEF Purpose, Both
    <3>2. PICK d \in Range(target[t]) : d.n = s.c.n
      BY <3>1 DEF ColumnNames
    <3>3. Plain(expected[t]) /\ Plain(target[t])
      BY <2>1, <3>1, BenignTx DEF CatalogInv, Catalogs, Lines, Sound
    <3>4. d.ty = 1 /\ s.c.ty = 1
      BY <3>1, <3>2, <3>3 DEF Plain, Range
    <3>5. expected[t] \in Seq(Shape) /\ target[t] \in Seq(Shape)
      BY <3>1 DEF SchemaInv, SchemaTypes, Prints
    <3>6. d \in Shape /\ s.c \in Shape
      BY <3>1, <3>2, <3>5, RangeFacts
    <3>7. d = s.c
      BY <3>2, <3>4, <3>6 DEF Shape
    <3> QED BY <3>1, <3>2, <3>7
  <2>4. ASSUME s.op \in {"add", "drop"}
        PROVE  s.t \in DOMAIN local
    <3>1. s.t \in Both
      BY <1>5, <2>4 DEF Purpose
    <3>2. CASE mode = "resync"
      BY <2>1, <3>1, <3>2 DEF CatalogInv, Base, Has
    <3>3. CASE mode = "relation"
      <4>1. s.op = "add" /\ target = [expected EXCEPT ![Msg.t] = FingerprintLine(Msg.cols)]
        BY <3>3 DEF CatalogInv, Planned
      <4>2. s.t = Msg.t
        <5>1. s.c \in Range(target[s.t]) /\ s.c.n \notin ColumnNames(expected[s.t])
          BY <1>5, <4>1 DEF Purpose
        <5>2. s.t # Msg.t => target[s.t] = expected[s.t]
          BY <3>1, <4>1 DEF Both
        <5> QED BY <5>1, <5>2 DEF ColumnNames
      <4>3. Msg # Signal
        BY <3>3 DEF SchemaInv, Announced
      <4>4. Due(s.t, cur + 1)
        <5> DEFINE i == cur + 1
        <5>1. i \in DOMAIN wal /\ Msg \in RowsOf(i)
          BY <2>2, <4>3, MsgRow DEF SchemaInv
        <5>2. i \in i..Len(wal) /\ \A t : OnlyAdds(t, i, i - 1)
          BY <2>2, SeenFacts DEF OnlyAdds
        <5> HIDE DEF i
        <5>3. Due(Msg.t, i)
          BY <5>1, <5>2 DEF Due
        <5> QED BY <4>2, <5>3 DEF i
      <4>5. s.t \in TableSet
        BY <1>5 DEF Purpose
      <4> QED BY <2>1, <2>2, <4>4, <4>5 DEF Ready, Has
    <3> QED BY <1>2, <3>2, <3>3 DEF PlanMode
  <2> QED BY <2>1, <2>2, <2>3, <2>4
<1>8. CASE Fails(s)
  <2>1. mode' = "halted" /\ local' = local /\ blocked' = Refused(s)
    BY <1>1, <1>8 DEF Halt, durable
  <2>2. Listed'
    BY <2>1 DEF Listed
  <2>3. Ready'
    <3> SUFFICES ASSUME trusted', Benign'
                 PROVE  StillReady
      BY <1>3, ReadyStep
    <3>1. trusted /\ Benign /\ buf = <<>> /\ Refused(s)
      BY <1>7, <1>8 DEF Fails
    <3>2. mode = "resync"
      <4>1. s.op = "drop"
        BY <3>1 DEF Refused
      <4> QED BY <1>2, <4>1 DEF CatalogInv, Planned, PlanMode
    <3>3. Follows(expected', Seen' + 1)
      BY <1>3, <1>4, <3>1 DEF Ready
    <3>4. \A t \in TableSet : Due(t, Seen' + 1) =>
            t \in DOMAIN local' /\ ColumnNames(expected'[t]) \subseteq {c.n : c \in local'[t].cols}
      BY <1>3, <1>4, <2>1, <3>1 DEF Ready, Has, LocalNames
    <3>5. \A b \in Range(buf') : b.t \in DOMAIN local' /\ b.has \subseteq {c.n : c \in local'[b.t].cols}
      BY <1>3, <3>1, FewFacts
    <3>6. \A t \in sent' \cap DOMAIN rels' : Due(t, cur' + 1) =>
            ColumnNames(rels'[t]) \subseteq ColumnNames(expected'[t])
      BY <1>3, <3>1, <3>2 DEF Ready
    <3> QED BY <2>1, <3>1, <3>3, <3>4, <3>5, <3>6 DEF StillReady
  <2> QED BY <1>6, <2>2, <2>3
<1>9. CASE ~Fails(s)
  <2>1. Effect(s) /\ UNCHANGED <<target, mode>>
    BY <1>1, <1>9
  <2>2. Listed'
    BY <1>3, <1>4, <2>1 DEF Listed
  <2>3. Ready'
    <3> SUFFICES ASSUME trusted', Benign'
                 PROVE  StillReady
      BY <1>3, ReadyStep
    <3>1. trusted /\ Benign /\ buf = <<>> /\ Seen = cur
      BY <1>7
    <3>2. /\ Follows(expected, cur + 1)
          /\ \A t \in TableSet : Due(t, cur + 1) => Has(t, ColumnNames(expected[t]))
          /\ \A t \in TableSet : Due(t, cur + 1) => t \in DOMAIN target /\ Additive(expected[t], target[t])
          /\ mode = "resync" => Follows(target, cur + 2)
          /\ \A t \in sent \cap DOMAIN rels :
               Due(t, cur + 1) /\ ~(mode = "relation" /\ t = Msg.t) => ColumnNames(rels[t]) \subseteq ColumnNames(expected[t])
      BY <1>2, <3>1 DEF Ready
    <3>3. s.op \in {"add", "drop", "droptable", "create"}
      BY <1>5, <1>9 DEF Purpose, Fails
    <3>4. /\ \A u : u # s.t =>
               (u \in DOMAIN local' <=> u \in DOMAIN local) /\ (u \in DOMAIN local => local'[u].cols = local[u].cols)
          /\ s.op = "add" => s.t \in DOMAIN local' /\ local[s.t].cols \subseteq local'[s.t].cols
      <4>1. SchemaTypes /\ (s.op \in {"add", "drop"} => s.t \in DOMAIN local)
        BY <1>9 DEF SchemaInv, Fails
      <4>2. /\ \A u : u # s.t =>
                 (u \in DOMAIN local' <=> u \in DOMAIN local) /\ (u \in DOMAIN local => local'[u].cols = local[u].cols)
            /\ s.op = "add" => s.t \in DOMAIN local' /\
                 local'[s.t].cols = IF \E c \in local[s.t].cols : c.n = s.c.n THEN local[s.t].cols
                                    ELSE local[s.t].cols \cup {s.c}
            /\ s.op = "drop" => s.t \in DOMAIN local' /\ local'[s.t].cols = {c \in local[s.t].cols : c.n # s.c.n}
            /\ s.op = "droptable" => s.t \notin DOMAIN local'
            /\ s.op = "create" => s.t \in DOMAIN local' /\ local'[s.t].cols = Range(target[s.t])
        BY <2>1, <3>3, <4>1, StatementFacts
      <4> QED BY <4>2
    <3>5. ASSUME NEW t \in TableSet, Due(t, cur + 1)
          PROVE  t \in DOMAIN local' /\ ColumnNames(expected[t]) \subseteq {c.n : c \in local'[t].cols}
      <4>1. Has(t, ColumnNames(expected[t]))
        BY <3>2, <3>5
      <4>2. CASE t # s.t
        BY <3>4, <4>1, <4>2 DEF Has, LocalNames
      <4>3. CASE t = s.t
        <5>1. t \in DOMAIN expected /\ t \in DOMAIN target /\ Additive(expected[t], target[t])
          BY <3>2, <3>5 DEF Follows
        <5>2. expected[t] \in Seq(Shape) /\ target[t] \in Seq(Shape)
          BY <5>1 DEF SchemaInv, SchemaTypes, Prints
        <5>3. ColumnNames(expected[t]) \subseteq ColumnNames(target[t])
          BY <5>1, <5>2, AdditiveFacts
        <5>4. s.op \notin {"droptable", "create"}
          BY <1>5, <4>3, <5>1 DEF Purpose, Both
        <5>5. s.op # "drop"
          BY <1>5, <4>3, <5>3 DEF Purpose, ColumnNames
        <5>6. s.op = "add"
          BY <3>3, <5>4, <5>5
        <5> QED BY <3>4, <4>1, <4>3, <5>6 DEF Has, LocalNames
      <4> QED BY <4>2, <4>3
    <3>6. Follows(expected', Seen' + 1)
      BY <1>3, <1>4, <3>1, <3>2
    <3>7. \A t \in TableSet : Due(t, Seen' + 1) =>
            t \in DOMAIN local' /\ ColumnNames(expected'[t]) \subseteq {c.n : c \in local'[t].cols}
      BY <1>3, <1>4, <3>1, <3>5
    <3>8. \A b \in Range(buf') : b.t \in DOMAIN local' /\ b.has \subseteq {c.n : c \in local'[b.t].cols}
      BY <1>3, <3>1, FewFacts
    <3>9. /\ \A t \in TableSet : Due(t, cur' + 1) => t \in DOMAIN target' /\ Additive(expected'[t], target'[t])
          /\ mode' = "resync" => Follows(target', cur' + 2)
          /\ mode' # "halted"
      BY <1>2, <1>3, <2>1, <3>2 DEF PlanMode
    <3>10. \A t \in sent' \cap DOMAIN rels' : Due(t, cur' + 1) /\ ~(mode' = "relation" /\ t = Msg'.t) =>
             ColumnNames(rels'[t]) \subseteq ColumnNames(expected'[t])
      BY <1>3, <1>4, <2>1, <3>2
    <3> QED BY <3>6, <3>7, <3>8, <3>9, <3>10 DEF StillReady
  <2> QED BY <1>6, <2>2, <2>3
<1> QED BY <1>8, <1>9

\* After the first run the stream is at its beginning and the catalogs agree.
LEMMA InitReady ==
  ASSUME Init
  PROVE  ReadyInv
<1>1. SchemaInv /\ LogInv
  BY InitSchema, InitCatalog
<1>2. /\ wal = <<>> /\ slot = 0 /\ wm = 0 /\ cur = 0 /\ pos = 0 /\ buf = <<>> /\ sent = {} /\ mode = "stream"
      /\ expected = Fingerprint(up) /\ local = [t \in DOMAIN up |-> Created(expected[t])]
  BY DEF Init
<1>3. Seen = 0 /\ Len(wal) = 0
  BY <1>2 DEF Seen
<1>4. Passed
  BY <1>2 DEF Passed, MaxOf
<1>5. Listed
  BY <1>2 DEF Listed
<1>6. DOMAIN expected = DOMAIN up /\ \A t \in DOMAIN up : expected[t] = FingerprintLine(up[t].cols)
  BY <1>1, <1>2, CatalogFacts DEF SchemaInv
<1>7. \A t : /\ Due(t, Seen + 1) => t \in DOMAIN up
             /\ t \in DOMAIN up => Fits(t, Seen + 1, FingerprintLine(up[t].cols))
  <2>1. \A k \in 1..Len(wal) : wal[k].op = "insert"
    BY <1>3
  <2>2. \A t : /\ Due(t, 1) => t \in DOMAIN up
               /\ t \in DOMAIN up => Fits(t, 1, FingerprintLine(up[t].cols))
    BY <1>1, <2>1, LevelFacts
  <2> QED BY <1>3, <2>2
<1>8. Follows(expected, Seen + 1)
  BY <1>6, <1>7 DEF Follows
<1>9. \A t \in TableSet : Due(t, Seen + 1) => Has(t, ColumnNames(expected[t]))
  BY <1>2, <1>7 DEF Has, LocalNames, ColumnNames, Created
<1>10. \A b \in Range(buf) : Has(b.t, b.has)
  BY <1>2, FewFacts
<1>11. Ready
  BY <1>2, <1>8, <1>9, <1>10 DEF Ready, PlanMode
<1> QED BY <1>4, <1>5, <1>11 DEF ReadyInv

LEMMA StutterReady ==
  ASSUME SchemaInv, ReadyInv, UNCHANGED <<replica, blocked>>
  PROVE  ReadyInv'
<1> USE DEF ReadyInv
<1>1. UNCHANGED upstream /\ UNCHANGED <<up, wal, gone, slot, wm, local, expected, rels, sent, cur, pos, buf, target,
                                        mode, trusted, ahead, upstream, history>>
  BY DEF replica, upstream, durable, stream, work, history
<1>2. Tx' = Tx /\ Msg' = Msg /\ Seen' = Seen
  BY <1>1 DEF Tx, Msg, Seen
<1>3. Passed'
  BY <1>1, PassedFrame
<1>4. Listed'
  BY <1>1, <1>2 DEF Listed
<1>5. Ready'
  <2> SUFFICES ASSUME trusted', Benign'
               PROVE  StillReady
    BY <1>1, ReadyStep
  <2>1. trusted /\ Benign
    BY <1>1, StaysBenign
  <2> QED BY <1>1, <1>2, <2>1 DEF Ready, StillReady, Has, LocalNames, PlanMode
<1> QED BY <1>3, <1>4, <1>5

\* As long as the changes are of the kind the replica can follow and no resync reads ahead, the
\* fingerprint and the local tables serve whatever the stream still brings, before, within and
\* after every plan, and after every lost connection and restart.
THEOREM ReadyInvariance == Spec => []ReadyInv
<1>1. Init => ReadyInv
  BY InitReady
<1>2. SchemaInv /\ LogInv /\ CatalogInv /\ ReadyInv /\ [Next]_vars => ReadyInv'
  <2> SUFFICES ASSUME SchemaInv, LogInv, CatalogInv, ReadyInv, [Next]_vars
               PROVE  ReadyInv'
    OBVIOUS
  <2>1. CASE Upstream
    BY <2>1, UpstreamKeepsReady
  <2>2. CASE Read
    BY <2>2, ReadRelationKeepsReady, ReadRowKeepsReady, ReadSignalKeepsReady, ReadCommitKeepsReady DEF Read
  <2>3. CASE Local
    BY <2>3, RunStatementKeepsReady, FinishRelationKeepsReady, FinishResyncKeepsReady DEF Local
  <2>4. CASE Reconnect \/ Restart
    <3>1. PICK fp : Begin(fp)
      BY <2>4 DEF Reconnect, Restart
    <3> QED BY <3>1, BeginKeepsReady
  <2>5. CASE Depend \/ Undepend \/ UNCHANGED vars
    <3>1. UNCHANGED <<replica, blocked>>
      BY <2>5 DEF Depend, Undepend, vars, clients
    <3> QED BY <3>1, StutterReady
  <2> QED BY <2>1, <2>2, <2>3, <2>4, <2>5 DEF Next
<1> QED BY <1>1, <1>2, SchemaInvariance, CatalogInvariance, PTL DEF Spec

\* The replica halts over the schema only for what it cannot follow: a type, an unkeyed table, an
\* empty publication, rows and DDL in one transaction, DDL other than ADD COLUMN that nobody
\* signalled; for a column that goes while something local depends on it; or when the catalog
\* ran ahead of the stream.
THEOREM HaltsWithReason == Spec => []HaltJustified
<1>1. ReadyInv => HaltJustified
  BY DEF ReadyInv, Ready, Benign, HaltJustified
<1> QED BY <1>1, ReadyInvariance, PTL

\* A stream of signalled changes that nothing runs ahead of halts the replica only for a column
\* that something local depends on, or after a connection that began with an older fingerprint
\* than the stored one, as run does when it calls stream_loop again.
THEOREM HaltsOnlyWhenStale == Spec => [](trusted /\ ~blocked => FollowsDdl)
<1>1. HaltJustified => (trusted /\ ~blocked => FollowsDdl)
  BY DEF HaltJustified, FollowsDdl
<1> QED BY <1>1, HaltsWithReason, PTL

=============================================================================
