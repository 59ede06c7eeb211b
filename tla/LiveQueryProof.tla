--------------------------- MODULE LiveQueryProof ---------------------------
(***************************************************************************)
(* Proofs about LiveQuery, for every set of queries and any number of      *)
(* writes, failed calls and lost notify connections.                       *)
(*                                                                         *)
(* Three arguments, one per part of the code.  Answers have no name: the   *)
(* channel of commands is in step with the list of senders, and whoever    *)
(* awaits an answer is the last of them (Stream).  The reference count is  *)
(* never below the number of calls that hold it (Counted), so the trigger  *)
(* outlives them unless set-up and tear-down crossed (Guarded).  A         *)
(* refresher that shows an old table has something ahead of it (Ahead).    *)
(***************************************************************************)
EXTENDS LiveQuery, SequenceTheorems, FiniteSetTheorems, TLAPS

Places == {"new", "typed", "formatted", "begun", "counted", "made", "committed", "listening", "listened",
           "showing", "live", "leaving", "unlistening", "unlistened", "dropping", "dropped", "gone", "failed"}

Versions == Nat \cup {Foreign}

LiveTypes ==
  /\ backend \in Backends
  /\ lock \in Queries \cup {NoQuery} /\ ddl \in Queries \cup {NoQuery}
  /\ pc \in [Queries -> Places] /\ fresh \in [Queries -> BOOLEAN]
  /\ count \in Nat /\ trigger \in BOOLEAN
  /\ listeners \subseteq Queries /\ listening \in BOOLEAN /\ conn \in {"up", "down"}
  /\ wire \in Seq({"listen", "unlisten"}) /\ pending \in Seq(Queries)
  /\ table \in Nat /\ notes \in Nat
  /\ wake \in [Queries -> BOOLEAN] /\ done \in [Queries -> BOOLEAN]
  /\ refresher \in [Queries -> {"none", "idle", "query", "parsed", "callback", "gone"}]
  /\ got \in [Queries -> Versions] /\ shown \in [Queries -> Versions] /\ late \in [Queries -> Nat]
  /\ crossed \in BOOLEAN /\ unheard \in BOOLEAN

\* The command and sender lists are in step; who awaits an answer is the last sender, all
\* before it have gone.
InStep ==
  /\ conn = "up" => Len(wire) = Len(pending)
  /\ conn # "up" => wire = <<>> /\ ~listening
  /\ \A i \in 1..Len(pending) :
       pc[pending[i]] = "failed" \/ (pc[pending[i]] \in Awaiting /\ i = Len(pending))
  /\ \A q \in Queries : pc[q] \in Awaiting =>
       /\ lock = q /\ conn = "up" /\ pending # <<>> /\ pending[Len(pending)] = q
       /\ wire[Len(wire)] = IF pc[q] = "listening" THEN "listen" ELSE "unlisten"

\* A callback is registered from listen to unlisten, or was left behind by a failed call.
Registered ==
  /\ \A q \in Queries : pc[q] \in {"listening", "listened", "showing", "live", "leaving"} => q \in listeners
  /\ \A q \in listeners : pc[q] \in {"listening", "listened", "showing", "live", "leaving", "failed"}

\* Behind a LISTEN that was answered there is no UNLISTEN while its callback is there; when
\* no callback is left the session does not listen, or will not once all is answered.
Lasting ==
  /\ conn = "up" => \A q \in Queries : pc[q] \in {"listened", "showing", "live"} =>
       listening /\ \A i \in 1..Len(wire) : wire[i] = "listen"
  /\ conn = "up" /\ listeners = {} =>
       IF wire = <<>> THEN ~listening ELSE wire[Len(wire)] = "unlisten"

Stream == InStep /\ Registered /\ Lasting

\* Calls between raising and lowering the count.
Holding == {q \in Queries : pc[q] \in {"counted", "made", "committed", "listening", "listened",
                                       "showing", "live", "leaving", "unlistening", "unlistened"}}
Spoilt == \E q \in Queries : pc[q] = "failed"

\* A failed call keeps its share of the count.
Counted ==
  /\ IsFiniteSet(Holding) /\ Cardinality(Holding) <= count
  /\ ~Spoilt => count = Cardinality(Holding)

\* Calls that rely on the trigger.
Relying == {q \in Holding : pc[q] \notin {"counted", "made"} \/ (pc[q] = "counted" /\ ~fresh[q])}

Guarded ==
  /\ \A q \in Queries : pc[q] = "made" => ddl = q
  /\ ~crossed /\ Relying # {} => trigger
  /\ ~crossed /\ Holding # {} => \A q \in Queries : pc[q] # "dropping"
  /\ ~Spoilt /\ trigger => \E q \in Queries : q \in Holding \/ pc[q] = "dropping"

\* A refresher calls back at most once more after unsubscribe.
LateOf(q) ==
  /\ late[q] <= 1
  /\ ~done[q] \/ refresher[q] \in {"query", "parsed", "callback"} => late[q] = 0

Leaving == {"leaving", "unlistening", "unlistened", "dropping", "dropped", "gone", "failed"}

\* A live query that shows an old table of its own has a notification, a wake-up or a read ahead.
AheadOf(q) ==
  /\ done[q] => pc[q] \in Leaving
  /\ ~Excused /\ pc[q] = "live" =>
       \/ notes > 0 \/ wake[q] \/ refresher[q] \in {"query", "parsed", "gone"}
       \/ refresher[q] = "callback" /\ got[q] \in {table, Foreign}
       \/ refresher[q] = "idle" /\ shown[q] \in {table, Foreign}

LInv ==
  /\ LiveTypes /\ Stream /\ Counted /\ Guarded
  /\ \A q \in Queries : LateOf(q) /\ AheadOf(q)

-----------------------------------------------------------------------------
(* Types *)

\* A command put into, or taken from, a list leaves a list of the same kind.
LEMMA ListTypes ==
  ASSUME LiveTypes
  PROVE  /\ \A q \in Queries : Append(pending, q) \in Seq(Queries)
         /\ \A c \in {"listen", "unlisten"} : Append(wire, c) \in Seq({"listen", "unlisten"})
         /\ pending # <<>> => Tail(pending) \in Seq(Queries) /\ Head(pending) \in Queries
         /\ wire # <<>> => Tail(wire) \in Seq({"listen", "unlisten"})
<1>1. pending \in Seq(Queries) /\ wire \in Seq({"listen", "unlisten"})
  BY DEF LiveTypes
<1> QED BY <1>1, AppendProperties, HeadTailProperties

\* A read returns a version of the table, or foreign rows.
LEMMA RowTypes ==
  ASSUME LiveTypes, NEW q \in Queries
  PROVE  Rows(q) \subseteq Versions /\ Rows(q) \subseteq {table, Foreign}
BY DEF Rows, LiveTypes, Versions

\* Every action keeps the types.
LEMMA TypesStep ==
  ASSUME LiveTypes, Stream, [Next]_vars
  PROVE  LiveTypes'
<1> USE DEF LiveTypes, Places, Versions, vars, callVars, triggerVars, notifyVars, dataVars, threadVars, history,
            Goto
<1>1. ASSUME NEW q \in Queries, FormatLiterals(q) \/ QueryWithTypes(q) \/ Begin(q) PROVE LiveTypes'
  <2>1. CASE FormatLiterals(q)
    BY <2>1 DEF FormatLiterals
  <2>2. CASE QueryWithTypes(q)
    BY <2>2 DEF QueryWithTypes
  <2>3. CASE Begin(q)
    BY <2>3 DEF Begin
  <2> QED BY <1>1, <2>1, <2>2, <2>3
<1>a. ASSUME NEW q \in Queries, Raise(q) PROVE LiveTypes'
  <2>1. crossed' \in BOOLEAN
    BY <1>a DEF Raise
  <2>2. fresh' \in [Queries -> BOOLEAN]
    BY <1>a DEF Raise
  <2> QED BY <1>a, <2>1, <2>2, SMTT(30) DEF Raise
<1>b. ASSUME NEW q \in Queries, MakeTrigger(q) PROVE LiveTypes'
  BY <1>b DEF MakeTrigger
<1>c. ASSUME NEW q \in Queries, CommitView(q) PROVE LiveTypes'
  <2>1. trigger' \in BOOLEAN
    BY <1>c DEF CommitView
  <2> QED BY <1>c, <2>1 DEF CommitView
<1>d. ASSUME NEW q \in Queries, ParseShow(q) \/ ShowRows(q) PROVE LiveTypes'
  <2>1. CASE ParseShow(q)
    BY <2>1 DEF ParseShow
  <2>2. CASE ShowRows(q)
    <3>1. PICK v \in Versions : shown' = shown \/ shown' = [shown EXCEPT ![q] = v]
      <4>1. Rows(q) \subseteq Versions /\ 0 \in Versions
        BY RowTypes DEF Versions
      <4> QED BY <2>2, <4>1 DEF ShowRows
    <3>2. shown' \in [Queries -> Versions]
      BY <3>1
    <3> QED BY <2>2, <3>2 DEF ShowRows
  <2> QED BY <1>d, <2>1, <2>2
<1>2. ASSUME NEW q \in Queries, Listen(q) \/ Unlisten(q) PROVE LiveTypes'
  <2>1. /\ pending' = pending \/ pending' = Append(pending, q)
        /\ wire' = wire \/ \E c \in {"listen", "unlisten"} : wire' = Append(wire, c)
        /\ lock' = lock \/ lock' = q
        /\ \E a \in Places : pc' = [pc EXCEPT ![q] = a]
    BY <1>2 DEF Listen, Unlisten, Command
  <2>2. pending' \in Seq(Queries) /\ wire' \in Seq({"listen", "unlisten"})
    <3>1. pending \in Seq(Queries) /\ Append(pending, q) \in Seq(Queries)
      BY ListTypes
    <3>2. /\ wire \in Seq({"listen", "unlisten"})
          /\ \A c \in {"listen", "unlisten"} : Append(wire, c) \in Seq({"listen", "unlisten"})
      BY ListTypes
    <3>3. wire' \in Seq({"listen", "unlisten"})
      BY <2>1, <3>2
    <3> QED BY <2>1, <3>1, <3>3
  <2>3. lock' \in Queries \cup {NoQuery} /\ pc' \in [Queries -> Places]
    BY <2>1
  <2>4. /\ UNCHANGED <<backend, fresh, triggerVars, listening, conn, dataVars, threadVars, history>>
        /\ listeners' \subseteq Queries
    BY <1>2 DEF Listen, Unlisten
  <2> QED BY <2>2, <2>3, <2>4
<1>e. ASSUME NEW q \in Queries, Unsubscribe(q) PROVE LiveTypes'
  BY <1>e DEF Unsubscribe, Forget
<1>f. ASSUME NEW q \in Queries, Lower(q) PROVE LiveTypes'
  BY <1>f DEF Lower
<1>3. ASSUME NEW q \in Queries, DropTrigger(q) \/ DropView(q) \/ Fail(q) PROVE LiveTypes'
  <2>1. CASE DropTrigger(q)
    BY <2>1 DEF DropTrigger
  <2>2. CASE DropView(q)
    BY <2>2 DEF DropView
  <2>3. CASE Fail(q)
    BY <2>3 DEF Fail
  <2> QED BY <1>3, <2>1, <2>2, <2>3
<1>4. ASSUME NEW q \in Queries, Refresh(q) \/ Take(q) PROVE LiveTypes'
  BY <1>4 DEF Refresh, Take
<1>j. ASSUME NEW q \in Queries, ParseView(q) PROVE LiveTypes'
  <2>1. PICK r \in {"parsed", "gone"} : refresher' = [refresher EXCEPT ![q] = r]
    BY <1>j DEF ParseView
  <2>2. refresher' \in [Queries -> {"none", "idle", "query", "parsed", "callback", "gone"}]
    BY <2>1
  <2> QED BY <1>j, <2>2 DEF ParseView
<1>i. ASSUME NEW q \in Queries, ReadView(q) PROVE LiveTypes'
  <2>1. PICK v \in Versions : got' = got \/ got' = [got EXCEPT ![q] = v]
    <3>1. \A v \in Rows(q) : (IF done[q] THEN 0 ELSE v) \in Versions
      BY RowTypes DEF Versions
    <3>2. 0 \in Versions
      BY DEF Versions
    <3> QED BY <1>i, <3>1, <3>2 DEF ReadView
  <2>2. got' \in [Queries -> Versions]
    BY <2>1
  <2>3. PICK r \in {"callback", "gone"} : refresher' = [refresher EXCEPT ![q] = r]
    BY <1>i DEF ReadView
  <2>4. refresher' \in [Queries -> {"none", "idle", "query", "parsed", "callback", "gone"}]
    BY <2>3
  <2> QED BY <1>i, <2>2, <2>4 DEF ReadView
<1>g. ASSUME NEW q \in Queries, Callback(q) PROVE LiveTypes'
  BY <1>g, SMTT(30) DEF Callback
<1>5. CASE Answer
  <2>1. pending # <<>>
    BY <1>5 DEF Answer, Stream, InStep
  <2> QED BY <1>5, <2>1, ListTypes DEF Answer, AnswerTo, Answered
<1>6. CASE NotifyLost
  <2>1. wire' \in Seq({"listen", "unlisten"}) /\ pending' \in Seq(Queries)
    BY <1>6 DEF NotifyLost
  <2>2. pc' \in [Queries -> Places] /\ notes' \in Nat
    BY <1>6 DEF NotifyLost
  <2> QED BY <1>6, <2>1, <2>2 DEF NotifyLost
<1>7. CASE Deliver
  <2>1. wake' \in [Queries -> BOOLEAN]
    BY <1>7 DEF Deliver
  <2> QED BY <1>7, <2>1 DEF Deliver
<1>h. CASE Unheard \/ Write
  <2>1. notes' \in Nat /\ table' \in Nat
    BY <1>h DEF Unheard, Write
  <2>2. unheard' \in BOOLEAN
    BY <1>h DEF Unheard, Write
  <2> QED BY <1>h, <2>1, <2>2 DEF Unheard, Write
<1>8. CASE UNCHANGED vars
  BY <1>8
<1> QED BY <1>1, <1>2, <1>3, <1>4, <1>5, <1>6, <1>7, <1>8, <1>a, <1>b, <1>c, <1>d, <1>e, <1>f, <1>g, <1>h, <1>i,
          <1>j
        DEF Next, Calling, Thread

-----------------------------------------------------------------------------
(* LISTEN, UNLISTEN and their answers *)

\* The lists as sequences.
LEMMA ListFacts ==
  ASSUME LiveTypes
  PROVE  /\ Len(wire) \in Nat /\ Len(pending) \in Nat
         /\ wire = <<>> <=> Len(wire) = 0
         /\ pending = <<>> <=> Len(pending) = 0
         /\ \A i \in 1..Len(pending) : pending[i] \in Queries
<1>1. pending \in Seq(Queries) /\ wire \in Seq({"listen", "unlisten"})
  BY DEF LiveTypes
<1> QED BY <1>1, LenProperties, EmptySeq, ElementOfSeq

\* A step of a call that sends nothing and awaits nothing afterwards: it has gone from where
\* it was to where the callback it has, or has not, belongs.
LEMMA StreamFrame ==
  ASSUME LiveTypes, Stream, UNCHANGED <<notifyVars>>, NEW q \in Queries, NEW l \in Places \ Awaiting,
         pc' = [pc EXCEPT ![q] = l], pc[q] # "failed", pc[q] \in Awaiting => l = "failed",
         \A r \in Queries \ {q} : lock = r => lock' = r,
         l \in {"listened", "showing", "live"} => pc[q] \in {"listened", "showing", "live"},
         l = "leaving" => pc[q] = "live",
         pc[q] \in {"listening", "listened", "showing", "live", "leaving"} =>
           l \in {"listened", "showing", "live", "leaving", "failed"}
  PROVE  Stream'
<1>1. UNCHANGED <<listeners, listening, wire, pending, conn>>
  BY DEF notifyVars
<1>2. pc'[q] = l /\ \A r \in Queries \ {q} : pc'[r] = pc[r]
  BY DEF LiveTypes
<1>3. \A i \in 1..Len(pending) : pending[i] \in Queries /\ (pending[i] = q => l = "failed")
  BY ListFacts DEF Stream, InStep
<1>4. InStep'
  BY <1>1, <1>2, <1>3 DEF Stream, InStep
<1>5. Registered'
  BY <1>1, <1>2 DEF Stream, Registered, LiveTypes, Awaiting
<1>6. Lasting'
  <2>1. ASSUME conn = "up", NEW r \in Queries, pc'[r] \in {"listened", "showing", "live"}
        PROVE  listening /\ \A i \in 1..Len(wire) : wire[i] = "listen"
    <3>1. pc[r] \in {"listened", "showing", "live"}
      BY <1>2, <2>1
    <3> QED BY <2>1, <3>1 DEF Stream, Lasting
  <2> QED BY <1>1, <2>1 DEF Stream, Lasting
<1> QED BY <1>4, <1>5, <1>6 DEF Stream

\* q sends c, unless the connection is lost.
LEMMA CommandStep ==
  ASSUME LiveTypes, Stream, NEW q \in Queries, lock = NoQuery, UNCHANGED <<listening, conn>>,
         \/ pc[q] = "committed" /\ listeners' = listeners \cup {q} /\ Command(q, "listen", "listening")
         \/ /\ pc[q] = "leaving" /\ listeners' = listeners \ {q} /\ listeners' = {}
            /\ Command(q, "unlisten", "unlistening")
  PROVE  Stream'
<1>1. PICK c \in {"listen", "unlisten"} :
        /\ Command(q, c, IF c = "listen" THEN "listening" ELSE "unlistening")
        /\ c = "listen" => pc[q] = "committed" /\ listeners' = listeners \cup {q}
        /\ c = "unlisten" => pc[q] = "leaving" /\ listeners' = {} /\ listeners' = listeners \ {q}
  OBVIOUS
<1>2. /\ Len(wire) \in Nat /\ Len(pending) \in Nat /\ wire \in Seq({"listen", "unlisten"}) /\ pending \in Seq(Queries)
      /\ \A i \in 1..Len(pending) : pending[i] \in Queries
  BY ListFacts DEF LiveTypes
<1>3. \A r \in Queries : pc[r] \notin Awaiting
  BY LiveAssumption DEF Stream, InStep
<1>4. \A i \in 1..Len(pending) : pc[pending[i]] = "failed" /\ pending[i] # q
  BY <1>1, <1>2, <1>3 DEF Stream, InStep
<1>5. /\ pending' = Append(pending, q) /\ Len(pending') = Len(pending) + 1
      /\ \A i \in 1..Len(pending) : pending'[i] = pending[i]
      /\ pending'[Len(pending) + 1] = q
  BY <1>1, <1>2, AppendProperties DEF Command
<1>6. pending' # <<>> /\ \A i \in 1..Len(pending') : i \in 1..Len(pending) \/ i = Len(pending) + 1
  BY <1>2, <1>5
<1>7. PICK l \in Places : pc' = [pc EXCEPT ![q] = l] /\ l = IF conn # "up" THEN "failed" ELSE IF c = "listen" THEN "listening" ELSE "unlistening"
  BY <1>1 DEF Command, Goto, Places
<1>8. pc'[q] = l /\ \A r \in Queries \ {q} : pc'[r] = pc[r]
  BY <1>7 DEF LiveTypes
<1>9. CASE conn # "up"
  <2>1. wire' = wire /\ lock' = lock /\ l = "failed" /\ conn' # "up" /\ wire = <<>> /\ ~listening
    BY <1>1, <1>7, <1>9 DEF Command, Stream, InStep
  <2>2. InStep'
    BY <1>3, <1>4, <1>5, <1>6, <1>8, <2>1, <1>2 DEF InStep, Awaiting
  <2>3. Registered' /\ Lasting'
    BY <1>1, <1>8, <2>1 DEF Stream, Registered, Lasting, LiveTypes
  <2> QED BY <2>2, <2>3 DEF Stream
<1>10. CASE conn = "up"
  <2>1. wire' = Append(wire, c) /\ lock' = q /\ conn' = "up" /\ Len(wire) = Len(pending)
    BY <1>1, <1>10 DEF Command, Stream, InStep
  <2>2. /\ Len(wire') = Len(wire) + 1 /\ wire'[Len(wire')] = c /\ wire' # <<>>
        /\ \A i \in 1..Len(wire) : wire'[i] = wire[i]
    BY <1>2, <2>1, AppendProperties
  <2>3. InStep'
    <3>1. \A i \in 1..Len(pending') :
            pc'[pending'[i]] = "failed" \/ (pc'[pending'[i]] \in Awaiting /\ i = Len(pending'))
      BY <1>2, <1>4, <1>5, <1>6, <1>7, <1>8, <1>10 DEF Awaiting
    <3>2. \A r \in Queries : pc'[r] \in Awaiting => r = q
      BY <1>3, <1>8
    <3>3. wire'[Len(wire')] = IF pc'[q] = "listening" THEN "listen" ELSE "unlisten"
      BY <1>7, <1>8, <1>10, <2>2
    <3> QED BY <1>5, <1>6, <2>1, <2>2, <3>1, <3>2, <3>3 DEF InStep
  <2>4. Registered'
    BY <1>1, <1>7, <1>8, <1>10 DEF Stream, Registered
  <2>5. Lasting'
    <3>1. ASSUME NEW r \in Queries, pc'[r] \in {"listened", "showing", "live"}
          PROVE  listening' /\ \A i \in 1..Len(wire') : wire'[i] = "listen"
      <4>1. r # q /\ pc[r] \in {"listened", "showing", "live"}
        BY <1>7, <1>8, <1>10, <3>1
      <4>2. listening /\ (\A i \in 1..Len(wire) : wire[i] = "listen") /\ r \in listeners
        BY <1>10, <4>1 DEF Stream, Lasting, Registered
      <4>3. c = "listen"
        BY <1>1, <4>1, <4>2
      <4>4. \A i \in 1..Len(wire') : i \in 1..Len(wire) \/ i = Len(wire')
        BY <1>2, <2>2
      <4> QED BY <2>2, <4>2, <4>3, <4>4
    <3>2. listeners' = {} => c = "unlisten"
      BY <1>1
    <3> QED BY <2>1, <2>2, <3>1, <3>2 DEF Lasting
  <2> QED BY <2>3, <2>4, <2>5 DEF Stream
<1> QED BY <1>9, <1>10

\* An answer belongs to the command of the oldest sender.
LEMMA AnswerStep ==
  ASSUME LiveTypes, Stream, Answer
  PROVE  Stream'
<1>1. /\ wire # <<>> /\ listening' = (Head(wire) = "listen") /\ wire' = Tail(wire) /\ pending' = Tail(pending)
      /\ AnswerTo(Head(pending), Answered(Head(pending))) /\ UNCHANGED <<listeners, conn>>
  BY DEF Answer
<1>2. conn = "up" /\ Len(wire) = Len(pending) /\ Len(wire) \in Nat /\ Len(wire) # 0 /\ pending # <<>>
  BY <1>1, ListFacts DEF Stream, InStep, LiveTypes
<1>3. PICK m \in Nat : m = Len(wire) /\ m = Len(pending) /\ m # 0
  BY <1>2
<1>4. wire \in Seq({"listen", "unlisten"}) /\ pending \in Seq(Queries)
  BY DEF LiveTypes
<1>5. /\ wire' \in Seq({"listen", "unlisten"}) /\ pending' \in Seq(Queries)
      /\ Len(wire') = m - 1 /\ Len(pending') = m - 1
      /\ \A i \in 1..(m - 1) : wire'[i] = wire[i + 1] /\ pending'[i] = pending[i + 1]
  BY <1>1, <1>2, <1>3, <1>4, HeadTailProperties
<1>6. /\ wire' = <<>> <=> m = 1
      /\ pending' = <<>> <=> m = 1
      /\ m # 1 => wire'[m - 1] = wire[m] /\ pending'[m - 1] = pending[m]
  <2>1. wire' = <<>> <=> m - 1 = 0
    BY <1>5, EmptySeq
  <2>2. pending' = <<>> <=> m - 1 = 0
    BY <1>5, EmptySeq
  <2>3. m # 1 => m - 1 \in 1..(m - 1) /\ (m - 1) + 1 = m
    BY <1>3
  <2> QED BY <1>3, <1>5, <2>1, <2>2, <2>3
<1>7. PICK q \in Queries, c \in {"listen", "unlisten"} : q = Head(pending) /\ q = pending[1] /\ c = Head(wire) /\ c = wire[1]
  <2>1. Head(pending) = pending[1] /\ Head(wire) = wire[1]
    BY <1>2, <1>4
  <2>2. Head(pending) \in Queries /\ Head(wire) \in {"listen", "unlisten"}
    BY <1>1, <1>2, <1>4, HeadTailProperties
  <2> QED BY <2>1, <2>2
<1>8. 1 \in 1..m /\ m \in 1..m /\ (\A i \in 1..(m - 1) : i + 1 \in 1..m /\ (i + 1 = m <=> i = m - 1))
  BY <1>3
<1>9. listening' = (c = "listen") /\ conn' = "up" /\ listeners' = listeners
  BY <1>1, <1>2, <1>7
<1>10. listeners = {} => (m = 1 => ~listening') /\ (m # 1 => wire'[m - 1] = "unlisten")
  <2>1. listeners = {} => wire[m] = "unlisten"
    BY <1>1, <1>2, <1>3 DEF Stream, Lasting
  <2> QED BY <1>6, <1>7, <1>9, <2>1
<1>11. ASSUME NEW r \in Queries, pc[r] \in {"listened", "showing", "live"}
       PROVE  listening' /\ \A i \in 1..(m - 1) : wire'[i] = "listen"
  <2>1. \A i \in 1..m : wire[i] = "listen"
    BY <1>2, <1>3, <1>11 DEF Stream, Lasting
  <2> QED BY <1>5, <1>7, <1>8, <1>9, <2>1
<1>12. CASE pc[q] \in Awaiting
  <2>1. m = 1 /\ lock = q /\ c = (IF pc[q] = "listening" THEN "listen" ELSE "unlisten")
    BY <1>3, <1>7, <1>8, <1>12 DEF Stream, InStep, Awaiting
  <2>2. /\ pc'[q] = (IF pc[q] = "listening" THEN "listened" ELSE "unlistened")
        /\ \A r \in Queries \ {q} : pc'[r] = pc[r]
    BY <1>1, <1>7, <1>12 DEF AnswerTo, Answered, LiveTypes
  <2>3. \A r \in Queries : pc'[r] \notin Awaiting
    BY <2>1, <2>2 DEF Stream, InStep, Awaiting
  <2>4. InStep'
    BY <1>5, <1>6, <1>9, <2>1, <2>3 DEF InStep
  <2>5. Registered'
    BY <1>9, <1>12, <2>2 DEF Stream, Registered, Awaiting, LiveTypes
  <2>6. Lasting'
    <3>1. ASSUME NEW r \in Queries, pc'[r] \in {"listened", "showing", "live"}
          PROVE  listening' /\ \A i \in 1..Len(wire') : wire'[i] = "listen"
      <4>1. CASE r = q
        <5>1. \A i \in 1..Len(wire') : FALSE
          BY <1>5, <2>1
        <5>2. pc[q] = "listening"
          BY <2>2, <3>1, <4>1
        <5> QED BY <1>9, <2>1, <5>1, <5>2
      <4>2. CASE r # q
        BY <1>5, <1>11, <2>2, <3>1, <4>2
      <4> QED BY <4>1, <4>2
    <3> QED BY <1>6, <1>9, <1>10, <2>1, <3>1 DEF Lasting
  <2> QED BY <2>4, <2>5, <2>6 DEF Stream
<1>13. CASE pc[q] \notin Awaiting
  <2>1. UNCHANGED <<pc, lock>>
    BY <1>1, <1>7, <1>13 DEF AnswerTo
  <2>2. InStep'
    <3>1. \A i \in 1..Len(pending') :
            pc[pending'[i]] = "failed" \/ (pc[pending'[i]] \in Awaiting /\ i = Len(pending'))
      BY <1>3, <1>5, <1>8 DEF Stream, InStep
    <3>2. ASSUME NEW r \in Queries, pc[r] \in Awaiting
          PROVE  /\ lock = r /\ pending' # <<>> /\ pending'[Len(pending')] = r
                 /\ wire'[Len(wire')] = IF pc[r] = "listening" THEN "listen" ELSE "unlisten"
      <4>1. /\ lock = r /\ pending[m] = r
            /\ wire[m] = IF pc[r] = "listening" THEN "listen" ELSE "unlisten"
        BY <1>3, <3>2 DEF Stream, InStep
      <4>2. m # 1
        BY <1>7, <1>13, <3>2, <4>1
      <4> QED BY <1>5, <1>6, <4>1, <4>2
    <3> QED BY <1>5, <1>9, <2>1, <3>1, <3>2 DEF InStep
  <2>3. Registered'
    BY <1>9, <2>1 DEF Stream, Registered
  <2>4. Lasting'
    BY <1>5, <1>6, <1>9, <1>10, <1>11, <2>1 DEF Lasting
  <2> QED BY <2>2, <2>3, <2>4 DEF Stream
<1> QED BY <1>12, <1>13

\* Every action keeps the two lists in step and the session as its callbacks need it.
LEMMA StreamStep ==
  ASSUME LiveTypes, Stream, [Next]_vars
  PROVE  Stream'
<1> USE DEF callVars, triggerVars, dataVars, threadVars, history, Goto
<1>1. ASSUME NEW q \in Queries, FormatLiterals(q) \/ QueryWithTypes(q) \/ Begin(q) PROVE Stream'
  <2>1. \A r \in Queries \ {q} : lock = r => lock' = r
    BY <1>1, LiveAssumption DEF FormatLiterals, QueryWithTypes, Begin, Free
  <2>2. PICK l \in {"typed", "formatted", "begun"} : pc' = [pc EXCEPT ![q] = l]
    BY <1>1 DEF FormatLiterals, QueryWithTypes, Begin
  <2>3. pc[q] \in {"new", "typed", "formatted"} /\ UNCHANGED notifyVars
    BY <1>1 DEF FormatLiterals, QueryWithTypes, Begin
  <2> QED BY <2>1, <2>2, <2>3, StreamFrame DEF Places, Awaiting
<1>2. ASSUME NEW q \in Queries, Raise(q) \/ MakeTrigger(q) \/ CommitView(q) PROVE Stream'
  <2>1. PICK l \in {"counted", "made", "committed"} : pc' = [pc EXCEPT ![q] = l]
    BY <1>2 DEF Raise, MakeTrigger, CommitView
  <2>2. \A r \in Queries \ {q} : lock = r => lock' = r
    BY <1>2 DEF Raise, MakeTrigger, CommitView
  <2>3. pc[q] \in {"begun", "counted", "made"} /\ UNCHANGED notifyVars
    BY <1>2 DEF Raise, MakeTrigger, CommitView
  <2> QED BY <2>1, <2>2, <2>3, StreamFrame DEF Places, Awaiting
<1>3. ASSUME NEW q \in Queries, Listen(q) PROVE Stream'
  BY <1>3, CommandStep DEF Listen
<1>4. ASSUME NEW q \in Queries, ParseShow(q) \/ ShowRows(q) \/ Unsubscribe(q) PROVE Stream'
  <2>1. \/ pc' = [pc EXCEPT ![q] = "showing"] /\ pc[q] = "listened"
        \/ pc' = [pc EXCEPT ![q] = "live"] /\ pc[q] = "showing"
        \/ pc' = [pc EXCEPT ![q] = "failed"] /\ pc[q] = "showing"
        \/ pc' = [pc EXCEPT ![q] = "leaving"] /\ pc[q] = "live"
    BY <1>4 DEF ParseShow, ShowRows, Unsubscribe
  <2>2. UNCHANGED notifyVars /\ \A r \in Queries \ {q} : lock = r => lock' = r
    BY <1>4, LiveAssumption DEF ParseShow, ShowRows, Unsubscribe, Free
  <2>3. CASE pc' = [pc EXCEPT ![q] = "showing"] /\ pc[q] = "listened"
    BY <2>2, <2>3, StreamFrame DEF Places, Awaiting
  <2>4. CASE pc' = [pc EXCEPT ![q] = "live"] /\ pc[q] = "showing"
    BY <2>2, <2>4, StreamFrame DEF Places, Awaiting
  <2>5. CASE pc' = [pc EXCEPT ![q] = "failed"] /\ pc[q] = "showing"
    BY <2>2, <2>5, StreamFrame DEF Places, Awaiting
  <2>6. CASE pc' = [pc EXCEPT ![q] = "leaving"] /\ pc[q] = "live"
    BY <2>2, <2>6, StreamFrame DEF Places, Awaiting
  <2> QED BY <2>1, <2>3, <2>4, <2>5, <2>6
<1>5. ASSUME NEW q \in Queries, Unlisten(q) PROVE Stream'
  <2>1. CASE listeners' = {}
    BY <1>5, <2>1, CommandStep DEF Unlisten
  <2>2. CASE listeners' # {}
    <3>1. /\ pc[q] = "leaving" /\ lock = NoQuery /\ listeners' = listeners \ {q} /\ listeners' # {}
          /\ pc' = [pc EXCEPT ![q] = "unlistened"] /\ UNCHANGED <<wire, pending, lock, listening, conn>>
      BY <1>5, <2>2 DEF Unlisten
    <3>2. pc'[q] = "unlistened" /\ \A r \in Queries \ {q} : pc'[r] = pc[r]
      BY <3>1 DEF LiveTypes
    <3>3. \A i \in 1..Len(pending) : pending[i] \in Queries /\ pending[i] # q
      BY <3>1, ListFacts DEF Stream, InStep, Awaiting
    <3>4. InStep'
      BY <3>1, <3>2, <3>3 DEF Stream, InStep, Awaiting
    <3>5. Registered'
      BY <3>1, <3>2 DEF Stream, Registered, LiveTypes
    <3>6. Lasting'
      BY <3>1, <3>2 DEF Stream, Lasting
    <3> QED BY <3>4, <3>5, <3>6 DEF Stream
  <2> QED BY <2>1, <2>2
<1>6. ASSUME NEW q \in Queries, Lower(q) \/ DropTrigger(q) \/ DropView(q) PROVE Stream'
  <2>1. PICK l \in {"dropping", "dropped", "gone"} : pc' = [pc EXCEPT ![q] = l]
    BY <1>6 DEF Lower, DropTrigger, DropView
  <2>2. pc[q] \in {"unlistened", "dropping", "dropped"} /\ UNCHANGED <<notifyVars, lock>>
    BY <1>6 DEF Lower, DropTrigger, DropView
  <2> QED BY <2>1, <2>2, StreamFrame DEF Places, Awaiting
<1>7. ASSUME NEW q \in Queries, Fail(q) PROVE Stream'
  <2>1. /\ pc' = [pc EXCEPT ![q] = "failed"] /\ pc[q] # "failed" /\ UNCHANGED notifyVars
        /\ \A r \in Queries \ {q} : lock = r => lock' = r
    BY <1>7 DEF Fail
  <2> QED BY <2>1, StreamFrame DEF Places, Awaiting
<1>8. CASE NotifyLost
  <2>1. /\ conn' = "down" /\ ~listening' /\ wire' = <<>> /\ pending' = <<>> /\ UNCHANGED listeners
        /\ \A q \in Queries : pc'[q] = IF pc[q] \in Awaiting THEN "failed" ELSE pc[q]
    BY <1>8 DEF NotifyLost
  <2>2. InStep'
    BY <2>1 DEF InStep, Awaiting
  <2>3. Registered' /\ Lasting'
    BY <2>1 DEF Stream, Registered, Lasting, LiveTypes, Awaiting
  <2> QED BY <2>2, <2>3 DEF Stream
<1>9. CASE UNCHANGED <<pc, lock, notifyVars>>
  <2>1. UNCHANGED <<pc, lock, listeners, listening, wire, pending, conn>>
    BY <1>9 DEF notifyVars
  <2> QED BY <2>1 DEF Stream, InStep, Registered, Lasting
<1>10. ASSUME NEW q \in Queries, Refresh(q) \/ Thread(q) PROVE UNCHANGED <<pc, lock, notifyVars>>
  BY <1>10 DEF Refresh, Thread, Take, ParseView, ReadView, Callback
<1>11. Deliver \/ Unheard \/ Write \/ UNCHANGED vars => UNCHANGED <<pc, lock, notifyVars>>
  BY DEF Deliver, Unheard, Write, vars
<1> QED BY <1>1, <1>2, <1>3, <1>4, <1>5, <1>6, <1>7, <1>8, <1>9, <1>10, <1>11, AnswerStep DEF Next, Calling

-----------------------------------------------------------------------------
(* The reference count and the trigger *)

\* A step that neither raises nor lowers the count and makes nobody rely on the trigger.
Steady ==
  /\ Holding' \subseteq Holding /\ Relying' \subseteq Relying
  /\ \A q \in Queries : /\ pc[q] = "failed" => pc'[q] = "failed"
                        /\ pc'[q] = "dropping" => pc[q] = "dropping"
                        /\ pc'[q] = "made" => pc[q] = "made" /\ (ddl = q => ddl' = q)
  /\ Spoilt' \/ (Holding' = Holding /\ \A q \in Queries : pc[q] = "dropping" => pc'[q] = "dropping")

\* The call that moves decides.
LEMMA SteadyMove ==
  ASSUME LiveTypes, NEW q \in Queries, NEW l \in Places \ {"counted", "made", "dropping"},
         pc' = [pc EXCEPT ![q] = l], pc[q] # "failed", UNCHANGED fresh,
         l = "failed" \/ (pc[q] # "dropping" /\ (q \in Holding <=> l \in {"committed", "listening", "listened",
                                                                       "showing", "live", "leaving", "unlistening", "unlistened"})),
         q \in Holding /\ l # "failed" => q \in Relying,
         \A r \in Queries \ {q} : ddl = r => ddl' = r
  PROVE  Steady
<1>1. pc'[q] = l /\ \A r \in Queries \ {q} : pc'[r] = pc[r]
  BY DEF LiveTypes
<1>2. Holding' \subseteq Holding
  BY <1>1 DEF Holding
<1>3. Relying' \subseteq Relying
  BY <1>1, <1>2 DEF Relying, Holding
<1>4. l # "failed" => Holding' = Holding
  BY <1>1 DEF Holding
<1>5. l = "failed" => Spoilt'
  BY <1>1 DEF Spoilt
<1> QED BY <1>1, <1>2, <1>3, <1>4, <1>5 DEF Steady

\* An answer moves whoever awaits it.
LEMMA SteadyAnswer ==
  ASSUME LiveTypes, Stream, Answer
  PROVE  Steady
<1>1. PICK q \in Queries : AnswerTo(q, Answered(q)) /\ UNCHANGED <<fresh, triggerVars>>
  <2>1. pending # <<>>
    BY DEF Answer, Stream, InStep
  <2> QED BY <2>1, ListTypes DEF Answer
<1>2. CASE pc[q] \in Awaiting
  <2>1. PICK l \in {"listened", "unlistened"} : pc' = [pc EXCEPT ![q] = l]
    BY <1>1, <1>2 DEF AnswerTo, Answered
  <2>2. q \in Holding /\ q \in Relying /\ pc[q] # "dropping" /\ pc[q] # "failed"
    BY <1>2 DEF Holding, Relying, Awaiting
  <2> QED BY <1>1, <2>1, <2>2, SteadyMove DEF triggerVars, Places
<1>3. CASE pc[q] \notin Awaiting
  <2>1. UNCHANGED <<pc, fresh, ddl>>
    BY <1>1, <1>3 DEF AnswerTo, triggerVars
  <2> QED BY <2>1 DEF Steady, Holding, Relying
<1> QED BY <1>2, <1>3

\* All actions but five are steady, and change neither the count, nor the trigger.
LEMMA SteadyStep ==
  ASSUME LiveTypes, Stream, [Next]_vars
  PROVE  \/ \E q \in Queries : Raise(q) \/ MakeTrigger(q) \/ CommitView(q) \/ Lower(q) \/ DropTrigger(q)
         \/ Steady /\ UNCHANGED <<count, trigger, crossed>>
<1> USE DEF callVars, triggerVars, history, Goto
<1>1. ASSUME NEW q \in Queries, FormatLiterals(q) \/ QueryWithTypes(q) \/ Begin(q)
      PROVE  Steady /\ UNCHANGED <<count, trigger, crossed>>
  <2>1. PICK l \in {"typed", "formatted", "begun"} : pc' = [pc EXCEPT ![q] = l]
    BY <1>1 DEF FormatLiterals, QueryWithTypes, Begin
  <2>2. q \notin Holding /\ pc[q] \in {"new", "typed", "formatted"} /\ UNCHANGED <<fresh, triggerVars, history>>
    BY <1>1 DEF FormatLiterals, QueryWithTypes, Begin, Holding
  <2> QED BY <2>1, <2>2, SteadyMove DEF Places
<1>2. ASSUME NEW q \in Queries, Listen(q) \/ Unlisten(q) PROVE Steady /\ UNCHANGED <<count, trigger, crossed>>
  <2>1. PICK l \in {"listening", "unlistening", "unlistened", "failed"} : pc' = [pc EXCEPT ![q] = l]
    BY <1>2 DEF Listen, Unlisten, Command
  <2>2. pc[q] \in {"committed", "leaving"} /\ UNCHANGED <<fresh, triggerVars, history>>
    BY <1>2 DEF Listen, Unlisten
  <2>3. q \in Holding /\ q \in Relying
    BY <2>2 DEF Holding, Relying
  <2> QED BY <2>1, <2>2, <2>3, SteadyMove DEF Places
<1>3. ASSUME NEW q \in Queries, ParseShow(q) \/ ShowRows(q) \/ Unsubscribe(q)
      PROVE  Steady /\ UNCHANGED <<count, trigger, crossed>>
  <2>1. PICK l \in {"showing", "live", "leaving", "failed"} : pc' = [pc EXCEPT ![q] = l]
    BY <1>3 DEF ParseShow, ShowRows, Unsubscribe
  <2>2. pc[q] \in {"listened", "showing", "live"} /\ UNCHANGED <<fresh, triggerVars, history>>
    BY <1>3 DEF ParseShow, ShowRows, Unsubscribe
  <2>3. q \in Holding /\ q \in Relying
    BY <2>2 DEF Holding, Relying
  <2> QED BY <2>1, <2>2, <2>3, SteadyMove DEF Places
<1>4. ASSUME NEW q \in Queries, DropView(q) PROVE Steady /\ UNCHANGED <<count, trigger, crossed>>
  <2>1. pc' = [pc EXCEPT ![q] = "gone"] /\ pc[q] = "dropped" /\ UNCHANGED <<fresh, triggerVars, history>>
    BY <1>4 DEF DropView
  <2>2. q \notin Holding
    BY <2>1 DEF Holding
  <2> QED BY <2>1, <2>2, SteadyMove DEF Places
<1>5. ASSUME NEW q \in Queries, Fail(q) PROVE Steady /\ UNCHANGED <<count, trigger, crossed>>
  <2>1. /\ pc' = [pc EXCEPT ![q] = "failed"] /\ pc[q] # "failed" /\ UNCHANGED <<fresh, count, trigger, crossed>>
        /\ \A r \in Queries \ {q} : ddl = r => ddl' = r
    BY <1>5 DEF Fail
  <2> QED BY <2>1, SteadyMove DEF Places
<1>6. ASSUME NotifyLost PROVE Steady /\ UNCHANGED <<count, trigger, crossed>>
  <2>1. UNCHANGED <<fresh, triggerVars, crossed>> /\ \A q \in Queries : pc'[q] = IF pc[q] \in Awaiting THEN "failed" ELSE pc[q]
    BY <1>6 DEF NotifyLost
  <2>2. Holding' \subseteq Holding /\ Relying' \subseteq Relying
    BY <2>1 DEF Holding, Relying
  <2>3. Spoilt' \/ \A q \in Queries : pc'[q] = pc[q]
    BY <2>1 DEF Spoilt
  <2>4. (\A q \in Queries : pc'[q] = pc[q]) => Holding' = Holding
    BY DEF Holding
  <2> QED BY <2>1, <2>2, <2>3, <2>4 DEF Steady, Awaiting
<1>7. ASSUME UNCHANGED <<pc, fresh, triggerVars, crossed>> PROVE Steady /\ UNCHANGED <<count, trigger, crossed>>
  BY <1>7 DEF Steady, Holding, Relying
<1>8. ASSUME NEW q \in Queries, Refresh(q) \/ Thread(q) PROVE UNCHANGED <<pc, fresh, triggerVars, crossed>>
  BY <1>8 DEF Refresh, Thread, Take, ParseView, ReadView, Callback
<1>9. Deliver \/ Unheard \/ Write \/ UNCHANGED vars => UNCHANGED <<pc, fresh, triggerVars, crossed>>
  BY DEF Deliver, Unheard, Write, vars
<1>10. Answer => UNCHANGED <<count, trigger, crossed>>
  BY DEF Answer
<1> QED BY <1>1, <1>2, <1>3, <1>4, <1>5, <1>6, <1>7, <1>8, <1>9, <1>10, SteadyAnswer DEF Next, Calling

\* The count is never below the number of calls that hold it, and is that number as long as
\* no call has failed; the trigger outlives whoever relies on it, and goes with the last.
LEMMA TriggerStep ==
  ASSUME LiveTypes, Stream, Counted, Guarded, [Next]_vars
  PROVE  Counted' /\ Guarded'
<1>1. IsFiniteSet(Holding) /\ Cardinality(Holding) \in Nat /\ count \in Nat
  BY FS_CardinalityType DEF Counted, LiveTypes
<1>2. ASSUME NEW q \in Queries, Raise(q) PROVE Counted' /\ Guarded'
  <2>1. /\ pc[q] = "begun" /\ count' = count + 1 /\ pc' = [pc EXCEPT ![q] = "counted"] /\ UNCHANGED <<trigger, ddl>>
        /\ fresh' = [fresh EXCEPT ![q] = (count = 0)]
        /\ crossed' = (crossed \/ (count > 0 /\ ~trigger) \/ \E r \in Queries : pc[r] = "dropping")
    BY <1>2 DEF Raise, Goto
  <2>2. pc'[q] = "counted" /\ (\A r \in Queries \ {q} : pc'[r] = pc[r]) /\ q \notin Holding
    BY <2>1 DEF LiveTypes, Holding
  <2>3. Holding' = Holding \cup {q} /\ Spoilt' = Spoilt
    BY <2>1, <2>2 DEF Holding, Spoilt
  <2>4. IsFiniteSet(Holding') /\ Cardinality(Holding') = Cardinality(Holding) + 1
    BY <1>1, <2>2, <2>3, FS_AddElement
  <2>5. Counted'
    BY <1>1, <2>1, <2>3, <2>4 DEF Counted
  <2>6. fresh'[q] = (count = 0) /\ \A r \in Queries \ {q} : fresh'[r] = fresh[r]
    BY <2>1 DEF LiveTypes
  <2>7. \A r \in Relying' : r \in Relying \/ count # 0
    BY <2>2, <2>3, <2>6 DEF Relying, Holding
  <2>8. ~crossed' => ~crossed /\ (count # 0 => trigger) /\ \A r \in Queries : pc[r] # "dropping"
    <3>1. ~crossed' => ~crossed /\ ~(count > 0 /\ ~trigger) /\ \A r \in Queries : pc[r] # "dropping"
      BY <2>1
    <3>2. count # 0 => count > 0
      BY <1>1
    <3> QED BY <3>1, <3>2
  <2>9. ~crossed' /\ Relying' # {} => trigger'
    BY <2>1, <2>7, <2>8 DEF Guarded
  <2>10. \A r \in Queries : (pc'[r] = "made" => pc[r] = "made") /\ (pc'[r] = "dropping" => pc[r] = "dropping")
    BY <2>2
  <2>11. q \in Holding'
    BY <2>3
  <2> QED BY <2>1, <2>5, <2>8, <2>9, <2>10, <2>11 DEF Guarded
<1>3. ASSUME NEW q \in Queries, MakeTrigger(q) PROVE Counted' /\ Guarded'
  <2>1. /\ pc[q] = "counted" /\ fresh[q] /\ ddl = NoQuery /\ ddl' = q /\ pc' = [pc EXCEPT ![q] = "made"]
        /\ UNCHANGED <<fresh, count, trigger, crossed>>
    BY <1>3 DEF MakeTrigger, Goto, history
  <2>2. pc'[q] = "made" /\ \A r \in Queries \ {q} : pc'[r] = pc[r]
    BY <2>1 DEF LiveTypes
  <2>3. Holding' = Holding /\ Spoilt' = Spoilt
    BY <2>1, <2>2 DEF Holding, Spoilt
  <2>4. Relying' \subseteq Relying
    BY <2>1, <2>2, <2>3 DEF Relying, Holding
  <2>5. \A r \in Queries : pc'[r] = "made" => r = q
    BY <2>1, <2>2, LiveAssumption DEF Guarded
  <2>6. \A r \in Queries : pc'[r] = "dropping" <=> pc[r] = "dropping"
    BY <2>1, <2>2
  <2>7. Counted'
    BY <2>1, <2>3 DEF Counted
  <2> QED BY <2>1, <2>3, <2>4, <2>5, <2>6, <2>7 DEF Guarded
<1>4. ASSUME NEW q \in Queries, CommitView(q) PROVE Counted' /\ Guarded'
  <2>1. /\ pc[q] = "made" \/ (pc[q] = "counted" /\ ~fresh[q])
        /\ trigger' = (trigger \/ ddl = q) /\ pc' = [pc EXCEPT ![q] = "committed"]
        /\ ddl' = (IF ddl = q THEN NoQuery ELSE ddl) /\ fresh' = [fresh EXCEPT ![q] = FALSE]
        /\ UNCHANGED <<count, crossed>>
    BY <1>4 DEF CommitView, Goto, history
  <2>2. pc'[q] = "committed" /\ \A r \in Queries \ {q} : pc'[r] = pc[r] /\ fresh'[r] = fresh[r]
    BY <2>1 DEF LiveTypes
  <2>3. Holding' = Holding /\ Spoilt' = Spoilt /\ q \in Holding
    BY <2>1, <2>2 DEF Holding, Spoilt
  <2>4. ~crossed => trigger'
    <3>1. CASE pc[q] = "made"
      BY <2>1, <3>1 DEF Guarded
    <3>2. CASE pc[q] = "counted" /\ ~fresh[q]
      <4>1. q \in Relying
        BY <2>3, <3>2 DEF Relying
      <4> QED BY <2>1, <4>1 DEF Guarded
    <3> QED BY <2>1, <3>1, <3>2
  <2>5. \A r \in Queries : pc'[r] = "made" => ddl' = r
    BY <2>1, <2>2 DEF Guarded
  <2>6. \A r \in Queries : pc'[r] = "dropping" <=> pc[r] = "dropping"
    BY <2>1, <2>2
  <2>7. Counted'
    BY <2>1, <2>3 DEF Counted
  <2> QED BY <2>1, <2>3, <2>4, <2>5, <2>6, <2>7 DEF Guarded
<1>5. ASSUME NEW q \in Queries, Lower(q) PROVE Counted' /\ Guarded'
  <2>1. /\ pc[q] = "unlistened" /\ pc' = [pc EXCEPT ![q] = IF count = 1 THEN "dropping" ELSE "dropped"]
        /\ count' = (IF count > 0 THEN count - 1 ELSE 0) /\ UNCHANGED <<fresh, trigger, ddl, crossed>>
    BY <1>5 DEF Lower, Goto, history
  <2>2. pc'[q] = (IF count = 1 THEN "dropping" ELSE "dropped") /\ \A r \in Queries \ {q} : pc'[r] = pc[r]
    BY <2>1 DEF LiveTypes
  <2>3. Holding' = Holding \ {q} /\ Spoilt' = Spoilt /\ q \in Holding
    BY <2>1, <2>2 DEF Holding, Spoilt
  <2>4. IsFiniteSet(Holding') /\ Cardinality(Holding') = Cardinality(Holding) - 1 /\ Cardinality(Holding') \in Nat
    BY <1>1, <2>3, FS_RemoveElement, FS_CardinalityType
  <2>5. Counted'
    BY <1>1, <2>1, <2>3, <2>4 DEF Counted
  <2>6. count = 1 => Holding' = {}
    <3>1. count = 1 => Cardinality(Holding') = 0
      BY <1>1, <2>4 DEF Counted
    <3> QED BY <2>4, <3>1, FS_EmptySet
  <2>7. ~Spoilt /\ count # 1 => Holding' # {}
    <3>1. ~Spoilt /\ count # 1 => Cardinality(Holding') # 0
      BY <1>1, <2>4 DEF Counted
    <3> QED BY <3>1, FS_EmptySet
  <2>8. Relying' \subseteq Relying
    BY <2>1, <2>2, <2>3 DEF Relying, Holding
  <2>9. \A r \in Queries : pc'[r] = "made" => pc[r] = "made"
    BY <2>2
  <2>10. ~crossed' /\ Holding' # {} => \A r \in Queries : pc'[r] # "dropping"
    <3>1. Holding' # {} => Holding # {} /\ count # 1
      BY <2>3, <2>6
    <3> QED BY <2>1, <2>2, <3>1 DEF Guarded
  <2>11. ~Spoilt' /\ trigger' => \E r \in Queries : r \in Holding' \/ pc'[r] = "dropping"
    <3>1. Holding' \subseteq Queries
      BY DEF Holding
    <3> QED BY <2>2, <2>3, <2>7, <3>1
  <2> QED BY <2>1, <2>5, <2>8, <2>9, <2>10, <2>11 DEF Guarded
<1>6. ASSUME NEW q \in Queries, DropTrigger(q) PROVE Counted' /\ Guarded'
  <2>1. /\ pc[q] = "dropping" /\ pc' = [pc EXCEPT ![q] = "dropped"] /\ trigger' = FALSE
        /\ UNCHANGED <<fresh, count, ddl, crossed>>
    BY <1>6 DEF DropTrigger, Goto, history
  <2>2. pc'[q] = "dropped" /\ \A r \in Queries \ {q} : pc'[r] = pc[r]
    BY <2>1 DEF LiveTypes
  <2>3. Holding' = Holding /\ Spoilt' = Spoilt /\ Relying' = Relying /\ Relying \subseteq Holding
    BY <2>1, <2>2 DEF Holding, Spoilt, Relying
  <2>4. ~crossed => Holding = {}
    BY <2>1 DEF Guarded
  <2>5. \A r \in Queries : pc'[r] \in {"made", "dropping"} => pc[r] = pc'[r]
    BY <2>2
  <2>6. Counted'
    BY <2>1, <2>3 DEF Counted
  <2> QED BY <2>1, <2>3, <2>4, <2>5, <2>6 DEF Guarded
<1>7. ASSUME Steady, UNCHANGED <<count, trigger, crossed>> PROVE Counted' /\ Guarded'
  <2>1. Spoilt => Spoilt'
    BY <1>7 DEF Steady, Spoilt
  <2>2. IsFiniteSet(Holding') /\ Cardinality(Holding') <= Cardinality(Holding) /\ Cardinality(Holding') \in Nat
    BY <1>1, <1>7, FS_Subset, FS_CardinalityType DEF Steady
  <2>3. ~Spoilt' => Holding' = Holding
    BY <1>7 DEF Steady
  <2>4. Counted'
    BY <1>1, <1>7, <2>1, <2>2, <2>3 DEF Counted
  <2>5. Guarded'
    BY <1>7, <2>1, <2>3 DEF Guarded, Steady
  <2> QED BY <2>4, <2>5
<1> QED BY <1>2, <1>3, <1>4, <1>5, <1>6, <1>7, SteadyStep

-----------------------------------------------------------------------------
(* The refresher *)

\* A refresh under way when unsubscribe begins is the last one to call back.
LEMMA LateStep ==
  ASSUME LiveTypes, [Next]_vars, NEW q \in Queries, LateOf(q)
  PROVE  LateOf(q)'
<1> USE DEF LiveTypes, LateOf, threadVars, history
<1>1. ASSUME NEW r \in Queries, ShowRows(r) \/ Unsubscribe(r) PROVE LateOf(q)'
  <2>1. CASE ShowRows(r)
    BY <2>1 DEF ShowRows
  <2>2. CASE Unsubscribe(r)
    BY <2>2 DEF Unsubscribe
  <2> QED BY <1>1, <2>1, <2>2
<1>2. ASSUME NEW r \in Queries, Take(r) PROVE LateOf(q)'
  BY <1>2 DEF Take
<1>3. ASSUME NEW r \in Queries, ParseView(r) \/ ReadView(r) PROVE LateOf(q)'
  <2>1. refresher[r] \in {"query", "parsed"} /\ UNCHANGED <<late, done>>
    BY <1>3 DEF ParseView, ReadView
  <2>2. PICK x \in {"parsed", "callback", "gone"} : refresher' = [refresher EXCEPT ![r] = x]
    BY <1>3 DEF ParseView, ReadView
  <2> QED BY <2>1, <2>2
<1>4. ASSUME NEW r \in Queries, Callback(r) PROVE LateOf(q)'
  <2>1. /\ refresher[r] = "callback" /\ UNCHANGED done /\ refresher' = [refresher EXCEPT ![r] = "idle"]
        /\ late' = [late EXCEPT ![r] = IF done[r] THEN late[r] + 1 ELSE late[r]]
    BY <1>4 DEF Callback
  <2>2. CASE r = q
    BY <2>1, <2>2
  <2>3. CASE r # q
    BY <2>1, <2>3
  <2> QED BY <2>2, <2>3
<1>5. ASSUME NEW r \in Queries,
             FormatLiterals(r) \/ QueryWithTypes(r) \/ Begin(r) \/ Raise(r) \/ MakeTrigger(r) \/ CommitView(r)
             \/ Listen(r) \/ ParseShow(r) \/ Unlisten(r) \/ Lower(r) \/ DropTrigger(r) \/ DropView(r)
             \/ Fail(r) \/ Refresh(r)
      PROVE  UNCHANGED <<late, done, refresher>>
  BY <1>5 DEF FormatLiterals, QueryWithTypes, Begin, Raise, MakeTrigger, CommitView, Listen, ParseShow, Unlisten,
              Lower, DropTrigger, DropView, Fail, Refresh
<1>6. Answer \/ NotifyLost \/ Deliver \/ Unheard \/ Write \/ UNCHANGED vars => UNCHANGED <<late, done, refresher>>
  BY DEF Answer, NotifyLost, Deliver, Unheard, Write, vars
<1>7. UNCHANGED <<late, done, refresher>> => LateOf(q)'
  OBVIOUS
<1> QED BY <1>1, <1>2, <1>3, <1>4, <1>5, <1>6, <1>7 DEF Next, Calling, Thread

\* No notification is lost on a live query that nothing excuses: its trigger is there, the
\* session listens, and its callback wakes the refresher.
LEMMA LiveIsWoken ==
  ASSUME LiveTypes, Stream, Guarded, ~Excused, NEW q \in Queries, pc[q] = "live"
  PROVE  trigger /\ listening /\ q \in listeners
<1>1. q \in Relying
  BY DEF Relying, Holding
<1> QED BY <1>1 DEF Guarded, Excused, Stream, Lasting, Registered

\* What excuses a query never goes away, and `done` stays.
LEMMA ExcuseStays ==
  ASSUME LiveTypes, [Next]_vars
  PROVE  Excused => Excused'
<1>1. crossed => crossed'
  BY DEF Next, Calling, Thread, FormatLiterals, QueryWithTypes, Begin, Raise, MakeTrigger, CommitView, Listen,
         ParseShow, ShowRows, Unsubscribe, Unlisten, Lower, DropTrigger, DropView, Fail, Refresh, Take, ParseView,
         ReadView, Callback, Answer, NotifyLost, Deliver, Unheard, Write, vars, history
<1>2. unheard => unheard'
  BY DEF Next, Calling, Thread, FormatLiterals, QueryWithTypes, Begin, Raise, MakeTrigger, CommitView, Listen,
         ParseShow, ShowRows, Unsubscribe, Unlisten, Lower, DropTrigger, DropView, Fail, Refresh, Take, ParseView,
         ReadView, Callback, Answer, NotifyLost, Deliver, Unheard, Write, vars, history
<1>3. conn # "up" => conn' # "up"
  BY DEF Next, Calling, Thread, FormatLiterals, QueryWithTypes, Begin, Raise, MakeTrigger, CommitView, Listen,
         ParseShow, ShowRows, Unsubscribe, Unlisten, Lower, DropTrigger, DropView, Fail, Refresh, Take, ParseView,
         ReadView, Callback, Answer, NotifyLost, Deliver, Unheard, Write, vars, notifyVars
<1> QED BY <1>1, <1>2, <1>3 DEF Excused

\* Every action leaves a live query that shows an old table something ahead.
LEMMA AheadStep ==
  ASSUME LiveTypes, Stream, Guarded, [Next]_vars, NEW q \in Queries, AheadOf(q)
  PROVE  AheadOf(q)'
<1>1. Excused => Excused'
  BY ExcuseStays
<1>2. ASSUME NEW r \in Queries, NEW l \in Places, pc' = [pc EXCEPT ![r] = l], l # "live", l \in Leaving \/ pc[r] \notin Leaving,
             UNCHANGED <<done, wake, refresher, got, shown, table, notes>>
      PROVE  AheadOf(q)'
  <2>1. CASE r = q
    BY <1>2, <2>1 DEF AheadOf, LiveTypes
  <2>2. CASE r # q
    BY <1>1, <1>2, <2>2 DEF AheadOf, LiveTypes
  <2> QED BY <2>1, <2>2
<1> USE DEF dataVars, threadVars, history, Goto
<1>3. ASSUME NEW r \in Queries,
             FormatLiterals(r) \/ QueryWithTypes(r) \/ Begin(r) \/ Raise(r) \/ MakeTrigger(r) \/ CommitView(r)
             \/ Listen(r) \/ ParseShow(r)
      PROVE  AheadOf(q)'
  <2>1. PICK l \in {"typed", "formatted", "begun", "counted", "made", "committed", "listening", "showing", "failed"} :
          pc' = [pc EXCEPT ![r] = l]
    BY <1>3 DEF FormatLiterals, QueryWithTypes, Begin, Raise, MakeTrigger, CommitView, Listen, ParseShow, Command
  <2>2. pc[r] \in {"new", "typed", "formatted", "begun", "counted", "made", "committed", "listened"}
    BY <1>3 DEF FormatLiterals, QueryWithTypes, Begin, Raise, MakeTrigger, CommitView, Listen, ParseShow
  <2>3. UNCHANGED <<done, wake, refresher, got, shown, table, notes>>
    BY <1>3 DEF FormatLiterals, QueryWithTypes, Begin, Raise, MakeTrigger, CommitView, Listen, ParseShow
  <2> QED BY <1>2, <2>1, <2>2, <2>3 DEF Places, Leaving
<1>4. ASSUME NEW r \in Queries, Unlisten(r) \/ Lower(r) \/ DropTrigger(r) \/ DropView(r) \/ Fail(r) PROVE AheadOf(q)'
  <2>1. PICK l \in {"unlistening", "unlistened", "dropping", "dropped", "gone", "failed"} : pc' = [pc EXCEPT ![r] = l]
    BY <1>4 DEF Unlisten, Lower, DropTrigger, DropView, Fail, Command
  <2>2. UNCHANGED <<done, wake, refresher, got, shown, table, notes>>
    BY <1>4 DEF Unlisten, Lower, DropTrigger, DropView, Fail
  <2> QED BY <1>2, <2>1, <2>2 DEF Places, Leaving
<1>5. ASSUME NEW r \in Queries, ShowRows(r) PROVE AheadOf(q)'
  <2>1. pc[r] = "showing" /\ UNCHANGED <<done, wake, got, table, notes>>
    BY <1>5 DEF ShowRows
  <2>2. CASE /\ \E v \in Rows(r) : shown' = [shown EXCEPT ![r] = v]
             /\ refresher' = [refresher EXCEPT ![r] = "idle"] /\ pc' = [pc EXCEPT ![r] = "live"]
    <3>1. PICK v \in {table, Foreign} : shown' = [shown EXCEPT ![r] = v]
      BY <2>2, RowTypes
    <3>2. CASE r = q
      BY <2>1, <2>2, <3>1, <3>2 DEF AheadOf, LiveTypes, Leaving
    <3>3. CASE r # q
      BY <1>1, <2>1, <2>2, <3>1, <3>3 DEF AheadOf, LiveTypes
    <3> QED BY <3>2, <3>3
  <2>3. CASE pc' = [pc EXCEPT ![r] = "failed"] /\ UNCHANGED <<refresher, shown>>
    BY <1>2, <2>1, <2>3 DEF Places, Leaving
  <2> QED BY <1>5, <2>2, <2>3 DEF ShowRows
<1>6. ASSUME NEW r \in Queries, Unsubscribe(r) PROVE AheadOf(q)'
  <2>1. /\ done' = [done EXCEPT ![r] = TRUE] /\ wake' = [wake EXCEPT ![r] = TRUE]
        /\ got' = [got EXCEPT ![r] = 0] /\ shown' = [shown EXCEPT ![r] = 0]
        /\ pc' = [pc EXCEPT ![r] = "leaving"] /\ UNCHANGED <<refresher, table, notes>>
    BY <1>6 DEF Unsubscribe, Forget
  <2>2. CASE r = q
    BY <2>1, <2>2 DEF AheadOf, LiveTypes, Leaving
  <2>3. CASE r # q
    BY <1>1, <2>1, <2>3 DEF AheadOf, LiveTypes
  <2> QED BY <2>2, <2>3
<1>7. CASE Answer
  <2>1. UNCHANGED <<done, wake, refresher, got, shown, table, notes>>
    BY <1>7 DEF Answer
  <2>2. PICK r \in Queries : AnswerTo(r, Answered(r))
    <3>1. pending # <<>>
      BY <1>7 DEF Answer, Stream, InStep
    <3> QED BY <1>7, <3>1, ListTypes DEF Answer
  <2>3. CASE pc[r] \in Awaiting
    BY <1>2, <2>1, <2>2, <2>3 DEF AnswerTo, Answered, Awaiting, Places, Leaving
  <2>4. CASE pc[r] \notin Awaiting
    BY <1>1, <2>1, <2>2, <2>4 DEF AnswerTo, AheadOf
  <2> QED BY <2>3, <2>4
<1>8. CASE NotifyLost
  <2>1. Excused' /\ UNCHANGED done /\ pc'[q] = IF pc[q] \in Awaiting THEN "failed" ELSE pc[q]
    BY <1>8 DEF NotifyLost, Excused
  <2> QED BY <2>1 DEF AheadOf, Leaving
<1>9. CASE Deliver
  <2>1. wake'[q] = (wake[q] \/ (q \in listeners /\ ~done[q])) /\ UNCHANGED <<pc, done, refresher, got, shown, table>>
    BY <1>9 DEF Deliver, callVars
  <2>2. CASE Excused' \/ pc[q] # "live"
    BY <2>1, <2>2 DEF AheadOf
  <2>3. CASE ~Excused' /\ pc[q] = "live"
    <3>1. q \in listeners /\ ~done[q]
      BY <1>1, <2>3, LiveIsWoken DEF AheadOf, Leaving
    <3> QED BY <2>1, <3>1 DEF AheadOf
  <2> QED BY <2>2, <2>3
<1>10. CASE Unheard
  <2>1. Excused' /\ UNCHANGED <<done, pc>>
    BY <1>10 DEF Unheard, Excused, callVars
  <2> QED BY <2>1 DEF AheadOf
<1>11. CASE Write
  <2>1. UNCHANGED <<pc, done>> /\ notes' = IF trigger /\ listening THEN notes + 1 ELSE notes
    BY <1>11 DEF Write, callVars
  <2>2. CASE Excused' \/ pc[q] # "live"
    BY <2>1, <2>2 DEF AheadOf
  <2>3. CASE ~Excused' /\ pc[q] = "live"
    <3>1. trigger /\ listening
      BY <1>1, <2>3, LiveIsWoken
    <3>2. notes' > 0
      BY <2>1, <3>1 DEF LiveTypes
    <3> QED BY <2>1, <3>2 DEF AheadOf
  <2> QED BY <2>2, <2>3
<1>12. ASSUME NEW r \in Queries, Refresh(r) PROVE AheadOf(q)'
  <2>1. UNCHANGED <<pc, done, refresher, got, shown, table, notes>> /\ wake' = [wake EXCEPT ![r] = TRUE]
    BY <1>12 DEF Refresh, callVars
  <2> QED BY <1>1, <2>1 DEF AheadOf, LiveTypes
<1>13. ASSUME NEW r \in Queries, Take(r) PROVE AheadOf(q)'
  <2>1. /\ UNCHANGED <<pc, done, got, shown, table, notes>> /\ wake' = [wake EXCEPT ![r] = FALSE]
        /\ refresher' = [refresher EXCEPT ![r] = IF done[r] THEN "gone" ELSE "query"]
    BY <1>13 DEF Take, callVars
  <2>2. CASE r = q
    BY <2>1, <2>2 DEF AheadOf, LiveTypes
  <2>3. CASE r # q
    BY <1>1, <2>1, <2>3 DEF AheadOf, LiveTypes
  <2> QED BY <2>2, <2>3
<1>14. ASSUME NEW r \in Queries, ReadView(r) PROVE AheadOf(q)'
  <2>1. UNCHANGED <<pc, done, wake, shown, table, notes>>
    BY <1>14 DEF ReadView, callVars
  <2>2. \/ /\ refresher' = [refresher EXCEPT ![r] = "callback"]
           /\ \E v \in {table, Foreign} : got' = [got EXCEPT ![r] = IF done[r] THEN 0 ELSE v]
        \/ refresher' = [refresher EXCEPT ![r] = "gone"] /\ UNCHANGED got
    BY <1>14, RowTypes DEF ReadView
  <2>3. CASE r = q
    <3>1. refresher'[q] = "gone" \/ (refresher'[q] = "callback" /\ (~done[q] => got'[q] \in {table, Foreign}))
      BY <2>2, <2>3 DEF LiveTypes
    <3>2. pc[q] = "live" => ~done[q]
      BY DEF AheadOf, Leaving
    <3> QED BY <2>1, <3>1, <3>2 DEF AheadOf
  <2>4. CASE r # q
    <3>1. refresher'[q] = refresher[q] /\ got'[q] = got[q]
      BY <2>2, <2>4 DEF LiveTypes
    <3> QED BY <1>1, <2>1, <3>1 DEF AheadOf
  <2> QED BY <2>3, <2>4
<1>17. ASSUME NEW r \in Queries, ParseView(r) PROVE AheadOf(q)'
  <2>1. UNCHANGED <<pc, done, wake, got, shown, table, notes>>
    BY <1>17 DEF ParseView, callVars
  <2>2. PICK x \in {"parsed", "gone"} : refresher' = [refresher EXCEPT ![r] = x]
    BY <1>17 DEF ParseView
  <2>3. CASE r = q
    BY <2>1, <2>2, <2>3 DEF AheadOf, LiveTypes
  <2>4. CASE r # q
    BY <1>1, <2>1, <2>2, <2>4 DEF AheadOf, LiveTypes
  <2> QED BY <2>3, <2>4
<1>15. ASSUME NEW r \in Queries, Callback(r) PROVE AheadOf(q)'
  <2>1. /\ refresher[r] = "callback" /\ shown' = [shown EXCEPT ![r] = got[r]] /\ got' = [got EXCEPT ![r] = 0]
        /\ refresher' = [refresher EXCEPT ![r] = "idle"] /\ UNCHANGED <<pc, done, wake, table, notes>>
    BY <1>15 DEF Callback, callVars
  <2>2. CASE r = q
    BY <1>1, <2>1, <2>2 DEF AheadOf, LiveTypes
  <2>3. CASE r # q
    BY <1>1, <2>1, <2>3 DEF AheadOf, LiveTypes
  <2> QED BY <2>2, <2>3
<1>16. CASE UNCHANGED vars
  BY <1>1, <1>16 DEF AheadOf, vars, callVars
<1> QED BY <1>3, <1>4, <1>5, <1>6, <1>7, <1>8, <1>9, <1>10, <1>11, <1>12, <1>13, <1>14, <1>15, <1>16,
          <1>17
        DEF Next, Calling, Thread

-----------------------------------------------------------------------------
(* The theorems *)

\* At the start there is nothing.
LEMMA InitLive ==
  ASSUME Init
  PROVE  LInv
<1>1. LiveTypes
  <2>1. /\ pc \in [Queries -> Places]
        /\ refresher \in [Queries -> {"none", "idle", "query", "parsed", "callback", "gone"}]
        /\ got \in [Queries -> Versions] /\ shown \in [Queries -> Versions] /\ late \in [Queries -> Nat]
    BY DEF Init, Places, Versions
  <2>2. /\ fresh \in [Queries -> BOOLEAN] /\ wake \in [Queries -> BOOLEAN]
        /\ done \in [Queries -> BOOLEAN]
    BY DEF Init
  <2>3. /\ trigger \in BOOLEAN /\ listening \in BOOLEAN
        /\ crossed \in BOOLEAN /\ unheard \in BOOLEAN
    BY DEF Init
  <2>4. wire \in Seq({"listen", "unlisten"}) /\ pending \in Seq(Queries)
    BY DEF Init
  <2>5. /\ backend \in Backends /\ lock \in Queries \cup {NoQuery}
        /\ ddl \in Queries \cup {NoQuery} /\ listeners \subseteq Queries /\ conn \in {"up", "down"}
        /\ count \in Nat /\ table \in Nat /\ notes \in Nat
    BY DEF Init
  <2> QED BY <2>1, <2>2, <2>3, <2>4, <2>5 DEF LiveTypes
<1>2. Stream
  BY DEF Init, Stream, InStep, Registered, Lasting, Awaiting
<1>3. Counted /\ Guarded
  <2>1. Holding = {} /\ Relying = {}
    BY DEF Init, Holding, Relying
  <2>2. count = 0 /\ trigger = FALSE /\ \A q \in Queries : pc[q] = "new"
    BY DEF Init
  <2> QED BY <2>1, <2>2, FS_EmptySet DEF Counted, Guarded
<1>4. \A q \in Queries : LateOf(q) /\ AheadOf(q)
  BY DEF Init, LateOf, AheadOf
<1> QED BY <1>1, <1>2, <1>3, <1>4 DEF LInv

\* LInv is an invariant.
THEOREM LiveInvariance == Spec => []LInv
<1>1. Init => LInv
  BY InitLive
<1>2. LInv /\ [Next]_vars => LInv'
  <2> SUFFICES ASSUME LInv, [Next]_vars PROVE LInv'
    OBVIOUS
  <2>1. LiveTypes' /\ Stream' /\ Counted' /\ Guarded'
    BY TypesStep, StreamStep, TriggerStep DEF LInv
  <2>2. \A q \in Queries : LateOf(q)' /\ AheadOf(q)'
    BY LateStep, AheadStep DEF LInv
  <2> QED BY <2>1, <2>2 DEF LInv
<1> QED BY <1>1, <1>2, PTL DEF Spec

\* A query whose listen has returned Ok is on a session that listens, whatever LISTEN and
\* UNLISTEN before it were given up.
THEOREM ListensWhenTold == Spec => []ListenIsOn
<1>1. LInv => ListenIsOn
  BY DEF LInv, Stream, Lasting, ListenIsOn
<1> QED BY <1>1, LiveInvariance, PTL

\* When every query has been unsubscribed nothing of them is left behind.
THEOREM NothingLeft == Spec => []TornDown
<1>1. LInv => TornDown
  <2> SUFFICES ASSUME LInv, \A q \in Queries : pc[q] \in {"new", "typed", "formatted", "gone"}
               PROVE  count = 0 /\ ~trigger /\ listeners = {} /\ ~listening
    BY DEF TornDown
  <2>1. Holding = {} /\ ~Spoilt /\ \A q \in Queries : pc[q] # "dropping"
    BY DEF Holding, Spoilt
  <2>2. count = 0
    BY <2>1, FS_EmptySet DEF LInv, Counted
  <2>3. ~trigger
    BY <2>1 DEF LInv, Guarded
  <2>4. listeners = {}
    BY DEF LInv, Stream, Registered, LiveTypes
  <2>5. Len(pending) = 0
    <3>1. Len(pending) \in Nat /\ \A i \in 1..Len(pending) : pending[i] \in Queries
      BY ListFacts DEF LInv
    <3>2. \A i \in 1..Len(pending) : FALSE
      BY <3>1 DEF LInv, Stream, InStep, Awaiting
    <3> QED BY <3>1, <3>2
  <2>6. ~listening
    <3>1. conn = "up" => wire = <<>>
      BY <2>5, ListFacts DEF LInv, Stream, InStep
    <3> QED BY <2>4, <3>1 DEF LInv, Stream, InStep, Lasting
  <2> QED BY <2>2, <2>3, <2>4, <2>6
<1> QED BY <1>1, LiveInvariance, PTL

\* After unsubscribe has begun the refresher calls back at most once.
THEOREM LastCallback == Spec => []LateOnce
<1>1. LInv => LateOnce
  BY DEF LInv, LateOf, LateOnce
<1> QED BY <1>1, LiveInvariance, PTL

\* A live query with nothing on its way shows the table as it is, never an older version of
\* it, unless set-up and tear-down crossed, a notification was dropped or the notify connection
\* was lost.  What it may show instead is what another statement returned between the two
\* roundtrips of its own query.
THEOREM UpToDate == Spec => []Current
<1>1. LInv => Current
  <2> SUFFICES ASSUME LInv, ~Excused, notes = 0, NEW q \in Queries, pc[q] = "live", refresher[q] = "idle", ~wake[q]
               PROVE  shown[q] \in {table, Foreign}
    BY DEF Current
  <2> QED BY DEF LInv, AheadOf
<1> QED BY <1>1, LiveInvariance, PTL
=============================================================================
