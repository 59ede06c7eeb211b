---------------------------- MODULE SessionProof ----------------------------
(***************************************************************************)
(* Proofs about Session, for every set of tasks and connections and every  *)
(* number of statements.                                                   *)
(*                                                                         *)
(* They hold for the uses the runs with a finding rule out (SafeUse): each *)
(* of its conjuncts is a use of the API for which TLC shows a property to  *)
(* fail.  The argument is about what a previous user of a session can      *)
(* leave in its channel: IInv says which commands may stand where, which   *)
(* task's transaction is open on a session, and what that transaction's    *)
(* owner may already have been told.                                       *)
(***************************************************************************)
EXTENDS Session, SequenceTheorems, TLAPS

Stmts == {"write", "parse", "execute"}

\* After a statement that failed or was cancelled the user only ends the transaction, and
\* awaits each statement of a Transaction before sending the next; the gateway's clients
\* open no transaction block; in-process, nobody drops transaction() while it awaits BEGIN,
\* and live_query formats no parameters on a session in use.
SafeUse ==
  /\ Careful /\ ~Joined /\ ~WireBlocks
  /\ "InProcess" \notin CancelBegin
  /\ "InProcess" \in Backends => "format" \notin Kinds["InProcess"]

\* In multi-process mode PGlite::query makes two independent roundtrips.
NoSplitQuery == "MultiProcess" \in Backends => "query" \notin Kinds["MultiProcess"]

-----------------------------------------------------------------------------
(* The inductive invariant *)

\* TypeOK, without what follows from ShapeOf and Alone.
Typed ==
  /\ lease \in [Tasks -> Conns \cup {NoConn}]
  /\ kind \in [Tasks -> AllKinds]
  /\ pc \in [Tasks -> {"start", "sent", "open", "done"}]
  /\ op \in [Tasks -> Ops]
  /\ n \in [Tasks -> 0..MaxStmts]
  /\ clean \in [Tasks -> BOOLEAN]
  /\ reply \in [Tasks -> {"none", "pending", "ok", "err"}]
  /\ result \in [Tasks -> {"none", "ok", "err", "cancelled", "dropped"}]
  /\ queue \in [Conns -> Seq([by : Tasks, to : Tasks \cup {NoTask}, op : Ops, n : 0..MaxStmts])]
  /\ sess \in [Conns -> [tx : TxStates, stmt : {NoStmt} \cup UNION {Writes(t) : t \in Tasks},
                         writes : SUBSET UNION {Writes(t) : t \in Tasks}]]
  /\ dropped \subseteq Conns /\ exited \subseteq Conns
  /\ committed \subseteq UNION {Writes(t) : t \in Tasks}
  /\ acked \subseteq UNION {Writes(t) : t \in Tasks}

\* Nobody joins statements.
Alone == others = [t \in Tasks |-> {}]

OpsOf(k) ==
  CASE k \in {"exec", "copy"} -> {"write"}
    [] k = "query" -> {"parse", "execute"}
    [] k = "format" -> {"parse", "read"}
    [] k = "tx" -> {"begin", "write", "parse", "execute", "commit", "rollback"}
    [] k = "wire" -> {"write", "batch"}

\* Where a task stands determines what it holds and what it may send next.
ShapeOf(t) ==
  /\ lease[t] # NoConn <=> pc[t] = "sent" \/ (pc[t] = "open" /\ kind[t] = "tx")
  /\ reply[t] # "none" <=> pc[t] = "sent"
  /\ result[t] # "none" => pc[t] = "done"
  /\ pc[t] = "open" => kind[t] \in {"tx", "wire"}
  /\ op[t] \in OpsOf(kind[t])
  /\ kind[t] = "tx" /\ pc[t] = "start" => op[t] = "begin"
  /\ kind[t] = "query" /\ InProcess /\ pc[t] = "start" => op[t] = "parse"
  /\ kind[t] = "tx" /\ pc[t] = "open" => op[t] \in {"begin"} \cup Stmts
  /\ kind[t] = "tx" /\ pc[t] = "sent" /\ op[t] \in Stmts => clean[t]
  /\ op[t] \in Stmts \cup {"read"} \/ (op[t] = "batch" /\ pc[t] = "sent") => n[t] > 0

\* A connection has one holder; a worker that returned left nothing behind.
Conduct ==
  /\ backend \in Backends /\ kind \in [Tasks -> Kinds[backend]]
  /\ \A t, u \in Tasks : lease[t] # NoConn /\ lease[t] = lease[u] => t = u
  /\ \A k \in exited : queue[k] = <<>> /\ sess[k].tx = "none"

\* A task whose transaction has begun and that has not asked to end it.
InTx(t) ==
  /\ kind[t] = "tx" /\ lease[t] # NoConn
  /\ \/ pc[t] = "open" \/ op[t] \in Stmts
     \/ op[t] = "begin" /\ reply[t] = "ok"

\* Entry i of k's channel ends the transaction of t.
EndsAt(k, i, t) ==
  i \in DOMAIN queue[k] /\ queue[k][i].by = t /\ queue[k][i].op \in {"commit", "rollback"}

\* The transaction open on k is that of t: t is still at it, or its end is queued with at
\* most one cancelled statement before it.
OwnsTx(t, k) ==
  \/ InTx(t) /\ lease[t] = k
  \/ EndsAt(k, 1, t)
  \/ EndsAt(k, 2, t) /\ queue[k][1].by = t /\ queue[k][1].op \in Stmts

\* What entry i of k's channel says about its sender and the session.
Entry(k, i) ==
  LET c == queue[k][i]
      t == c.by
  IN /\ c.op \in OpsOf(kind[t])
     /\ c.op \in Stmts \cup {"batch", "read"} => c.n > 0
     /\ c.to \in {t, NoTask}
     /\ c.to = t => /\ lease[t] = k /\ pc[t] = "sent" /\ reply[t] = "pending"
                    /\ c.op = op[t] /\ c.n = n[t] /\ i = Len(queue[k])
     /\ c.op = "begin" /\ c.to = NoTask => EndsAt(k, i + 1, t)
     /\ c.op = "commit" => /\ i = 1 /\ op[t] = "commit" /\ sess[k].tx = "open"
                           /\ acked \cap Writes(t) \subseteq sess[k].writes
                           /\ sess[k].writes \subseteq Writes(t)
     /\ kind[t] = "tx" /\ c.op \in Stmts =>
          /\ i = 1 /\ sess[k].tx # "none"
          /\ c.to = NoTask => (InTx(t) /\ lease[t] = k /\ ~clean[t]) \/ EndsAt(k, 2, t)
     /\ c.op = "execute" /\ (kind[t] = "tx" \/ InProcess) => i = 1 /\ sess[k].stmt = <<t, c.n>>

Channels == \A k \in Conns : \A i \in DOMAIN queue[k] : Entry(k, i)

\* Behind a task that awaits nothing any more there is nothing in its channel; in the
\* channel of an open transaction there is at most a statement of it.
QuietOf(t) ==
  /\ pc[t] = "sent" /\ reply[t] # "pending" => queue[lease[t]] = <<>>
  /\ InTx(t) =>
       \A i \in DOMAIN queue[lease[t]] : queue[lease[t]][i].by = t /\ queue[lease[t]][i].op \in Stmts
  /\ kind[t] = "tx" /\ pc[t] = "open" /\ clean[t] => queue[lease[t]] = <<>>

\* A session inside a transaction block has exactly one owner, and holds nothing of others.
BlockOf(k) ==
  /\ sess[k].tx = "none" =>
       sess[k].writes = {} /\ (sess[k].stmt # NoStmt => kind[sess[k].stmt[1]] # "tx")
  /\ sess[k].tx # "none" =>
       \E t \in Tasks : /\ kind[t] = "tx" /\ OwnsTx(t, k)
                        /\ sess[k].writes \subseteq Writes(t)
                        /\ sess[k].stmt # NoStmt => sess[k].stmt[1] = t

\* What the user of a transaction was told is in its session as long as all went well, and
\* durable once commit() has returned Ok or anything of it is durable.
PromiseOf(t) ==
  kind[t] = "tx" =>
    /\ op[t] = "begin" => acked \cap Writes(t) = {}
    /\ op[t] # "commit" => committed \cap Writes(t) = {}
    /\ InTx(t) /\ clean[t] /\ reply[t] # "err" =>
         /\ sess[lease[t]].tx = "open"
         /\ acked \cap Writes(t) \subseteq sess[lease[t]].writes
         /\ reply[t] = "ok" /\ op[t] \in {"write", "execute"} => <<t, n[t]>> \in sess[lease[t]].writes
    /\ op[t] = "commit" /\ (reply[t] = "ok" \/ result[t] = "ok") => acked \cap Writes(t) \subseteq committed
    /\ committed \cap Writes(t) # {} => acked \cap Writes(t) \subseteq committed

\* The statement a query parsed is still the session's unnamed one when it goes on.
PreparedOf(t) ==
  /\ kind[t] = "tx" \/ (kind[t] = "query" /\ InProcess)
  /\ pc[t] = "sent" /\ op[t] = "parse" /\ reply[t] = "ok"
  => sess[lease[t]].stmt = <<t, n[t]>>

\* A write outside a transaction is durable before its caller hears of it.
DurableOf(t) ==
  kind[t] # "tx" /\ (kind[t] = "query" => InProcess) =>
    /\ acked \cap Writes(t) \subseteq committed
    /\ reply[t] = "ok" /\ op[t] \in {"write", "execute", "batch"} => <<t, n[t]>> \in committed

Executed == (InProcess \/ \A t \in Tasks : kind[t] # "query") => OwnStatement

IInv ==
  /\ Typed /\ Conduct /\ Channels /\ Executed
  /\ \A k \in Conns : BlockOf(k)
  /\ \A t \in Tasks : ShapeOf(t) /\ QuietOf(t) /\ PromiseOf(t) /\ PreparedOf(t) /\ DurableOf(t)

-----------------------------------------------------------------------------
(* Types *)

AllWrites == UNION {Writes(t) : t \in Tasks}
Command == [by : Tasks, to : Tasks \cup {NoTask}, op : Ops, n : 0..MaxStmts]
SessionState == [tx : TxStates, stmt : {NoStmt} \cup AllWrites, writes : SUBSET AllWrites]

\* A write names its task, so the writes of two tasks have nothing in common.
LEMMA WriteOf ==
  ASSUME NEW t \in Tasks
  PROVE  /\ \A i \in 0..MaxStmts : i > 0 => <<t, i>> \in Writes(t) /\ <<t, i>> \in AllWrites
         /\ \A w \in Writes(t) : w[1] = t /\ w # NoStmt
         /\ \A u \in Tasks : \A w \in Writes(u) : w \in Writes(t) <=> u = t
<1>1. \A i \in 0..MaxStmts : i > 0 => i \in 1..MaxStmts
  BY SessionAssumption
<1>2. \A u : \A w \in Writes(u) : w[1] = u /\ w # NoStmt
  BY DEF Writes, NoStmt
<1> QED BY <1>1, <1>2 DEF Writes, AllWrites

\* Every member of AllWrites names a task.
LEMMA WriteTask ==
  ASSUME NEW w \in AllWrites
  PROVE  w[1] \in Tasks /\ w \in Writes(w[1]) /\ w # NoStmt
<1>1. PICK t \in Tasks : w \in Writes(t)
  BY DEF AllWrites
<1> QED BY <1>1, WriteOf

\* The entries of a channel are commands.
LEMMA ChannelType ==
  ASSUME Typed, NEW k \in Conns
  PROVE  /\ queue[k] \in Seq(Command) /\ Len(queue[k]) \in Nat /\ DOMAIN queue[k] = 1..Len(queue[k])
         /\ \A i \in DOMAIN queue[k] :
              /\ queue[k][i] \in Command /\ queue[k][i].by \in Tasks /\ queue[k][i].op \in Ops
              /\ queue[k][i].to \in Tasks \cup {NoTask} /\ queue[k][i].n \in 0..MaxStmts
<1>1. queue[k] \in Seq(Command)
  BY DEF Typed, Command
<1>2. Len(queue[k]) \in Nat /\ DOMAIN queue[k] = 1..Len(queue[k])
  BY <1>1, LenProperties
<1>3. \A i \in DOMAIN queue[k] : queue[k][i] \in Command
  BY <1>1, <1>2, ElementOfSeq
<1> QED BY <1>1, <1>2, <1>3 DEF Command

\* Every command leaves a session of its type and commits writes, whatever it meets.
LEMMA RunType ==
  ASSUME NEW s \in SessionState, NEW c \in Command, NEW fails \in BOOLEAN,
         c.op \in Stmts \cup {"batch", "read"} => c.n > 0
  PROVE  /\ RunCommand(s, c, fails).sess \in SessionState
         /\ RunCommand(s, c, fails).commits \subseteq AllWrites
         /\ RunCommand(s, c, fails).ok \in BOOLEAN
<1> DEFINE w == <<c.by, c.n>>
           r == RunCommand(s, c, fails)
           Fine == r.sess \in SessionState /\ r.commits \subseteq AllWrites /\ r.ok \in BOOLEAN
<1>1. c.op \in Stmts \cup {"batch", "read"} => w \in AllWrites
  BY WriteOf DEF Command
<1>2. CASE c.op \in {"begin", "rollback"}
  BY <1>2 DEF RunCommand, Result, Failed, Ended, SessionState, TxStates, NoStmt
<1>3. CASE c.op = "commit"
  BY <1>3 DEF RunCommand, Result, Failed, Ended, SessionState, TxStates, NoStmt
<1>4. CASE c.op \in {"write", "batch"}
  BY <1>1, <1>4 DEF RunCommand, Result, Failed, Wrote, SessionState, TxStates, NoStmt, Stmts
<1>5. CASE c.op \in {"parse", "read"}
  BY <1>1, <1>5 DEF RunCommand, Result, Failed, SessionState, TxStates, NoStmt, Stmts
<1>6. CASE c.op = "execute"
  BY <1>1, <1>6 DEF RunCommand, Result, Failed, Wrote, SessionState, TxStates, NoStmt, Stmts
<1> QED BY <1>2, <1>3, <1>4, <1>5, <1>6 DEF Command, Ops, Stmts

-----------------------------------------------------------------------------
(* Steps of a task *)

\* What putting a command into a channel leaves.
LEMMA QueuedEntries ==
  ASSUME NEW q \in [Conns -> Seq(Command)], NEW k \in Conns, NEW c \in Command,
         NEW r, r = Queued(q, k, c)
  PROVE  /\ r \in [Conns -> Seq(Command)]
         /\ \A j \in Conns : j # k \/ j \in exited => r[j] = q[j]
         /\ k \notin exited => /\ Len(r[k]) = Len(q[k]) + 1 /\ DOMAIN r[k] = 1..(Len(q[k]) + 1)
                               /\ r[k][Len(q[k]) + 1] = c
         /\ \A i \in DOMAIN q[k] : i \in DOMAIN r[k] /\ r[k][i] = q[k][i]
         /\ \A i \in DOMAIN r[k] : i \in DOMAIN q[k] \/ (i = Len(q[k]) + 1 /\ r[k][i] = c)
<1>1. Len(q[k]) \in Nat /\ DOMAIN q[k] = 1..Len(q[k])
  BY LenProperties
<1>2. CASE k \in exited
  BY <1>1, <1>2 DEF Queued
<1>3. CASE k \notin exited
  <2>1. r = [q EXCEPT ![k] = Append(q[k], c)]
    BY <1>3 DEF Queued
  <2>2. r[k] = Append(q[k], c)
    BY <2>1
  <2>3. /\ Append(q[k], c) \in Seq(Command) /\ Len(Append(q[k], c)) = Len(q[k]) + 1
        /\ \A i \in 1..Len(q[k]) : Append(q[k], c)[i] = q[k][i]
        /\ Append(q[k], c)[Len(q[k]) + 1] = c
    BY AppendProperties
  <2>4. DOMAIN r[k] = 1..(Len(q[k]) + 1)
    BY <2>2, <2>3, LenProperties
  <2>5. \A i \in 1..(Len(q[k]) + 1) : i \in 1..Len(q[k]) \/ i = Len(q[k]) + 1
    BY <1>1
  <2>6. \A i \in 1..Len(q[k]) : i \in 1..(Len(q[k]) + 1)
    BY <1>1
  <2> QED BY <1>1, <1>3, <2>1, <2>2, <2>3, <2>4, <2>5, <2>6
<1> QED BY <1>2, <1>3

\* What dropping a receiver leaves: the commands, unawaited.
LEMMA ForgetEntries ==
  ASSUME Alone, NEW q \in Seq(Command), NEW t \in Tasks
  PROVE  /\ Forget(q, t) \in Seq(Command) /\ Len(Forget(q, t)) = Len(q) /\ DOMAIN Forget(q, t) = DOMAIN q
         /\ \A i \in DOMAIN q :
              /\ Forget(q, t)[i].by = q[i].by /\ Forget(q, t)[i].op = q[i].op /\ Forget(q, t)[i].n = q[i].n
              /\ Forget(q, t)[i].to = IF q[i].to = t THEN NoTask ELSE q[i].to
<1>1. Len(q) \in Nat /\ DOMAIN q = 1..Len(q) /\ \A i \in 1..Len(q) : q[i] \in Command
  BY LenProperties, ElementOfSeq
<1>2. \A i \in 1..Len(q) : [q[i] EXCEPT !.to = NoTask] \in Command
  BY <1>1 DEF Command
<1>5. \A i \in DOMAIN q : Mine(t, q[i]) <=> q[i].to = t
  BY DEF Alone, Mine
<1>3. Forget(q, t) \in [1..Len(q) -> Command]
  BY <1>1, <1>2 DEF Forget
<1>4. Forget(q, t) \in Seq(Command) /\ Len(Forget(q, t)) = Len(q)
  BY <1>1, <1>3, IsASeq, LenProperties
<1> QED BY <1>1, <1>3, <1>4, <1>5 DEF Forget, Command

\* Channels as a step of t leaves them: nothing leaves one, only t's commands enter, and
\* only in the channel of t's own connection.
QueueFrame(t) ==
  /\ queue' \in [Conns -> Seq(Command)]
  /\ \A j \in exited : queue'[j] = queue[j]
  /\ \A u \in Tasks \ {t} : lease[u] # NoConn => queue'[lease[u]] = queue[lease[u]]
  /\ \A j \in Conns : \A i \in DOMAIN queue[j] :
       /\ i \in DOMAIN queue'[j]
       /\ queue'[j][i].by = queue[j][i].by /\ queue'[j][i].op = queue[j][i].op
       /\ queue'[j][i].n = queue[j][i].n
       /\ queue'[j][i].to = queue[j][i].to \/ (queue[j][i].to = t /\ queue'[j][i].to = NoTask)
  /\ \A j \in Conns : \A i \in DOMAIN queue'[j] : i \in DOMAIN queue[j] \/ queue'[j][i].by = t

\* Only t changes, and its connection is nobody else's.
Frame(t) ==
  /\ QueueFrame(t)
  /\ UNCHANGED <<backend, kind, sess, committed, ran, exited>>
  /\ \A u \in Tasks \ {t} :
       /\ lease'[u] = lease[u] /\ pc'[u] = pc[u] /\ op'[u] = op[u] /\ n'[u] = n[u]
       /\ clean'[u] = clean[u] /\ reply'[u] = reply[u] /\ result'[u] = result[u]
       /\ acked' \cap Writes(u) = acked \cap Writes(u)
       /\ lease[u] # NoConn => lease'[t] # lease[u]

\* A step that touches no channel.
LEMMA SameQueue ==
  ASSUME IInv, NEW t \in Tasks, UNCHANGED queue
  PROVE  QueueFrame(t)
<1>1. queue \in [Conns -> Seq(Command)]
  BY DEF IInv, Typed, Command
<1> QED BY <1>1 DEF QueueFrame

\* A step that puts a command of t into the channel of t's connection.
LEMMA GrownQueue ==
  ASSUME IInv, NEW t \in Tasks, NEW k \in Conns, NEW c \in Command, c.by = t,
         queue' = Queued(queue, k, c), \A u \in Tasks \ {t} : lease[u] # k
  PROVE  QueueFrame(t)
<1>1. queue \in [Conns -> Seq(Command)] /\ exited \subseteq Conns /\ lease \in [Tasks -> Conns \cup {NoConn}]
  BY DEF IInv, Typed, Command
<1>2. /\ queue' \in [Conns -> Seq(Command)]
      /\ \A j \in Conns : j # k \/ j \in exited => queue'[j] = queue[j]
      /\ \A i \in DOMAIN queue[k] : i \in DOMAIN queue'[k] /\ queue'[k][i] = queue[k][i]
      /\ \A i \in DOMAIN queue'[k] : i \in DOMAIN queue[k] \/ queue'[k][i] = c
  BY <1>1, QueuedEntries
<1> QED BY <1>1, <1>2 DEF QueueFrame

\* The channels once t has dropped its receiver at k.
Forgotten(q, k, t) == q = [queue EXCEPT ![k] = Forget(queue[k], t)]

\* A step that drops t's receiver and then may put another command into the channel.
LEMMA ForgottenQueue ==
  ASSUME IInv, Alone, NEW t \in Tasks, NEW k \in Conns, NEW c \in Command, c.by = t,
         NEW q, Forgotten(q, k, t),
         queue' = q \/ queue' = Queued(q, k, c), \A u \in Tasks \ {t} : lease[u] # k
  PROVE  QueueFrame(t) /\ q \in [Conns -> Seq(Command)]
<1>1. queue \in [Conns -> Seq(Command)] /\ exited \subseteq Conns /\ lease \in [Tasks -> Conns \cup {NoConn}]
  BY DEF IInv, Typed, Command
<1>2. /\ Forget(queue[k], t) \in Seq(Command) /\ DOMAIN Forget(queue[k], t) = DOMAIN queue[k]
      /\ \A i \in DOMAIN queue[k] :
           /\ Forget(queue[k], t)[i].by = queue[k][i].by /\ Forget(queue[k], t)[i].op = queue[k][i].op
           /\ Forget(queue[k], t)[i].n = queue[k][i].n
           /\ Forget(queue[k], t)[i].to = IF queue[k][i].to = t THEN NoTask ELSE queue[k][i].to
  BY <1>1, ForgetEntries
<1>3. q \in [Conns -> Seq(Command)] /\ q[k] = Forget(queue[k], t) /\ \A j \in Conns : j # k => q[j] = queue[j]
  BY <1>1, <1>2 DEF Forgotten
<1>4. k \in exited => q[k] = queue[k]
  <2>1. k \in exited => queue[k] = <<>>
    BY DEF IInv, Conduct
  <2> QED BY <1>3, <2>1 DEF Forget
<1>5. /\ queue' \in [Conns -> Seq(Command)]
      /\ \A j \in Conns : j # k \/ j \in exited => queue'[j] = q[j]
      /\ \A i \in DOMAIN q[k] : i \in DOMAIN queue'[k] /\ queue'[k][i] = q[k][i]
      /\ \A i \in DOMAIN queue'[k] : i \in DOMAIN q[k] \/ queue'[k][i] = c
  <2>1. CASE queue' = q
    BY <1>3, <2>1
  <2>2. CASE queue' = Queued(q, k, c)
    <3>1. q \in [Conns -> Seq(Command)]
      BY <1>3
    <3>2. /\ Queued(q, k, c) \in [Conns -> Seq(Command)]
          /\ \A j \in Conns : j # k \/ j \in exited => Queued(q, k, c)[j] = q[j]
          /\ \A i \in DOMAIN q[k] : i \in DOMAIN Queued(q, k, c)[k] /\ Queued(q, k, c)[k][i] = q[k][i]
          /\ \A i \in DOMAIN Queued(q, k, c)[k] : i \in DOMAIN q[k] \/ Queued(q, k, c)[k][i] = c
      BY ONLY <3>1, QueuedEntries, k \in Conns, c \in Command
    <3> QED BY <2>2, <3>2
  <2> QED BY <2>1, <2>2
<1>6. /\ \A j \in exited : queue'[j] = queue[j]
      /\ \A u \in Tasks \ {t} : lease[u] # NoConn => queue'[lease[u]] = queue[lease[u]]
  BY <1>1, <1>3, <1>4, <1>5
<1>7. ASSUME NEW j \in Conns, NEW i \in DOMAIN queue[j]
      PROVE  /\ i \in DOMAIN queue'[j]
             /\ queue'[j][i].by = queue[j][i].by /\ queue'[j][i].op = queue[j][i].op
             /\ queue'[j][i].n = queue[j][i].n
             /\ queue'[j][i].to = queue[j][i].to \/ (queue[j][i].to = t /\ queue'[j][i].to = NoTask)
  <2>1. CASE j = k
    <3>1. i \in DOMAIN q[k] /\ queue'[k][i] = q[k][i] /\ q[k][i] = Forget(queue[k], t)[i]
      BY <1>2, <1>3, <1>5, <2>1
    <3> QED BY <1>2, <1>5, <2>1, <3>1
  <2>2. CASE j # k
    BY <1>3, <1>5, <2>2
  <2> QED BY <2>1, <2>2
<1>8. \A j \in Conns : \A i \in DOMAIN queue'[j] : i \in DOMAIN queue[j] \/ queue'[j][i].by = t
  <2>1. \A i \in DOMAIN queue'[k] : i \in DOMAIN queue[k] \/ queue'[k][i].by = t
    BY <1>2, <1>3, <1>5
  <2>2. \A j \in Conns : j # k => queue'[j] = queue[j]
    BY <1>3, <1>5
  <2> QED BY <2>1, <2>2
<1> QED BY <1>3, <1>5, <1>6, <1>7, <1>8 DEF QueueFrame

\* The step in which t sends command o, its statement m, to its connection k.
Sends(t, k, o, m) ==
  /\ Send(t, k, o, m)
  /\ lease' = [lease EXCEPT ![t] = k] /\ \A u \in Tasks \ {t} : lease[u] # k
  /\ UNCHANGED <<backend, kind, clean, result, acked, sess, committed, ran, dropped, exited>>

\* What it leaves: the command is entry p of the channel, unless the worker is gone.
Sent(t, k, o, m, p) ==
  /\ lease'[t] = k /\ pc'[t] = "sent" /\ op'[t] = o /\ n'[t] = m
  /\ clean'[t] = clean[t] /\ result'[t] = result[t] /\ acked' = acked
  /\ reply'[t] = IF k \in exited THEN "err" ELSE "pending"
  /\ k \in exited => queue'[k] = queue[k]
  /\ k \notin exited =>
       /\ Len(queue'[k]) = p /\ p \in DOMAIN queue'[k]
       /\ queue'[k][p].by = t /\ queue'[k][p].to = t /\ queue'[k][p].op = o /\ queue'[k][p].n = m
  /\ \A j \in Conns : \A i \in DOMAIN queue'[j] :
       i \in DOMAIN queue[j] \/ (j = k /\ k \notin exited /\ i = p)

\* A send changes only its task and its connection's channel.
LEMMA SendFrame ==
  ASSUME IInv, NEW t \in Tasks, NEW k \in Conns, NEW o \in Ops, NEW m \in 0..MaxStmts,
         NEW p \in Nat, p = Len(queue[k]) + 1, Sends(t, k, o, m)
  PROVE  Frame(t) /\ Typed' /\ Sent(t, k, o, m, p)
<1> USE DEF Sends
<1>1. Cmd(t, o, m) \in Command /\ Cmd(t, o, m).by = t
  BY DEF Cmd, Command
<1>2. queue' = Queued(queue, k, Cmd(t, o, m))
  BY DEF Send
<1>3. QueueFrame(t)
  BY <1>1, <1>2, GrownQueue
<1>4. queue \in [Conns -> Seq(Command)]
  BY DEF IInv, Typed, Command
<1>5. /\ \A j \in Conns : j # k \/ j \in exited => queue'[j] = queue[j]
      /\ k \notin exited => /\ Len(queue'[k]) = Len(queue[k]) + 1 /\ DOMAIN queue'[k] = 1..(Len(queue[k]) + 1)
                            /\ queue'[k][Len(queue[k]) + 1] = Cmd(t, o, m)
      /\ \A i \in DOMAIN queue[k] : i \in DOMAIN queue'[k] /\ queue'[k][i] = queue[k][i]
      /\ \A i \in DOMAIN queue'[k] : i \in DOMAIN queue[k] \/ i = Len(queue[k]) + 1
  BY ONLY <1>1, <1>2, <1>4, QueuedEntries, k \in Conns
<1>6. lease'[t] = k /\ pc'[t] = "sent" /\ op'[t] = o /\ n'[t] = m
      /\ reply'[t] = IF k \in exited THEN "err" ELSE "pending"
  BY DEF IInv, Typed, Send
<1>7. Frame(t)
  BY <1>3, <1>6 DEF IInv, Typed, Send, Frame
<1>8. Typed'
  BY <1>3 DEF IInv, Typed, Send, QueueFrame, Command, Ops
<1>9. ASSUME NEW j \in Conns, NEW i \in DOMAIN queue'[j]
      PROVE  i \in DOMAIN queue[j] \/ (j = k /\ k \notin exited /\ i = p)
  BY <1>5
<1>10. k \notin exited => /\ Len(queue'[k]) = p /\ p \in DOMAIN queue'[k] /\ queue'[k][p].by = t
                          /\ queue'[k][p].to = t /\ queue'[k][p].op = o /\ queue'[k][p].n = m
  <2>1. p \in 1..p
    BY ChannelType DEF IInv
  <2> QED BY <1>5, <2>1 DEF Cmd
<1>11. clean'[t] = clean[t] /\ result'[t] = result[t] /\ acked' = acked
  OBVIOUS
<1> QED BY <1>5, <1>6, <1>7, <1>8, <1>9, <1>10, <1>11 DEF Sent

\* The step in which the call of t ends with result r.
Ends(t, r) ==
  /\ End(t, r) /\ QueueFrame(t)
  /\ UNCHANGED <<backend, kind, op, n, clean, sess, committed, ran, exited>> /\ dropped' \subseteq Conns
  /\ acked' = acked \/ (acked' = acked \cup {<<t, n[t]>>} /\ n[t] > 0)

\* The end of a call changes only its task, and gives the connection back.
LEMMA EndFrame ==
  ASSUME IInv, NEW t \in Tasks, NEW r \in {"ok", "err", "cancelled", "dropped"}, Ends(t, r)
  PROVE  /\ Frame(t) /\ Typed'
         /\ lease'[t] = NoConn /\ pc'[t] = "done" /\ result'[t] = r /\ reply'[t] = "none"
<1> USE DEF Ends
<1>1. lease' = [lease EXCEPT ![t] = NoConn]
  BY DEF IInv, Typed, End, Lease!Give
<1>2. n[t] > 0 => <<t, n[t]>> \in Writes(t) /\ <<t, n[t]>> \in AllWrites
  BY WriteOf DEF IInv, Typed
<1>3. lease'[t] = NoConn /\ pc'[t] = "done" /\ result'[t] = r /\ reply'[t] = "none"
  BY <1>1 DEF IInv, Typed, End
<1>4. \A u \in Tasks \ {t} : acked' \cap Writes(u) = acked \cap Writes(u)
  BY <1>2, WriteOf
<1>5. Frame(t)
  BY <1>1, <1>3, <1>4 DEF IInv, Typed, End, Frame
<1>6. Typed'
  <2>1. acked' \subseteq AllWrites
    BY <1>2 DEF IInv, Typed, AllWrites
  <2> QED BY <1>1, <2>1 DEF IInv, Typed, End, QueueFrame, Command, AllWrites
<1> QED BY <1>3, <1>5, <1>6

\* A step of t keeps the invariant when what it says of t holds again: everything it says
\* of the other tasks depends on nothing that t may change.
LEMMA FrameStep ==
  ASSUME IInv, NEW t \in Tasks, Frame(t), Typed',
         ShapeOf(t)', QuietOf(t)', PromiseOf(t)', PreparedOf(t)', DurableOf(t)',
         \A j \in Conns : \A i \in DOMAIN queue'[j] : queue'[j][i].by = t => Entry(j, i)',
         \A j \in Conns : sess[j].tx # "none" /\ OwnsTx(t, j) => OwnsTx(t, j)'
  PROVE  IInv'
<1>1. ASSUME NEW u \in Tasks \ {t}
      PROVE  /\ lease'[u] = lease[u] /\ pc'[u] = pc[u] /\ op'[u] = op[u] /\ n'[u] = n[u]
             /\ clean'[u] = clean[u] /\ reply'[u] = reply[u] /\ result'[u] = result[u] /\ kind'[u] = kind[u]
             /\ acked' \cap Writes(u) = acked \cap Writes(u) /\ InTx(u)' = InTx(u)
  BY DEF Frame, InTx
<1>2. UNCHANGED <<backend, kind, sess, committed, ran, exited>>
  BY DEF Frame
<1>3. ASSUME NEW u \in Tasks PROVE ShapeOf(u)'
  <2>1. CASE u # t
    BY <1>1, <1>2, <2>1 DEF IInv, ShapeOf, InProcess
  <2> QED BY <2>1
<1>4. ASSUME NEW u \in Tasks PROVE QuietOf(u)'
  <2>1. CASE u # t
    <3>1. lease[u] # NoConn => queue'[lease[u]] = queue[lease[u]]
      BY <2>1 DEF Frame, QueueFrame
    <3>2. pc[u] = "sent" \/ (kind[u] = "tx" /\ pc[u] = "open") \/ InTx(u) => lease[u] # NoConn
      BY DEF IInv, ShapeOf, InTx
    <3> QED BY <1>1, <2>1, <3>1, <3>2 DEF IInv, QuietOf
  <2> QED BY <2>1
<1>5. ASSUME NEW u \in Tasks PROVE PromiseOf(u)' /\ PreparedOf(u)' /\ DurableOf(u)'
  <2>1. CASE u # t
    <3>1. PromiseOf(u)'
      BY <1>1, <1>2, <2>1 DEF IInv, PromiseOf
    <3>2. PreparedOf(u)'
      BY <1>1, <1>2, <2>1 DEF IInv, PreparedOf, InProcess
    <3>3. DurableOf(u)'
      BY <1>1, <1>2, <2>1 DEF IInv, DurableOf, InProcess
    <3> QED BY <3>1, <3>2, <3>3
  <2> QED BY <2>1
<1>6. ASSUME NEW j \in Conns, NEW i, NEW u \in Tasks, EndsAt(j, i, u) PROVE EndsAt(j, i, u)'
  BY <1>6 DEF EndsAt, Frame, QueueFrame
<1>7. ASSUME NEW j \in Conns PROVE BlockOf(j)'
  <2>1. ASSUME NEW u \in Tasks, sess[j].tx # "none", OwnsTx(u, j) PROVE OwnsTx(u, j)'
    <3>1. CASE u # t /\ InTx(u) /\ lease[u] = j
      BY <1>1, <3>1 DEF OwnsTx
    <3>2. CASE EndsAt(j, 1, u)
      BY <1>6, <3>2 DEF OwnsTx
    <3>3. CASE EndsAt(j, 2, u) /\ queue[j][1].by = u /\ queue[j][1].op \in Stmts
      <4>1. 1 \in DOMAIN queue[j]
        BY <3>3, ChannelType DEF EndsAt, IInv
      <4>2. queue'[j][1].by = u /\ queue'[j][1].op \in Stmts
        BY <3>3, <4>1 DEF Frame, QueueFrame
      <4> QED BY <1>6, <3>3, <4>2 DEF OwnsTx
    <3> QED BY <2>1, <3>1, <3>2, <3>3 DEF OwnsTx
  <2> QED BY <1>2, <2>1 DEF IInv, BlockOf
<1>8. ASSUME NEW j \in Conns, NEW i \in DOMAIN queue'[j], queue'[j][i].by # t PROVE Entry(j, i)'
  <2>1. i \in DOMAIN queue[j] /\ Entry(j, i)
    BY <1>8 DEF IInv, Channels, Frame, QueueFrame
  <2>a. PICK u \in Tasks : u = queue[j][i].by
    BY <2>1, ChannelType DEF IInv
  <2>2. u \in Tasks \ {t} /\ queue[j][i].to # t
    BY <1>8, <2>a, <2>1, ChannelType, SessionAssumption DEF IInv, Entry, Frame, QueueFrame
  <2>3. /\ queue'[j][i].by = u /\ queue'[j][i].op = queue[j][i].op /\ queue'[j][i].n = queue[j][i].n
        /\ queue'[j][i].to = queue[j][i].to
    BY <2>a, <2>1, <2>2 DEF Frame, QueueFrame
  <2>4. lease[u] = j => queue'[j] = queue[j]
    BY <2>2, SessionAssumption DEF Frame, QueueFrame
  <2>5. \A m : EndsAt(j, m, u) => EndsAt(j, m, u)'
    BY <1>6, <2>2
  <2> QED BY <1>1, <1>2, <2>a, <2>1, <2>2, <2>3, <2>4, <2>5 DEF Entry, InProcess
<1>9. Conduct'
  <2>1. \A u, v \in Tasks : lease'[u] # NoConn /\ lease'[u] = lease'[v] => u = v
    BY DEF IInv, Conduct, Frame
  <2>2. \A k \in exited : queue'[k] = queue[k]
    BY DEF Frame, QueueFrame
  <2> QED BY <1>2, <2>1, <2>2 DEF IInv, Conduct
<1>10. Channels'
  BY <1>8 DEF Channels
<1>11. Executed'
  BY <1>2 DEF IInv, Executed, OwnStatement, InProcess
<1> QED BY <1>3, <1>4, <1>5, <1>7, <1>9, <1>10, <1>11 DEF IInv

\* What an earlier command of t says stays true when t awaits nothing and neither takes
\* back its commit nor leaves an open transaction without an end behind the command.
LEMMA OldEntries ==
  ASSUME IInv, NEW t \in Tasks, Frame(t), reply[t] # "pending",
         op[t] = "commit" => op'[t] = "commit" /\ acked' \cap Writes(t) = acked \cap Writes(t),
         \A j \in Conns : InTx(t) /\ lease[t] = j => queue[j] = <<>> \/ EndsAt(j, 2, t)'
  PROVE  \A j \in Conns : \A i \in DOMAIN queue[j] : queue[j][i].by = t => Entry(j, i)'
<1> SUFFICES ASSUME NEW j \in Conns, NEW i \in DOMAIN queue[j], queue[j][i].by = t
             PROVE  Entry(j, i)'
  OBVIOUS
<1>1. Entry(j, i) /\ queue[j][i].to = NoTask
  BY DEF IInv, Channels, Entry
<1>2. /\ queue'[j][i].by = t /\ queue'[j][i].op = queue[j][i].op /\ queue'[j][i].n = queue[j][i].n
      /\ queue'[j][i].to = NoTask
  BY <1>1 DEF Frame, QueueFrame
<1>3. \A m : EndsAt(j, m, t) => EndsAt(j, m, t)'
  BY DEF EndsAt, Frame, QueueFrame
<1>4. UNCHANGED <<backend, kind, sess>> /\ NoTask # t
  BY SessionAssumption DEF Frame
<1>5. (InTx(t) /\ lease[t] = j /\ ~clean[t]) \/ EndsAt(j, 2, t) => EndsAt(j, 2, t)'
  BY <1>3
<1> QED BY <1>1, <1>2, <1>3, <1>4, <1>5 DEF Entry, InProcess

\* The end of t's transaction, once queued, stays queued.
LEMMA OldOwner ==
  ASSUME IInv, NEW t \in Tasks, Frame(t),
         \A j \in Conns : InTx(t) /\ lease[t] = j /\ sess[j].tx # "none" => OwnsTx(t, j)'
  PROVE  \A j \in Conns : sess[j].tx # "none" /\ OwnsTx(t, j) => OwnsTx(t, j)'
<1> SUFFICES ASSUME NEW j \in Conns, sess[j].tx # "none", OwnsTx(t, j)
             PROVE  OwnsTx(t, j)'
  OBVIOUS
<1>1. \A m : EndsAt(j, m, t) => EndsAt(j, m, t)'
  BY DEF EndsAt, Frame, QueueFrame
<1>2. EndsAt(j, 2, t) => 1 \in DOMAIN queue[j]
  BY ChannelType DEF EndsAt, IInv
<1>3. 1 \in DOMAIN queue[j] => queue'[j][1].by = queue[j][1].by /\ queue'[j][1].op = queue[j][1].op
  BY DEF Frame, QueueFrame
<1> QED BY <1>1, <1>2, <1>3 DEF OwnsTx

\* What the command just sent says holds: a statement and the end of a transaction are
\* sent into an empty channel, and an Execute to the session that has its statement.
MaySend(t, k, o, m, p) ==
  /\ o \in OpsOf(kind[t]) /\ (o \in Stmts \cup {"batch", "read"} => m > 0)
  /\ o = "commit" => /\ p = 1 /\ sess[k].tx = "open" /\ acked \cap Writes(t) \subseteq sess[k].writes
                     /\ sess[k].writes \subseteq Writes(t)
  /\ kind[t] = "tx" /\ o \in Stmts => p = 1 /\ sess[k].tx # "none"
  /\ o = "execute" /\ (kind[t] = "tx" \/ InProcess) => p = 1 /\ sess[k].stmt = <<t, m>>

\* A send keeps the invariant when it was allowed and what it says of its task holds again.
LEMMA SendStep ==
  ASSUME IInv, NEW t \in Tasks, NEW k \in Conns, NEW o \in Ops, NEW m \in 0..MaxStmts, NEW p \in Nat,
         Frame(t), Typed', Sent(t, k, o, m, p), k \notin exited => MaySend(t, k, o, m, p),
         reply[t] # "pending", op[t] # "commit",
         \A j \in Conns : InTx(t) /\ lease[t] = j => queue[j] = <<>> \/ EndsAt(j, 2, t)',
         \A j \in Conns : InTx(t) /\ lease[t] = j /\ sess[j].tx # "none" => OwnsTx(t, j)',
         ShapeOf(t)', QuietOf(t)', PromiseOf(t)', PreparedOf(t)', DurableOf(t)'
  PROVE  IInv'
<1>1. \A j \in Conns : \A i \in DOMAIN queue[j] : queue[j][i].by = t => Entry(j, i)'
  BY OldEntries
<1>2. ASSUME k \notin exited PROVE Entry(k, p)'
  <2>1. /\ queue'[k][p].by = t /\ queue'[k][p].to = t /\ queue'[k][p].op = o /\ queue'[k][p].n = m
        /\ t # NoTask /\ p = Len(queue'[k])
    BY <1>2, SessionAssumption DEF Sent
  <2>2. lease'[t] = k /\ pc'[t] = "sent" /\ reply'[t] = "pending" /\ op'[t] = o /\ n'[t] = m
    BY <1>2 DEF Sent
  <2>3. kind'[t] = kind[t] /\ InProcess' = InProcess /\ sess' = sess /\ acked' = acked
    BY DEF InProcess, Frame, Sent
  <2>4. MaySend(t, k, o, m, p)
    BY <1>2
  <2> QED BY <2>1, <2>2, <2>3, <2>4 DEF Entry, MaySend
<1>3. \A j \in Conns : \A i \in DOMAIN queue'[j] : queue'[j][i].by = t => Entry(j, i)'
  <2>1. \A j \in Conns : \A i \in DOMAIN queue'[j] : i \in DOMAIN queue[j] \/ (j = k /\ k \notin exited /\ i = p)
    BY DEF Sent
  <2> QED BY <1>1, <1>2, <2>1 DEF Frame, QueueFrame
<1>4. \A j \in Conns : sess[j].tx # "none" /\ OwnsTx(t, j) => OwnsTx(t, j)'
  BY OldOwner
<1> QED BY <1>3, <1>4, FrameStep

\* acquire returned and the first command was sent, behind whatever the previous users of
\* the connection left in its channel.
LEMMA StartStep ==
  ASSUME IInv, SafeUse, NEW t \in Tasks, Start(t)
  PROVE  IInv'
<1> USE SessionAssumption
<1>1. PICK k \in Conns \ (dropped \cup exited) : Lease!Take(t, k) /\ Send(t, k, op[t], n[t])
  BY DEF Start
<1>2. pc[t] = "start" /\ kind[t] # "wire" /\ lease[t] = NoConn
  BY <1>1 DEF Start, Lease!Take
<1>3. lease' = [lease EXCEPT ![t] = k] /\ \A u \in Tasks \ {t} : lease[u] # k
  BY <1>1 DEF Lease!Take, Lease!Lent, Lease!Holders
<1>4. PICK o \in Ops, m \in 0..MaxStmts, p \in Nat : o = op[t] /\ m = n[t] /\ p = Len(queue[k]) + 1
  BY ChannelType DEF IInv, Typed
<1>a. Send(t, k, o, m)
  BY <1>1, <1>4 DEF Send
<1>5. UNCHANGED <<backend, kind, clean, result, acked, sess, committed, ran, dropped, exited>>
  BY DEF Start, connVars
<1>b. Sends(t, k, o, m)
  BY <1>a, <1>3, <1>5 DEF Sends
<1>6. Frame(t) /\ Typed' /\ Sent(t, k, o, m, p) /\ k \notin exited
  BY <1>1, <1>4, <1>b, SendFrame
<1> USE DEF Sent
<1>7. ShapeOf(t) /\ PromiseOf(t) /\ DurableOf(t)
  BY DEF IInv
<1>8. ~InTx(t) /\ ~InTx(t)' /\ reply[t] = "none"
  BY <1>2, <1>4, <1>5, <1>6, <1>7 DEF InTx, ShapeOf, Stmts
<1>9. ShapeOf(t)' /\ QuietOf(t)'
  <2>1. QuietOf(t)'
    BY <1>6, <1>8 DEF QuietOf
  <2>2. o \in Stmts \cup {"read"} \/ o = "batch" => m > 0
    BY <1>2, <1>4, <1>7 DEF ShapeOf, OpsOf, IInv, Typed, AllKinds
  <2> QED BY <1>2, <1>3, <1>4, <1>5, <1>6, <1>7, <2>1, <2>2 DEF ShapeOf, Stmts
<1>10. PromiseOf(t)' /\ PreparedOf(t)' /\ DurableOf(t)'
  BY <1>2, <1>5, <1>6, <1>7, <1>8 DEF ShapeOf, PromiseOf, PreparedOf, DurableOf, InProcess
<1>11. MaySend(t, k, o, m, p)
  BY <1>2, <1>4, <1>7 DEF ShapeOf, OpsOf, Stmts, IInv, Typed, AllKinds, MaySend
<1>12. op[t] # "commit"
  BY <1>2, <1>7 DEF ShapeOf, OpsOf, IInv, Typed, AllKinds
<1> HIDE DEF Sent
<1> QED BY <1>1, <1>6, <1>8, <1>9, <1>10, <1>11, <1>12, SendStep

\* The owner of a transaction in which all went well finds its channel empty and its
\* session inside the block, with everything it was told in it.
LEMMA WellSoFar ==
  ASSUME IInv, NEW t \in Tasks, NEW k \in Conns, k = lease[t], InTx(t), clean[t], reply[t] \in {"none", "ok"}
  PROVE  /\ queue[k] = <<>> /\ sess[k].tx = "open" /\ k \notin exited
         /\ acked \cap Writes(t) \subseteq sess[k].writes /\ sess[k].writes \subseteq Writes(t)
<1>1. ShapeOf(t) /\ QuietOf(t) /\ PromiseOf(t) /\ kind[t] = "tx" /\ lease[t] # NoConn
  BY DEF IInv, InTx
<1>2. queue[k] = <<>>
  BY <1>1 DEF ShapeOf, QuietOf
<1>3. sess[k].tx = "open" /\ acked \cap Writes(t) \subseteq sess[k].writes
  BY <1>1 DEF PromiseOf
<1>4. PICK u \in Tasks : OwnsTx(u, k) /\ sess[k].writes \subseteq Writes(u)
  BY <1>3 DEF IInv, BlockOf
<1>5. u = t
  <2>1. \A i : ~EndsAt(k, i, u)
    BY <1>2 DEF EndsAt
  <2> QED BY <1>1, <1>4, <2>1 DEF OwnsTx, IInv, Conduct
<1>6. k \notin exited
  BY <1>3 DEF IInv, Conduct
<1> QED BY <1>2, <1>3, <1>4, <1>5, <1>6

\* A statement, an Execute or the commit of a transaction in which all went well.
LEMMA OnwardStep ==
  ASSUME IInv, NEW t \in Tasks, NEW k \in Conns, NEW o \in Ops, NEW m \in 0..MaxStmts,
         k = lease[t], InTx(t), clean[t], reply[t] \in {"none", "ok"}, Sends(t, k, o, m),
         o \in Stmts \cup {"commit"}, o \in Stmts => m > 0, o = "execute" => sess[k].stmt = <<t, m>>
  PROVE  IInv'
<1>1. /\ queue[k] = <<>> /\ sess[k].tx = "open" /\ k \notin exited
      /\ acked \cap Writes(t) \subseteq sess[k].writes /\ sess[k].writes \subseteq Writes(t)
  BY WellSoFar
<1>2. ShapeOf(t) /\ QuietOf(t) /\ PromiseOf(t) /\ kind[t] = "tx" /\ k # NoConn
  BY DEF IInv, InTx
<1>3. PICK p \in Nat : p = 1 /\ p = Len(queue[k]) + 1
  BY <1>1
<1>4. Frame(t) /\ Typed' /\ Sent(t, k, o, m, p)
  BY <1>3, SendFrame
<1>5. op[t] \in {"begin"} \cup Stmts /\ op[t] # "commit"
  BY <1>2 DEF ShapeOf, InTx, Stmts
<1>6. MaySend(t, k, o, m, p)
  BY <1>1, <1>2, <1>3 DEF MaySend, OpsOf, Stmts
<1>7. UNCHANGED <<backend, kind, sess, committed>> /\ acked' = acked
  BY DEF Sends
<1>8. /\ lease'[t] = k /\ pc'[t] = "sent" /\ op'[t] = o /\ n'[t] = m /\ reply'[t] = "pending" /\ clean'[t]
      /\ result'[t] = "none"
  BY <1>1, <1>2, <1>4 DEF Sent, ShapeOf, InTx, IInv, Typed
<1>9. /\ 1 \in DOMAIN queue'[k] /\ queue'[k][1].by = t /\ queue'[k][1].op = o
      /\ \A i \in DOMAIN queue'[k] : i = 1
  BY <1>1, <1>3, <1>4 DEF Sent
<1>10. ShapeOf(t)'
  BY <1>2, <1>7, <1>8 DEF ShapeOf, OpsOf, Stmts
<1>11. QuietOf(t)'
  BY <1>8, <1>9 DEF QuietOf, InTx
<1>12. PromiseOf(t)'
  BY <1>1, <1>2, <1>5, <1>7, <1>8 DEF PromiseOf, Stmts
<1>13. PreparedOf(t)' /\ DurableOf(t)'
  BY <1>2, <1>7, <1>8 DEF PreparedOf, DurableOf
<1>14. OwnsTx(t, k)'
  <2>1. CASE o \in Stmts
    BY <1>2, <1>7, <1>8, <2>1 DEF OwnsTx, InTx
  <2>2. CASE o = "commit"
    BY <1>9, <2>2 DEF OwnsTx, EndsAt
  <2> QED BY <2>1, <2>2
<1> QED BY <1>1, <1>4, <1>5, <1>6, <1>10, <1>11, <1>12, <1>13, <1>14, SendStep

\* The next statement of a transaction, its commit, and the second half of its query.
LEMMA TxSendStep ==
  ASSUME IInv, SafeUse, NEW t \in Tasks, Statement(t) \/ Commit(t) \/ TxParsed(t)
  PROVE  IInv'
<1>1. kind[t] = "tx" /\ ShapeOf(t) /\ PreparedOf(t) /\ Typed
  BY DEF Statement, Commit, InHand, TxParsed, IInv
<1>2. pc[t] = "open" \/ (pc[t] = "sent" /\ reply[t] = "ok" /\ op[t] = "parse")
  BY DEF Statement, Commit, InHand, TxParsed, Awaits
<1>3. lease[t] # NoConn /\ InTx(t) /\ reply[t] \in {"none", "ok"}
  BY <1>1, <1>2 DEF ShapeOf, InTx, Stmts
<1>4. clean[t]
  BY <1>1, <1>2 DEF Statement, Commit, InHand, TxParsed, SafeUse, ShapeOf, Stmts, Awaits
<1>5. PICK k \in Conns : k = lease[t]
  BY <1>1, <1>3 DEF Typed
<1>6. lease' = [lease EXCEPT ![t] = k] /\ \A u \in Tasks \ {t} : lease[u] # k
  <2>1. lease' = lease
    BY DEF Statement, Commit, InHand, TxParsed
  <2> QED BY <1>1, <1>3, <1>5, <2>1 DEF Typed, IInv, Conduct
<1>7. UNCHANGED <<backend, kind, clean, result, acked, sess, committed, ran, dropped, exited>>
  BY DEF Statement, Commit, InHand, TxParsed, connVars
<1>8. PICK o \in Ops, m \in 0..MaxStmts :
        /\ Send(t, k, o, m) /\ o \in Stmts \cup {"commit"} /\ (o \in Stmts => m > 0)
        /\ o = "execute" => sess[k].stmt = <<t, m>>
  <2>1. CASE Statement(t)
    <3>1. PICK o \in {"write", "parse"} : Send(t, lease[t], o, n[t] + 1)
      BY <2>1 DEF Statement
    <3>2. PICK m \in 0..MaxStmts : m = n[t] + 1 /\ m > 0
      BY <1>1, <2>1, SessionAssumption DEF Statement, Typed
    <3>3. Send(t, k, o, m)
      BY <1>5, <3>1, <3>2 DEF Send
    <3> QED BY <3>3, <3>2 DEF Ops, Stmts
  <2>2. CASE Commit(t)
    <3>1. PICK m \in 0..MaxStmts : m = n[t]
      BY <1>1 DEF Typed
    <3>2. Send(t, k, "commit", m)
      BY <1>5, <2>2, <3>1 DEF Send, Commit
    <3> QED BY <3>2 DEF Ops, Stmts
  <2>3. CASE TxParsed(t)
    <3>1. PICK m \in 0..MaxStmts : m = n[t]
      BY <1>1 DEF Typed
    <3>2. Send(t, k, "execute", m)
      BY <1>5, <2>3, <3>1 DEF Send, TxParsed
    <3>3. sess[k].stmt = <<t, m>> /\ m > 0
      BY <1>1, <1>5, <2>3, <3>1 DEF TxParsed, Awaits, PreparedOf, ShapeOf, Stmts
    <3> QED BY <3>2, <3>3 DEF Ops, Stmts
  <2> QED BY <2>1, <2>2, <2>3
<1>9. Sends(t, k, o, m)
  BY <1>6, <1>7, <1>8 DEF Sends
<1> QED BY <1>3, <1>4, <1>5, <1>8, <1>9, OnwardStep

\* The end of a transaction, queued behind at most one cancelled statement of it, takes
\* over from its task as the owner of the session.
LEMMA EndQueued ==
  ASSUME IInv, NEW t \in Tasks, NEW k \in Conns, k = lease[t], InTx(t), QueueFrame(t), NEW p \in Nat,
         p = Len(queue[k]) + 1, p \in DOMAIN queue'[k], queue'[k][p].by = t,
         queue'[k][p].op \in {"commit", "rollback"}
  PROVE  OwnsTx(t, k)' /\ (queue[k] = <<>> \/ EndsAt(k, 2, t)')
<1>1. Len(queue[k]) \in Nat /\ DOMAIN queue[k] = 1..Len(queue[k]) /\ queue[k] \in Seq(Command)
  BY ChannelType DEF IInv
<1>2. \A i \in DOMAIN queue[k] : queue[k][i].by = t /\ queue[k][i].op \in Stmts
  BY DEF IInv, QuietOf
<1>3. \A i \in DOMAIN queue[k] : i = 1
  BY <1>2 DEF IInv, Channels, Entry, InTx
<1>4. CASE Len(queue[k]) = 0
  <2>1. queue[k] = <<>>
    BY <1>1, <1>4, EmptySeq
  <2>2. EndsAt(k, 1, t)'
    BY <1>4 DEF EndsAt
  <2> QED BY <2>1, <2>2 DEF OwnsTx
<1>5. CASE Len(queue[k]) # 0
  <2>1. Len(queue[k]) \in DOMAIN queue[k] /\ 1 \in DOMAIN queue[k]
    BY <1>1, <1>5
  <2>2. p = 2
    BY <1>3, <2>1
  <2>3. EndsAt(k, 2, t)'
    BY <2>2 DEF EndsAt
  <2>4. queue'[k][1].by = t /\ queue'[k][1].op \in Stmts
    BY <1>2, <2>1 DEF QueueFrame
  <2> QED BY <2>3, <2>4 DEF OwnsTx
<1> QED BY <1>4, <1>5

\* Transaction::rollback.
LEMMA RollbackStep ==
  ASSUME IInv, NEW t \in Tasks, Rollback(t)
  PROVE  IInv'
<1>1. /\ kind[t] = "tx" /\ pc[t] = "open" /\ ShapeOf(t) /\ QuietOf(t) /\ PromiseOf(t) /\ Typed
  BY DEF Rollback, InHand, IInv
<1>2. lease[t] # NoConn /\ InTx(t) /\ reply[t] = "none" /\ result[t] = "none" /\ op[t] # "commit"
  BY <1>1 DEF ShapeOf, InTx, Stmts
<1>3. PICK k \in Conns, m \in 0..MaxStmts, p \in Nat : k = lease[t] /\ m = n[t] /\ p = Len(queue[k]) + 1
  BY <1>1, <1>2, ChannelType DEF Typed
<1>4. Sends(t, k, "rollback", m)
  <2>1. lease' = [lease EXCEPT ![t] = k] /\ \A u \in Tasks \ {t} : lease[u] # k
    <3>1. lease' = lease
      BY DEF Rollback
    <3> QED BY <1>1, <1>2, <1>3, <3>1 DEF Typed, IInv, Conduct
  <2>2. UNCHANGED <<backend, kind, clean, result, acked, sess, committed, ran, dropped, exited>>
    BY DEF Rollback, connVars
  <2>3. Send(t, k, "rollback", m)
    BY <1>3 DEF Rollback, Send
  <2> QED BY <2>1, <2>2, <2>3 DEF Sends
<1>5. Frame(t) /\ Typed' /\ Sent(t, k, "rollback", m, p)
  BY <1>3, <1>4, SendFrame DEF Ops
<1>6. k \notin exited => OwnsTx(t, k)' /\ (queue[k] = <<>> \/ EndsAt(k, 2, t)')
  <2>1. k \notin exited => p \in DOMAIN queue'[k] /\ queue'[k][p].by = t /\ queue'[k][p].op = "rollback"
    BY <1>5 DEF Sent
  <2> QED BY <1>2, <1>3, <1>5, <2>1, EndQueued DEF Frame
<1>7. k \in exited => queue[k] = <<>> /\ sess[k].tx = "none"
  BY DEF IInv, Conduct
<1>8. UNCHANGED <<backend, kind, sess, committed>> /\ acked' = acked
  BY <1>4 DEF Sends
<1>9. /\ lease'[t] = k /\ pc'[t] = "sent" /\ op'[t] = "rollback" /\ n'[t] = m /\ reply'[t] \in {"pending", "err"}
      /\ result'[t] = "none" /\ (reply'[t] = "err" => queue'[k] = queue[k] /\ k \in exited)
  BY <1>2, <1>5 DEF Sent
<1>10. ShapeOf(t)' /\ ~InTx(t)'
  BY <1>1, <1>2, <1>3, <1>8, <1>9 DEF ShapeOf, OpsOf, Stmts, InTx
<1>11. QuietOf(t)'
  BY <1>7, <1>9, <1>10 DEF QuietOf
<1>12. PromiseOf(t)' /\ PreparedOf(t)' /\ DurableOf(t)'
  BY <1>1, <1>2, <1>8, <1>9, <1>10 DEF PromiseOf, PreparedOf, DurableOf
<1>13. MaySend(t, k, "rollback", m, p)
  BY <1>1 DEF MaySend, OpsOf, Stmts
<1> QED BY <1>2, <1>3, <1>5, <1>6, <1>7, <1>10, <1>11, <1>12, <1>13, SendStep DEF Ops

\* The end of a call keeps the invariant when its commands still say what holds and a
\* transaction left open has its end queued.
LEMMA EndStep ==
  ASSUME IInv, NEW t \in Tasks, NEW r \in {"ok", "err", "cancelled", "dropped"}, Ends(t, r),
         kind[t] = "tx" => acked' = acked,
         kind[t] = "tx" /\ op[t] = "commit" /\ r = "ok" => reply[t] = "ok",
         kind[t] # "tx" /\ (kind[t] = "query" => InProcess) => acked' = acked \/ <<t, n[t]>> \in committed,
         \A j \in Conns : \A i \in DOMAIN queue'[j] : queue'[j][i].by = t => Entry(j, i)',
         \A j \in Conns : InTx(t) /\ lease[t] = j /\ sess[j].tx # "none" => OwnsTx(t, j)'
  PROVE  IInv'
<1>1. /\ Frame(t) /\ Typed'
      /\ lease'[t] = NoConn /\ pc'[t] = "done" /\ result'[t] = r /\ reply'[t] = "none"
  BY EndFrame
<1>2. UNCHANGED <<backend, kind, op, n, clean, sess, committed>>
  BY DEF Ends
<1>3. ShapeOf(t) /\ PromiseOf(t) /\ DurableOf(t)
  BY DEF IInv
<1>4. ShapeOf(t)' /\ QuietOf(t)' /\ PreparedOf(t)' /\ ~InTx(t)'
  BY <1>1, <1>2, <1>3 DEF ShapeOf, QuietOf, PreparedOf, InTx
<1>5. PromiseOf(t)'
  BY <1>1, <1>2, <1>3, <1>4 DEF PromiseOf
<1>6. DurableOf(t)'
  <2>1. acked' = acked \/ acked' = acked \cup {<<t, n[t]>>}
    BY DEF Ends
  <2> QED BY <1>1, <1>2, <1>3, <2>1 DEF DurableOf, InProcess
<1>7. \A j \in Conns : sess[j].tx # "none" /\ OwnsTx(t, j) => OwnsTx(t, j)'
  BY <1>1, OldOwner
<1> QED BY <1>1, <1>4, <1>5, <1>6, <1>7, FrameStep

\* Calls that return, and a query whose parameters do not fit: the channel is as it was.
LEMMA ReturnStep ==
  ASSUME IInv, NEW t \in Tasks, CallReturns(t) \/ QueryRefused(t) \/ TxReturns(t)
  PROVE  IInv'
<1>1. ShapeOf(t) /\ DurableOf(t) /\ pc[t] = "sent" /\ reply[t] \in {"ok", "err"} /\ Typed
  BY DEF IInv, CallReturns, QueryRefused, TxReturns, Awaits
<1>2. UNCHANGED <<backend, kind, op, n, clean, queue, sess, committed, ran, dropped, exited>>
  BY DEF CallReturns, QueryRefused, TxReturns, serverVars, connVars
<1>3. QueueFrame(t)
  BY <1>2, SameQueue
<1>4. PICK r \in {"ok", "err"} :
        /\ End(t, r)
        /\ kind[t] = "tx" => acked' = acked /\ reply[t] = r
        /\ \/ acked' = acked
           \/ /\ acked' = acked \cup {<<t, n[t]>>} /\ reply[t] = "ok"
              /\ kind[t] \notin {"tx", "wire", "format"} /\ op[t] # "parse"
  BY DEF CallReturns, QueryRefused, TxReturns, Awaits
<1>5. acked' # acked => n[t] > 0 /\ ((kind[t] = "query" => InProcess) => <<t, n[t]>> \in committed)
  BY <1>1, <1>4 DEF ShapeOf, DurableOf, OpsOf, Stmts, Typed, AllKinds
<1>6. Ends(t, r)
  BY <1>2, <1>3, <1>4, <1>5 DEF Ends, IInv, Typed
<1>7. Frame(t)
  BY <1>6, EndFrame
<1>8. op[t] = "commit" => kind[t] = "tx"
  BY <1>1 DEF ShapeOf, OpsOf, Typed, AllKinds
<1>9. ~InTx(t) \/ queue[lease[t]] = <<>>
  BY <1>1 DEF IInv, QuietOf
<1>10. \A j \in Conns : \A i \in DOMAIN queue[j] : queue[j][i].by = t => Entry(j, i)'
  BY <1>1, <1>2, <1>4, <1>7, <1>8, <1>9, OldEntries
<1>11. ~InTx(t)
  BY <1>1 DEF InTx, CallReturns, QueryRefused, TxReturns, Stmts
<1> QED BY <1>2, <1>4, <1>5, <1>6, <1>10, <1>11, EndStep

\* The channels with a ROLLBACK of t as entry p of k's, unless k's worker is gone.
RolledBack(t, k, p) ==
  /\ QueueFrame(t)
  /\ k \notin exited => /\ p \in DOMAIN queue'[k] /\ queue'[k][p].by = t
                        /\ queue'[k][p].to = NoTask /\ queue'[k][p].op = "rollback"
  /\ \A j \in Conns : \A i \in DOMAIN queue'[j] :
       i \in DOMAIN queue[j] \/ (j = k /\ k \notin exited /\ i = p)

\* Drop for Transaction puts a ROLLBACK that nobody awaits behind everything else.
LEMMA RollbackQueued ==
  ASSUME IInv, Alone, NEW t \in Tasks, NEW k \in Conns, k = lease[t], NEW p \in Nat, p = Len(queue[k]) + 1,
         NEW q, q = queue \/ Forgotten(q, k, t), queue' = QueueRollback(q, t)
  PROVE  /\ RolledBack(t, k, p)
         /\ Forgotten(q, k, t) => \A i \in DOMAIN queue[k] : queue'[k][i].to # t
<1> USE SessionAssumption
<1>1. PICK c \in Command : /\ c = [by |-> t, to |-> NoTask, op |-> "rollback", n |-> n[t]]
                           /\ c.by = t /\ c.to = NoTask /\ c.op = "rollback"
  <2>1. n[t] \in 0..MaxStmts
    BY DEF IInv, Typed
  <2>2. [by |-> t, to |-> NoTask, op |-> "rollback", n |-> n[t]] \in Command
    BY <2>1 DEF Command, Ops
  <2> QED BY <2>2
<1>2. queue' = Queued(q, k, c)
  <2>1. [Cmd(t, "rollback", n[t]) EXCEPT !.to = NoTask] = c
    BY <1>1 DEF Cmd
  <2> QED BY <2>1 DEF QueueRollback
<1>3. \A u \in Tasks \ {t} : lease[u] # k
  BY DEF IInv, Conduct
<1>4. queue \in [Conns -> Seq(Command)]
  BY DEF IInv, Typed, Command
<1>5. QueueFrame(t) /\ q \in [Conns -> Seq(Command)]
  <2>1. CASE q = queue
    BY <1>1, <1>2, <1>3, <1>4, <2>1, GrownQueue
  <2>2. CASE Forgotten(q, k, t)
    BY <1>1, <1>2, <1>3, <2>2, ForgottenQueue
  <2> QED BY <2>1, <2>2
<1>6. /\ \A j \in Conns : j # k \/ j \in exited => queue'[j] = q[j]
      /\ k \notin exited => /\ Len(queue'[k]) = Len(q[k]) + 1 /\ DOMAIN queue'[k] = 1..(Len(q[k]) + 1)
                            /\ queue'[k][Len(q[k]) + 1] = c
      /\ \A i \in DOMAIN q[k] : i \in DOMAIN queue'[k] /\ queue'[k][i] = q[k][i]
      /\ \A i \in DOMAIN queue'[k] : i \in DOMAIN q[k] \/ i = Len(q[k]) + 1
  BY ONLY <1>2, <1>5, QueuedEntries, k \in Conns, c \in Command
<1>7. /\ Len(q[k]) = Len(queue[k]) /\ DOMAIN q[k] = DOMAIN queue[k]
      /\ \A j \in Conns : j # k => q[j] = queue[j]
      /\ Forgotten(q, k, t) => \A i \in DOMAIN queue[k] : q[k][i].to # t
  <2>1. CASE ~Forgotten(q, k, t)
    BY <2>1
  <2>2. CASE Forgotten(q, k, t)
    <3>1. q[k] = Forget(queue[k], t) /\ \A j \in Conns : j # k => q[j] = queue[j]
      BY <1>4, <2>2 DEF Forgotten
    <3>2. /\ Len(Forget(queue[k], t)) = Len(queue[k]) /\ DOMAIN Forget(queue[k], t) = DOMAIN queue[k]
          /\ \A i \in DOMAIN queue[k] :
               Forget(queue[k], t)[i].to = IF queue[k][i].to = t THEN NoTask ELSE queue[k][i].to
      BY <1>4, ForgetEntries
    <3> QED BY <3>1, <3>2
  <2> QED BY <2>1, <2>2
<1>8. k \notin exited => p \in DOMAIN queue'[k] /\ queue'[k][p] = c
  <2>1. p \in 1..p
    BY ChannelType DEF IInv
  <2> QED BY <1>6, <1>7, <2>1
<1>9. ASSUME NEW j \in Conns, NEW i \in DOMAIN queue'[j]
      PROVE  i \in DOMAIN queue[j] \/ (j = k /\ k \notin exited /\ i = p)
  BY <1>6, <1>7
<1>10. Forgotten(q, k, t) => \A i \in DOMAIN queue[k] : queue'[k][i].to # t
  BY <1>6, <1>7
<1> QED BY <1>1, <1>5, <1>8, <1>9, <1>10 DEF RolledBack

\* A ROLLBACK that nobody awaits says nothing about its sender.
LEMMA RollbackEntry ==
  ASSUME NEW t \in Tasks, NEW k \in Conns, NEW p, kind'[t] = "tx",
         queue'[k][p].by = t, queue'[k][p].to = NoTask, queue'[k][p].op = "rollback"
  PROVE  Entry(k, p)'
<1>1. t # NoTask
  BY SessionAssumption
<1> QED BY <1>1 DEF Entry, OpsOf, Stmts

\* A Transaction is dropped, between two statements or because its BEGIN failed.
LEMMA DropStep ==
  ASSUME IInv, Alone, NEW t \in Tasks, DropTx(t) \/ BeginErr(t)
  PROVE  IInv'
<1>1. /\ kind[t] = "tx" /\ ShapeOf(t) /\ QuietOf(t) /\ Typed
      /\ pc[t] = "open" \/ (pc[t] = "sent" /\ reply[t] = "err" /\ op[t] = "begin")
  BY DEF DropTx, InHand, BeginErr, Awaits, IInv
<1>2. lease[t] # NoConn /\ reply[t] # "pending" /\ op[t] # "commit" /\ (pc[t] = "sent" => ~InTx(t))
  BY <1>1 DEF ShapeOf, InTx, Stmts
<1>3. PICK k \in Conns, p \in Nat : k = lease[t] /\ p = Len(queue[k]) + 1
  BY <1>1, <1>2, ChannelType DEF Typed
<1>4. UNCHANGED <<backend, kind, op, n, clean, acked, sess, committed, ran, dropped, exited>>
  BY DEF DropTx, BeginErr, connVars
<1>5. PICK r \in {"dropped", "err"} : End(t, r)
  BY DEF DropTx, BeginErr
<1>6. UNCHANGED queue \/ queue' = QueueRollback(queue, t)
  BY DEF DropTx, BeginErr
<1>7. pc[t] = "open" => queue' = QueueRollback(queue, t)
  BY DEF DropTx, InHand, BeginErr, Awaits
<1>8. queue' = QueueRollback(queue, t) =>
        /\ QueueFrame(t)
        /\ k \notin exited => /\ p \in DOMAIN queue'[k] /\ queue'[k][p].by = t
                              /\ queue'[k][p].to = NoTask /\ queue'[k][p].op = "rollback"
        /\ \A j \in Conns : \A i \in DOMAIN queue'[j] :
             i \in DOMAIN queue[j] \/ (j = k /\ k \notin exited /\ i = p)
  BY <1>3, RollbackQueued DEF RolledBack
<1>9. QueueFrame(t)
  BY <1>6, <1>8, SameQueue
<1>10. Ends(t, r)
  BY <1>4, <1>5, <1>9 DEF Ends, IInv, Typed
<1>11. Frame(t)
  BY <1>10, EndFrame
<1>12. InTx(t) /\ k \notin exited => OwnsTx(t, k)' /\ (queue[k] = <<>> \/ EndsAt(k, 2, t)')
  BY <1>1, <1>2, <1>3, <1>7, <1>8, <1>9, EndQueued
<1>13. k \in exited => queue[k] = <<>> /\ sess[k].tx = "none"
  BY DEF IInv, Conduct
<1>14. \A j \in Conns : \A i \in DOMAIN queue[j] : queue[j][i].by = t => Entry(j, i)'
  BY <1>2, <1>3, <1>11, <1>12, <1>13, OldEntries
<1>15. \A j \in Conns : \A i \in DOMAIN queue'[j] : queue'[j][i].by = t => Entry(j, i)'
  <2>1. CASE UNCHANGED queue
    BY <1>14, <2>1
  <2>2. CASE queue' = QueueRollback(queue, t)
    <3>1. k \notin exited => Entry(k, p)'
      BY <1>1, <1>4, <1>8, <2>2, RollbackEntry
    <3> QED BY <1>8, <1>9, <1>14, <2>2, <3>1 DEF QueueFrame
  <2> QED BY <1>6, <2>1, <2>2
<1> QED BY <1>1, <1>3, <1>4, <1>5, <1>10, <1>12, <1>13, <1>15, EndStep, <1>2

\* Dropping a receiver leaves the channel's commands, none of them awaited by t.
LEMMA ForgetQueued ==
  ASSUME IInv, Alone, NEW t \in Tasks, NEW k \in Conns, k = lease[t], Forgotten(queue', k, t)
  PROVE  /\ QueueFrame(t) /\ DOMAIN queue'[k] = DOMAIN queue[k] /\ Len(queue'[k]) = Len(queue[k])
         /\ \A j \in Conns : \A i \in DOMAIN queue'[j] : i \in DOMAIN queue[j]
         /\ \A i \in DOMAIN queue[k] : queue'[k][i].to # t
<1>1. queue \in [Conns -> Seq(Command)] /\ \A u \in Tasks \ {t} : lease[u] # k
  BY SessionAssumption DEF IInv, Typed, Command, Conduct
<1>2. PICK c \in Command : c.by = t
  <2>1. [by |-> t, to |-> t, op |-> "begin", n |-> 0] \in Command
    BY SessionAssumption DEF Command, Ops
  <2> QED BY <2>1
<1>3. QueueFrame(t)
  BY <1>1, <1>2, ForgottenQueue
<1>4. queue'[k] = Forget(queue[k], t) /\ \A j \in Conns : j # k => queue'[j] = queue[j]
  BY <1>1 DEF Forgotten
<1>5. /\ Len(Forget(queue[k], t)) = Len(queue[k]) /\ DOMAIN Forget(queue[k], t) = DOMAIN queue[k]
      /\ \A i \in DOMAIN queue[k] :
           Forget(queue[k], t)[i].to = IF queue[k][i].to = t THEN NoTask ELSE queue[k][i].to
  BY <1>1, ForgetEntries
<1> QED BY <1>3, <1>4, <1>5, SessionAssumption

\* Only on its own connection does a task await anything.
LEMMA AwaitsAt ==
  ASSUME IInv, NEW t \in Tasks, NEW k \in Conns, k = lease[t], NEW j \in Conns, NEW i \in DOMAIN queue[j],
         queue[j][i].by = t, queue[j][i].to = t
  PROVE  j = k
  BY DEF IInv, Channels, Entry

\* The future of exec or query is dropped while it awaits: the command stays and, as it is
\* not part of a transaction, says nothing that depends on its task.
LEMMA CancelCallStep ==
  ASSUME IInv, Alone, SafeUse, NEW t \in Tasks, CancelCall(t)
  PROVE  IInv'
<1>1. ShapeOf(t) /\ Typed /\ pc[t] = "sent" /\ kind[t] \notin {"tx", "wire"} /\ lease[t] # NoConn
  BY DEF IInv, CancelCall, ShapeOf
<1>2. PICK k \in Conns : k = lease[t]
  BY <1>1 DEF Typed
<1>3. UNCHANGED <<backend, kind, op, n, clean, acked, sess, committed, ran, exited>> /\ End(t, "cancelled")
  BY DEF CancelCall
<1>4. Forgotten(queue', k, t)
  BY <1>1, <1>2 DEF CancelCall, At, Forgotten
<1>5. /\ QueueFrame(t) /\ \A j \in Conns : \A i \in DOMAIN queue'[j] : i \in DOMAIN queue[j]
      /\ \A i \in DOMAIN queue[k] : queue'[k][i].to # t
  BY <1>2, <1>4, ForgetQueued
<1>6. dropped' \subseteq Conns
  BY <1>2 DEF CancelCall, IInv, Typed
<1>7. Ends(t, "cancelled")
  BY <1>3, <1>5, <1>6 DEF Ends
<1>8. ASSUME NEW j \in Conns, NEW i \in DOMAIN queue'[j], queue'[j][i].by = t PROVE Entry(j, i)'
  <2>1. i \in DOMAIN queue[j] /\ queue[j][i].by = t /\ Entry(j, i)
    BY <1>5, <1>8 DEF QueueFrame, IInv, Channels
  <2>2. /\ queue'[j][i].op = queue[j][i].op /\ queue'[j][i].n = queue[j][i].n
        /\ queue'[j][i].to = NoTask
    BY <1>2, <1>5, <2>1, AwaitsAt DEF QueueFrame, Entry
  <2>3. NoTask # t /\ kind[t] # "tx" /\ queue[j][i].op \notin {"begin", "commit"}
    BY <1>1, <2>1, SessionAssumption DEF Entry, OpsOf, Typed, AllKinds
  <2> QED BY <1>3, <1>8, <2>1, <2>2, <2>3 DEF Entry, InProcess
<1> QED BY <1>1, <1>3, <1>7, <1>8, EndStep DEF InTx

\* The future of commit or rollback is dropped: the command stays and ends the block.
LEMMA CancelEndStep ==
  ASSUME IInv, Alone, NEW t \in Tasks, CancelEnd(t)
  PROVE  IInv'
<1>1. ShapeOf(t) /\ Typed /\ pc[t] = "sent" /\ kind[t] = "tx" /\ lease[t] # NoConn /\ op[t] \in {"commit", "rollback"}
  BY DEF IInv, CancelEnd, ShapeOf
<1>2. PICK k \in Conns : k = lease[t]
  BY <1>1 DEF Typed
<1>3. UNCHANGED <<backend, kind, op, n, clean, acked, sess, committed, ran, dropped, exited>> /\ End(t, "cancelled")
  BY DEF CancelEnd, connVars
<1>4. Forgotten(queue', k, t)
  BY <1>2 DEF CancelEnd, Forgotten
<1>5. /\ QueueFrame(t) /\ \A j \in Conns : \A i \in DOMAIN queue'[j] : i \in DOMAIN queue[j]
      /\ \A i \in DOMAIN queue[k] : queue'[k][i].to # t
  BY <1>2, <1>4, ForgetQueued
<1>6. Ends(t, "cancelled")
  BY <1>1, <1>3, <1>5 DEF Ends, Typed
<1>7. ~InTx(t)
  BY <1>1 DEF InTx, Stmts
<1>8. ASSUME NEW j \in Conns, NEW i \in DOMAIN queue'[j], queue'[j][i].by = t PROVE Entry(j, i)'
  <2>1. i \in DOMAIN queue[j] /\ queue[j][i].by = t /\ Entry(j, i)
    BY <1>5, <1>8 DEF QueueFrame, IInv, Channels
  <2>2. /\ queue'[j][i].op = queue[j][i].op /\ queue'[j][i].n = queue[j][i].n
        /\ queue'[j][i].to = NoTask
    BY <1>2, <1>5, <2>1, AwaitsAt DEF QueueFrame, Entry
  <2>3. NoTask # t /\ \A m : EndsAt(j, m, t) => EndsAt(j, m, t)'
    BY <1>5, SessionAssumption DEF EndsAt, QueueFrame
  <2>4. queue[j][i].to = t => queue[j][i].op \in {"commit", "rollback"}
    BY <1>1, <2>1 DEF Entry
  <2>5. queue[j][i].to \in {t, NoTask}
    BY <2>1 DEF Entry
  <2> QED BY <1>3, <1>7, <1>8, <2>1, <2>2, <2>3, <2>4, <2>5 DEF Entry, InProcess, Stmts
<1> QED BY <1>1, <1>3, <1>6, <1>7, <1>8, EndStep

\* The future of transaction() is dropped while it awaits BEGIN: the Transaction that
\* exists already queues a ROLLBACK behind it.
LEMMA CancelTransactionStep ==
  ASSUME IInv, Alone, SafeUse, NEW t \in Tasks, CancelTransaction(t)
  PROVE  IInv'
<1>1. /\ ShapeOf(t) /\ QuietOf(t) /\ Typed /\ pc[t] = "sent" /\ kind[t] = "tx" /\ lease[t] # NoConn
      /\ op[t] = "begin" /\ ~InProcess
  BY DEF IInv, CancelTransaction, ShapeOf, SafeUse, InProcess
<1>2. PICK k \in Conns, p \in Nat : k = lease[t] /\ p = Len(queue[k]) + 1
  BY <1>1, ChannelType DEF Typed
<1>3. UNCHANGED <<backend, kind, op, n, clean, acked, sess, committed, ran, dropped, exited>> /\ End(t, "cancelled")
  BY DEF CancelTransaction, connVars
<1>4. PICK q : Forgotten(q, k, t) /\ queue' = QueueRollback(q, t)
  <2> DEFINE f == [queue EXCEPT ![k] = Forget(queue[k], t)]
  <2>1. queue' = QueueRollback(f, t)
    BY <1>1, <1>2 DEF CancelTransaction
  <2>2. Forgotten(f, k, t)
    BY DEF Forgotten
  <2> QED BY <2>1, <2>2
<1>6. RolledBack(t, k, p) /\ \A i \in DOMAIN queue[k] : queue'[k][i].to # t
  BY <1>2, <1>4, RollbackQueued
<1>5. /\ QueueFrame(t)
      /\ k \notin exited => /\ p \in DOMAIN queue'[k] /\ queue'[k][p].by = t
                            /\ queue'[k][p].to = NoTask /\ queue'[k][p].op = "rollback"
      /\ \A j \in Conns : \A i \in DOMAIN queue'[j] :
           i \in DOMAIN queue[j] \/ (j = k /\ k \notin exited /\ i = p)
  BY <1>6 DEF RolledBack
<1>7. Ends(t, "cancelled")
  BY <1>1, <1>3, <1>5 DEF Ends, Typed
<1>8. InTx(t) => queue[k] = <<>>
  BY <1>1, <1>2 DEF InTx, QuietOf, Stmts
<1>9. k \in exited => queue[k] = <<>> /\ sess[k].tx = "none"
  BY DEF IInv, Conduct
<1>10. InTx(t) /\ k \notin exited => OwnsTx(t, k)'
  BY <1>2, <1>5, EndQueued
<1>11. ASSUME NEW j \in Conns, NEW i \in DOMAIN queue[j], queue[j][i].by = t PROVE Entry(j, i)'
  <2>1. Entry(j, i)
    BY DEF IInv, Channels
  <2>2. /\ queue'[j][i].by = t /\ queue'[j][i].op = queue[j][i].op /\ queue'[j][i].n = queue[j][i].n
        /\ queue'[j][i].to = NoTask
    BY <1>2, <1>5, <1>6, <1>11, <2>1, AwaitsAt DEF QueueFrame, Entry
  <2>3. NoTask # t /\ \A m : EndsAt(j, m, t) => EndsAt(j, m, t)'
    BY <1>5, SessionAssumption DEF EndsAt, QueueFrame
  <2>4. queue[j][i].to = t => queue[j][i].op = "begin" /\ EndsAt(j, i + 1, t)'
    <3> SUFFICES ASSUME queue[j][i].to = t PROVE queue[j][i].op = "begin" /\ EndsAt(j, i + 1, t)'
      OBVIOUS
    <3>1. queue[j][i].op = "begin" /\ j = k /\ i = Len(queue[k]) /\ queue[k] # <<>>
      BY <1>1, <1>2, <1>11, <2>1 DEF Entry
    <3>2. i + 1 = p /\ k \notin exited
      BY <1>2, <1>9, <3>1
    <3> QED BY <1>5, <3>1, <3>2 DEF EndsAt
  <2>a. ~(InTx(t) /\ lease[t] = j)
    <3>1. queue[j] # <<>>
      OBVIOUS
    <3> QED BY <1>2, <1>8, <3>1
  <2>5. queue[j][i].to \in {t, NoTask}
    BY <1>11, <2>1 DEF Entry
  <2> QED BY <1>1, <1>3, <1>11, <2>1, <2>2, <2>3, <2>4, <2>5, <2>a DEF Entry, InProcess, Stmts
<1>12. \A j \in Conns : \A i \in DOMAIN queue'[j] : queue'[j][i].by = t => Entry(j, i)'
  <2>1. k \notin exited => Entry(k, p)'
    BY <1>1, <1>3, <1>5, RollbackEntry
  <2> QED BY <1>5, <1>11, <2>1 DEF QueueFrame
<1> QED BY <1>1, <1>2, <1>3, <1>7, <1>9, <1>10, <1>12, EndStep

\* The future of a statement is dropped: the Transaction goes on, spoilt, with the
\* statement in its channel.
LEMMA CancelStatementStep ==
  ASSUME IInv, Alone, NEW t \in Tasks, CancelStatement(t)
  PROVE  IInv'
<1>1. /\ ShapeOf(t) /\ QuietOf(t) /\ PromiseOf(t) /\ Typed /\ pc[t] = "sent" /\ kind[t] = "tx"
      /\ lease[t] # NoConn /\ op[t] \in Stmts /\ InTx(t)
  BY DEF IInv, CancelStatement, ShapeOf, Stmts, InTx
<1>2. PICK k \in Conns : k = lease[t]
  BY <1>1 DEF Typed
<1>3. UNCHANGED <<backend, lease, kind, op, n, result, acked, sess, committed, ran, dropped, exited>>
  BY DEF CancelStatement, connVars
<1>4. Forgotten(queue', k, t)
  BY <1>2 DEF CancelStatement, Forgotten
<1>5. /\ QueueFrame(t) /\ \A j \in Conns : \A i \in DOMAIN queue'[j] : i \in DOMAIN queue[j]
      /\ \A i \in DOMAIN queue[k] : queue'[k][i].to # t
  BY <1>2, <1>4, ForgetQueued
<1>6. pc'[t] = "open" /\ reply'[t] = "none" /\ clean'[t] = FALSE
  BY <1>1 DEF CancelStatement, Typed
<1>7. Frame(t)
  BY <1>1, <1>3, <1>5 DEF Frame, CancelStatement, Typed, IInv, Conduct
<1>8. Typed'
  <2>1. queue' \in [Conns -> Seq(Command)]
    BY <1>5 DEF QueueFrame
  <2>2. /\ pc' \in [Tasks -> {"start", "sent", "open", "done"}] /\ clean' \in [Tasks -> BOOLEAN]
        /\ reply' \in [Tasks -> {"none", "pending", "ok", "err"}]
    BY <1>1 DEF Typed, CancelStatement
  <2> QED BY <1>1, <1>3, <2>1, <2>2 DEF Typed, Command
<1>9. InTx(t)'
  BY <1>1, <1>3, <1>6 DEF InTx
<1>10. ShapeOf(t)' /\ PromiseOf(t)' /\ PreparedOf(t)' /\ DurableOf(t)'
  BY <1>1, <1>3, <1>6, <1>9 DEF ShapeOf, PromiseOf, PreparedOf, DurableOf, Stmts, InProcess
<1>11. QuietOf(t)'
  <2>1. \A i \in DOMAIN queue'[k] : queue'[k][i].by = t /\ queue'[k][i].op \in Stmts
    BY <1>1, <1>2, <1>5 DEF QuietOf, QueueFrame
  <2> QED BY <1>2, <1>3, <1>6, <2>1 DEF QuietOf
<1>12. ASSUME NEW j \in Conns, NEW i \in DOMAIN queue'[j], queue'[j][i].by = t PROVE Entry(j, i)'
  <2>1. i \in DOMAIN queue[j] /\ queue[j][i].by = t /\ Entry(j, i)
    BY <1>5, <1>12 DEF QueueFrame, IInv, Channels
  <2>2. /\ queue'[j][i].op = queue[j][i].op /\ queue'[j][i].n = queue[j][i].n
        /\ queue'[j][i].to = NoTask
    BY <1>2, <1>5, <2>1, AwaitsAt DEF QueueFrame, Entry
  <2>3. NoTask # t /\ \A m : EndsAt(j, m, t) => EndsAt(j, m, t)'
    BY <1>5, SessionAssumption DEF EndsAt, QueueFrame
  <2>4. queue[j][i].to = t => j = k /\ queue[j][i].op \in Stmts
    BY <1>1, <1>2, <2>1 DEF Entry
  <2>5. queue[j][i].to \in {t, NoTask} /\ queue[j][i].op # "commit"
    BY <1>1, <2>1 DEF Entry, Stmts
  <2> QED BY <1>2, <1>3, <1>6, <1>9, <1>12, <2>1, <2>2, <2>3, <2>4, <2>5 DEF Entry, InProcess, Stmts
<1>13. \A j \in Conns : InTx(t) /\ lease[t] = j /\ sess[j].tx # "none" => OwnsTx(t, j)'
  BY <1>3, <1>9 DEF OwnsTx
<1>14. \A j \in Conns : sess[j].tx # "none" /\ OwnsTx(t, j) => OwnsTx(t, j)'
  BY <1>7, <1>13, OldOwner
<1> QED BY <1>7, <1>8, <1>10, <1>11, <1>12, <1>14, FrameStep

\* BEGIN succeeded, or a statement of the transaction returned: the channel is empty, and
\* a statement whose caller is told Ok is among the session's writes.
LEMMA TxReceiveStep ==
  ASSUME IInv, NEW t \in Tasks, TxStep(t)
  PROVE  IInv'
<1>1. /\ ShapeOf(t) /\ QuietOf(t) /\ PromiseOf(t) /\ Typed /\ pc[t] = "sent" /\ kind[t] = "tx"
      /\ reply[t] \in {"ok", "err"} /\ op[t] \in {"begin"} \cup Stmts /\ (op[t] = "begin" => reply[t] = "ok")
  BY DEF IInv, TxStep, Awaits, Stmts
<1>2. lease[t] # NoConn /\ InTx(t) /\ op[t] # "commit" /\ (op[t] \in Stmts => n[t] > 0)
  BY <1>1 DEF ShapeOf, InTx, Stmts
<1>3. PICK k \in Conns : k = lease[t] /\ queue[k] = <<>>
  BY <1>1, <1>2 DEF Typed, QuietOf
<1>4. UNCHANGED <<backend, lease, kind, op, n, result, queue, sess, committed, ran, dropped, exited>>
  BY DEF TxStep, serverVars, connVars
<1>5. pc'[t] = "open" /\ reply'[t] = "none" /\ clean'[t] = (clean[t] /\ reply[t] = "ok" /\ op[t] # "parse")
  BY <1>1 DEF TxStep, Typed
<1>6. \/ acked' = acked /\ (reply[t] = "ok" => op[t] \in {"begin", "parse"})
      \/ acked' = acked \cup {<<t, n[t]>>} /\ op[t] \in {"write", "execute"} /\ reply[t] = "ok"
  BY <1>1 DEF TxStep, Stmts
<1>7. op[t] \in Stmts => <<t, n[t]>> \in Writes(t) /\ <<t, n[t]>> \in AllWrites
  BY <1>1, <1>2, WriteOf DEF Typed
<1>8. QueueFrame(t)
  BY <1>4, SameQueue
<1>9. Frame(t)
  <2>1. \A u \in Tasks \ {t} : acked' \cap Writes(u) = acked \cap Writes(u)
    BY <1>6, <1>7, WriteOf DEF Stmts
  <2>2. \A u \in Tasks \ {t} : pc'[u] = pc[u] /\ clean'[u] = clean[u] /\ reply'[u] = reply[u]
    BY <1>1 DEF TxStep, Typed
  <2> QED BY <1>2, <1>4, <1>8, <2>1, <2>2 DEF Frame, IInv, Conduct
<1>10. Typed'
  <2>1. acked' \subseteq AllWrites
    BY <1>1, <1>6, <1>7 DEF Typed, AllWrites, Stmts
  <2>2. /\ pc' \in [Tasks -> {"start", "sent", "open", "done"}]
        /\ reply' \in [Tasks -> {"none", "pending", "ok", "err"}]
    BY <1>1 DEF Typed, TxStep
  <2>3. clean' \in [Tasks -> BOOLEAN]
    BY <1>1 DEF Typed, TxStep
  <2> QED BY <1>1, <1>4, <2>1, <2>2, <2>3 DEF Typed, AllWrites
<1>11. InTx(t)'
  BY <1>1, <1>2, <1>4, <1>5 DEF InTx
<1>12. ShapeOf(t)'
  BY <1>1, <1>2, <1>4, <1>5 DEF ShapeOf, InProcess, Stmts
<1>13. QuietOf(t)'
  BY <1>3, <1>4, <1>5 DEF QuietOf
<1>14. PromiseOf(t)'
  <2>1. op'[t] = "begin" => acked' \cap Writes(t) = {}
    BY <1>1, <1>4, <1>6 DEF PromiseOf
  <2>2. committed' \cap Writes(t) = {}
    BY <1>1, <1>2, <1>4 DEF PromiseOf
  <2>3. clean'[t] => sess'[k].tx = "open" /\ acked' \cap Writes(t) \subseteq sess'[k].writes
    <3>1. clean'[t] => /\ sess[k].tx = "open" /\ acked \cap Writes(t) \subseteq sess[k].writes
                       /\ op[t] \in {"write", "execute"} => <<t, n[t]>> \in sess[k].writes
      BY <1>1, <1>2, <1>3, <1>5 DEF PromiseOf
    <3> QED BY <1>4, <1>6, <3>1
  <2> QED BY <1>2, <1>3, <1>4, <1>5, <2>1, <2>2, <2>3 DEF PromiseOf
<1>15. PreparedOf(t)' /\ DurableOf(t)'
  BY <1>1, <1>4, <1>5 DEF PreparedOf, DurableOf
<1>16. \A j \in Conns : \A i \in DOMAIN queue'[j] : queue'[j][i].by = t => Entry(j, i)'
  BY <1>1, <1>2, <1>3, <1>4, <1>9, OldEntries
<1>17. \A j \in Conns : sess[j].tx # "none" /\ OwnsTx(t, j) => OwnsTx(t, j)'
  <2>1. \A j \in Conns : InTx(t) /\ lease[t] = j /\ sess[j].tx # "none" => OwnsTx(t, j)'
    BY <1>4, <1>11 DEF OwnsTx
  <2> QED BY <1>9, <2>1, OldOwner
<1> QED BY <1>9, <1>10, <1>12, <1>13, <1>14, <1>15, <1>16, <1>17, FrameStep

\* The guard goes back with the reply to a gateway client, whose write is then durable.
LEMMA WireReplyStep ==
  ASSUME IInv, NEW t \in Tasks, WireReply(t)
  PROVE  IInv'
<1>1. /\ ShapeOf(t) /\ DurableOf(t) /\ Typed /\ pc[t] = "sent" /\ kind[t] = "wire" /\ reply[t] \in {"ok", "err"}
      /\ op[t] \in {"write", "batch"} /\ n[t] > 0
  BY DEF IInv, WireReply, Awaits, ShapeOf, OpsOf, Stmts
<1>2. UNCHANGED <<backend, kind, op, n, clean, result, queue, sess, committed, ran, dropped, exited>>
  BY DEF WireReply, serverVars, connVars
<1>3. pc'[t] = "open" /\ reply'[t] = "none" /\ lease'[t] = NoConn
  BY <1>1 DEF WireReply, Typed, Lease!Give
<1>4. acked' = acked \/ (acked' = acked \cup {<<t, n[t]>>} /\ <<t, n[t]>> \in committed)
  BY <1>1 DEF WireReply, Awaits, DurableOf
<1>5. <<t, n[t]>> \in Writes(t) /\ <<t, n[t]>> \in AllWrites
  BY <1>1, WriteOf DEF Typed
<1>6. Frame(t)
  <2>1. \A u \in Tasks \ {t} : acked' \cap Writes(u) = acked \cap Writes(u)
    BY <1>4, <1>5, WriteOf
  <2>2. \A u \in Tasks \ {t} : pc'[u] = pc[u] /\ lease'[u] = lease[u] /\ reply'[u] = reply[u]
    BY <1>1 DEF WireReply, Typed, Lease!Give
  <2>3. QueueFrame(t)
    BY <1>2, SameQueue
  <2> QED BY <1>2, <1>3, <2>1, <2>2, <2>3 DEF Frame
<1>7. Typed'
  <2>1. acked' \subseteq AllWrites
    BY <1>1, <1>4, <1>5 DEF Typed, AllWrites
  <2>2. /\ pc' \in [Tasks -> {"start", "sent", "open", "done"}] /\ lease' \in [Tasks -> Conns \cup {NoConn}]
        /\ reply' \in [Tasks -> {"none", "pending", "ok", "err"}]
    BY <1>1 DEF Typed, WireReply, Lease!Give
  <2> QED BY <1>1, <1>2, <2>1, <2>2 DEF Typed, AllWrites
<1>8. ~InTx(t)
  BY <1>1 DEF InTx
<1>9. ShapeOf(t)' /\ QuietOf(t)' /\ PromiseOf(t)' /\ PreparedOf(t)'
  BY <1>1, <1>2, <1>3 DEF ShapeOf, QuietOf, PromiseOf, PreparedOf, InTx, InProcess, Stmts
<1>10. DurableOf(t)'
  BY <1>1, <1>2, <1>3, <1>4 DEF DurableOf
<1>11. \A j \in Conns : \A i \in DOMAIN queue'[j] : queue'[j][i].by = t => Entry(j, i)'
  BY <1>1, <1>2, <1>6, <1>8, OldEntries
<1>12. \A j \in Conns : sess[j].tx # "none" /\ OwnsTx(t, j) => OwnsTx(t, j)'
  BY <1>6, <1>8, OldOwner
<1> QED BY <1>6, <1>7, <1>9, <1>10, <1>11, <1>12, FrameStep

\* Steps of a task that holds nothing: acquire fails or is dropped, a gateway client comes
\* or goes.
LEMMA IdleStep ==
  ASSUME IInv, NEW t \in Tasks, AcquireErr(t) \/ CancelAcquire(t) \/ WireConnect(t) \/ WireClose(t)
  PROVE  IInv'
<1>1. /\ ShapeOf(t) /\ PromiseOf(t) /\ DurableOf(t) /\ Typed
      /\ pc[t] = "start" \/ (pc[t] = "open" /\ kind[t] = "wire")
  BY DEF IInv, AcquireErr, CancelAcquire, WireConnect, WireClose
<1>2. lease[t] = NoConn /\ reply[t] = "none" /\ result[t] = "none" /\ ~InTx(t)
  BY <1>1 DEF ShapeOf, InTx
<1>3. UNCHANGED <<backend, lease, kind, op, n, clean, reply, acked, queue, sess, committed, ran, dropped, exited>>
  BY DEF AcquireErr, CancelAcquire, WireConnect, WireClose, serverVars, connVars
<1>4. \/ pc'[t] = "done" /\ result'[t] \in {"err", "cancelled", "dropped"}
      \/ pc'[t] = "open" /\ kind[t] = "wire" /\ result'[t] = result[t]
  BY <1>1 DEF AcquireErr, CancelAcquire, WireConnect, WireClose, Typed
<1>5. \A u \in Tasks \ {t} : pc'[u] = pc[u] /\ result'[u] = result[u]
  BY <1>1 DEF AcquireErr, CancelAcquire, WireConnect, WireClose, Typed
<1>6. Frame(t)
  <2>1. QueueFrame(t)
    BY <1>3, SameQueue
  <2> QED BY <1>2, <1>3, <1>5, <2>1 DEF Frame
<1>7. Typed'
  BY <1>1, <1>3 DEF AcquireErr, CancelAcquire, WireConnect, WireClose, Typed
<1>8. ShapeOf(t)' /\ ~InTx(t)'
  BY <1>1, <1>2, <1>3, <1>4 DEF ShapeOf, InTx, InProcess, Stmts, OpsOf
<1>9. QuietOf(t)' /\ PromiseOf(t)' /\ PreparedOf(t)' /\ DurableOf(t)'
  BY <1>1, <1>2, <1>3, <1>4, <1>8 DEF QuietOf, PromiseOf, PreparedOf, DurableOf, InProcess
<1>10. \A j \in Conns : \A i \in DOMAIN queue'[j] : queue'[j][i].by = t => Entry(j, i)'
  BY <1>2, <1>3, <1>6, OldEntries
<1>11. \A j \in Conns : sess[j].tx # "none" /\ OwnsTx(t, j) => OwnsTx(t, j)'
  BY <1>2, <1>6, OldOwner
<1> QED BY <1>6, <1>7, <1>8, <1>9, <1>10, <1>11, FrameStep

\* A gateway client's batch, sent under the guard behind whatever was left in the channel.
LEMMA WireBatchStep ==
  ASSUME IInv, SafeUse, NEW t \in Tasks, WireBatch(t)
  PROVE  IInv'
<1>1. pc[t] = "open" /\ kind[t] = "wire" /\ ShapeOf(t) /\ DurableOf(t) /\ Typed
  BY DEF IInv, WireBatch
<1>2. PICK k \in Conns, o \in {"write", "batch"}, m \in 0..MaxStmts, p \in Nat :
        /\ Lease!Take(t, k) /\ Send(t, k, o, m) /\ m > 0 /\ p = Len(queue[k]) + 1
  <2>1. PICK k \in Conns, o \in {"write", "batch"} : Lease!Take(t, k) /\ Send(t, k, o, n[t] + 1)
    BY DEF WireBatch, WireOps, SafeUse
  <2>2. PICK m \in 0..MaxStmts : m = n[t] + 1 /\ m > 0
    BY <1>1, SessionAssumption DEF WireBatch, Typed
  <2>3. PICK p \in Nat : p = Len(queue[k]) + 1
    BY <1>1, ChannelType
  <2>4. Send(t, k, o, m)
    BY <2>1, <2>2 DEF Send
  <2> QED BY <2>1, <2>2, <2>3, <2>4
<1>3. Sends(t, k, o, m)
  <2>1. lease' = [lease EXCEPT ![t] = k] /\ \A u \in Tasks \ {t} : lease[u] # k
    BY <1>2, SessionAssumption DEF Lease!Take, Lease!Lent, Lease!Holders
  <2>2. UNCHANGED <<backend, kind, clean, result, acked, sess, committed, ran, dropped, exited>>
    BY DEF WireBatch, connVars
  <2> QED BY <1>2, <2>1, <2>2 DEF Sends
<1>4. Frame(t) /\ Typed' /\ Sent(t, k, o, m, p) /\ o \in Ops
  BY <1>2, <1>3, SendFrame DEF Ops
<1>5. UNCHANGED <<backend, kind, committed>> /\ acked' = acked
  BY <1>3 DEF Sends
<1>6. /\ lease'[t] = k /\ k # NoConn /\ pc'[t] = "sent" /\ op'[t] = o /\ n'[t] = m /\ reply'[t] \in {"pending", "err"}
      /\ result'[t] = "none" /\ (reply'[t] = "err" => queue'[k] = queue[k] /\ k \in exited)
  BY <1>1, <1>4, SessionAssumption DEF Sent, ShapeOf
<1>7. k \in exited => queue[k] = <<>>
  BY DEF IInv, Conduct
<1>8. ~InTx(t) /\ ~InTx(t)' /\ reply[t] = "none" /\ op[t] # "commit"
  BY <1>1, <1>5 DEF InTx, ShapeOf, OpsOf
<1>9. ShapeOf(t)'
  BY <1>1, <1>2, <1>5, <1>6 DEF ShapeOf, OpsOf, Stmts
<1>10. QuietOf(t)'
  BY <1>6, <1>7, <1>8 DEF QuietOf
<1>11. PromiseOf(t)' /\ PreparedOf(t)' /\ DurableOf(t)'
  BY <1>1, <1>5, <1>6 DEF PromiseOf, PreparedOf, DurableOf
<1>12. MaySend(t, k, o, m, p)
  BY <1>1, <1>2 DEF MaySend, OpsOf, Stmts
<1> QED BY <1>4, <1>8, <1>9, <1>10, <1>11, <1>12, SendStep

\* query has its parameter types: in-process it executes on the session that has its
\* statement, under the guard it holds; otherwise it gives its connection back.
LEMMA QueryParsedStep ==
  ASSUME IInv, SafeUse, NEW t \in Tasks, QueryParsed(t)
  PROVE  IInv'
<1>1. /\ ShapeOf(t) /\ QuietOf(t) /\ PreparedOf(t) /\ DurableOf(t) /\ Typed /\ pc[t] = "sent" /\ reply[t] = "ok"
      /\ kind[t] \in {"query", "format"} /\ op[t] = "parse"
  BY DEF IInv, QueryParsed, Awaits
<1>2. lease[t] # NoConn /\ n[t] > 0 /\ result[t] = "none" /\ ~InTx(t)
  BY <1>1 DEF ShapeOf, Stmts, InTx
<1>3. PICK k \in Conns, m \in 0..MaxStmts : k = lease[t] /\ m = n[t] /\ m > 0 /\ queue[k] = <<>>
  BY <1>1, <1>2 DEF Typed, QuietOf
<1>4. CASE InProcess
  <2>1. kind[t] = "query"
    BY <1>1, <1>4 DEF IInv, Conduct, SafeUse, InProcess
  <2>2. Sends(t, k, "execute", m)
    <3>1. lease' = [lease EXCEPT ![t] = k] /\ \A u \in Tasks \ {t} : lease[u] # k
      <4>1. lease' = lease
        BY <1>4 DEF QueryParsed
      <4> QED BY <1>1, <1>2, <1>3, <4>1 DEF Typed, IInv, Conduct
    <3>2. UNCHANGED <<backend, kind, clean, result, acked, sess, committed, ran, dropped, exited>>
      BY <1>4 DEF QueryParsed, connVars
    <3>3. Send(t, k, "execute", m)
      <4>1. At(t) = k /\ Second(kind[t]) = "execute"
        BY <1>2, <1>3, <2>1 DEF At, Second
      <4> QED BY <1>3, <1>4, <4>1 DEF QueryParsed, Send
    <3> QED BY <3>1, <3>2, <3>3 DEF Sends
  <2>3. PICK p \in Nat : p = 1 /\ p = Len(queue[k]) + 1
    BY <1>3
  <2>4. Frame(t) /\ Typed' /\ Sent(t, k, "execute", m, p)
    BY <2>2, <2>3, SendFrame DEF Ops
  <2>5. UNCHANGED <<backend, kind, committed>> /\ acked' = acked
    BY <2>2 DEF Sends
  <2>6. /\ lease'[t] = k /\ k # NoConn /\ pc'[t] = "sent" /\ op'[t] = "execute" /\ n'[t] = m
        /\ reply'[t] \in {"pending", "err"} /\ result'[t] = "none" /\ (reply'[t] = "err" => queue'[k] = queue[k])
    BY <1>2, <1>3, <2>4 DEF Sent
  <2>7. ~InTx(t)'
    BY <2>1, <2>5 DEF InTx
  <2>8. ShapeOf(t)' /\ QuietOf(t)'
    BY <1>3, <2>1, <2>5, <2>6, <2>7 DEF ShapeOf, QuietOf, OpsOf, Stmts
  <2>9. PromiseOf(t)' /\ PreparedOf(t)' /\ DurableOf(t)'
    BY <1>1, <2>1, <2>5, <2>6 DEF PromiseOf, PreparedOf, DurableOf, InProcess
  <2>10. MaySend(t, k, "execute", m, p)
    BY <1>1, <1>3, <1>4, <2>1, <2>3 DEF MaySend, OpsOf, Stmts, PreparedOf
  <2> QED BY <1>1, <1>2, <2>4, <2>7, <2>8, <2>9, <2>10, SendStep DEF Ops
<1>5. CASE ~InProcess
  <2>1. UNCHANGED <<backend, kind, clean, acked, sess, committed, ran, dropped, exited, queue, n, result>>
    BY <1>5 DEF QueryParsed, connVars
  <2>2. lease'[t] = NoConn /\ pc'[t] = "start" /\ op'[t] = Second(kind[t]) /\ reply'[t] = "none"
    BY <1>1, <1>5 DEF QueryParsed, Typed, Lease!Give
  <2>3. Frame(t)
    <3>1. \A u \in Tasks \ {t} : pc'[u] = pc[u] /\ lease'[u] = lease[u] /\ reply'[u] = reply[u] /\ op'[u] = op[u]
      BY <1>1, <1>5 DEF QueryParsed, Typed, Lease!Give
    <3>2. QueueFrame(t)
      BY <2>1, SameQueue
    <3> QED BY <2>1, <2>2, <3>1, <3>2 DEF Frame
  <2>4. Typed'
    <3>1. /\ pc' \in [Tasks -> {"start", "sent", "open", "done"}] /\ lease' \in [Tasks -> Conns \cup {NoConn}]
          /\ reply' \in [Tasks -> {"none", "pending", "ok", "err"}]
      BY <1>1, <1>5 DEF Typed, QueryParsed, Lease!Give
    <3>2. op' \in [Tasks -> Ops]
      <4>1. Second(kind[t]) \in Ops
        BY DEF Second, Ops
      <4>2. op' = [op EXCEPT ![t] = Second(kind[t])] /\ op \in [Tasks -> Ops]
        BY <1>1, <1>5 DEF Typed, QueryParsed
      <4> QED BY <4>1, <4>2
    <3> QED BY <1>1, <2>1, <3>1, <3>2 DEF Typed
  <2>5. ShapeOf(t)' /\ ~InTx(t)'
    BY <1>1, <1>2, <1>5, <2>1, <2>2 DEF ShapeOf, InTx, InProcess, Stmts, OpsOf, Second
  <2>6. QuietOf(t)' /\ PromiseOf(t)' /\ PreparedOf(t)' /\ DurableOf(t)'
    BY <1>1, <1>5, <2>1, <2>2, <2>5 DEF QuietOf, PromiseOf, PreparedOf, DurableOf, InProcess
  <2>7. \A j \in Conns : \A i \in DOMAIN queue'[j] : queue'[j][i].by = t => Entry(j, i)'
    BY <1>1, <1>2, <2>1, <2>3, OldEntries
  <2>8. \A j \in Conns : sess[j].tx # "none" /\ OwnsTx(t, j) => OwnsTx(t, j)'
    BY <1>2, <2>3, OldOwner
  <2> QED BY <2>3, <2>4, <2>5, <2>6, <2>7, <2>8, FrameStep
<1> QED BY <1>4, <1>5

-----------------------------------------------------------------------------
(* Steps of a worker *)

\* The write of a statement: an Execute writes what was parsed last.
Written(s, c) == IF c.op = "execute" THEN s.stmt ELSE <<c.by, c.n>>

\* What a command c makes of a session s.
Outcome(s, c, r) ==
  /\ c.op = "begin" /\ s.tx = "none" => /\ r.sess.tx = "open" /\ r.sess.stmt = NoStmt
                                        /\ r.sess.writes = s.writes /\ r.commits = {}
  /\ c.op \in {"commit", "rollback"} => /\ r.sess.tx = "none" /\ r.sess.stmt = NoStmt /\ r.sess.writes = {}
                                        /\ r.commits \subseteq IF c.op = "commit" THEN s.writes ELSE {}
  /\ c.op = "commit" /\ (r.ok \/ r.commits # {}) => r.commits = s.writes
  /\ c.op \in Stmts \cup {"batch", "read"} =>
       /\ r.sess.tx = "none" <=> s.tx = "none"
       /\ r.sess.stmt \in {NoStmt, s.stmt, <<c.by, c.n>>}
       /\ ~r.ok => r.sess.writes = {} /\ r.commits = {}
       /\ r.ok => r.sess.tx = s.tx /\ s.tx # "failed"
  /\ c.op \in {"parse", "read"} /\ r.ok =>
       r.sess.writes = s.writes /\ r.commits = {} /\ r.sess.stmt = <<c.by, c.n>>
  /\ c.op \in {"write", "batch", "execute"} /\ r.ok =>
       /\ s.tx = "open" => r.sess.writes = s.writes \cup {Written(s, c)} /\ r.commits = {}
       /\ s.tx = "none" => r.sess.writes = s.writes /\ r.commits = {Written(s, c)}
       /\ c.op = "execute" => s.stmt # NoStmt

\* RunCommand does that.
LEMMA RunOutcome ==
  ASSUME NEW s \in SessionState, NEW c \in Command, NEW fails \in BOOLEAN
  PROVE  Outcome(s, c, RunCommand(s, c, fails))
<1> USE DEF SessionState, TxStates, Result, Failed, Ended, Wrote, Outcome, Stmts, Written
<1>1. CASE c.op = "begin"
  BY <1>1 DEF RunCommand
<1>2. CASE c.op = "rollback"
  BY <1>2 DEF RunCommand
<1>3. CASE c.op = "commit"
  BY <1>3 DEF RunCommand
<1>4. CASE c.op = "write"
  BY <1>4 DEF RunCommand
<1>5. CASE c.op = "batch"
  BY <1>5 DEF RunCommand
<1>6. CASE c.op = "parse"
  BY <1>6 DEF RunCommand
<1>7. CASE c.op = "read"
  BY <1>7 DEF RunCommand
<1>8. CASE c.op = "execute"
  BY <1>8 DEF RunCommand
<1> QED BY <1>1, <1>2, <1>3, <1>4, <1>5, <1>6, <1>7, <1>8 DEF Command, Ops

\* The command a worker takes next.
LEMMA HeadFacts ==
  ASSUME IInv, NEW k \in Conns, queue[k] # <<>>
  PROVE  /\ Head(queue[k]) = queue[k][1] /\ 1 \in DOMAIN queue[k] /\ queue[k][1] \in Command
         /\ queue[k][1].by \in Tasks /\ Entry(k, 1) /\ k \notin exited /\ sess[k] \in SessionState
<1>1. /\ queue[k] \in Seq(Command) /\ Len(queue[k]) \in Nat /\ DOMAIN queue[k] = 1..Len(queue[k])
      /\ \A i \in DOMAIN queue[k] : queue[k][i] \in Command /\ queue[k][i].by \in Tasks
  BY ChannelType DEF IInv
<1>2. Len(queue[k]) # 0
  BY <1>1, EmptySeq
<1>3. 1 \in DOMAIN queue[k] /\ Head(queue[k]) = queue[k][1]
  BY <1>1, <1>2
<1>4. sess[k] \in SessionState
  BY DEF IInv, Typed, SessionState, AllWrites
<1> QED BY <1>1, <1>3, <1>4 DEF IInv, Channels, Conduct

\* A session inside a transaction block next meets a command of the block's owner: nobody
\* else's statement ever runs in it.
LEMMA HeadOwner ==
  ASSUME IInv, NEW k \in Conns, 1 \in DOMAIN queue[k], NEW t \in Tasks, t = queue[k][1].by,
         sess[k].tx # "none"
  PROVE  /\ kind[t] = "tx" /\ OwnsTx(t, k) /\ sess[k].writes \subseteq Writes(t)
         /\ sess[k].stmt # NoStmt => sess[k].stmt[1] = t
         /\ queue[k][1].op \in Stmts \cup {"commit", "rollback"}
<1>1. PICK u \in Tasks : /\ kind[u] = "tx" /\ OwnsTx(u, k) /\ sess[k].writes \subseteq Writes(u)
                         /\ sess[k].stmt # NoStmt => sess[k].stmt[1] = u
  BY DEF IInv, BlockOf
<1>2. queue[k][1].by = u /\ queue[k][1].op \in Stmts \cup {"commit", "rollback"}
  <2>1. CASE InTx(u) /\ lease[u] = k
    BY <2>1 DEF IInv, QuietOf
  <2>2. CASE EndsAt(k, 1, u)
    BY <2>2 DEF EndsAt
  <2>3. CASE EndsAt(k, 2, u) /\ queue[k][1].by = u /\ queue[k][1].op \in Stmts
    BY <2>3
  <2> QED BY <1>1, <2>1, <2>2, <2>3 DEF OwnsTx
<1> QED BY <1>1, <1>2

\* What durable writes and executed statements a worker's step may leave.
Kept ==
  /\ committed \subseteq committed' /\ committed' \subseteq AllWrites /\ Executed'
  /\ \A u \in Tasks : kind[u] = "tx" =>
       \/ committed' \cap Writes(u) = committed \cap Writes(u)
       \/ op[u] = "commit" /\ acked \cap Writes(u) \subseteq committed'

\* Only its COMMIT makes writes of a transaction durable, and then all it was told of.
LEMMA EffectKept ==
  ASSUME IInv, NEW k \in Conns, queue[k] # <<>>, NEW fails \in BOOLEAN,
         Effect(k, RunCommand(sess[k], Head(queue[k]), fails)), UNCHANGED <<backend, kind>>
  PROVE  Kept
<1>1. PICK c \in Command, t \in Tasks : c = Head(queue[k]) /\ c = queue[k][1] /\ t = c.by
  BY HeadFacts
<1>2. 1 \in DOMAIN queue[k] /\ Entry(k, 1) /\ sess[k] \in SessionState
  BY HeadFacts
<1>3. PICK r : r = RunCommand(sess[k], c, fails)
  OBVIOUS
<1>4. Outcome(sess[k], c, r)
  BY <1>2, <1>3, RunOutcome
<1>5. r.commits \subseteq AllWrites
  BY <1>1, <1>2, <1>3, RunType DEF Entry
<1>6. committed' = committed \cup r.commits
  BY <1>1, <1>3 DEF Effect
<1>7. /\ c.op \in OpsOf(kind[t]) /\ (c.op \in Stmts \cup {"batch", "read"} => c.n > 0)
      /\ c.op = "commit" => /\ op[t] = "commit" /\ sess[k].tx = "open"
                            /\ acked \cap Writes(t) \subseteq sess[k].writes
                            /\ sess[k].writes \subseteq Writes(t)
      /\ kind[t] = "tx" /\ c.op \in Stmts => sess[k].tx # "none"
      /\ c.op = "execute" /\ (kind[t] = "tx" \/ InProcess) => sess[k].stmt = <<t, c.n>>
  BY <1>1, <1>2 DEF Entry
<1>8. ASSUME NEW u \in Tasks, kind[u] = "tx", NEW w \in r.commits, w \in Writes(u)
      PROVE  op[u] = "commit" /\ acked \cap Writes(u) \subseteq r.commits
  <2>1. CASE c.op = "commit"
    <3>1. r.commits = sess[k].writes
      BY <1>4, <1>8, <2>1 DEF Outcome
    <3>2. w \in Writes(t)
      BY <1>7, <1>8, <2>1, <3>1
    <3>3. t = u
      BY <1>8, <3>2, WriteOf
    <3> QED BY <1>7, <2>1, <3>1, <3>3
  <2>2. CASE c.op \in {"write", "batch", "execute"}
    <3>1. sess[k].tx = "none" /\ w = Written(sess[k], c) /\ (c.op = "execute" => sess[k].stmt # NoStmt)
      BY <1>2, <1>4, <1>8, <2>2 DEF Outcome, SessionState, TxStates, Stmts
    <3>2. kind[t] # "tx"
      BY <1>7, <2>2, <3>1 DEF OpsOf, Stmts
    <3>3. w[1] = u
      BY <1>8, WriteOf
    <3>4. CASE c.op = "execute"
      <4>1. w = sess[k].stmt /\ kind[w[1]] # "tx"
        BY <3>1, <3>4 DEF Written, IInv, BlockOf
      <4> QED BY <1>8, <3>3, <4>1
    <3>5. CASE c.op # "execute"
      <4>1. w[1] = t
        BY <1>1, <3>1, <3>5 DEF Written
      <4> QED BY <1>8, <3>2, <3>3, <4>1
    <3> QED BY <3>4, <3>5
  <2>3. CASE c.op \in {"parse", "read", "begin", "rollback"}
    <3>1. c.op = "begin" => sess[k].tx = "none"
      BY <1>1, <1>2, HeadOwner DEF Stmts
    <3> QED BY <1>4, <1>8, <2>3, <3>1 DEF Outcome, Stmts
  <2> QED BY <2>1, <2>2, <2>3 DEF Command, Ops
<1>9. Executed'
  <2> SUFFICES ASSUME InProcess \/ \A u \in Tasks : kind[u] # "query"
               PROVE  \A e \in ran' : e[1] = e[2]
    BY DEF Executed, OwnStatement, InProcess
  <2>1. \A e \in ran : e[1] = e[2]
    BY DEF IInv, Executed, OwnStatement
  <2>2. ran' = ran \/ (c.op = "execute" /\ ran' = ran \cup {<<<<t, c.n>>, sess[k].stmt>>})
    BY <1>1 DEF Effect
  <2>3. c.op = "execute" => sess[k].stmt = <<t, c.n>>
    BY <1>7 DEF OpsOf, IInv, Typed, AllKinds
  <2> QED BY <2>1, <2>2, <2>3
<1>10. committed \subseteq AllWrites
  BY DEF IInv, Typed, AllWrites
<1> QED BY <1>5, <1>6, <1>8, <1>9, <1>10 DEF Kept

\* The channels once k's worker has taken its next command, or has emptied its channel.
Advanced(k) ==
  /\ queue' \in [Conns -> Seq(Command)]
  /\ \A j \in Conns \ {k} : queue'[j] = queue[j]
  /\ \A i \in DOMAIN queue'[k] :
       /\ i + 1 \in DOMAIN queue[k] /\ i + 1 # 1 /\ queue'[k][i] = queue[k][i + 1]
       /\ i + 1 = Len(queue[k]) => i = Len(queue'[k])
       /\ i + 2 \in DOMAIN queue[k] => i + 1 \in DOMAIN queue'[k] /\ queue'[k][i + 1] = queue[k][i + 2]

\* What u heard of that: nothing, or that its command, the last in the channel, is over.
Heard(k, u, x) ==
  \/ reply'[u] = reply[u] /\ queue[k][1].to # u
  \/ /\ reply'[u] = x /\ lease[u] = k /\ pc[u] = "sent" /\ reply[u] = "pending" /\ queue'[k] = <<>>
     /\ x = "ok" => /\ queue[k][1].to = u /\ queue[k][1].by = u
                    /\ queue[k][1].op = op[u] /\ queue[k][1].n = n[u]

\* The step in which k's worker deals with its next command, reports x and has session s.
Worked(k, s, x) ==
  /\ Advanced(k) /\ \A u \in Tasks : Heard(k, u, x)
  /\ sess' = [sess EXCEPT ![k] = s]
  /\ reply' \in [Tasks -> {"none", "pending", "ok", "err"}]
  /\ exited' = exited \/ (exited' = exited \cup {k} /\ queue'[k] = <<>> /\ s = NewSession)
  /\ UNCHANGED <<backend, lease, kind, pc, op, n, clean, result, acked, dropped>>

\* A worker's step keeps what is said of the channels and of who holds and awaits what.
LEMMA WorkedFrame ==
  ASSUME IInv, NEW k \in Conns, NEW s \in SessionState, NEW x \in {"ok", "err"}, 1 \in DOMAIN queue[k],
         Worked(k, s, x), committed' \subseteq AllWrites
  PROVE  /\ Typed' /\ Conduct' /\ Channels' /\ \A j \in Conns \ {k} : BlockOf(j)'
         /\ \A u \in Tasks : ShapeOf(u)' /\ QuietOf(u)'
         /\ \A u \in Tasks : lease[u] # k => reply'[u] = reply[u]
<1> USE DEF Worked
<1>1. Typed /\ sess'[k] = s /\ \A j \in Conns \ {k} : sess'[j] = sess[j] /\ queue'[j] = queue[j]
  BY DEF IInv, Typed, Advanced
<1>2. Typed'
  BY <1>1 DEF Typed, Advanced, SessionState, AllWrites, Command
<1>3. Conduct'
  <2>1. k \notin exited
    BY DEF IInv, Conduct
  <2>2. NewSession.tx = "none"
    BY DEF NewSession
  <2>3. \A j \in exited : j \in Conns \ {k}
    BY <1>1, <2>1 DEF Typed
  <2> QED BY <1>1, <2>2, <2>3 DEF IInv, Conduct
<1>4. \A u \in Tasks : lease[u] # k => reply'[u] = reply[u]
  BY DEF Heard
<1>5. ASSUME NEW u \in Tasks PROVE ShapeOf(u)'
  <2>1. reply'[u] # "none" <=> pc[u] = "sent"
    BY DEF IInv, ShapeOf, Heard
  <2> QED BY <2>1 DEF IInv, ShapeOf, InProcess
<1>6. ASSUME NEW u \in Tasks, lease[u] # k PROVE InTx(u)' = InTx(u)
  BY <1>4, <1>6 DEF InTx
<1>7. ASSUME NEW j \in Conns \ {k} PROVE BlockOf(j)'
  <2>1. ASSUME NEW u \in Tasks, OwnsTx(u, j) PROVE OwnsTx(u, j)'
    <3>1. CASE InTx(u) /\ lease[u] = j
      BY <1>6, <3>1 DEF OwnsTx
    <3>2. CASE ~(InTx(u) /\ lease[u] = j)
      BY <1>1, <2>1, <3>2 DEF OwnsTx, EndsAt
    <3> QED BY <3>1, <3>2
  <2> QED BY <1>1, <2>1 DEF IInv, BlockOf
<1>8. ASSUME NEW u \in Tasks PROVE QuietOf(u)'
  <2>1. CASE lease[u] # k
    <3>1. pc[u] = "sent" \/ (kind[u] = "tx" /\ pc[u] = "open") \/ InTx(u) => lease[u] \in Conns \ {k}
      BY <1>1, <2>1 DEF IInv, ShapeOf, InTx, Typed
    <3>2. InTx(u)' = InTx(u) /\ reply'[u] = reply[u]
      BY <1>4, <1>6, <2>1
    <3> QED BY <1>1, <3>1, <3>2 DEF IInv, QuietOf
  <2>2. CASE lease[u] = k /\ queue'[k] = <<>>
    BY <2>2 DEF QuietOf
  <2>3. CASE lease[u] = k /\ queue'[k] # <<>>
    <3>1. reply'[u] = reply[u]
      BY <2>3 DEF Heard
    <3>2. InTx(u)' = InTx(u)
      BY <3>1 DEF InTx
    <3>3. InTx(u) => \A i \in DOMAIN queue'[k] : queue'[k][i].by = u /\ queue'[k][i].op \in Stmts
      <4>1. InTx(u) => \A i \in DOMAIN queue[k] : queue[k][i].by = u /\ queue[k][i].op \in Stmts
        BY <2>3 DEF IInv, QuietOf
      <4>2. \A i \in DOMAIN queue'[k] : \E m \in DOMAIN queue[k] : queue'[k][i] = queue[k][m]
        BY DEF Advanced
      <4> QED BY <4>1, <4>2
    <3>4. queue[k] # <<>>
      OBVIOUS
    <3> QED BY <2>3, <3>1, <3>2, <3>3, <3>4 DEF IInv, QuietOf
  <2> QED BY <2>1, <2>2, <2>3
<1>9. ASSUME NEW j \in Conns \ {k}, NEW i \in DOMAIN queue'[j] PROVE Entry(j, i)'
  <2>1. i \in DOMAIN queue[j] /\ queue'[j] = queue[j] /\ sess'[j] = sess[j] /\ Entry(j, i)
    BY <1>1, <1>9 DEF IInv, Channels
  <2>2. PICK t \in Tasks : t = queue[j][i].by
    BY <2>1, ChannelType DEF IInv
  <2>3. lease[t] = j => reply'[t] = reply[t] /\ InTx(t)' = InTx(t)
    BY <1>4, <1>6
  <2>4. \A m : EndsAt(j, m, t)' = EndsAt(j, m, t)
    BY <2>1 DEF EndsAt
  <2> QED BY <2>1, <2>2, <2>3, <2>4 DEF Entry, InProcess
<1>10. ASSUME NEW i \in DOMAIN queue'[k] PROVE Entry(k, i)'
  <2>1. PICK m \in DOMAIN queue[k] : m = i + 1 /\ m # 1 /\ queue'[k][i] = queue[k][m]
    BY DEF Advanced
  <2>2. Entry(k, m)
    BY DEF IInv, Channels
  <2>3. PICK t \in Tasks : t = queue[k][m].by
    BY ChannelType DEF IInv
  <2>4. m = Len(queue[k]) => i = Len(queue'[k])
    BY <2>1 DEF Advanced
  <2>5. reply'[t] = reply[t]
    BY DEF Heard
  <2>6. EndsAt(k, m + 1, t) => EndsAt(k, i + 1, t)'
    <3>1. i \in Nat /\ m + 1 = i + 2
      <4>1. i \in 1..Len(queue'[k]) /\ Len(queue'[k]) \in Nat
        BY <1>2, LenProperties DEF Advanced
      <4> QED BY <2>1, <4>1
    <3> QED BY <3>1 DEF EndsAt, Advanced
  <2>7. queue[k][m].op \in OpsOf(kind[t]) /\ (queue[k][m].op \in Stmts \cup {"batch", "read"} => queue[k][m].n > 0)
    BY <2>2, <2>3 DEF Entry
  <2>8. /\ queue[k][m].op # "commit" /\ ~(kind[t] = "tx" /\ queue[k][m].op \in Stmts)
        /\ ~(queue[k][m].op = "execute" /\ (kind[t] = "tx" \/ InProcess))
    BY <2>1, <2>2, <2>3 DEF Entry
  <2>9. /\ queue[k][m].to \in {t, NoTask}
        /\ queue[k][m].op = "begin" /\ queue[k][m].to = NoTask => EndsAt(k, m + 1, t)
        /\ queue[k][m].to = t =>
             /\ lease[t] = k /\ pc[t] = "sent" /\ reply[t] = "pending"
             /\ queue[k][m].op = op[t] /\ queue[k][m].n = n[t] /\ m = Len(queue[k])
    BY <2>2, <2>3 DEF Entry
  <2>10. UNCHANGED <<backend, lease, kind, pc, op, n>>
    OBVIOUS
  <2> HIDE DEF Worked
  <2> QED BY <2>1, <2>3, <2>4, <2>5, <2>6, <2>7, <2>8, <2>9, <2>10 DEF Entry, InProcess
<1>11. Channels'
  BY <1>9, <1>10 DEF Channels
<1> QED BY <1>2, <1>3, <1>4, <1>5, <1>7, <1>8, <1>11

\* Whoever is in a transaction in which all went well is told of every command it sent: a
\* command of it that nobody awaits would have spoilt or ended it.
LEMMA UnheardNotClean ==
  ASSUME IInv, NEW k \in Conns, 1 \in DOMAIN queue[k], NEW u \in Tasks, lease[u] = k, InTx(u), clean[u]
  PROVE  queue[k][1].to = u
<1>1. \A i \in DOMAIN queue[k] : queue[k][i].by = u /\ queue[k][i].op \in Stmts
  BY DEF IInv, QuietOf
<1>2. ~EndsAt(k, 2, u)
  BY <1>1 DEF EndsAt, Stmts
<1>3. Entry(k, 1) /\ queue[k][1].by = u /\ queue[k][1].op \in Stmts
  BY <1>1 DEF IInv, Channels
<1> QED BY <1>2, <1>3 DEF Entry, InTx

\* A worker's step keeps the invariant when the session it leaves has one owner and what
\* it reports as a success is one.
LEMMA WorkedStep ==
  ASSUME IInv, NEW k \in Conns, NEW s \in SessionState, NEW x \in {"ok", "err"}, queue[k] # <<>>,
         Worked(k, s, x), Kept, BlockOf(k)',
         \A u \in Tasks : x = "ok" /\ queue[k][1].to = u => PromiseOf(u)' /\ PreparedOf(u)' /\ DurableOf(u)'
  PROVE  IInv'
<1>1. 1 \in DOMAIN queue[k]
  BY HeadFacts
<1>2. /\ Typed' /\ Conduct' /\ Channels' /\ \A j \in Conns \ {k} : BlockOf(j)'
      /\ \A u \in Tasks : ShapeOf(u)' /\ QuietOf(u)'
      /\ \A u \in Tasks : lease[u] # k => reply'[u] = reply[u]
  BY <1>1, WorkedFrame DEF Kept
<1>3. UNCHANGED <<backend, lease, kind, pc, op, n, clean, result, acked>>
  BY DEF Worked
<1>4. Typed /\ \A j \in Conns \ {k} : sess'[j] = sess[j]
  BY DEF IInv, Typed, Worked
<1>5. ASSUME NEW u \in Tasks, ~(x = "ok" /\ queue[k][1].to = u) PROVE PromiseOf(u)' /\ PreparedOf(u)' /\ DurableOf(u)'
  <2>1. /\ ShapeOf(u) /\ QuietOf(u) /\ PromiseOf(u) /\ PreparedOf(u) /\ DurableOf(u)
    BY DEF IInv
  <2>2. reply'[u] = reply[u] \/ (reply'[u] = "err" /\ reply[u] = "pending")
    BY <1>5 DEF Worked, Heard
  <2>3. reply'[u] = reply[u] /\ lease[u] = k => ~(InTx(u) /\ clean[u])
    <3>1. reply'[u] = reply[u] => queue[k][1].to # u
      BY DEF Worked, Heard
    <3> QED BY <1>1, <3>1, UnheardNotClean
  <2>4. lease[u] # k /\ lease[u] # NoConn => sess'[lease[u]] = sess[lease[u]]
    BY <1>4 DEF Typed
  <2>5. InTx(u)' /\ reply'[u] # "err" => InTx(u) /\ reply'[u] = reply[u]
    BY <1>3, <2>2 DEF InTx
  <2>6. DurableOf(u)'
    BY <1>3, <2>1, <2>2 DEF DurableOf, Kept, InProcess
  <2>7. PreparedOf(u)'
    <3>1. pc[u] = "sent" /\ reply'[u] = "ok" => reply[u] = "ok" /\ lease[u] # k /\ lease[u] # NoConn
      BY <1>1, <2>1, <2>2 DEF QuietOf, ShapeOf
    <3> QED BY <1>3, <2>1, <2>4, <3>1 DEF PreparedOf, InProcess
  <2>8. PromiseOf(u)'
    <3> SUFFICES ASSUME kind[u] = "tx" PROVE PromiseOf(u)'
      BY <1>3 DEF PromiseOf
    <3>1. op[u] # "commit" => committed' \cap Writes(u) = {}
      BY <2>1 DEF PromiseOf, Kept
    <3>2. committed' \cap Writes(u) # {} => acked \cap Writes(u) \subseteq committed'
      BY <2>1 DEF PromiseOf, Kept
    <3>3. op[u] = "commit" /\ (reply'[u] = "ok" \/ result[u] = "ok") => acked \cap Writes(u) \subseteq committed'
      BY <2>1, <2>2 DEF PromiseOf, Kept
    <3>4. InTx(u)' /\ clean[u] /\ reply'[u] # "err" =>
            /\ sess'[lease[u]].tx = "open" /\ acked \cap Writes(u) \subseteq sess'[lease[u]].writes
            /\ reply'[u] = "ok" /\ op[u] \in {"write", "execute"} => <<u, n[u]>> \in sess'[lease[u]].writes
      <4>1. InTx(u) => lease[u] # NoConn
        BY DEF InTx
      <4> QED BY <2>1, <2>3, <2>4, <2>5, <4>1 DEF PromiseOf
    <3> QED BY <1>3, <2>1, <3>1, <3>2, <3>3, <3>4 DEF PromiseOf
  <2> QED BY <2>6, <2>7, <2>8
<1> QED BY <1>2, <1>5 DEF IInv, Kept

\* The tasks tos hear x.
Told(tos, x) == reply' = [t \in Tasks |-> IF t \in tos THEN x ELSE reply[t]]

LEMMA AloneAnswered ==
  ASSUME Alone, NEW cmds, NEW x, Answered(cmds, x)
  PROVE  Told({c.to : c \in cmds}, x) /\ Alone'
<1>1. \A t \in Tasks : \A c \in cmds : Mine(t, c) <=> c.to = t
  BY DEF Alone, Mine
<1>2. \A t \in Tasks : (\E c \in cmds : Mine(t, c)) <=> t \in {c.to : c \in cmds}
  BY <1>1
<1>3. Told({c.to : c \in cmds}, x)
  BY <1>2 DEF Answered, Told
<1>4. \A t \in Tasks : others'[t] = {}
  BY DEF Answered, Alone
<1>5. others' = [t \in Tasks |-> others'[t]]
  BY DEF Answered
<1> QED BY <1>3, <1>4, <1>5 DEF Alone

\* The worker took the next command and answered it.
LEMMA TakenNext ==
  ASSUME IInv, NEW k \in Conns, queue[k] # <<>>, NEW s, NEW x \in {"ok", "err"},
         queue' = [queue EXCEPT ![k] = Tail(@)], Told({Head(queue[k]).to}, x),
         sess' = [sess EXCEPT ![k] = s],
         UNCHANGED <<backend, lease, kind, pc, op, n, clean, result, acked, dropped, exited>>
  PROVE  Worked(k, s, x)
<1>1. /\ Head(queue[k]) = queue[k][1] /\ 1 \in DOMAIN queue[k] /\ Entry(k, 1)
      /\ queue[k][1].by \in Tasks
  BY HeadFacts
<1>2. /\ queue[k] \in Seq(Command) /\ Len(queue[k]) \in Nat /\ DOMAIN queue[k] = 1..Len(queue[k])
  BY ChannelType DEF IInv
<1>3. /\ Tail(queue[k]) \in Seq(Command) /\ Len(Tail(queue[k])) = Len(queue[k]) - 1
      /\ \A i \in 1..Len(Tail(queue[k])) : Tail(queue[k])[i] = queue[k][i + 1]
  BY <1>2, HeadTailProperties
<1>4. queue \in [Conns -> Seq(Command)] /\ reply \in [Tasks -> {"none", "pending", "ok", "err"}]
  BY DEF IInv, Typed, Command
<1>5. queue' \in [Conns -> Seq(Command)] /\ queue'[k] = Tail(queue[k]) /\ \A j \in Conns \ {k} : queue'[j] = queue[j]
  BY <1>3, <1>4
<1>6. DOMAIN queue'[k] = 1..(Len(queue[k]) - 1) /\ Len(queue'[k]) = Len(queue[k]) - 1
  BY <1>3, <1>5, LenProperties
<1>7. Advanced(k)
  <2>1. ASSUME NEW i \in DOMAIN queue'[k]
        PROVE  /\ i + 1 \in DOMAIN queue[k] /\ i + 1 # 1 /\ queue'[k][i] = queue[k][i + 1]
               /\ i + 1 = Len(queue[k]) => i = Len(queue'[k])
               /\ i + 2 \in DOMAIN queue[k] => i + 1 \in DOMAIN queue'[k] /\ queue'[k][i + 1] = queue[k][i + 2]
    <3>1. i \in Nat /\ i >= 1 /\ i <= Len(queue[k]) - 1
      BY <1>2, <1>6
    <3>2. i + 2 \in DOMAIN queue[k] => i + 1 \in 1..(Len(queue[k]) - 1) /\ (i + 1) + 1 = i + 2
      BY <1>2, <3>1
    <3>3. i + 1 \in DOMAIN queue[k] /\ i + 1 # 1 /\ (i + 1 = Len(queue[k]) => i = Len(queue'[k]))
      BY <1>2, <1>6, <3>1
    <3> QED BY <1>3, <1>5, <1>6, <3>2, <3>3
  <2> QED BY <1>5, <2>1 DEF Advanced
<1>8. ASSUME NEW u \in Tasks PROVE Heard(k, u, x)
  <2>1. CASE queue[k][1].to # u
    BY <1>1, <2>1 DEF Heard, Told
  <2>2. CASE queue[k][1].to = u
    <3>1. /\ queue[k][1].by = u /\ lease[u] = k /\ pc[u] = "sent" /\ reply[u] = "pending"
          /\ queue[k][1].op = op[u] /\ queue[k][1].n = n[u] /\ 1 = Len(queue[k])
      BY <1>1, <2>2, SessionAssumption DEF Entry
    <3>2. queue'[k] = <<>>
      BY <1>3, <1>5, <3>1, EmptySeq
    <3>3. reply'[u] = x
      BY <1>1, <2>2 DEF Told
    <3> QED BY <2>2, <3>1, <3>2, <3>3 DEF Heard
  <2> QED BY <2>1, <2>2
<1>9. reply' \in [Tasks -> {"none", "pending", "ok", "err"}]
  BY <1>4 DEF Told
<1> QED BY <1>7, <1>8, <1>9 DEF Worked

\* A connection without a transaction block has nothing to account for.
LEMMA NewBlock ==
  ASSUME NEW k \in Conns, sess'[k] = NewSession
  PROVE  BlockOf(k)' /\ NewSession \in SessionState
  BY DEF BlockOf, NewSession, NoStmt, SessionState, TxStates

\* What the lost session had done with the command in flight.
LEMMA InFlightKept ==
  ASSUME IInv, NEW k \in Conns, queue[k] # <<>>, InFlight(k), UNCHANGED <<backend, kind>>
  PROVE  Kept
<1>1. CASE Effect(k, RunCommand(sess[k], Head(queue[k]), FALSE))
  BY <1>1, EffectKept
<1>2. CASE UNCHANGED <<committed, ran>>
  BY <1>2 DEF Kept, IInv, Typed, AllWrites, Executed, OwnStatement, InProcess
<1> QED BY <1>1, <1>2 DEF InFlight

\* The worker lost its session: the block is gone with it, and its owner hears an error.
LEMMA LoseSessionStep ==
  ASSUME IInv, Alone, NEW k \in Conns, LoseSession(k)
  PROVE  IInv'
<1>1. /\ queue[k] # <<>> /\ queue' = [queue EXCEPT ![k] = Tail(@)] /\ Told({Head(queue[k]).to}, "err")
      /\ sess' = [sess EXCEPT ![k] = NewSession] /\ InFlight(k)
      /\ UNCHANGED <<backend, lease, kind, pc, op, n, clean, result, acked, dropped, exited>>
  BY AloneAnswered DEF LoseSession, connVars
<1>2. sess'[k] = NewSession
  BY <1>1 DEF IInv, Typed
<1>3. Worked(k, NewSession, "err")
  BY <1>1, TakenNext
<1>4. Kept
  BY <1>1, InFlightKept
<1> QED BY <1>1, <1>2, <1>3, <1>4, NewBlock, WorkedStep

\* The worker returned: everything in its channel is answered with an error.
LEMMA LoseWorkerStep ==
  ASSUME IInv, Alone, NEW k \in Conns, LoseWorker(k)
  PROVE  IInv'
<1>1. /\ queue[k] # <<>> /\ queue' = [queue EXCEPT ![k] = <<>>] /\ exited' = exited \cup {k}
      /\ Told({queue[k][i].to : i \in DOMAIN queue[k]}, "err")
      /\ sess' = [sess EXCEPT ![k] = NewSession] /\ InFlight(k)
      /\ UNCHANGED <<backend, lease, kind, pc, op, n, clean, result, acked, dropped>>
  BY AloneAnswered DEF LoseWorker
<1>2. sess'[k] = NewSession
  BY <1>1 DEF IInv, Typed
<1>3. queue \in [Conns -> Seq(Command)] /\ reply \in [Tasks -> {"none", "pending", "ok", "err"}]
  BY DEF IInv, Typed, Command
<1>4. queue' \in [Conns -> Seq(Command)] /\ queue'[k] = <<>> /\ \A j \in Conns \ {k} : queue'[j] = queue[j]
  BY <1>1, <1>3
<1>5. Advanced(k)
  BY <1>4 DEF Advanced
<1>6. ASSUME NEW u \in Tasks PROVE Heard(k, u, "err")
  <2>1. CASE u \in {queue[k][i].to : i \in DOMAIN queue[k]}
    <3>1. PICK i \in DOMAIN queue[k] : queue[k][i].to = u
      BY <2>1
    <3>2. Entry(k, i) /\ queue[k][i].by \in Tasks
      BY ChannelType DEF IInv, Channels
    <3>3. lease[u] = k /\ pc[u] = "sent" /\ reply[u] = "pending"
      BY <3>1, <3>2, SessionAssumption DEF Entry
    <3> QED BY <1>1, <1>4, <2>1, <3>3 DEF Heard, Told
  <2>2. CASE u \notin {queue[k][i].to : i \in DOMAIN queue[k]}
    <3>1. queue[k][1].to # u
      BY <1>1, <2>2, HeadFacts
    <3> QED BY <1>1, <2>2, <3>1 DEF Heard, Told
  <2> QED BY <2>1, <2>2
<1>7. reply' \in [Tasks -> {"none", "pending", "ok", "err"}]
  BY <1>1, <1>3 DEF Told
<1>8. Worked(k, NewSession, "err")
  BY <1>1, <1>4, <1>5, <1>6, <1>7 DEF Worked
<1>9. Kept
  BY <1>1, InFlightKept
<1> QED BY <1>1, <1>2, <1>8, <1>9, NewBlock, WorkedStep

\* A connection nobody holds and with nothing to do hangs up.
LEMMA HangupStep ==
  ASSUME IInv, NEW k \in Conns, Hangup(k)
  PROVE  IInv'
<1>1. /\ queue[k] = <<>> /\ \A u \in Tasks : lease[u] # k
      /\ UNCHANGED <<backend, lease, kind, pc, op, n, clean, reply, result, acked, queue, committed, ran>>
  BY SessionAssumption DEF Hangup, taskVars, Lease!Lent, Lease!Holders
<1>2. sess'[k] = NewSession /\ \A j \in Conns \ {k} : sess'[j] = sess[j]
  BY DEF IInv, Typed, Hangup
<1>3. BlockOf(k)' /\ NewSession \in SessionState
  BY <1>2, NewBlock
<1>4. Typed'
  <2>1. sess' \in [Conns -> SessionState]
    BY <1>3 DEF IInv, Typed, SessionState, AllWrites, Hangup
  <2> QED BY <1>1, <2>1 DEF IInv, Typed, SessionState, AllWrites, Hangup
<1>5. \A u \in Tasks : InTx(u)' = InTx(u)
  BY <1>1 DEF InTx
<1>6. \A u \in Tasks, j \in Conns : OwnsTx(u, j)' = OwnsTx(u, j)
  BY <1>1, <1>5 DEF OwnsTx, EndsAt
<1>7. \A j \in Conns \ {k} : BlockOf(j)'
  BY <1>1, <1>2, <1>6 DEF IInv, BlockOf
<1>8. Channels'
  <2>1. ASSUME NEW j \in Conns, NEW i \in DOMAIN queue[j] PROVE Entry(j, i)'
    <3>1. sess'[j] = sess[j] /\ Entry(j, i)
      BY <1>1, <1>2 DEF IInv, Channels
    <3>2. PICK t \in Tasks : t = queue[j][i].by
      BY ChannelType DEF IInv
    <3>3. \A m : EndsAt(j, m, t)' = EndsAt(j, m, t)
      BY <1>1 DEF EndsAt
    <3> QED BY <1>1, <1>5, <3>1, <3>2, <3>3 DEF Entry, InProcess
  <2> QED BY <1>1, <2>1 DEF Channels
<1>9. Conduct'
  BY <1>1, <1>2 DEF IInv, Conduct, Hangup, Typed
<1>10. ASSUME NEW u \in Tasks PROVE ShapeOf(u)' /\ QuietOf(u)' /\ DurableOf(u)'
  BY <1>1, <1>5 DEF IInv, ShapeOf, QuietOf, DurableOf, InProcess
<1>11. ASSUME NEW u \in Tasks PROVE PromiseOf(u)' /\ PreparedOf(u)'
  <2>1. lease[u] # NoConn => sess'[lease[u]] = sess[lease[u]]
    BY <1>1, <1>2 DEF IInv, Typed
  <2>2. PromiseOf(u) /\ PreparedOf(u) /\ (pc[u] = "sent" => lease[u] # NoConn)
    BY DEF IInv, ShapeOf
  <2>3. InTx(u) => lease[u] # NoConn
    BY DEF InTx
  <2> QED BY <1>1, <1>5, <2>1, <2>2, <2>3 DEF PromiseOf, PreparedOf, InProcess
<1>12. Executed'
  BY <1>1 DEF IInv, Executed, OwnStatement, InProcess
<1> QED BY <1>3, <1>4, <1>7, <1>8, <1>9, <1>10, <1>11, <1>12 DEF IInv

\* The session after a command has one owner again: BEGIN makes its sender the owner,
\* statements keep the owner, and the end of the transaction leaves no block.
LEMMA RunBlock ==
  ASSUME IInv, NEW k \in Conns, queue[k] # <<>>, NEW c \in Command, NEW t \in Tasks, c = queue[k][1], t = c.by,
         NEW r, Outcome(sess[k], c, r), NEW x, x = (IF r.ok THEN "ok" ELSE "err"), Worked(k, r.sess, x),
         queue' = [queue EXCEPT ![k] = Tail(@)], c.op = "begin" => r.ok
  PROVE  BlockOf(k)'
<1>1. 1 \in DOMAIN queue[k] /\ Entry(k, 1) /\ BlockOf(k) /\ sess[k] \in SessionState
  BY HeadFacts DEF IInv
<1>2. UNCHANGED <<backend, lease, kind, pc, op, n>> /\ sess'[k] = r.sess
  BY DEF Worked, IInv, Typed
<1>3. /\ c.op \in OpsOf(kind[t]) /\ (c.op \in Stmts \cup {"batch", "read"} => c.n > 0) /\ c.to \in {t, NoTask}
      /\ c.to = t => lease[t] = k /\ op[t] = c.op
      /\ c.op = "begin" /\ c.to = NoTask => EndsAt(k, 2, t)
      /\ kind[t] = "tx" /\ c.op \in Stmts => sess[k].tx # "none"
  BY <1>1 DEF Entry
<1>4. ASSUME EndsAt(k, 2, t) PROVE EndsAt(k, 1, t)'
  <2>1. 2 \in DOMAIN queue[k] /\ queue[k] \in Seq(Command) /\ DOMAIN queue[k] = 1..Len(queue[k]) /\ Len(queue[k]) \in Nat
    BY <1>4, ChannelType DEF EndsAt, IInv
  <2>2. /\ Tail(queue[k]) \in Seq(Command) /\ Len(Tail(queue[k])) = Len(queue[k]) - 1
        /\ \A i \in 1..Len(Tail(queue[k])) : Tail(queue[k])[i] = queue[k][i + 1]
    BY <2>1, HeadTailProperties
  <2>3. 1 \in 1..Len(Tail(queue[k]))
    BY <2>1, <2>2
  <2>4. queue'[k] = Tail(queue[k]) /\ DOMAIN Tail(queue[k]) = 1..Len(Tail(queue[k]))
    BY <2>2, LenProperties DEF IInv, Typed
  <2>5. Tail(queue[k])[1] = queue[k][2]
    BY <2>2, <2>3
  <2> QED BY <1>4, <2>3, <2>4, <2>5 DEF EndsAt
<1>5. CASE c.op \in {"commit", "rollback"}
  BY <1>2, <1>5 DEF Outcome, BlockOf
<1>6. CASE c.op = "begin"
  <2>1. kind[t] = "tx" /\ sess[k].tx = "none"
    <3>1. kind[t] = "tx"
      BY <1>3, <1>6 DEF OpsOf, IInv, Typed, AllKinds
    <3> QED BY <1>1, <1>6, <3>1, HeadOwner DEF Stmts
  <2>2. sess'[k].tx = "open" /\ sess'[k].writes = {} /\ sess'[k].stmt = NoStmt
    BY <1>1, <1>2, <1>6, <2>1 DEF Outcome, BlockOf
  <2>3. OwnsTx(t, k)'
    <3>1. CASE c.to = t
      <4>1. reply'[t] = "ok"
        BY <1>6, <3>1 DEF Worked, Heard
      <4>2. lease[t] = k /\ k # NoConn /\ op[t] = "begin"
        BY <1>3, <1>6, <3>1, SessionAssumption
      <4> QED BY <1>2, <2>1, <4>1, <4>2 DEF OwnsTx, InTx
    <3>2. CASE c.to = NoTask
      BY <1>3, <1>4, <1>6, <3>2 DEF OwnsTx
    <3> QED BY <1>3, <3>1, <3>2
  <2> QED BY <1>2, <2>1, <2>2, <2>3 DEF BlockOf
<1>7. CASE c.op \in Stmts \cup {"batch", "read"} /\ sess[k].tx = "none"
  <2>1. kind[t] # "tx"
    BY <1>3, <1>7 DEF OpsOf
  <2>2. sess'[k].tx = "none" /\ sess'[k].stmt \in {NoStmt, sess[k].stmt, <<t, c.n>>}
    BY <1>2, <1>7 DEF Outcome
  <2>3. sess'[k].writes = {}
    BY <1>1, <1>2, <1>7 DEF Outcome, BlockOf, Stmts
  <2>4. sess'[k].stmt # NoStmt => kind[sess'[k].stmt[1]] # "tx"
    BY <1>1, <1>7, <2>1, <2>2 DEF BlockOf
  <2> QED BY <1>2, <2>2, <2>3, <2>4 DEF BlockOf
<1>8. CASE c.op \in Stmts \cup {"batch", "read"} /\ sess[k].tx # "none"
  <2>1. /\ kind[t] = "tx" /\ OwnsTx(t, k) /\ sess[k].writes \subseteq Writes(t)
        /\ sess[k].stmt # NoStmt => sess[k].stmt[1] = t
        /\ c.op \in Stmts
    BY <1>1, <1>8, HeadOwner DEF Stmts
  <2>2. sess'[k].tx # "none" /\ sess'[k].stmt \in {NoStmt, sess[k].stmt, <<t, c.n>>}
    BY <1>2, <1>8 DEF Outcome
  <2>3. <<t, c.n>> \in Writes(t)
    BY <1>3, <1>8, WriteOf DEF Command
  <2>4. sess[k].stmt # NoStmt => sess[k].stmt \in Writes(t)
    BY <1>1, <2>1, WriteTask DEF SessionState
  <2>5. sess'[k].writes \subseteq Writes(t)
    <3>1. CASE ~r.ok \/ c.op = "parse"
      BY <1>2, <2>1, <3>1 DEF Outcome, Stmts
    <3>2. CASE r.ok /\ c.op \in {"write", "execute"}
      <4>1. sess[k].tx = "open"
        BY <1>1, <1>8, <3>2 DEF Outcome, SessionState, TxStates, Stmts
      <4>2. r.sess.writes = sess[k].writes \cup {Written(sess[k], c)} /\ (c.op = "execute" => sess[k].stmt # NoStmt)
        BY <3>2, <4>1 DEF Outcome
      <4> QED BY <1>2, <2>1, <2>3, <2>4, <4>2 DEF Written
    <3> QED BY <2>1, <3>1, <3>2 DEF Stmts
  <2>6. OwnsTx(t, k)'
    <3>1. CASE InTx(t) /\ lease[t] = k
      <4>1. CASE reply'[t] = reply[t]
        BY <1>2, <3>1, <4>1 DEF OwnsTx, InTx
      <4>2. CASE reply'[t] # reply[t]
        <5>1. reply[t] = "pending"
          BY <4>2 DEF Worked, Heard
        <5> QED BY <1>2, <3>1, <5>1 DEF OwnsTx, InTx
      <4> QED BY <4>1, <4>2
    <3>2. CASE EndsAt(k, 1, t)
      BY <2>1, <3>2 DEF EndsAt, Stmts
    <3>3. CASE EndsAt(k, 2, t)
      BY <1>4, <3>3 DEF OwnsTx
    <3> QED BY <2>1, <3>1, <3>2, <3>3 DEF OwnsTx
  <2>7. sess'[k].stmt # NoStmt => sess'[k].stmt[1] = t
    BY <2>1, <2>2
  <2> QED BY <1>2, <2>1, <2>2, <2>5, <2>6, <2>7 DEF BlockOf
<1> QED BY <1>5, <1>6, <1>7, <1>8 DEF Command, Ops, Stmts

\* What a worker reports as a success is one: the write is among the writes of the block, or
\* durable; the statement is the session's unnamed one; the commit made all writes durable.
LEMMA RunTold ==
  ASSUME IInv, NEW k \in Conns, queue[k] # <<>>, NEW c \in Command, NEW t \in Tasks, c = queue[k][1], t = c.by,
         NEW r, Outcome(sess[k], c, r), r.ok, Worked(k, r.sess, "ok"), Kept,
         committed' = committed \cup r.commits, c.to = t
  PROVE  PromiseOf(t)' /\ PreparedOf(t)' /\ DurableOf(t)'
<1>1. 1 \in DOMAIN queue[k] /\ Entry(k, 1) /\ sess[k] \in SessionState
  BY HeadFacts
<1>2. UNCHANGED <<backend, lease, kind, pc, op, n, clean, result, acked>> /\ sess'[k] = r.sess
  BY DEF Worked, IInv, Typed
<1>3. /\ lease[t] = k /\ k # NoConn /\ pc[t] = "sent" /\ reply[t] = "pending" /\ op[t] = c.op /\ n[t] = c.n
      /\ c.op \in OpsOf(kind[t])
      /\ c.op = "commit" => acked \cap Writes(t) \subseteq sess[k].writes
      /\ kind[t] = "tx" /\ c.op \in Stmts => sess[k].tx # "none"
      /\ c.op = "execute" /\ (kind[t] = "tx" \/ InProcess) => sess[k].stmt = <<t, c.n>>
  BY <1>1, SessionAssumption DEF Entry
<1>4. ShapeOf(t) /\ PromiseOf(t) /\ DurableOf(t)
  BY DEF IInv
<1>5. PreparedOf(t)'
  BY <1>2, <1>3 DEF PreparedOf, Outcome
<1>6. DurableOf(t)'
  <2> SUFFICES ASSUME kind[t] # "tx", kind[t] = "query" => InProcess
               PROVE  /\ acked \cap Writes(t) \subseteq committed'
                      /\ c.op \in {"write", "execute", "batch"} => <<t, c.n>> \in committed'
    BY <1>2, <1>3 DEF DurableOf, InProcess
  <2>1. acked \cap Writes(t) \subseteq committed'
    BY <1>4 DEF DurableOf, Kept
  <2>2. c.op = "execute" => InProcess
    BY <1>3 DEF OpsOf, IInv, Typed, AllKinds
  <2>3. sess[k].tx = "none"
    BY <1>1, HeadOwner
  <2>4. c.op \in {"write", "execute", "batch"} => r.commits = {<<t, c.n>>}
    BY <1>3, <2>2, <2>3 DEF Outcome, Written
  <2> QED BY <2>1, <2>4
<1>7. PromiseOf(t)'
  <2> SUFFICES ASSUME kind[t] = "tx" PROVE PromiseOf(t)'
    BY <1>2 DEF PromiseOf
  <2>1. c.op # "commit" => committed' \cap Writes(t) = {}
    BY <1>3, <1>4 DEF PromiseOf, Kept
  <2>2. committed' \cap Writes(t) # {} => acked \cap Writes(t) \subseteq committed'
    BY <1>4 DEF PromiseOf, Kept
  <2>3. c.op = "commit" => acked \cap Writes(t) \subseteq committed'
    BY <1>3 DEF Outcome
  <2>4. ASSUME InTx(t)', clean[t]
        PROVE  /\ r.sess.tx = "open" /\ acked \cap Writes(t) \subseteq r.sess.writes
               /\ c.op \in {"write", "execute"} => <<t, c.n>> \in r.sess.writes
    <3>1. c.op \in {"begin"} \cup Stmts
      BY <1>2, <1>3, <2>4 DEF InTx
    <3>2. CASE c.op = "begin"
      <4>1. sess[k].tx = "none"
        BY <1>1, <3>2, HeadOwner DEF Stmts
      <4>2. acked \cap Writes(t) = {}
        BY <1>3, <1>4, <3>2 DEF PromiseOf
      <4> QED BY <3>2, <4>1, <4>2 DEF Outcome
    <3>3. CASE c.op \in Stmts
      <4>1. InTx(t)
        BY <1>3, <3>3 DEF InTx
      <4>2. sess[k].tx = "open" /\ acked \cap Writes(t) \subseteq sess[k].writes
        BY <1>3, <1>4, <2>4, <4>1 DEF PromiseOf
      <4>3. r.sess.tx = "open"
        BY <3>3, <4>2 DEF Outcome
      <4>4. CASE c.op = "parse"
        BY <4>2, <4>3, <4>4 DEF Outcome
      <4>5. CASE c.op \in {"write", "execute"}
        <5>1. r.sess.writes = sess[k].writes \cup {<<t, c.n>>}
          BY <1>3, <3>3, <4>2, <4>5 DEF Outcome, Written
        <5> QED BY <4>2, <4>3, <5>1
      <4> QED BY <3>3, <4>4, <4>5 DEF Stmts
    <3> QED BY <3>1, <3>2, <3>3
  <2>5. c.op = "begin" => acked \cap Writes(t) = {}
    BY <1>3, <1>4 DEF PromiseOf
  <2> QED BY <1>2, <1>3, <1>4, <2>1, <2>2, <2>3, <2>4, <2>5 DEF PromiseOf
<1> QED BY <1>5, <1>6, <1>7

\* The worker ran its next command.
LEMMA RunStep ==
  ASSUME IInv, Alone, NEW k \in Conns, Run(k)
  PROVE  IInv'
<1>1. /\ queue[k] # <<>> /\ queue' = [queue EXCEPT ![k] = Tail(@)]
      /\ UNCHANGED <<backend, lease, kind, pc, op, n, clean, result, acked, dropped, exited>>
  BY DEF Run, connVars
<1>2. PICK c \in Command, t \in Tasks : c = Head(queue[k]) /\ c = queue[k][1] /\ t = c.by
  BY <1>1, HeadFacts
<1>3. PICK fails \in BOOLEAN :
        LET r == RunCommand(sess[k], c, fails)
        IN /\ fails => MayFail(c.op)
           /\ sess' = [sess EXCEPT ![k] = r.sess]
           /\ Effect(k, r)
           /\ Told({c.to}, IF r.ok THEN "ok" ELSE "err")
  <2>1. PICK fails \in BOOLEAN :
          LET r == RunCommand(sess[k], c, fails)
          IN /\ fails => MayFail(c.op)
             /\ sess' = [sess EXCEPT ![k] = r.sess]
             /\ Effect(k, r)
             /\ Answered({c}, IF r.ok THEN "ok" ELSE "err")
    BY <1>2 DEF Run
  <2>2. \A x : Answered({c}, x) => Told({d.to : d \in {c}}, x)
    BY AloneAnswered
  <2>3. {d.to : d \in {c}} = {c.to}
    OBVIOUS
  <2> QED BY <2>1, <2>2, <2>3
<1>4. PICK r : r = RunCommand(sess[k], c, fails)
  OBVIOUS
<1>5. Entry(k, 1) /\ sess[k] \in SessionState
  BY <1>1, HeadFacts
<1>6. Outcome(sess[k], c, r)
  BY <1>4, <1>5, RunOutcome
<1>7. r.sess \in SessionState
  BY <1>2, <1>4, <1>5, RunType DEF Entry
<1>8. PICK x \in {"ok", "err"} : x = IF r.ok THEN "ok" ELSE "err"
  OBVIOUS
<1>9. Worked(k, r.sess, x)
  BY <1>1, <1>2, <1>3, <1>4, <1>8, TakenNext
<1>10. Kept
  BY <1>1, <1>2, <1>3, <1>4, EffectKept
<1>11. c.op = "begin" => r.ok
  <2> SUFFICES ASSUME c.op = "begin" PROVE r.ok
    OBVIOUS
  <2>1. sess[k].tx = "none"
    BY <1>1, <1>2, HeadFacts, HeadOwner DEF Stmts
  <2> QED BY <1>4, <2>1 DEF RunCommand, Result
<1>12. BlockOf(k)'
  BY <1>1, <1>2, <1>6, <1>8, <1>9, <1>11, RunBlock
<1>13. ASSUME NEW u \in Tasks, x = "ok", c.to = u PROVE PromiseOf(u)' /\ PreparedOf(u)' /\ DurableOf(u)'
  <2>1. r.ok /\ u = t
    BY <1>2, <1>5, <1>8, <1>13, SessionAssumption DEF Entry
  <2>2. committed' = committed \cup r.commits
    BY <1>3, <1>4 DEF Effect
  <2> QED BY <1>1, <1>2, <1>6, <1>9, <1>10, <1>13, <2>1, <2>2, RunTold
<1> QED BY <1>1, <1>2, <1>7, <1>9, <1>10, <1>12, <1>13, WorkedStep

-----------------------------------------------------------------------------
(* The theorems *)

\* At the start every task is free, every channel empty and every session new.
LEMMA InitInvariant ==
  ASSUME Init
  PROVE  IInv
<1> USE SessionAssumption
<1>1. /\ backend \in Backends /\ kind \in [Tasks -> Kinds[backend]] /\ kind \in [Tasks -> AllKinds]
      /\ lease = [t \in Tasks |-> NoConn]
  BY DEF Init, Lease!Init
<1>2. ASSUME NEW t \in Tasks
      PROVE  FirstOp(kind[t]) \in Ops /\ FirstOp(kind[t]) \in OpsOf(kind[t])
             /\ (kind[t] = "tx" => FirstOp(kind[t]) = "begin") /\ (kind[t] = "query" => FirstOp(kind[t]) = "parse")
             /\ (kind[t] = "wire" => FirstOp(kind[t]) = "batch")
  BY <1>1 DEF FirstOp, OpsOf, Ops, AllKinds
<1>3. Typed
  <2>1. queue \in [Conns -> Seq([by : Tasks, to : Tasks \cup {NoTask}, op : Ops, n : 0..MaxStmts])]
    BY DEF Init
  <2>2. NewSession \in SessionState
    BY DEF NewSession, SessionState, TxStates, NoStmt
  <2>3. sess \in [Conns -> SessionState]
    BY <2>2 DEF Init
  <2>4. n \in [Tasks -> 0..MaxStmts] /\ op \in [Tasks -> Ops]
    BY <1>2 DEF Init
  <2> QED BY <1>1, <2>1, <2>3, <2>4 DEF Init, Typed, SessionState, AllWrites
<1>4. ASSUME NEW t \in Tasks
      PROVE  /\ lease[t] = NoConn /\ pc[t] = "start" /\ op[t] = FirstOp(kind[t]) /\ reply[t] = "none"
             /\ result[t] = "none" /\ n[t] = (IF kind[t] \in {"tx", "wire"} THEN 0 ELSE 1) /\ ~InTx(t)
  BY <1>1 DEF Init, InTx
<1>5. Conduct /\ Channels /\ Executed
  BY <1>1, <1>4 DEF Init, Conduct, Channels, Executed, OwnStatement
<1>6. \A k \in Conns : BlockOf(k)
  BY DEF Init, BlockOf, NewSession, NoStmt
<1>7. ASSUME NEW t \in Tasks PROVE ShapeOf(t)
  BY <1>2, <1>4 DEF ShapeOf, Stmts
<1>8. ASSUME NEW t \in Tasks PROVE QuietOf(t) /\ PromiseOf(t) /\ PreparedOf(t) /\ DurableOf(t)
  <2>1. committed = {} /\ acked = {}
    BY DEF Init
  <2> QED BY <1>4, <2>1 DEF QuietOf, PromiseOf, PreparedOf, DurableOf
<1> QED BY <1>3, <1>5, <1>6, <1>7, <1>8 DEF IInv

\* Every step keeps it.
LEMMA NextInvariant ==
  ASSUME SafeUse, IInv, Alone, [Next]_vars
  PROVE  IInv'
<1>1. ASSUME NEW t \in Tasks, User(t) PROVE IInv'
  <2>1. ~StartFormat(t)
    BY DEF StartFormat, InProcess, SafeUse, IInv, Conduct
  <2>2. CASE Start(t)
    BY <2>2, StartStep
  <2>3. CASE AcquireErr(t)
    BY <2>3, IdleStep
  <2>4. CASE Statement(t) \/ Commit(t)
    BY <2>4, TxSendStep
  <2>5. CASE Rollback(t)
    BY <2>5, RollbackStep
  <2>6. CASE DropTx(t)
    BY <2>6, DropStep
  <2> QED BY <1>1, <2>1, <2>2, <2>3, <2>4, <2>5, <2>6 DEF User
<1>2. ASSUME NEW t \in Tasks, Receive(t) PROVE IInv'
  <2>1. CASE CallReturns(t) \/ QueryRefused(t) \/ TxReturns(t)
    BY <2>1, ReturnStep
  <2>2. CASE QueryParsed(t)
    BY <2>2, QueryParsedStep
  <2>3. CASE TxStep(t)
    BY <2>3, TxReceiveStep
  <2>4. CASE TxParsed(t)
    BY <2>4, TxSendStep
  <2>5. CASE BeginErr(t)
    BY <2>5, DropStep
  <2> QED BY <1>2, <2>1, <2>2, <2>3, <2>4, <2>5 DEF Receive
<1>3. ASSUME NEW t \in Tasks, Cancel(t) PROVE IInv'
  <2>1. CASE CancelAcquire(t)
    BY <2>1, IdleStep
  <2>2. CASE CancelCall(t)
    BY <2>2, CancelCallStep
  <2>3. CASE CancelTransaction(t)
    BY <2>3, CancelTransactionStep
  <2>4. CASE CancelStatement(t)
    BY <2>4, CancelStatementStep
  <2>5. CASE CancelEnd(t)
    BY <2>5, CancelEndStep
  <2> QED BY <1>3, <2>1, <2>2, <2>3, <2>4, <2>5 DEF Cancel
<1>4. ASSUME NEW t \in Tasks, Wire(t) PROVE IInv'
  <2>1. CASE WireConnect(t) \/ WireClose(t)
    BY <2>1, IdleStep
  <2>2. CASE WireBatch(t)
    BY <2>2, WireBatchStep
  <2>3. CASE WireReply(t)
    BY <2>3, WireReplyStep
  <2> QED BY <1>4, <2>1, <2>2, <2>3 DEF Wire
<1>5. ASSUME NEW k \in Conns, Worker(k) PROVE IInv'
  BY <1>5, RunStep, LoseSessionStep, LoseWorkerStep, HangupStep DEF Worker
<1>6. CASE UNCHANGED vars
  <2>1. UNCHANGED <<backend, lease, kind, pc, op, n, clean, reply, result, acked, queue, sess, committed, ran, dropped, exited>>
    BY <1>6 DEF vars, taskVars, serverVars, connVars
  <2>2. UNCHANGED <<Typed, Conduct, Channels, Executed>>
    BY <2>1 DEF Typed, Conduct, Channels, Executed, Entry, EndsAt, InTx, InProcess, OwnStatement
  <2>3. \A k \in Conns : BlockOf(k)' = BlockOf(k)
    BY <2>1 DEF BlockOf, OwnsTx, EndsAt, InTx
  <2>4. \A t \in Tasks : /\ ShapeOf(t)' = ShapeOf(t) /\ QuietOf(t)' = QuietOf(t) /\ PromiseOf(t)' = PromiseOf(t)
                         /\ PreparedOf(t)' = PreparedOf(t) /\ DurableOf(t)' = DurableOf(t)
    BY <2>1 DEF ShapeOf, QuietOf, PromiseOf, PreparedOf, DurableOf, InTx, InProcess
  <2> QED BY <2>2, <2>3, <2>4 DEF IInv
<1>7. ASSUME NEW t \in Tasks PROVE ~Join(t)
  BY DEF Join, JoinStatement, OtherReturns, OtherParsed, CancelOther, SafeUse, Alone
<1> QED BY <1>1, <1>2, <1>3, <1>4, <1>5, <1>6, <1>7 DEF Next, Finished

\* Nobody starts to join statements.
LEMMA StaysAlone ==
  ASSUME SafeUse, Alone, [Next]_vars
  PROVE  Alone'
<1>1. ASSUME NEW t \in Tasks PROVE ~Join(t)
  BY DEF Join, JoinStatement, OtherReturns, OtherParsed, CancelOther, SafeUse, Alone
<1>2. ASSUME NEW t \in Tasks, User(t) PROVE UNCHANGED others
  BY <1>2 DEF User, Start, StartFormat, AcquireErr, Statement, Commit, Rollback, DropTx
<1>3. ASSUME NEW t \in Tasks, Receive(t) PROVE UNCHANGED others
  BY <1>3 DEF Receive, CallReturns, QueryParsed, QueryRefused, TxStep, TxParsed, BeginErr, TxReturns
<1>4. ASSUME NEW t \in Tasks, Cancel(t) \/ Wire(t) PROVE UNCHANGED others
  BY <1>4 DEF Cancel, CancelAcquire, CancelCall, CancelTransaction, CancelStatement, CancelEnd,
              Wire, WireConnect, WireBatch, WireReply, WireClose
<1>5. ASSUME NEW k \in Conns, Worker(k) PROVE Alone'
  <2>1. CASE Run(k)
    BY <2>1, AloneAnswered DEF Run
  <2>2. CASE LoseSession(k) \/ LoseWorker(k)
    BY <2>2, AloneAnswered DEF LoseSession, LoseWorker
  <2>3. CASE Hangup(k)
    BY <2>3 DEF Hangup, taskVars, Alone
  <2> QED BY <1>5, <2>1, <2>2, <2>3 DEF Worker
<1>6. CASE UNCHANGED vars
  BY <1>6 DEF vars, taskVars, Alone
<1> QED BY <1>1, <1>2, <1>3, <1>4, <1>5, <1>6 DEF Next, Finished, Alone

\* IInv is an invariant of every use of the API that SafeUse allows.
THEOREM Invariance ==
  ASSUME SafeUse
  PROVE  Spec => [](IInv /\ Alone)
<1>1. Init => IInv /\ Alone
  BY InitInvariant DEF Init, Alone
<1>2. IInv /\ Alone /\ [Next]_vars => (IInv /\ Alone)'
  BY NextInvariant, StaysAlone
<1> QED BY <1>1, <1>2, PTL DEF Spec

\* Types are kept, and a call that has not begun or is over, however it ended, holds no
\* connection and no guard.
THEOREM Types ==
  ASSUME SafeUse
  PROVE  Spec => []TypeOK
<1>1. IInv /\ Alone => TypeOK
  <2> SUFFICES ASSUME IInv, Alone PROVE TypeOK
    OBVIOUS
  <2>1. Typed /\ \A t \in Tasks : pc[t] \in {"start", "done"} => lease[t] = NoConn
    BY DEF IInv, ShapeOf
  <2>2. /\ others \in [Tasks -> SUBSET [n : 1..MaxStmts, op : Ops, reply : {"pending", "ok", "err"}]]
        /\ \A t \in Tasks : others[t] = {}
    BY DEF Alone
  <2> QED BY <2>1, <2>2 DEF Typed, TypeOK
<1> QED BY <1>1, Invariance, PTL

\* A session with no user and nothing queued is not inside a transaction: whatever futures
\* were dropped, whatever connections were lost, nobody inherits another's block.
THEOREM Orphans ==
  ASSUME SafeUse
  PROVE  Spec => []NoOrphan
<1>1. IInv => NoOrphan
  <2> SUFFICES ASSUME IInv, NEW k \in Conns, k \notin Lease!Lent, queue[k] = <<>>, sess[k].tx # "none"
               PROVE  FALSE
    BY DEF NoOrphan
  <2>1. PICK t \in Tasks : OwnsTx(t, k)
    BY DEF IInv, BlockOf
  <2>2. InTx(t) /\ lease[t] = k
    BY <2>1 DEF OwnsTx, EndsAt
  <2> QED BY <2>2 DEF InTx, Lease!Lent, Lease!Holders
<1> QED BY <1>1, Invariance, PTL

\* The open transaction of a session holds the writes of one task only.
THEOREM Isolation ==
  ASSUME SafeUse
  PROVE  Spec => []NoMixing
<1>1. IInv => NoMixing
  <2> SUFFICES ASSUME IInv, NEW k \in Conns, NEW v \in sess[k].writes, NEW w \in sess[k].writes
               PROVE  v[1] = w[1]
    BY DEF NoMixing
  <2>1. sess[k].tx # "none"
    BY DEF IInv, BlockOf
  <2>2. PICK t \in Tasks : sess[k].writes \subseteq Writes(t)
    BY <2>1 DEF IInv, BlockOf
  <2> QED BY <2>2, WriteOf
<1> QED BY <1>1, Invariance, PTL

\* Nothing of a transaction that was dropped, rolled back or given up is ever durable, for
\* users who await each statement of it and stop at the first that fails.
THEOREM GivenUp ==
  ASSUME SafeUse
  PROVE  Spec => []NeverCommitted
<1>1. IInv => NeverCommitted
  BY DEF IInv, PromiseOf, NeverCommitted
<1> QED BY <1>1, Invariance, PTL

\* A transaction is durable with everything its user was told had succeeded, or not at all,
\* for the same users.
THEOREM Atomicity ==
  ASSUME SafeUse
  PROVE  Spec => []AllOrNothing
<1>1. IInv => AllOrNothing
  BY DEF IInv, PromiseOf, AllOrNothing
<1> QED BY <1>1, Invariance, PTL

\* Under NoSplitQuery a query is in-process or part of a transaction.
LEMMA QueriesWhole ==
  ASSUME NoSplitQuery, IInv
  PROVE  InProcess \/ \A t \in Tasks : kind[t] # "query"
<1>1. ~InProcess => backend = "MultiProcess"
  BY SessionAssumption DEF IInv, Conduct, InProcess
<1> QED BY <1>1 DEF IInv, Conduct, NoSplitQuery

\* A call that was answered Ok is durable, when no query is split over two connections.
THEOREM Durability ==
  ASSUME SafeUse, NoSplitQuery
  PROVE  Spec => []OkIsDurable
<1>1. IInv => OkIsDurable
  <2> SUFFICES ASSUME IInv, NEW t \in Tasks, kind[t] # "tx" PROVE acked \cap Writes(t) \subseteq committed
    BY DEF OkIsDurable
  <2>1. kind[t] = "query" => InProcess
    BY QueriesWhole
  <2> QED BY <2>1 DEF IInv, DurableOf
<1> QED BY <1>1, Invariance, PTL

\* Execute runs the statement that the same query parsed, under the same condition, and
\* when no two queries of one Transaction are joined (SafeUse).
THEOREM Statements ==
  ASSUME SafeUse, NoSplitQuery
  PROVE  Spec => []OwnStatement
<1>1. IInv => OwnStatement
  BY QueriesWhole DEF IInv, Executed
<1> QED BY <1>1, Invariance, PTL
=============================================================================
