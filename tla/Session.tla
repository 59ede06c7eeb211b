------------------------------ MODULE Session ------------------------------
(***************************************************************************)
(* The PGlite API over its sessions: exec, query, copy_in and Transaction  *)
(* of db.rs and transaction.rs, and what live_query does to format its     *)
(* parameters; in multi-process mode on the pool's leased connections, and *)
(* in-process on the one session of the engine thread, which the clients   *)
(* of the socket gateway (socket/mod.rs) use too.                          *)
(*                                                                         *)
(* Leasing is ConnLease, which Pool implements.  In-process the lease is   *)
(* the tx_lock guard of the only session (Conns has one member).  A task   *)
(* makes one API call; any future may be dropped at any await.  Where      *)
(* Joined allows it a Transaction, whose exec and query take &self, has    *)
(* several statements in flight.  An action runs from one await to the     *)
(* next.  In multi-process mode a worker may lose its server connection    *)
(* while a command is in flight, after or before the command took effect;  *)
(* it answers with an error and reconnects to a new session, or exits      *)
(* (Pool has these steps one by one).                                      *)
(***************************************************************************)
EXTENDS Integers, Sequences, FiniteSets, PgSession

CONSTANTS
  Tasks,          \* each makes one API call
  Conns, NoConn, MaxConns,
  NoTask,         \* a dropped reply receiver
  Backends,       \* of "InProcess", "MultiProcess"
  Kinds,          \* the calls tasks make with a backend
  MaxStmts,       \* bound of the model: statements of one transaction
  Joined,         \* users have several statements of one Transaction in flight (join!)
  Careful,        \* after a statement that failed or was cancelled, users only end the transaction
  CancelBegin,    \* backends with which users may drop transaction() while it awaits BEGIN
  WireBlocks      \* clients of the gateway open transaction blocks

AllKinds == {"exec", "query", "copy", "tx", "format", "wire"}

ASSUME SessionAssumption ==
  /\ IsFiniteSet(Tasks) /\ NoTask \notin Tasks /\ NoConn \notin Conns
  /\ Backends \subseteq {"InProcess", "MultiProcess"} /\ CancelBegin \subseteq Backends
  /\ \A b \in Backends : Kinds[b] \subseteq AllKinds
  /\ "MultiProcess" \in Backends => "wire" \notin Kinds["MultiProcess"]
  /\ MaxStmts \in Nat \ {0} /\ MaxConns \in Nat \ {0}
  /\ Joined \in BOOLEAN /\ Careful \in BOOLEAN /\ WireBlocks \in BOOLEAN
  /\ "InProcess" \in Backends => MaxConns = 1 /\ \A j, k \in Conns : j = k

VARIABLES
  backend,
  lease,      \* the connection a task holds (in-process: the tx_lock guard)
  kind,       \* the call the task makes
  pc,         \* "start" (before or in acquire), "sent", "done",
              \* "open" (a Transaction in hand; a gateway client between two batches)
  op,         \* the command the task sends next or awaits
  n,          \* statements the task has sent so far; its number is the statement's name
  clean,      \* no statement of the transaction failed or was cancelled
  reply,      \* "none", "pending", "ok" or "err"
  others,     \* statements of a transaction in flight besides the one of op, n and reply
  result,     \* how the call ended: "none", "ok", "err", "cancelled", "dropped"
  queue,      \* the command channel of a connection (in-process: of the engine)
  sess,       \* the server session behind it
  dropped,    \* connections out of the pool whose worker still has commands to run
  exited,     \* connections whose worker returned
  committed,  \* durable writes
  acked,      \* statements whose caller was told Ok
  ran         \* history: pairs (statement asked for, statement executed)

taskVars == <<kind, pc, op, n, clean, reply, others, result, acked>>
serverVars == <<queue, sess, committed, ran>>
connVars == <<dropped, exited>>
vars == <<backend, lease, taskVars, serverVars, connVars>>

Lease == INSTANCE ConnLease WITH Clients <- Tasks

InProcess == backend = "InProcess"

FirstOp(k) ==
  CASE k \in {"exec", "copy"} -> "write"
    [] k \in {"query", "format"} -> "parse"
    [] k = "tx" -> "begin"
    [] k = "wire" -> "batch"

Init ==
  /\ backend \in Backends
  /\ Lease!Init
  /\ kind \in [Tasks -> Kinds[backend]]
  /\ pc = [t \in Tasks |-> "start"]
  /\ op = [t \in Tasks |-> FirstOp(kind[t])]
  /\ n = [t \in Tasks |-> IF kind[t] \in {"tx", "wire"} THEN 0 ELSE 1]
  /\ clean = [t \in Tasks |-> TRUE]
  /\ reply = [t \in Tasks |-> "none"]
  /\ others = [t \in Tasks |-> {}]
  /\ result = [t \in Tasks |-> "none"]
  /\ queue = [k \in Conns |-> <<>>]
  /\ sess = [k \in Conns |-> NewSession]
  /\ dropped = {} /\ exited = {}
  /\ committed = {} /\ acked = {} /\ ran = {}

-----------------------------------------------------------------------------
(* Sending *)

Cmd(t, o, i) == [by |-> t, to |-> t, op |-> o, n |-> i]

\* The channel of k with a command more; a worker that has returned takes none.
Queued(q, k, cmd) == IF k \in exited THEN q ELSE [q EXCEPT ![k] = Append(@, cmd)]

\* The connection of a task: the one it holds, or the engine, without the guard.
At(t) == IF lease[t] # NoConn THEN lease[t] ELSE CHOOSE k \in Conns : TRUE

\* The command goes into the channel and the task awaits its reply, or Conn::send fails.
Send(t, k, o, i) ==
  /\ queue' = Queued(queue, k, Cmd(t, o, i))
  /\ reply' = [reply EXCEPT ![t] = IF k \in exited THEN "err" ELSE "pending"]
  /\ op' = [op EXCEPT ![t] = o]
  /\ n' = [n EXCEPT ![t] = i]
  /\ pc' = [pc EXCEPT ![t] = "sent"]

\* Mutant: the call does not take the guard, or the pool lends a connection twice.
StartUnlocked(t) ==
  /\ pc[t] = "start" /\ kind[t] # "wire" /\ (InProcess => kind[t] # "format")
  /\ \E k \in Conns \ (dropped \cup exited) :
       lease' = [lease EXCEPT ![t] = k] /\ Send(t, k, op[t], n[t])
  /\ UNCHANGED <<backend, others, kind, clean, result, acked, sess, committed, ran, connVars>>

\* acquire (or tx_lock.lock) returned; nothing is awaited before the command is sent.
Start(t) ==
  /\ pc[t] = "start" /\ kind[t] # "wire" /\ (InProcess => kind[t] # "format")
  /\ \E k \in Conns \ (dropped \cup exited) : Lease!Take(t, k) /\ Send(t, k, op[t], n[t])
  /\ UNCHANGED <<backend, others, kind, clean, result, acked, sess, committed, ran, connVars>>

\* format_literals, from live_query, takes no guard.
StartFormat(t) ==
  /\ pc[t] = "start" /\ InProcess /\ kind[t] = "format"
  /\ Send(t, At(t), op[t], n[t])
  /\ UNCHANGED <<backend, others, lease, kind, clean, result, acked, sess, committed, ran, connVars>>

\* acquire failed: PoolExhausted, or the error of Conn::spawn.
AcquireErr(t) ==
  /\ ~InProcess /\ pc[t] = "start"
  /\ pc' = [pc EXCEPT ![t] = "done"]
  /\ result' = [result EXCEPT ![t] = "err"]
  /\ UNCHANGED <<backend, others, lease, kind, op, n, clean, reply, acked, serverVars, connVars>>

\* Transaction::exec and the first half of Transaction::query, on the pin or under the
\* guard the Transaction holds.
Statement(t) ==
  /\ pc[t] = "open" /\ kind[t] = "tx" /\ n[t] < MaxStmts /\ (Careful => clean[t])
  /\ \E o \in {"write", "parse"} : Send(t, lease[t], o, n[t] + 1)
  /\ UNCHANGED <<backend, others, lease, kind, clean, result, acked, sess, committed, ran, connVars>>

\* Another one while it is in flight: they share the Transaction (&self) and its session.
JoinStatement(t) ==
  /\ Joined /\ pc[t] = "sent" /\ kind[t] = "tx" /\ op[t] \in {"write", "parse", "execute"}
  /\ n[t] < MaxStmts /\ (Careful => clean[t])
  /\ others' = [others EXCEPT ![t] = @ \cup {[n |-> n[t], op |-> op[t], reply |-> reply[t]]}]
  /\ \E o \in {"write", "parse"} : Send(t, lease[t], o, n[t] + 1)
  /\ UNCHANGED <<backend, lease, kind, clean, result, acked, sess, committed, ran, connVars>>

\* A Transaction in hand that no future borrows.
InHand(t) == pc[t] = "open" /\ kind[t] = "tx" /\ others[t] = {}

\* Transaction::commit and Transaction::rollback consume the Transaction.
Commit(t) ==
  /\ InHand(t) /\ (Careful => clean[t])
  /\ Send(t, lease[t], "commit", n[t])
  /\ UNCHANGED <<backend, others, lease, kind, clean, result, acked, sess, committed, ran, connVars>>

Rollback(t) ==
  /\ InHand(t)
  /\ Send(t, lease[t], "rollback", n[t])
  /\ UNCHANGED <<backend, others, lease, kind, clean, result, acked, sess, committed, ran, connVars>>

-----------------------------------------------------------------------------
(* Ending a call *)

\* The call is over with result r and the lease goes back.
End(t, r) ==
  /\ IF lease[t] = NoConn THEN lease' = lease ELSE Lease!Give(t)
  /\ pc' = [pc EXCEPT ![t] = "done"]
  /\ result' = [result EXCEPT ![t] = r]
  /\ reply' = [reply EXCEPT ![t] = "none"]

\* Drop for Transaction: ROLLBACK with no receiver, before the guard or the pin goes.
QueueRollback(q, t) == Queued(q, lease[t], [Cmd(t, "rollback", n[t]) EXCEPT !.to = NoTask])

\* A command that the future of op, n and reply awaits, and none of the others.
Mine(t, cmd) == cmd.to = t /\ \A o \in others[t] : o.n # cmd.n

\* The receiver of that future is dropped.
Forget(q, t) == [i \in DOMAIN q |-> IF Mine(t, q[i]) THEN [q[i] EXCEPT !.to = NoTask] ELSE q[i]]

\* Mutant: Drop for Transaction sends no ROLLBACK.
DropTxForgets(t) ==
  /\ InHand(t)
  /\ End(t, "dropped")
  /\ UNCHANGED <<backend, others, kind, op, n, clean, acked, serverVars, connVars>>

DropTx(t) ==
  /\ InHand(t)
  /\ queue' = QueueRollback(queue, t)
  /\ End(t, "dropped")
  /\ UNCHANGED <<backend, others, kind, op, n, clean, acked, sess, committed, ran, connVars>>

-----------------------------------------------------------------------------
(* Receiving *)

Awaits(t, r) == pc[t] = "sent" /\ reply[t] = r

\* Mutant: an error leaves roundtrip by `?`, before release.
CallReturnsEarly(t) ==
  /\ pc[t] = "sent" /\ kind[t] \notin {"tx", "wire"}
  /\ \E r \in {"ok", "err"} :
       /\ reply[t] = r \/ (reply[t] = "ok" /\ kind[t] = "copy")
       /\ op[t] = "parse" => r = "err"
       /\ IF r = "ok" THEN End(t, r)
          ELSE /\ pc' = [pc EXCEPT ![t] = "done"] /\ result' = [result EXCEPT ![t] = r]
               /\ reply' = [reply EXCEPT ![t] = "none"] /\ lease' = lease
       /\ acked' = IF r = "ok" /\ kind[t] # "format" THEN acked \cup {<<t, n[t]>>} ELSE acked
  /\ UNCHANGED <<backend, others, kind, op, n, clean, serverVars, connVars>>

\* The last response of a call.  copy_in reports an error, too, when the statement turns
\* out to be no COPY.
CallReturns(t) ==
  /\ pc[t] = "sent" /\ kind[t] \notin {"tx", "wire"}
  /\ \E r \in {"ok", "err"} :
       /\ reply[t] = r \/ (reply[t] = "ok" /\ kind[t] = "copy")
       /\ op[t] = "parse" => r = "err"
       /\ End(t, r)
       /\ acked' = IF r = "ok" /\ kind[t] # "format" THEN acked \cup {<<t, n[t]>>} ELSE acked
  /\ UNCHANGED <<backend, others, kind, op, n, clean, serverVars, connVars>>

\* query (or format_literals) has its parameter types; in-process it goes on, query under
\* its guard; in multi-process mode the first roundtrip released its connection and the
\* second acquires again.
Second(k) == IF k = "query" THEN "execute" ELSE "read"
QueryParsed(t) ==
  /\ Awaits(t, "ok") /\ kind[t] \in {"query", "format"} /\ op[t] = "parse"
  /\ IF InProcess
     THEN /\ Send(t, At(t), Second(kind[t]), n[t])
          /\ UNCHANGED <<lease, result>>
     ELSE /\ Lease!Give(t)
          /\ pc' = [pc EXCEPT ![t] = "start"]
          /\ op' = [op EXCEPT ![t] = Second(kind[t])]
          /\ reply' = [reply EXCEPT ![t] = "none"]
          /\ UNCHANGED <<queue, n, result>>
  /\ UNCHANGED <<backend, others, kind, clean, acked, sess, committed, ran, connVars>>

\* The parameters do not fit the described types: an error of the library, nothing is sent.
QueryRefused(t) ==
  /\ Awaits(t, "ok") /\ kind[t] \in {"query", "format"} /\ op[t] = "parse"
  /\ End(t, "err")
  /\ UNCHANGED <<backend, others, kind, op, n, clean, acked, serverVars, connVars>>

\* BEGIN succeeded, or a statement of the transaction returned.
TxStep(t) ==
  /\ kind[t] = "tx"
  /\ \/ Awaits(t, "ok") /\ op[t] \in {"begin", "write", "execute"}
     \/ Awaits(t, "err") /\ op[t] \in {"write", "parse", "execute"}
     \/ Awaits(t, "ok") /\ op[t] = "parse"      \* the parameters do not fit
  /\ pc' = [pc EXCEPT ![t] = "open"]
  /\ reply' = [reply EXCEPT ![t] = "none"]
  /\ LET ok == reply[t] = "ok" /\ op[t] # "parse"
     IN /\ clean' = [clean EXCEPT ![t] = @ /\ ok]
        /\ acked' = IF ok /\ op[t] # "begin" THEN acked \cup {<<t, n[t]>>} ELSE acked
  /\ UNCHANGED <<backend, others, lease, kind, op, n, result, serverVars, connVars>>

\* Transaction::query goes on to Bind and Execute on the same connection.
TxParsed(t) ==
  /\ Awaits(t, "ok") /\ kind[t] = "tx" /\ op[t] = "parse"
  /\ Send(t, lease[t], "execute", n[t])
  /\ UNCHANGED <<backend, others, lease, kind, clean, result, acked, sess, committed, ran, connVars>>

\* The same for one of the others.
OtherReturns(t) ==
  \E o \in others[t] :
    /\ o.reply \in {"ok", "err"}
    /\ others' = [others EXCEPT ![t] = @ \ {o}]
    /\ LET ok == o.reply = "ok" /\ o.op # "parse"
       IN /\ clean' = [clean EXCEPT ![t] = @ /\ ok]
          /\ acked' = IF ok THEN acked \cup {<<t, o.n>>} ELSE acked
    /\ UNCHANGED <<backend, lease, kind, pc, op, n, reply, result, serverVars, connVars>>

OtherParsed(t) ==
  \E o \in others[t] :
    /\ o.op = "parse" /\ o.reply = "ok"
    /\ LET sent == [o EXCEPT !.op = "execute", !.reply = IF lease[t] \in exited THEN "err" ELSE "pending"]
       IN others' = [others EXCEPT ![t] = (@ \ {o}) \cup {sent}]
    /\ queue' = Queued(queue, lease[t], Cmd(t, "execute", o.n))
    /\ UNCHANGED <<backend, lease, kind, pc, op, n, clean, reply, result, acked, sess, committed, ran, connVars>>

\* BEGIN failed.  In multi-process mode the Transaction exists already and is dropped.
BeginErr(t) ==
  /\ Awaits(t, "err") /\ kind[t] = "tx" /\ op[t] = "begin"
  /\ queue' = IF InProcess THEN queue ELSE QueueRollback(queue, t)
  /\ End(t, "err")
  /\ UNCHANGED <<backend, others, kind, op, n, clean, acked, sess, committed, ran, connVars>>

TxReturns(t) ==
  /\ kind[t] = "tx"
  /\ \E r \in {"ok", "err"} : Awaits(t, r) /\ op[t] \in {"commit", "rollback"} /\ End(t, r)
  /\ UNCHANGED <<backend, others, kind, op, n, clean, acked, serverVars, connVars>>

-----------------------------------------------------------------------------
(* Dropping futures *)

CancelAcquire(t) ==
  /\ pc[t] = "start"
  /\ pc' = [pc EXCEPT ![t] = "done"]
  /\ result' = [result EXCEPT ![t] = "cancelled"]
  /\ UNCHANGED <<backend, others, lease, kind, op, n, clean, reply, acked, serverVars, connVars>>

\* exec or query: the command stays in the channel; in multi-process mode its Conn is a
\* local of the future and leaves the pool with it.
CancelCall(t) ==
  /\ pc[t] = "sent" /\ kind[t] \notin {"tx", "wire"}
  /\ queue' = [queue EXCEPT ![At(t)] = Forget(@, t)]
  /\ End(t, "cancelled")
  /\ dropped' = IF InProcess THEN dropped ELSE dropped \cup {lease[t]}
  /\ UNCHANGED <<backend, others, kind, op, n, clean, acked, sess, committed, ran, exited>>

\* Mutant: the Transaction is built only after BEGIN has returned, in both modes.
CancelTransactionLeaves(t) ==
  /\ backend \in CancelBegin
  /\ pc[t] = "sent" /\ kind[t] = "tx" /\ op[t] = "begin"
  /\ queue' = [queue EXCEPT ![lease[t]] = Forget(@, t)]
  /\ End(t, "cancelled")
  /\ UNCHANGED <<backend, others, kind, op, n, clean, acked, sess, committed, ran, connVars>>

\* PGlite::transaction while it awaits BEGIN: in multi-process mode the Transaction is
\* dropped with the future; in-process only the guard is, and BEGIN stays queued.
CancelTransaction(t) ==
  /\ backend \in CancelBegin
  /\ pc[t] = "sent" /\ kind[t] = "tx" /\ op[t] = "begin"
  /\ LET q == [queue EXCEPT ![lease[t]] = Forget(@, t)]
     IN queue' = IF InProcess THEN q ELSE QueueRollback(q, t)
  /\ End(t, "cancelled")
  /\ UNCHANGED <<backend, others, kind, op, n, clean, acked, sess, committed, ran, connVars>>

\* A statement: the Transaction outlives its future.
CancelStatement(t) ==
  /\ pc[t] = "sent" /\ kind[t] = "tx" /\ op[t] \in {"write", "parse", "execute"}
  /\ queue' = [queue EXCEPT ![lease[t]] = Forget(@, t)]
  /\ reply' = [reply EXCEPT ![t] = "none"]
  /\ pc' = [pc EXCEPT ![t] = "open"]
  /\ clean' = [clean EXCEPT ![t] = FALSE]
  /\ UNCHANGED <<backend, others, lease, kind, op, n, result, acked, sess, committed, ran, connVars>>

CancelOther(t) ==
  \E o \in others[t] :
    /\ others' = [others EXCEPT ![t] = @ \ {o}]
    /\ queue' = [queue EXCEPT ![lease[t]] =
         [i \in DOMAIN @ |-> IF @[i].to = t /\ @[i].n = o.n THEN [@[i] EXCEPT !.to = NoTask] ELSE @[i]]]
    /\ clean' = [clean EXCEPT ![t] = FALSE]
    /\ UNCHANGED <<backend, lease, kind, pc, op, n, reply, result, acked, sess, committed, ran, connVars>>

\* commit or rollback: `done` is set already, so the drop sends nothing.
CancelEnd(t) ==
  /\ pc[t] = "sent" /\ kind[t] = "tx" /\ op[t] \in {"commit", "rollback"}
  /\ queue' = [queue EXCEPT ![lease[t]] = Forget(@, t)]
  /\ End(t, "cancelled")
  /\ UNCHANGED <<backend, others, kind, op, n, clean, acked, sess, committed, ran, connVars>>

-----------------------------------------------------------------------------
(* Clients of the socket gateway *)

\* doorman_loop serves one client at a time; serve_client answers its startup.
WireConnect(t) ==
  /\ pc[t] = "start" /\ kind[t] = "wire"
  /\ \A u \in Tasks : kind[u] = "wire" => pc[u] \in {"start", "done"}
  /\ pc' = [pc EXCEPT ![t] = "open"]
  /\ UNCHANGED <<backend, others, lease, kind, op, n, clean, reply, result, acked, serverVars, connVars>>

WireOps == {"write", "batch"} \cup IF WireBlocks THEN {"begin", "commit", "rollback"} ELSE {}

\* A Query, or what came up to a Sync, makes one roundtrip under tx_lock.
WireBatch(t) ==
  /\ pc[t] = "open" /\ kind[t] = "wire" /\ n[t] < MaxStmts
  /\ \E k \in Conns, o \in WireOps : Lease!Take(t, k) /\ Send(t, k, o, n[t] + 1)
  /\ UNCHANGED <<backend, others, kind, clean, result, acked, sess, committed, ran, connVars>>

\* The guard goes with the roundtrip, whatever state the session is left in.
WireReply(t) ==
  /\ kind[t] = "wire"
  /\ \E r \in {"ok", "err"} :
       /\ Awaits(t, r)
       /\ acked' = IF r = "ok" /\ op[t] \in {"write", "batch"} THEN acked \cup {<<t, n[t]>>} ELSE acked
  /\ Lease!Give(t)
  /\ pc' = [pc EXCEPT ![t] = "open"]
  /\ reply' = [reply EXCEPT ![t] = "none"]
  /\ UNCHANGED <<backend, others, kind, op, n, clean, result, serverVars, connVars>>

\* Terminate, or the socket is closed: nothing is sent to the engine.
WireClose(t) ==
  /\ pc[t] = "open" /\ kind[t] = "wire"
  /\ pc' = [pc EXCEPT ![t] = "done"]
  /\ result' = [result EXCEPT ![t] = "dropped"]
  /\ UNCHANGED <<backend, others, lease, kind, op, n, clean, reply, acked, serverVars, connVars>>

-----------------------------------------------------------------------------
(* Workers (in-process: the engine thread) *)

Effect(k, r) ==
  /\ committed' = committed \cup r.commits
  /\ ran' = IF Head(queue[k]).op = "execute" /\ r.ok
            THEN ran \cup {<<<<Head(queue[k]).by, Head(queue[k]).n>>, sess[k].stmt>>}
            ELSE ran

\* Whoever awaits one of the commands has the response r.
Answered(cmds, r) ==
  /\ reply' = [t \in Tasks |-> IF \E c \in cmds : Mine(t, c) THEN r ELSE reply[t]]
  /\ others' = [t \in Tasks |->
       {IF \E c \in cmds : c.to = t /\ c.n = o.n THEN [o EXCEPT !.reply = r] ELSE o : o \in others[t]}]

\* The next command runs and its response is sent to whoever still awaits it.
Run(k) ==
  /\ queue[k] # <<>>
  /\ \E fails \in BOOLEAN :
       LET cmd == Head(queue[k])
           r == RunCommand(sess[k], cmd, fails)
       IN /\ fails => MayFail(cmd.op)
          /\ sess' = [sess EXCEPT ![k] = r.sess]
          /\ Effect(k, r)
          /\ Answered({cmd}, IF r.ok THEN "ok" ELSE "err")
  /\ queue' = [queue EXCEPT ![k] = Tail(@)]
  /\ UNCHANGED <<backend, lease, kind, pc, op, n, clean, result, acked, connVars>>

\* What the command in flight did before the connection was lost: all of it, or nothing.
InFlight(k) ==
  \/ Effect(k, RunCommand(sess[k], Head(queue[k]), FALSE))
  \/ UNCHANGED <<committed, ran>>

\* Mutant: the worker sends the command again on the new session.
LoseSessionRetries(k) ==
  /\ ~InProcess /\ queue[k] # <<>>
  /\ InFlight(k)
  /\ sess' = [sess EXCEPT ![k] = NewSession]
  /\ UNCHANGED <<backend, lease, taskVars, queue, connVars>>

\* The roundtrip failed and the worker reconnected: the rest of the channel meets a new
\* session.  The server rolls the lost one back.
LoseSession(k) ==
  /\ ~InProcess /\ queue[k] # <<>>
  /\ InFlight(k)
  /\ Answered({Head(queue[k])}, "err")
  /\ sess' = [sess EXCEPT ![k] = NewSession]
  /\ queue' = [queue EXCEPT ![k] = Tail(@)]
  /\ UNCHANGED <<backend, lease, kind, pc, op, n, clean, result, acked, connVars>>

\* It could not reconnect: every command in the channel is answered with an error, and
\* the connection leaves the pool when its holder, if any, gives it back.
LoseWorker(k) ==
  /\ ~InProcess /\ queue[k] # <<>>
  /\ InFlight(k)
  /\ Answered({queue[k][i] : i \in DOMAIN queue[k]}, "err")
  /\ sess' = [sess EXCEPT ![k] = NewSession]
  /\ queue' = [queue EXCEPT ![k] = <<>>]
  /\ exited' = exited \cup {k}
  /\ UNCHANGED <<backend, lease, kind, pc, op, n, clean, result, acked, dropped>>

\* A connection out of the pool with an empty channel and no holder: its worker returns,
\* the server rolls its session back, and the identity may stand for a new connection.
Hangup(k) ==
  /\ k \in (dropped \cup exited) \ Lease!Lent /\ queue[k] = <<>>
  /\ sess' = [sess EXCEPT ![k] = NewSession]
  /\ dropped' = dropped \ {k}
  /\ exited' = exited \ {k}
  /\ UNCHANGED <<backend, lease, taskVars, queue, committed, ran>>

Finished == (\A t \in Tasks : pc[t] = "done") /\ UNCHANGED vars

-----------------------------------------------------------------------------
Receive(t) ==
  \/ CallReturns(t) \/ QueryParsed(t) \/ QueryRefused(t)
  \/ TxStep(t) \/ TxParsed(t) \/ BeginErr(t) \/ TxReturns(t)
User(t) == Start(t) \/ StartFormat(t) \/ AcquireErr(t) \/ Statement(t) \/ Commit(t) \/ Rollback(t) \/ DropTx(t)
Join(t) == JoinStatement(t) \/ OtherReturns(t) \/ OtherParsed(t) \/ CancelOther(t)
Cancel(t) ==
  CancelAcquire(t) \/ CancelCall(t) \/ CancelTransaction(t) \/ CancelStatement(t) \/ CancelEnd(t)
Wire(t) == WireConnect(t) \/ WireBatch(t) \/ WireReply(t) \/ WireClose(t)
Worker(k) == Run(k) \/ LoseSession(k) \/ LoseWorker(k) \/ Hangup(k)

Next ==
  \/ \E t \in Tasks : User(t) \/ Join(t) \/ Receive(t) \/ Cancel(t) \/ Wire(t)
  \/ \E k \in Conns : Worker(k)
  \/ Finished

Spec == Init /\ [][Next]_vars

\* Workers keep running; nothing is assumed of the tasks.
FairSpec == Spec /\ \A k \in Conns : WF_vars(Worker(k))

-----------------------------------------------------------------------------
(* Properties *)

Writes(t) == {<<t, i>> : i \in 1..MaxStmts}

\* The types of the variables: in particular a channel holds only commands of db.rs,
\* transaction.rs and the gateway, and a call that has not begun or is over, however it
\* ended, holds no connection and no guard.
TypeOK ==
  /\ lease \in [Tasks -> Conns \cup {NoConn}]
  /\ \A t \in Tasks : pc[t] \in {"start", "done"} => lease[t] = NoConn /\ others[t] = {}
  /\ kind \in [Tasks -> AllKinds]
  /\ pc \in [Tasks -> {"start", "sent", "open", "done"}]
  /\ op \in [Tasks -> Ops]
  /\ n \in [Tasks -> 0..MaxStmts]
  /\ clean \in [Tasks -> BOOLEAN]
  /\ reply \in [Tasks -> {"none", "pending", "ok", "err"}]
  /\ others \in [Tasks -> SUBSET [n : 1..MaxStmts, op : Ops, reply : {"pending", "ok", "err"}]]
  /\ result \in [Tasks -> {"none", "ok", "err", "cancelled", "dropped"}]
  /\ queue \in [Conns -> Seq([by : Tasks, to : Tasks \cup {NoTask}, op : Ops, n : 0..MaxStmts])]
  /\ sess \in [Conns -> [tx : TxStates, stmt : {NoStmt} \cup UNION {Writes(t) : t \in Tasks},
                         writes : SUBSET UNION {Writes(t) : t \in Tasks}]]
  /\ dropped \subseteq Conns /\ exited \subseteq Conns
  /\ committed \subseteq UNION {Writes(t) : t \in Tasks}
  /\ acked \subseteq UNION {Writes(t) : t \in Tasks}

\* A call outside a transaction, or a batch of a gateway client, was answered Ok: its write
\* is durable, whatever the previous user of the session left queued or open on it.
OkIsDurable == \A t \in Tasks : kind[t] # "tx" => acked \cap Writes(t) \subseteq committed

\* A write of a transaction becomes durable only together with every statement the
\* transaction was told had succeeded, also when its commit failed, was cancelled or lost
\* its connection; and commit() returning Ok means that they are durable.  For users who
\* await each statement before the next (not Joined) and end it after an error (Careful).
AllOrNothing ==
  \A t \in Tasks :
    /\ kind[t] = "tx"
    /\ committed \cap Writes(t) # {} \/ (op[t] = "commit" /\ result[t] = "ok")
    => acked \cap Writes(t) \subseteq committed

\* Transaction, README.md: "If a transaction is dropped before `commit()` or `rollback()`, it
\* rolls back."  Dropped, rolled back, or given up before commit() was called: nothing it
\* wrote is ever durable.  Joined statements break it: one queued behind a statement that
\* lost the session runs outside the block.
NeverCommitted ==
  \A t \in Tasks : kind[t] = "tx" /\ pc[t] = "done" /\ op[t] # "commit" =>
    committed \cap Writes(t) = {}

\* Execute runs the statement that the same query parsed: the session's unnamed statement is
\* shared by all that reach the session between the two roundtrips.
OwnStatement == \A e \in ran : e[1] = e[2]

\* A session with no user and nothing queued is not inside a transaction, so the next
\* user starts afresh and no lock outlives the task that took it.
NoOrphan ==
  \A k \in Conns : k \notin Lease!Lent /\ queue[k] = <<>> => sess[k].tx = "none" \/ k \in exited

\* The open transaction of a session holds the writes of one task only.
NoMixing == \A k \in Conns : \A v, w \in sess[k].writes : v[1] = w[1]

\* The server forgets a transaction that is over, also when nobody awaits its ROLLBACK.
EndedLetsGo ==
  \A t \in Tasks : (kind[t] = "tx" /\ pc[t] = "done") ~> \A k \in Conns : sess[k].writes \cap Writes(t) = {}
=============================================================================
