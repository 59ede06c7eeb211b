-------------------------------- MODULE Pool --------------------------------
(***************************************************************************)
(* The connection pool of multi-process mode (multiple_process/pool.rs):   *)
(* PoolState behind its mutex, the acquire and release protocols, one      *)
(* worker thread per connection, the reaper thread, and Drop for Pool.     *)
(*                                                                         *)
(* A client is one task that uses the pool: a Pool::roundtrip call         *)
(* (acquire, one command, release) or a PinnedConn (checkout, any number   *)
(* of commands, drop), as a Transaction uses it.  An action is one section *)
(* of code under the state mutex, or one step of a worker; code between    *)
(* two such sections that touches nothing shared belongs to the next one.  *)
(* is_alive is monotone (a worker only ever clears it), so a test that     *)
(* reads false is part of the step it leads to; a test that reads true is  *)
(* a step of its own where the code then takes the lock (ReleaseCheck).    *)
(*                                                                         *)
(* Connection identities are reused once nothing refers to the connection  *)
(* and its worker has returned.  Commands carry no payload here: a queue   *)
(* entry is the client whose oneshot receives the reply, or NoClient when  *)
(* that receiver was dropped.  Outcomes of I/O (a failed roundtrip, a      *)
(* failed reconnect, a failed spawn) may happen at any time.               *)
(***************************************************************************)
EXTENDS Integers, Sequences, FiniteSets

CONSTANTS
  Clients,      \* tasks that use the pool
  Conns,        \* connection identities
  NoClient,     \* a dropped oneshot receiver
  NoConn,       \* "None"
  MinConns,     \* PoolConfig.min
  MaxConns,     \* PoolConfig.max
  MaxQueue,     \* bound of the model: commands queued on one connection
  MaxWaiters    \* bound of the model: no new task arrives while PoolState.waiters,
                \* which keeps the senders of waits given up, is this long

ASSUME PoolAssumption ==
  /\ IsFiniteSet(Clients) /\ NoClient \notin Clients
  /\ NoConn \notin Conns
  /\ MaxConns \in Nat \ {0}         \* open_multi_process: max_connections.max(1)
  /\ MinConns \in 0..MaxConns       \* open_multi_process: min(pool_size)
  /\ MaxQueue \in Nat \ {0}
  /\ MaxWaiters \in Nat \ {0}
  /\ \E f \in [1..MinConns -> Conns] : \A i, j \in 1..MinConns : f[i] = f[j] => i = j

VARIABLES
  idle,       \* PoolState.idle: back is the end that acquire pops
  waiters,    \* PoolState.waiters: clients, NoClient where the receiver is gone
  live,       \* PoolState.live
  pc,         \* where each client stands in acquire / roundtrip / release
  kind,       \* "roundtrip" or "pin"
  conn,       \* the Conn a client owns (acquire returned it)
  slot,       \* the Conn inside a waiter's oneshot, sent and not yet received
  reply,      \* the reply oneshot of a client's outstanding command
  alive,      \* Conn.alive
  worker,     \* the worker thread: "run", "reconnect" or "exited"
  queue,      \* the command channel of each worker
  doomed,     \* connections being closed: by the reaper, then by Drop
  phase,      \* "open", then Drop: "stopping", "joining", "draining", "closed"
  leaked      \* history: connections dropped while still counted in live

poolState == <<idle, waiters, live>>
clientState == <<pc, kind, conn, slot, reply>>
connState == <<alive, worker, queue>>
vars == <<poolState, clientState, connState, doomed, phase, leaked>>

Elems(s) == {s[i] : i \in DOMAIN s}

PcStates == {"start", "lock", "create", "wait", "got", "sent", "release", "handoff"}
Owning == {"got", "sent", "release", "handoff"}

\* A client that accounts for one unit of `live`.
Charged == {c \in Clients : pc[c] \in Owning \cup {"create"} \/ slot[c] # NoConn}

\* Mutant: Conn::close joins the worker without dropping the command sender first.
ReferencedWhileJoined(k) ==
  \/ k \in Elems(idle)
  \/ \E c \in Clients : conn[c] = k \/ slot[c] = k
  \/ \E i \in 1..Len(doomed) : doomed[i] = k

\* Some Conn value (and with it the command sender) still exists.  Conn::close has
\* already dropped the sender of the connection it is joining, the head of doomed.
Referenced(k) ==
  \/ k \in Elems(idle)
  \/ \E c \in Clients : conn[c] = k \/ slot[c] = k
  \/ \E i \in 2..Len(doomed) : doomed[i] = k

Fresh(k) == worker[k] = "exited" /\ ~Referenced(k) /\ k \notin Elems(doomed)

-----------------------------------------------------------------------------
\* Pool::start spawns `min` connections before anything else can run.
Init ==
  /\ idle \in {f \in [1..MinConns -> Conns] : \A i, j \in 1..MinConns : f[i] = f[j] => i = j}
  /\ waiters = <<>>
  /\ live = MinConns
  /\ pc = [c \in Clients |-> "start"]
  /\ kind \in [Clients -> {"roundtrip", "pin"}]
  /\ conn = [c \in Clients |-> NoConn]
  /\ slot = [c \in Clients |-> NoConn]
  /\ reply = [c \in Clients |-> "none"]
  /\ alive = [k \in Conns |-> k \in Elems(idle)]
  /\ worker = [k \in Conns |-> IF k \in Elems(idle) THEN "run" ELSE "exited"]
  /\ queue = [k \in Conns |-> <<>>]
  /\ doomed = <<>>
  /\ phase = "open"
  /\ leaked = 0

-----------------------------------------------------------------------------
(* acquire *)

\* A task calls Pool::roundtrip or Pool::checkout.
Begin(c) ==
  /\ phase = "open" /\ pc[c] = "start"
  /\ Len(waiters) < MaxWaiters
  /\ pc' = [pc EXCEPT ![c] = "lock"]
  /\ UNCHANGED <<poolState, kind, conn, slot, reply, connState, doomed, phase, leaked>>

\* idle.pop_back() until a live connection turns up: n is its index, 0 if there is
\* none, and everything behind it is dead and discarded.
LastAlive(n) ==
  /\ n \in 0..Len(idle)
  /\ n > 0 => alive[idle[n]]
  /\ \A i \in (n + 1)..Len(idle) : ~alive[idle[i]]

\* Mutant: back() instead of pop_back().
AcquireGotPeeks(c) ==
  /\ pc[c] = "lock"
  /\ \E n \in 1..Len(idle) :
       /\ LastAlive(n)
       /\ idle' = SubSeq(idle, 1, n)
       /\ live' = live - (Len(idle) - n)
       /\ conn' = [conn EXCEPT ![c] = idle[n]]
  /\ pc' = [pc EXCEPT ![c] = "got"]
  /\ UNCHANGED <<waiters, kind, slot, reply, connState, doomed, phase, leaked>>

\* Action::Got
AcquireGot(c) ==
  /\ pc[c] = "lock"
  /\ \E n \in 1..Len(idle) :
       /\ LastAlive(n)
       /\ idle' = SubSeq(idle, 1, n - 1)
       /\ live' = live - (Len(idle) - n)
       /\ conn' = [conn EXCEPT ![c] = idle[n]]
  /\ pc' = [pc EXCEPT ![c] = "got"]
  /\ UNCHANGED <<waiters, kind, slot, reply, connState, doomed, phase, leaked>>

\* Action::Create
AcquireCreate(c) ==
  /\ pc[c] = "lock"
  /\ LastAlive(0)
  /\ live - Len(idle) < MaxConns
  /\ idle' = <<>>
  /\ live' = live - Len(idle) + 1
  /\ pc' = [pc EXCEPT ![c] = "create"]
  /\ UNCHANGED <<waiters, kind, conn, slot, reply, connState, doomed, phase, leaked>>

\* Action::Wait
AcquireWait(c) ==
  /\ pc[c] = "lock"
  /\ LastAlive(0)
  /\ ~(live - Len(idle) < MaxConns)
  /\ idle' = <<>>
  /\ live' = live - Len(idle)
  /\ waiters' = Append(waiters, c)
  /\ pc' = [pc EXCEPT ![c] = "wait"]
  /\ UNCHANGED <<kind, conn, slot, reply, connState, doomed, phase, leaked>>

\* Conn::spawn succeeded: a fresh worker behind an open socket.
SpawnOk(c) ==
  /\ pc[c] = "create"
  /\ \E k \in Conns :
       /\ Fresh(k)
       /\ conn' = [conn EXCEPT ![c] = k]
       /\ alive' = [alive EXCEPT ![k] = TRUE]
       /\ worker' = [worker EXCEPT ![k] = "run"]
  /\ pc' = [pc EXCEPT ![c] = "got"]
  /\ UNCHANGED <<poolState, kind, slot, reply, queue, doomed, phase, leaked>>

\* Conn::spawn failed (connect, handshake, or thread creation).
SpawnErr(c) ==
  /\ pc[c] = "create"
  /\ live' = live - 1
  /\ pc' = [pc EXCEPT ![c] = "start"]
  /\ UNCHANGED <<idle, waiters, kind, conn, slot, reply, connState, doomed, phase, leaked>>

\* The oneshot resolved with a connection that is still alive.
WaitAlive(c) ==
  /\ pc[c] = "wait" /\ slot[c] # NoConn /\ alive[slot[c]]
  /\ conn' = [conn EXCEPT ![c] = slot[c]]
  /\ slot' = [slot EXCEPT ![c] = NoConn]
  /\ pc' = [pc EXCEPT ![c] = "got"]
  /\ UNCHANGED <<poolState, kind, reply, connState, doomed, phase, leaked>>

\* Mutant: the dead connection keeps its unit.
WaitDeadKeepsUnit(c) ==
  /\ pc[c] = "wait" /\ slot[c] # NoConn /\ ~alive[slot[c]]
  /\ slot' = [slot EXCEPT ![c] = NoConn]
  /\ pc' = [pc EXCEPT ![c] = "lock"]
  /\ UNCHANGED <<poolState, kind, conn, reply, connState, doomed, phase, leaked>>

\* It died on the way: give its unit back and go round the acquire loop again.
WaitDead(c) ==
  /\ pc[c] = "wait" /\ slot[c] # NoConn /\ ~alive[slot[c]]
  /\ slot' = [slot EXCEPT ![c] = NoConn]
  /\ live' = live - 1
  /\ pc' = [pc EXCEPT ![c] = "lock"]
  /\ UNCHANGED <<idle, waiters, kind, conn, reply, connState, doomed, phase, leaked>>

\* The sequence q once c has dropped its receiver.
Forget(q, c) == [i \in DOMAIN q |-> IF q[i] = c THEN NoClient ELSE q[i]]

\* Mutant: the receiver outlives the wait, so that release still finds it open.
DropReceiverLate(c) ==
  /\ slot' = [slot EXCEPT ![c] = NoConn]
  /\ leaked' = IF slot[c] = NoConn THEN leaked ELSE leaked + 1
  /\ UNCHANGED waiters

\* The receiver is dropped; a connection already inside the oneshot goes with it and
\* nobody takes its unit off `live`.
DropReceiver(c) ==
  /\ slot' = [slot EXCEPT ![c] = NoConn]
  /\ leaked' = IF slot[c] = NoConn THEN leaked ELSE leaked + 1
  /\ waiters' = Forget(waiters, c)

\* select! takes the deadline branch, which it may also do when both are ready: the
\* caller gets PoolExhausted.  Dropping the acquire future has the same effect.
WaitTimeout(c) ==
  /\ pc[c] = "wait"
  /\ DropReceiver(c)
  /\ pc' = [pc EXCEPT ![c] = "start"]
  /\ UNCHANGED <<idle, live, kind, conn, reply, connState, doomed, phase>>

-----------------------------------------------------------------------------
(* Commands *)

\* Conn::send to a worker that still listens.
SendOk(c) ==
  /\ pc[c] = "got" /\ worker[conn[c]] # "exited"
  /\ Len(queue[conn[c]]) < MaxQueue
  /\ queue' = [queue EXCEPT ![conn[c]] = Append(@, c)]
  /\ reply' = [reply EXCEPT ![c] = "pending"]
  /\ pc' = [pc EXCEPT ![c] = "sent"]
  /\ UNCHANGED <<poolState, kind, conn, slot, alive, worker, doomed, phase, leaked>>

\* Conn::send to a worker that has returned: Err(Closed).  A roundtrip goes on to
\* release; a pin's owner keeps the pin.
SendClosed(c) ==
  /\ pc[c] = "got" /\ worker[conn[c]] = "exited" /\ kind[c] = "roundtrip"
  /\ pc' = [pc EXCEPT ![c] = "release"]
  /\ UNCHANGED <<poolState, kind, conn, slot, reply, connState, doomed, phase, leaked>>

\* rx.await resolved: with the result, or Canceled because the worker returned.
Receive(c) ==
  /\ pc[c] = "sent" /\ reply[c] \in {"ok", "err"}
  /\ reply' = [reply EXCEPT ![c] = "none"]
  /\ pc' = [pc EXCEPT ![c] = IF kind[c] = "pin" THEN "got" ELSE "release"]
  /\ UNCHANGED <<poolState, kind, conn, slot, connState, doomed, phase, leaked>>

\* The future is dropped inside rx.await.  The pin survives in its Transaction; the
\* Conn of a roundtrip is a local of the future and is dropped without release.
CancelSent(c) ==
  /\ pc[c] = "sent"
  /\ queue' = [queue EXCEPT ![conn[c]] = Forget(@, c)]
  /\ reply' = [reply EXCEPT ![c] = "none"]
  /\ IF kind[c] = "pin"
     THEN /\ pc' = [pc EXCEPT ![c] = "got"]
          /\ UNCHANGED <<conn, leaked>>
     ELSE /\ pc' = [pc EXCEPT ![c] = "start"]
          /\ conn' = [conn EXCEPT ![c] = NoConn]
          /\ leaked' = leaked + 1
  /\ UNCHANGED <<poolState, kind, slot, alive, worker, doomed, phase>>

\* Drop for Transaction / PinnedConn: an optional ROLLBACK without a reply receiver,
\* then release.
DropPin(c) ==
  /\ pc[c] = "got" /\ kind[c] = "pin"
  /\ \/ UNCHANGED queue
     \/ /\ worker[conn[c]] # "exited" /\ Len(queue[conn[c]]) < MaxQueue
        /\ queue' = [queue EXCEPT ![conn[c]] = Append(@, NoClient)]
  /\ pc' = [pc EXCEPT ![c] = "release"]
  /\ UNCHANGED <<poolState, kind, conn, slot, reply, alive, worker, doomed, phase, leaked>>

-----------------------------------------------------------------------------
(* release *)

\* Mutant: both release and its caller give the unit back.
ReleaseDeadTwice(c) ==
  /\ pc[c] = "release" /\ ~alive[conn[c]]
  /\ live' = live - 2
  /\ conn' = [conn EXCEPT ![c] = NoConn]
  /\ pc' = [pc EXCEPT ![c] = "start"]
  /\ UNCHANGED <<idle, waiters, kind, slot, reply, connState, doomed, phase, leaked>>

\* A dead connection is dropped and its unit returned; no waiter is told.
ReleaseDead(c) ==
  /\ pc[c] = "release" /\ ~alive[conn[c]]
  /\ live' = live - 1
  /\ conn' = [conn EXCEPT ![c] = NoConn]
  /\ pc' = [pc EXCEPT ![c] = "start"]
  /\ UNCHANGED <<idle, waiters, kind, slot, reply, connState, doomed, phase, leaked>>

\* is_alive read true; the lock is not taken yet.
ReleaseCheck(c) ==
  /\ pc[c] = "release" /\ alive[conn[c]]
  /\ pc' = [pc EXCEPT ![c] = "handoff"]
  /\ UNCHANGED <<poolState, kind, conn, slot, reply, connState, doomed, phase, leaked>>

\* waiters.pop() until a receiver accepts: the latest waiter that still listens.
LastOpen(n) ==
  /\ n \in 1..Len(waiters) /\ waiters[n] # NoClient
  /\ \A i \in (n + 1)..Len(waiters) : waiters[i] = NoClient

\* Mutant: release does not return after the hand-over and parks the connection too.
HandoffToWaiterAndIdle(c) ==
  /\ pc[c] = "handoff"
  /\ \E n \in 1..Len(waiters) :
       /\ LastOpen(n)
       /\ waiters' = SubSeq(waiters, 1, n - 1)
       /\ slot' = [slot EXCEPT ![waiters[n]] = conn[c]]
  /\ idle' = Append(idle, conn[c])
  /\ conn' = [conn EXCEPT ![c] = NoConn]
  /\ pc' = [pc EXCEPT ![c] = "start"]
  /\ UNCHANGED <<live, kind, reply, connState, doomed, phase, leaked>>

HandoffToWaiter(c) ==
  /\ pc[c] = "handoff"
  /\ \E n \in 1..Len(waiters) :
       /\ LastOpen(n)
       /\ waiters' = SubSeq(waiters, 1, n - 1)
       /\ slot' = [slot EXCEPT ![waiters[n]] = conn[c]]
  /\ conn' = [conn EXCEPT ![c] = NoConn]
  /\ pc' = [pc EXCEPT ![c] = "start"]
  /\ UNCHANGED <<idle, live, kind, reply, connState, doomed, phase, leaked>>

\* Mutant: `if let` instead of `while let`: one closed receiver ends the search.
HandoffToIdlePopsOnce(c) ==
  /\ pc[c] = "handoff"
  /\ waiters # <<>> => waiters[Len(waiters)] = NoClient
  /\ waiters' = SubSeq(waiters, 1, Len(waiters) - 1)
  /\ idle' = Append(idle, conn[c])
  /\ conn' = [conn EXCEPT ![c] = NoConn]
  /\ pc' = [pc EXCEPT ![c] = "start"]
  /\ UNCHANGED <<live, kind, slot, reply, connState, doomed, phase, leaked>>

HandoffToIdle(c) ==
  /\ pc[c] = "handoff"
  /\ \A i \in 1..Len(waiters) : waiters[i] = NoClient
  /\ waiters' = <<>>
  /\ idle' = Append(idle, conn[c])
  /\ conn' = [conn EXCEPT ![c] = NoConn]
  /\ pc' = [pc EXCEPT ![c] = "start"]
  /\ UNCHANGED <<live, kind, slot, reply, connState, doomed, phase, leaked>>

-----------------------------------------------------------------------------
(* The worker thread of a connection *)

Answer(k, r) ==
  /\ queue' = [queue EXCEPT ![k] = Tail(@)]
  /\ reply' = [c \in Clients |-> IF c = Head(queue[k]) THEN r ELSE reply[c]]

\* One command written, its response read to ReadyForQuery, the reply sent.
WorkerDone(k) ==
  /\ worker[k] = "run" /\ queue[k] # <<>>
  /\ Answer(k, "ok")
  /\ UNCHANGED <<poolState, pc, kind, conn, slot, alive, worker, doomed, phase, leaked>>

\* The roundtrip failed: the error is sent before the reconnect is attempted.
WorkerFail(k) ==
  /\ worker[k] = "run" /\ queue[k] # <<>>
  /\ Answer(k, "err")
  /\ worker' = [worker EXCEPT ![k] = "reconnect"]
  /\ UNCHANGED <<poolState, pc, kind, conn, slot, alive, doomed, phase, leaked>>

ReconnectOk(k) ==
  /\ worker[k] = "reconnect"
  /\ worker' = [worker EXCEPT ![k] = "run"]
  /\ UNCHANGED <<poolState, clientState, alive, queue, doomed, phase, leaked>>

\* Mutant: the reply senders of the commands still queued are kept.
ReconnectErrForgetsReplies(k) ==
  /\ worker[k] = "reconnect"
  /\ worker' = [worker EXCEPT ![k] = "exited"]
  /\ alive' = [alive EXCEPT ![k] = FALSE]
  /\ queue' = [queue EXCEPT ![k] = <<>>]
  /\ UNCHANGED <<poolState, clientState, doomed, phase, leaked>>

\* The flag is cleared and the thread returns, dropping the channel with every command
\* and reply sender still in it.
ReconnectErr(k) ==
  /\ worker[k] = "reconnect"
  /\ worker' = [worker EXCEPT ![k] = "exited"]
  /\ alive' = [alive EXCEPT ![k] = FALSE]
  /\ queue' = [queue EXCEPT ![k] = <<>>]
  /\ reply' = [c \in Clients |-> IF c \in Elems(queue[k]) THEN "err" ELSE reply[c]]
  /\ UNCHANGED <<poolState, pc, kind, conn, slot, doomed, phase, leaked>>

\* recv() fails once the channel is empty and its sender is gone.
WorkerHangup(k) ==
  /\ worker[k] = "run" /\ queue[k] = <<>> /\ ~Referenced(k)
  /\ worker' = [worker EXCEPT ![k] = "exited"]
  /\ UNCHANGED <<poolState, clientState, alive, queue, doomed, phase, leaked>>

-----------------------------------------------------------------------------
(* The reaper thread and Drop for Pool *)

\* One pass under the lock: n connections leave from the front.  Each of them is dead
\* or past its ttl (the clock is not modelled, so any of them may be); the pass stops
\* at `min` or at a live one.  A reaper asleep when `stop` is set may still make one
\* last pass ("stopping"); then, or after the joins it was busy with, it returns.
Reap ==
  /\ phase \in {"open", "stopping"} /\ doomed = <<>>
  /\ phase' = IF phase = "stopping" THEN "joining" ELSE phase
  /\ \E n \in 1..(Len(idle) - MinConns) :
       /\ Len(idle) - n > MinConns => alive[idle[n + 1]]
       /\ doomed' = SubSeq(idle, 1, n)
       /\ idle' = SubSeq(idle, n + 1, Len(idle))
       /\ live' = live - n
  /\ UNCHANGED <<waiters, clientState, connState, leaked>>

\* Mutant: the worker is detached instead of joined.
CloseDetached ==
  /\ doomed # <<>>
  /\ doomed' = Tail(doomed)
  /\ UNCHANGED <<poolState, clientState, connState, phase, leaked>>

\* Conn::close: the worker has been joined.
CloseJoined ==
  /\ doomed # <<>> /\ worker[Head(doomed)] = "exited"
  /\ doomed' = Tail(doomed)
  /\ UNCHANGED <<poolState, clientState, connState, phase, leaked>>

\* Drop for Pool: nobody borrows the pool or holds a pin.
DropPool ==
  /\ phase = "open" /\ \A c \in Clients : pc[c] = "start"
  /\ phase' = IF doomed = <<>> THEN "stopping" ELSE "joining"
  /\ UNCHANGED <<poolState, clientState, connState, doomed, leaked>>

\* The reaper has seen `stop` and was joined; idle.drain(..).
Drain ==
  /\ phase \in {"stopping", "joining"} /\ doomed = <<>>
  /\ doomed' = idle
  /\ idle' = <<>>
  /\ phase' = "draining"
  /\ UNCHANGED <<waiters, live, clientState, connState, leaked>>

Closed ==
  /\ phase = "draining" /\ doomed = <<>>
  /\ phase' = "closed"
  /\ UNCHANGED <<poolState, clientState, connState, doomed, leaked>>

\* Nothing is left to do; keeps a finished pool apart from a deadlocked one.
Finished ==
  /\ phase = "closed" /\ \A k \in Conns : worker[k] = "exited"
  /\ UNCHANGED vars

-----------------------------------------------------------------------------
Acquire(c) == AcquireGot(c) \/ AcquireCreate(c) \/ AcquireWait(c)
Release(c) == ReleaseDead(c) \/ ReleaseCheck(c) \/ HandoffToWaiter(c) \/ HandoffToIdle(c)
Client(c) ==
  \/ Begin(c) \/ Acquire(c) \/ SpawnOk(c) \/ SpawnErr(c)
  \/ WaitAlive(c) \/ WaitDead(c) \/ WaitTimeout(c)
  \/ SendOk(c) \/ SendClosed(c) \/ Receive(c) \/ CancelSent(c) \/ DropPin(c)
  \/ Release(c)
Worker(k) ==
  WorkerDone(k) \/ WorkerFail(k) \/ ReconnectOk(k) \/ ReconnectErr(k) \/ WorkerHangup(k)

Next ==
  \/ \E c \in Clients : Client(c)
  \/ \E k \in Conns : Worker(k)
  \/ Reap \/ CloseJoined \/ DropPool \/ Drain \/ Closed \/ Finished

Spec == Init /\ [][Next]_vars

\* Fairness.  Threads keep running, the acquire timer fires, a future that is ready is
\* polled, and the server answers or fails every command and connection attempt (the
\* sockets have no read timeout: a query that never returns is outside this promise).
\* Nothing is assumed of the user: starting, sending on a pin, cancelling and dropping
\* a pin are not fair.
ClientStep(c) ==
  \/ Acquire(c) \/ SpawnOk(c) \/ SpawnErr(c) \/ WaitAlive(c) \/ WaitDead(c) \/ WaitTimeout(c)
  \/ (kind[c] = "roundtrip" /\ SendOk(c)) \/ SendClosed(c) \/ Receive(c) \/ Release(c)

Fairness ==
  /\ \A c \in Clients : WF_vars(ClientStep(c))
  /\ \A k \in Conns : WF_vars(Worker(k))
  /\ WF_vars(CloseJoined) /\ WF_vars(Drain) /\ WF_vars(Closed)

FairSpec == Spec /\ Fairness

-----------------------------------------------------------------------------
(* Properties *)

\* Every variable has its type; in particular `live`, a usize the code decrements in
\* six places, never goes below zero.
TypeOK ==
  /\ idle \in Seq(Conns)
  /\ waiters \in Seq(Clients \cup {NoClient})
  /\ live \in Nat
  /\ pc \in [Clients -> PcStates]
  /\ kind \in [Clients -> {"roundtrip", "pin"}]
  /\ conn \in [Clients -> Conns \cup {NoConn}]
  /\ slot \in [Clients -> Conns \cup {NoConn}]
  /\ reply \in [Clients -> {"none", "pending", "ok", "err"}]
  /\ alive \in [Conns -> BOOLEAN]
  /\ worker \in [Conns -> {"run", "reconnect", "exited"}]
  /\ queue \in [Conns -> Seq(Clients \cup {NoClient})]
  /\ doomed \in Seq(Conns)
  /\ phase \in {"open", "stopping", "joining", "draining", "closed"}
  /\ leaked \in Nat

\* Until Drop drains the pool, `live` is exactly the connections that exist or are being
\* created (idle, in a waiter's oneshot, owned by a client) plus those lost by dropping
\* a future: no path of acquire, release or the reaper counts one twice or forgets one.
LiveIsExact ==
  phase \in {"open", "stopping", "joining"} =>
    live = Len(idle) + Cardinality(Charged) + leaked

\* The pool never counts more than PoolConfig.max connections, however acquires,
\* failed spawns, dead connections and reaper passes interleave.
WithinMax == live <= MaxConns

\* A connection is in one place only: two clients never own it, a waiter is never sent
\* one that is idle, the reaper never closes one that someone can still acquire.
SingleOwner ==
  /\ \A i, j \in DOMAIN idle : idle[i] = idle[j] => i = j
  /\ \A i, j \in DOMAIN doomed : doomed[i] = doomed[j] => i = j
  /\ \A c, d \in Clients : conn[c] # NoConn /\ conn[c] = conn[d] => c = d
  /\ \A c, d \in Clients : slot[c] # NoConn /\ slot[c] = slot[d] => c = d
  /\ \A c, d \in Clients : conn[c] # NoConn => conn[c] # slot[d]
  /\ \A c \in Clients : \A i \in DOMAIN idle : idle[i] \notin {conn[c], slot[c]}
  /\ \A c \in Clients : \A i \in DOMAIN doomed : doomed[i] \notin {conn[c], slot[c]}
  /\ \A i \in DOMAIN idle, j \in DOMAIN doomed : idle[i] # doomed[j]

\* No lost wakeup: a connection is never left idle while a waiter still listens.
NoIdleWhileWaiting ==
  idle # <<>> => \A i \in DOMAIN waiters : waiters[i] = NoClient

\* A client in select! is registered in `waiters` exactly once or has its connection in
\* the oneshot, and nobody else is registered: release never hands a connection to a
\* client that has given up, and a client that goes round again is not there twice.
WaiterRegistered ==
  /\ \A c \in Clients : pc[c] = "wait" /\ slot[c] = NoConn => \E i \in DOMAIN waiters : waiters[i] = c
  /\ \A i \in DOMAIN waiters : waiters[i] # NoClient => pc[waiters[i]] = "wait" /\ slot[waiters[i]] = NoConn
  /\ \A i, j \in DOMAIN waiters : waiters[i] # NoClient /\ waiters[i] = waiters[j] => i = j

\* Replies and commands pair up.  An outstanding command sits in the channel of the
\* connection its sender owns, whose worker still runs, so someone will answer it; and a
\* command in a channel belongs to a client that still awaits that very reply.
PendingIsQueued ==
  /\ \A c \in Clients : reply[c] = "pending" =>
       /\ worker[conn[c]] # "exited"
       /\ \E i \in DOMAIN queue[conn[c]] : queue[conn[c]][i] = c
  /\ \A k \in Conns : \A i \in DOMAIN queue[k] : queue[k][i] # NoClient =>
       /\ conn[queue[k][i]] = k /\ pc[queue[k][i]] = "sent" /\ reply[queue[k][i]] = "pending"
       /\ \A j \in DOMAIN queue[k] : queue[k][j] = queue[k][i] => i = j

\* Server sessions are bounded by the pool size plus the connections being closed, the
\* budget that max_connections = pool_size + 2 + extra has to cover.
SessionBound ==
  Cardinality({k \in Conns : worker[k] # "exited"}) <= MaxConns + Len(doomed)

\* The pool implements the lease its callers rely on.
Lease == INSTANCE ConnLease WITH lease <- conn

\* Every step of acquire, release, the workers, the reaper and Drop, seen through which
\* connection each client owns, lends a free connection, takes one back, or is invisible.
PoolImplementsLease == Lease!Spec

\* Drop for Pool terminates: the reaper is joined, every idle connection is closed and
\* its worker joined, whatever those workers were doing.
DropCompletes == phase # "open" ~> phase = "closed"

\* A roundtrip that owns a connection always comes back from it, also when its worker
\* loses the server between accepting the command and answering it.
CommandsReturn == \A c \in Clients : pc[c] = "sent" ~> pc[c] # "sent"
=============================================================================
