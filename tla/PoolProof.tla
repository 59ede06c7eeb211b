----------------------------- MODULE PoolProof -----------------------------
(***************************************************************************)
(* Proofs about Pool, for every set of clients and connections and every   *)
(* PoolConfig.                                                             *)
(*                                                                         *)
(* LiveIsExact is what keeps the usize `live` from underflowing, so the    *)
(* type invariant cannot be proved by itself: IInv carries the typing, the *)
(* accounting and the ownership facts together.                            *)
(***************************************************************************)
EXTENDS Pool, FiniteSetTheorems, SequenceTheorems, TLAPS

\* Where a client stands determines what it holds.
PcShape ==
  /\ \A c \in Clients : conn[c] # NoConn <=> pc[c] \in Owning
  /\ \A c \in Clients : slot[c] # NoConn => pc[c] = "wait"
  /\ \A c \in Clients : reply[c] # "none" => pc[c] = "sent"
  /\ phase # "open" => \A c \in Clients : pc[c] = "start"

IInv ==
  /\ TypeOK /\ PcShape /\ LiveIsExact /\ WithinMax /\ SingleOwner
  /\ WaiterRegistered /\ NoIdleWhileWaiting /\ PendingIsQueued

-----------------------------------------------------------------------------
\* Forgetting a receiver keeps a sequence of receivers one, entry by entry.
LEMMA ForgetSeq ==
  ASSUME NEW q \in Seq(Clients \cup {NoClient}), NEW c \in Clients
  PROVE  /\ Forget(q, c) \in Seq(Clients \cup {NoClient})
         /\ Len(Forget(q, c)) = Len(q)
         /\ DOMAIN Forget(q, c) = DOMAIN q
         /\ \A i \in DOMAIN q : Forget(q, c)[i] = IF q[i] = c THEN NoClient ELSE q[i]
<1>1. Len(q) \in Nat /\ DOMAIN q = 1..Len(q) /\ q \in [1..Len(q) -> Clients \cup {NoClient}]
  BY LenProperties
<1>2. Forget(q, c) \in [1..Len(q) -> Clients \cup {NoClient}]
  BY <1>1 DEF Forget
<1>3. Forget(q, c) \in Seq(Clients \cup {NoClient})
  BY <1>1, <1>2, IsASeq
<1>4. Len(Forget(q, c)) = Len(q)
  BY <1>1, <1>2, <1>3, LenProperties
<1> QED BY <1>3, <1>4 DEF Forget

\* What appending one entry to a command channel or to the waiters leaves.
LEMMA AppendEntries ==
  ASSUME NEW S, NEW q \in Seq(S), NEW e \in S, NEW r, r = Append(q, e)
  PROVE  /\ Len(q) + 1 \in DOMAIN r /\ r[Len(q) + 1] = e
         /\ \A i \in DOMAIN q : i \in DOMAIN r /\ r[i] = q[i]
         /\ \A i \in DOMAIN r : (i \in DOMAIN q /\ r[i] = q[i]) \/ (i = Len(q) + 1 /\ r[i] = e)
<1>1. Len(q) \in Nat /\ DOMAIN q = 1..Len(q)
  BY LenProperties
<1>2. /\ r \in Seq(S) /\ Len(r) = Len(q) + 1
      /\ \A i \in 1..Len(q) : r[i] = q[i]
      /\ r[Len(q) + 1] = e
  BY AppendProperties
<1>3. DOMAIN r = 1..(Len(q) + 1)
  BY <1>2, LenProperties
<1>4. \A i \in 1..(Len(q) + 1) : i \in 1..Len(q) \/ i = Len(q) + 1
  BY <1>1
<1>5. Len(q) + 1 \in 1..(Len(q) + 1) /\ \A i \in 1..Len(q) : i \in 1..(Len(q) + 1)
  BY <1>1
<1> QED BY <1>1, <1>2, <1>3, <1>4, <1>5

\* The charged clients are finitely many.
LEMMA ChargedFinite ==
  /\ IsFiniteSet(Charged) /\ Cardinality(Charged) \in Nat
  BY PoolAssumption, FS_Subset, FS_CardinalityType DEF Charged

\* A charged client accounts for a unit of `live`, which therefore can be given back.
LEMMA ChargedUnit ==
  ASSUME IInv, phase = "open", NEW c \in Clients, c \in Charged
  PROVE  live - 1 \in Nat /\ Len(idle) + 1 <= live
<1>1. Cardinality(Charged) \in Nat /\ Cardinality(Charged) # 0
  BY ChargedFinite, FS_EmptySet
<1>2. Len(idle) \in Nat /\ leaked \in Nat /\ live \in Nat
  BY LenProperties DEF IInv, TypeOK
<1> QED BY <1>1, <1>2 DEF IInv, LiveIsExact

\* So do the idle connections.
LEMMA IdleUnits ==
  ASSUME IInv, phase \in {"open", "stopping"}
  PROVE  Len(idle) \in Nat /\ live \in Nat /\ Len(idle) <= live
<1>1. Len(idle) \in Nat /\ leaked \in Nat /\ live \in Nat
  BY LenProperties DEF IInv, TypeOK
<1> QED BY <1>1, ChargedFinite DEF IInv, LiveIsExact

\* No step of the pool takes a variable out of its type: each decrement of `live` gives
\* back a unit that an idle connection or a charged client accounts for.
LEMMA TypeStep ==
  ASSUME IInv, [Next]_vars
  PROVE  TypeOK'
<1> USE PoolAssumption DEF IInv, poolState, clientState, connState
<1>1. ASSUME NEW c \in Clients, Begin(c) PROVE TypeOK'
  BY <1>1 DEF TypeOK, Begin, PcStates
<1>2. ASSUME NEW c \in Clients, AcquireGot(c) PROVE TypeOK'
  <2>1. phase = "open"
    BY <1>2 DEF AcquireGot, PcShape
  <2>2. PICK n \in 1..Len(idle) : AcquireGot(c)!2!(n)
    BY <1>2 DEF AcquireGot
  <2>3. idle' \in Seq(Conns) /\ idle[n] \in Conns
    BY <2>2, IdleUnits, <2>1, SubSeqProperties, ElementOfSeq DEF TypeOK
  <2>4. live' \in Nat
    BY <2>1, <2>2, IdleUnits
  <2> QED BY <1>2, <2>2, <2>3, <2>4 DEF TypeOK, AcquireGot, PcStates
<1>3. ASSUME NEW c \in Clients, AcquireCreate(c) PROVE TypeOK'
  <2>1. phase = "open"
    BY <1>3 DEF AcquireCreate, PcShape
  <2>2. live' \in Nat
    BY <1>3, <2>1, IdleUnits DEF AcquireCreate
  <2> QED BY <1>3, <2>2 DEF TypeOK, AcquireCreate, PcStates
<1>4. ASSUME NEW c \in Clients, AcquireWait(c) PROVE TypeOK'
  <2>1. phase = "open"
    BY <1>4 DEF AcquireWait, PcShape
  <2> QED BY <1>4, <2>1, IdleUnits DEF TypeOK, AcquireWait, PcStates
<1>5. ASSUME NEW c \in Clients, SpawnOk(c) PROVE TypeOK'
  BY <1>5 DEF TypeOK, SpawnOk, PcStates
<1>6. ASSUME NEW c \in Clients, SpawnErr(c) PROVE TypeOK'
  <2>1. phase = "open" /\ c \in Charged
    BY <1>6 DEF SpawnErr, PcShape, Charged
  <2> QED BY <1>6, <2>1, ChargedUnit DEF TypeOK, SpawnErr, PcStates
<1>7. ASSUME NEW c \in Clients, WaitAlive(c) PROVE TypeOK'
  BY <1>7 DEF TypeOK, WaitAlive, PcStates
<1>8. ASSUME NEW c \in Clients, WaitDead(c) PROVE TypeOK'
  <2>1. phase = "open" /\ c \in Charged
    BY <1>8 DEF WaitDead, PcShape, Charged
  <2> QED BY <1>8, <2>1, ChargedUnit DEF TypeOK, WaitDead, PcStates
<1>9. ASSUME NEW c \in Clients, WaitTimeout(c) PROVE TypeOK'
  <2>1. waiters' \in Seq(Clients \cup {NoClient})
    BY <1>9, ForgetSeq DEF TypeOK, WaitTimeout, DropReceiver
  <2> QED BY <1>9, <2>1 DEF TypeOK, WaitTimeout, DropReceiver, PcStates
<1>10. ASSUME NEW c \in Clients, SendOk(c) PROVE TypeOK'
  <2>1. conn[c] \in Conns
    BY <1>10 DEF SendOk, PcShape, TypeOK, Owning
  <2> QED BY <1>10, <2>1 DEF TypeOK, SendOk, PcStates
<1>11. ASSUME NEW c \in Clients, SendClosed(c) PROVE TypeOK'
  BY <1>11 DEF TypeOK, SendClosed, PcStates
<1>12. ASSUME NEW c \in Clients, Receive(c) PROVE TypeOK'
  BY <1>12 DEF TypeOK, Receive, PcStates
<1>13. ASSUME NEW c \in Clients, CancelSent(c) PROVE TypeOK'
  <2>1. conn[c] \in Conns
    BY <1>13 DEF CancelSent, PcShape, TypeOK, Owning
  <2>2. Forget(queue[conn[c]], c) \in Seq(Clients \cup {NoClient})
    BY <2>1, ForgetSeq DEF TypeOK
  <2>3. queue' \in [Conns -> Seq(Clients \cup {NoClient})]
    BY <1>13, <2>1, <2>2 DEF TypeOK, CancelSent
  <2>4. pc' \in [Clients -> PcStates] /\ conn' \in [Clients -> Conns \cup {NoConn}] /\ leaked' \in Nat
    <3>1. CASE kind[c] = "pin"
      BY <1>13, <3>1 DEF TypeOK, CancelSent, PcStates
    <3>2. CASE kind[c] # "pin"
      <4>1. /\ pc' = [pc EXCEPT ![c] = "start"]
            /\ conn' = [conn EXCEPT ![c] = NoConn]
            /\ leaked' = leaked + 1
        BY <1>13, <3>2, Zenon DEF CancelSent
      <4> QED BY <4>1 DEF TypeOK, PcStates
    <3> QED BY <3>1, <3>2
  <2>5. reply' \in [Clients -> {"none", "pending", "ok", "err"}]
    BY <1>13 DEF TypeOK, CancelSent
  <2>6. UNCHANGED <<poolState, kind, slot, alive, worker, doomed, phase>>
    BY <1>13 DEF CancelSent
  <2> QED BY <2>3, <2>4, <2>5, <2>6 DEF TypeOK
<1>14. ASSUME NEW c \in Clients, DropPin(c) PROVE TypeOK'
  <2>1. conn[c] \in Conns
    BY <1>14 DEF DropPin, PcShape, TypeOK, Owning
  <2>2. queue' \in [Conns -> Seq(Clients \cup {NoClient})]
    <3>1. CASE UNCHANGED queue
      BY <3>1 DEF TypeOK
    <3>2. CASE queue' = [queue EXCEPT ![conn[c]] = Append(@, NoClient)]
      BY <2>1, <3>2 DEF TypeOK
    <3> QED BY <1>14, <3>1, <3>2 DEF DropPin
  <2> QED BY <1>14, <2>1, <2>2 DEF TypeOK, DropPin, PcStates
<1>15. ASSUME NEW c \in Clients, ReleaseDead(c) PROVE TypeOK'
  <2>1. phase = "open" /\ c \in Charged
    BY <1>15 DEF ReleaseDead, PcShape, Charged, Owning
  <2> QED BY <1>15, <2>1, ChargedUnit DEF TypeOK, ReleaseDead, PcStates
<1>16. ASSUME NEW c \in Clients, ReleaseCheck(c) PROVE TypeOK'
  BY <1>16 DEF TypeOK, ReleaseCheck, PcStates
<1>17. ASSUME NEW c \in Clients, HandoffToWaiter(c) PROVE TypeOK'
  <2>1. PICK n \in 1..Len(waiters) : HandoffToWaiter(c)!2!(n)
    BY <1>17 DEF HandoffToWaiter
  <2>2. waiters' \in Seq(Clients \cup {NoClient})
    BY <2>1, SubSeqProperties, LenProperties DEF TypeOK
  <2> QED BY <1>17, <2>1, <2>2 DEF TypeOK, HandoffToWaiter, PcStates
<1>18. ASSUME NEW c \in Clients, HandoffToIdle(c) PROVE TypeOK'
  <2>1. conn[c] \in Conns
    BY <1>18 DEF HandoffToIdle, PcShape, TypeOK, Owning
  <2> QED BY <1>18, <2>1 DEF TypeOK, HandoffToIdle, PcStates
<1>19. ASSUME NEW k \in Conns, Worker(k) PROVE TypeOK'
  <2>1. CASE WorkerDone(k) \/ WorkerFail(k)
    <3>1. queue[k] \in Seq(Clients \cup {NoClient}) /\ queue[k] # <<>>
      BY <2>1 DEF TypeOK, WorkerDone, WorkerFail
    <3>2. Tail(queue[k]) \in Seq(Clients \cup {NoClient})
      BY <3>1, HeadTailProperties
    <3>3. PICK r \in {"ok", "err"} : Answer(k, r)
      BY <2>1 DEF WorkerDone, WorkerFail
    <3>4. queue' \in [Conns -> Seq(Clients \cup {NoClient})]
      BY <3>2, <3>3 DEF TypeOK, Answer
    <3>5. reply' \in [Clients -> {"none", "pending", "ok", "err"}]
      BY <3>3 DEF TypeOK, Answer
    <3>6. worker' \in [Conns -> {"run", "reconnect", "exited"}]
      BY <2>1 DEF TypeOK, WorkerDone, WorkerFail
    <3>7. UNCHANGED <<poolState, pc, kind, conn, slot, alive, doomed, phase, leaked>>
      BY <2>1 DEF WorkerDone, WorkerFail
    <3> QED BY <3>4, <3>5, <3>6, <3>7 DEF TypeOK
  <2>2. CASE ReconnectErr(k)
    BY <2>2 DEF TypeOK, ReconnectErr
  <2>3. CASE ReconnectOk(k) \/ WorkerHangup(k)
    BY <2>3 DEF TypeOK, ReconnectOk, WorkerHangup
  <2> QED BY <1>19, <2>1, <2>2, <2>3 DEF Worker
<1>20. ASSUME Reap PROVE TypeOK'
  <2>1. PICK n \in 1..(Len(idle) - MinConns) : Reap!3!(n)
    BY <1>20 DEF Reap
  <2>2. live - n \in Nat /\ Len(idle) \in Nat
    BY <1>20, <2>1, IdleUnits DEF Reap
  <2>3. idle' \in Seq(Conns) /\ doomed' \in Seq(Conns)
    <3>1. 1 \in 1..(Len(idle) + 1) /\ n + 1 \in 1..(Len(idle) + 1) /\ n \in 0..Len(idle)
      BY <2>1, <2>2
    <3>2. \A i \in 1..Len(idle) : idle[i] \in Conns
      BY <2>2, ElementOfSeq DEF TypeOK
    <3>3. SubSeq(idle, 1, n) \in Seq(Conns) /\ SubSeq(idle, n + 1, Len(idle)) \in Seq(Conns)
      BY <2>2, <3>1, <3>2, SubSeqProperties
    <3> QED BY <2>1, <3>3
  <2> QED BY <1>20, <2>1, <2>2, <2>3 DEF TypeOK, Reap
<1>21. ASSUME CloseJoined \/ DropPool \/ Drain \/ Closed \/ Finished PROVE TypeOK'
  <2>1. CASE CloseJoined
    BY <2>1, HeadTailProperties DEF TypeOK, CloseJoined
  <2>2. CASE DropPool
    BY <2>2 DEF TypeOK, DropPool
  <2>3. CASE Drain \/ Closed \/ Finished
    BY <2>3 DEF TypeOK, Drain, Closed, Finished, vars
  <2> QED BY <1>21, <2>1, <2>2, <2>3
<1>22. CASE UNCHANGED vars
  BY <1>22 DEF TypeOK, vars
<1> QED
  BY <1>1, <1>2, <1>3, <1>4, <1>5, <1>6, <1>7, <1>8, <1>9, <1>10, <1>11, <1>12, <1>13,
     <1>14, <1>15, <1>16, <1>17, <1>18, <1>19, <1>20, <1>21, <1>22
     DEF Next, Client, Acquire, Release

-----------------------------------------------------------------------------
(* Accounting *)

\* Every step keeps what a client holds (a Conn, a full oneshot, a reply) in line with where
\* it stands in acquire, roundtrip or release; Drop only starts when nobody is inside.
LEMMA ShapeStep ==
  ASSUME IInv, [Next]_vars
  PROVE  PcShape'
<1> USE PoolAssumption DEF IInv, poolState, clientState, connState, TypeOK, PcShape, Owning
<1>1. ASSUME NEW c \in Clients, Begin(c) PROVE PcShape'
  BY <1>1 DEF Begin
<1>2. ASSUME NEW c \in Clients, AcquireGot(c) PROVE PcShape'
  BY <1>2 DEF AcquireGot
<1>3. ASSUME NEW c \in Clients, AcquireCreate(c) PROVE PcShape'
  BY <1>3 DEF AcquireCreate
<1>4. ASSUME NEW c \in Clients, AcquireWait(c) PROVE PcShape'
  BY <1>4 DEF AcquireWait
<1>5. ASSUME NEW c \in Clients, SpawnOk(c) PROVE PcShape'
  BY <1>5 DEF SpawnOk
<1>6. ASSUME NEW c \in Clients, SpawnErr(c) PROVE PcShape'
  BY <1>6 DEF SpawnErr
<1>7. ASSUME NEW c \in Clients, WaitAlive(c) PROVE PcShape'
  BY <1>7 DEF WaitAlive
<1>8. ASSUME NEW c \in Clients, WaitDead(c) PROVE PcShape'
  BY <1>8 DEF WaitDead
<1>9. ASSUME NEW c \in Clients, WaitTimeout(c) PROVE PcShape'
  BY <1>9 DEF WaitTimeout, DropReceiver
<1>10. ASSUME NEW c \in Clients, SendOk(c) PROVE PcShape'
  BY <1>10 DEF SendOk
<1>11. ASSUME NEW c \in Clients, SendClosed(c) PROVE PcShape'
  BY <1>11 DEF SendClosed
<1>12. ASSUME NEW c \in Clients, Receive(c) PROVE PcShape'
  BY <1>12 DEF Receive
<1>13. ASSUME NEW c \in Clients, CancelSent(c) PROVE PcShape'
  <2>1. CASE kind[c] = "pin"
    <3>1. /\ pc' = [pc EXCEPT ![c] = "got"] /\ UNCHANGED <<conn, slot, phase>>
          /\ reply' = [reply EXCEPT ![c] = "none"] /\ pc[c] = "sent"
      BY <1>13, <2>1, Zenon DEF CancelSent
    <3> QED BY <3>1
  <2>2. CASE kind[c] # "pin"
    <3>1. /\ pc' = [pc EXCEPT ![c] = "start"]
          /\ conn' = [conn EXCEPT ![c] = NoConn]
          /\ reply' = [reply EXCEPT ![c] = "none"]
          /\ UNCHANGED <<slot, phase>> /\ pc[c] = "sent"
      BY <1>13, <2>2, Zenon DEF CancelSent
    <3> QED BY <3>1
  <2> QED BY <2>1, <2>2
<1>14. ASSUME NEW c \in Clients, DropPin(c) PROVE PcShape'
  BY <1>14 DEF DropPin
<1>15. ASSUME NEW c \in Clients, ReleaseDead(c) PROVE PcShape'
  BY <1>15 DEF ReleaseDead
<1>16. ASSUME NEW c \in Clients, ReleaseCheck(c) PROVE PcShape'
  BY <1>16 DEF ReleaseCheck
<1>17. ASSUME NEW c \in Clients, HandoffToWaiter(c) PROVE PcShape'
  BY <1>17 DEF HandoffToWaiter, WaiterRegistered, LastOpen
<1>18. ASSUME NEW c \in Clients, HandoffToIdle(c) PROVE PcShape'
  BY <1>18 DEF HandoffToIdle
<1>19. ASSUME NEW k \in Conns, WorkerDone(k) PROVE PcShape'
  BY <1>19 DEF WorkerDone, Answer, PendingIsQueued
<1>20. ASSUME NEW k \in Conns, WorkerFail(k) PROVE PcShape'
  BY <1>20 DEF WorkerFail, Answer, PendingIsQueued
<1>21. ASSUME NEW k \in Conns, ReconnectOk(k) PROVE PcShape'
  BY <1>21 DEF ReconnectOk
<1>22. ASSUME NEW k \in Conns, ReconnectErr(k) PROVE PcShape'
  BY <1>22 DEF ReconnectErr, Elems, PendingIsQueued
<1>23. ASSUME NEW k \in Conns, WorkerHangup(k) PROVE PcShape'
  BY <1>23 DEF WorkerHangup
<1>24. CASE Reap \/ CloseJoined \/ DropPool \/ Drain \/ Closed \/ Finished \/ UNCHANGED vars
  BY <1>24 DEF Reap, CloseJoined, DropPool, Drain, Closed, Finished, vars
<1> QED
  BY <1>1, <1>2, <1>3, <1>4, <1>5, <1>6, <1>7, <1>8, <1>9, <1>10, <1>11, <1>12, <1>13,
     <1>14, <1>15, <1>16, <1>17, <1>18, <1>19, <1>20, <1>21, <1>22, <1>23, <1>24
     DEF Next, Client, Worker, Acquire, Release

\* One client more is charged.
LEMMA ChargeOne ==
  ASSUME NEW c, c \notin Charged, Charged' = Charged \cup {c}
  PROVE  Cardinality(Charged)' = Cardinality(Charged) + 1
  BY ChargedFinite, FS_AddElement

\* A client stops being charged.
LEMMA DischargeOne ==
  ASSUME NEW c, c \in Charged, Charged' = Charged \ {c}
  PROVE  Cardinality(Charged)' = Cardinality(Charged) - 1
  BY ChargedFinite, FS_RemoveElement

\* The charge moves from the releasing client to the waiter.
LEMMA ChargeMoves ==
  ASSUME NEW c, NEW d, c \in Charged, d \notin Charged, Charged' = (Charged \ {c}) \cup {d}
  PROVE  Cardinality(Charged)' = Cardinality(Charged)
<1>1. IsFiniteSet(Charged \ {c}) /\ Cardinality(Charged \ {c}) = Cardinality(Charged) - 1
  BY ChargedFinite, FS_RemoveElement
<1>2. Cardinality((Charged \ {c}) \cup {d}) = Cardinality(Charged \ {c}) + 1
  BY <1>1, FS_AddElement
<1> QED BY <1>1, <1>2, ChargedFinite

\* Every step keeps `live` exact and within PoolConfig.max.
LEMMA AccountStep ==
  ASSUME IInv, [Next]_vars
  PROVE  LiveIsExact' /\ WithinMax'
<1> USE PoolAssumption DEF IInv, poolState, clientState, connState
<1> DEFINE Goal == LiveIsExact' /\ WithinMax'
<1>a. /\ Len(idle) \in Nat /\ live \in Nat /\ leaked \in Nat /\ live <= MaxConns
      /\ Cardinality(Charged) \in Nat
  BY ChargedFinite, LenProperties DEF TypeOK, WithinMax
<1>b. phase = "open" => live = Len(idle) + Cardinality(Charged) + leaked
  BY DEF LiveIsExact
<1>1. ASSUME NEW c \in Clients, Begin(c) PROVE Goal
  <2>1. Charged' = Charged
    BY <1>1 DEF TypeOK, PcShape, Charged, Owning, Begin
  <2> QED BY <1>1, <2>1 DEF LiveIsExact, WithinMax, Begin
<1>2. ASSUME NEW c \in Clients, SpawnOk(c) PROVE Goal
  <2>1. Charged' = Charged
    BY <1>2 DEF TypeOK, PcShape, Charged, Owning, SpawnOk
  <2> QED BY <1>2, <2>1 DEF LiveIsExact, WithinMax, SpawnOk
<1>3. ASSUME NEW c \in Clients, WaitAlive(c) PROVE Goal
  <2>1. Charged' = Charged
    BY <1>3 DEF TypeOK, PcShape, Charged, Owning, WaitAlive
  <2> QED BY <1>3, <2>1 DEF LiveIsExact, WithinMax, WaitAlive
<1>4. ASSUME NEW c \in Clients, SendOk(c) PROVE Goal
  <2>1. Charged' = Charged
    BY <1>4 DEF TypeOK, PcShape, Charged, Owning, SendOk
  <2> QED BY <1>4, <2>1 DEF LiveIsExact, WithinMax, SendOk
<1>5. ASSUME NEW c \in Clients, SendClosed(c) PROVE Goal
  <2>1. Charged' = Charged
    BY <1>5 DEF TypeOK, PcShape, Charged, Owning, SendClosed
  <2> QED BY <1>5, <2>1 DEF LiveIsExact, WithinMax, SendClosed
<1>6. ASSUME NEW c \in Clients, Receive(c) PROVE Goal
  <2>1. Charged' = Charged
    BY <1>6 DEF TypeOK, PcShape, Charged, Owning, Receive
  <2> QED BY <1>6, <2>1 DEF LiveIsExact, WithinMax, Receive
<1>7. ASSUME NEW c \in Clients, DropPin(c) PROVE Goal
  <2>1. Charged' = Charged
    BY <1>7 DEF TypeOK, PcShape, Charged, Owning, DropPin
  <2> QED BY <1>7, <2>1 DEF LiveIsExact, WithinMax, DropPin
<1>8. ASSUME NEW c \in Clients, ReleaseCheck(c) PROVE Goal
  <2>1. Charged' = Charged
    BY <1>8 DEF TypeOK, PcShape, Charged, Owning, ReleaseCheck
  <2> QED BY <1>8, <2>1 DEF LiveIsExact, WithinMax, ReleaseCheck
<1>9. ASSUME NEW c \in Clients, AcquireGot(c) PROVE Goal
  <2>1. PICK n \in 1..Len(idle) : AcquireGot(c)!2!(n)
    BY <1>9 DEF AcquireGot
  <2>2. phase = "open" /\ phase' = phase /\ leaked' = leaked
    BY <1>9 DEF AcquireGot, PcShape
  <2>3. c \notin Charged /\ Charged' = Charged \cup {c}
    BY <1>9 DEF TypeOK, PcShape, Charged, Owning, AcquireGot
  <2>4. Len(idle') = n - 1
    BY <2>1, <1>a, SubSeqProperties, ElementOfSeq DEF TypeOK
  <2>c. Cardinality(Charged)' = Cardinality(Charged) + 1
    BY <2>3, ChargeOne
  <2>5. live' = live - (Len(idle) - n)
    BY <2>1
  <2>6. live = Len(idle) + Cardinality(Charged) + leaked /\ n \in Nat /\ n <= Len(idle)
    BY <2>2, <1>a, <1>b
  <2>7. live' = Len(idle') + Cardinality(Charged)' + leaked'
    BY <2>2, <2>4, <2>5, <2>6, <1>a, <2>c
  <2>8. live' <= MaxConns
    BY <2>5, <2>6, <1>a
  <2> QED BY <2>7, <2>8 DEF LiveIsExact, WithinMax
<1>10. ASSUME NEW c \in Clients, AcquireCreate(c) PROVE Goal
  <2>2. phase = "open" /\ phase' = phase /\ leaked' = leaked
    BY <1>10 DEF AcquireCreate, PcShape
  <2>3. c \notin Charged /\ Charged' = Charged \cup {c}
    BY <1>10 DEF TypeOK, PcShape, Charged, Owning, AcquireCreate
  <2>4. Len(idle') = 0 /\ live' = live - Len(idle) + 1 /\ live - Len(idle) < MaxConns
    BY <1>10 DEF AcquireCreate
  <2>c. Cardinality(Charged)' = Cardinality(Charged) + 1
    BY <2>3, ChargeOne
  <2>5. live = Len(idle) + Cardinality(Charged) + leaked
    BY <2>2, <1>b
  <2>6. live' = Len(idle') + Cardinality(Charged)' + leaked'
    BY <2>2, <2>4, <2>5, <1>a, <2>c
  <2>7. live' <= MaxConns
    BY <2>4, <1>a
  <2> QED BY <2>6, <2>7 DEF LiveIsExact, WithinMax
<1>11. ASSUME NEW c \in Clients, AcquireWait(c) PROVE Goal
  <2>2. phase = "open" /\ phase' = phase /\ leaked' = leaked
    BY <1>11 DEF AcquireWait, PcShape
  <2>3. Charged' = Charged
    BY <1>11 DEF TypeOK, PcShape, Charged, Owning, AcquireWait
  <2>4. Len(idle') = 0 /\ live' = live - Len(idle)
    BY <1>11 DEF AcquireWait
  <2> QED BY <2>2, <2>3, <2>4, <1>a, <1>b DEF LiveIsExact, WithinMax
<1>12. ASSUME NEW c \in Clients, SpawnErr(c) PROVE Goal
  <2>1. phase = "open" /\ UNCHANGED <<phase, leaked, idle>> /\ live' = live - 1
    BY <1>12 DEF SpawnErr, PcShape
  <2>2. c \in Charged /\ Charged' = Charged \ {c}
    BY <1>12 DEF TypeOK, PcShape, Charged, Owning, SpawnErr
  <2>c. Cardinality(Charged)' = Cardinality(Charged) - 1
    BY <2>2, DischargeOne
  <2> QED BY <2>1, <2>2, <1>a, <1>b, <2>c DEF LiveIsExact, WithinMax
<1>13. ASSUME NEW c \in Clients, WaitDead(c) PROVE Goal
  <2>1. phase = "open" /\ UNCHANGED <<phase, leaked, idle>> /\ live' = live - 1
    BY <1>13 DEF WaitDead, PcShape
  <2>2. c \in Charged /\ Charged' = Charged \ {c}
    BY <1>13 DEF TypeOK, PcShape, Charged, Owning, WaitDead
  <2>c. Cardinality(Charged)' = Cardinality(Charged) - 1
    BY <2>2, DischargeOne
  <2> QED BY <2>1, <2>2, <1>a, <1>b, <2>c DEF LiveIsExact, WithinMax
<1>14. ASSUME NEW c \in Clients, ReleaseDead(c) PROVE Goal
  <2>1. phase = "open" /\ UNCHANGED <<phase, leaked, idle>> /\ live' = live - 1
    BY <1>14 DEF ReleaseDead, PcShape
  <2>2. c \in Charged /\ Charged' = Charged \ {c}
    BY <1>14 DEF TypeOK, PcShape, Charged, Owning, ReleaseDead
  <2>c. Cardinality(Charged)' = Cardinality(Charged) - 1
    BY <2>2, DischargeOne
  <2> QED BY <2>1, <2>2, <1>a, <1>b, <2>c DEF LiveIsExact, WithinMax
<1>15. ASSUME NEW c \in Clients, WaitTimeout(c) PROVE Goal
  <2>1. phase = "open" /\ UNCHANGED <<phase, idle, live>>
    BY <1>15 DEF WaitTimeout, PcShape
  <2>2. CASE slot[c] = NoConn
    <3>1. Charged' = Charged
      BY <1>15, <2>2 DEF TypeOK, PcShape, Charged, Owning, WaitTimeout, DropReceiver
    <3> QED BY <1>15, <2>1, <2>2, <3>1, <1>a, <1>b DEF LiveIsExact, WithinMax, WaitTimeout, DropReceiver
  <2>3. CASE slot[c] # NoConn
    <3>1. c \in Charged /\ Charged' = Charged \ {c}
      BY <1>15, <2>3 DEF TypeOK, PcShape, Charged, Owning, WaitTimeout, DropReceiver
    <3>2. leaked' = leaked + 1
      BY <1>15, <2>3 DEF WaitTimeout, DropReceiver
    <3>c. Cardinality(Charged)' = Cardinality(Charged) - 1
      BY <3>1, DischargeOne
    <3> QED BY <2>1, <3>2, <1>a, <1>b, <3>c DEF LiveIsExact, WithinMax
  <2> QED BY <2>2, <2>3
<1>16. ASSUME NEW c \in Clients, CancelSent(c) PROVE Goal
  <2>1. phase = "open" /\ UNCHANGED <<phase, idle, live, slot>> /\ pc[c] = "sent"
    BY <1>16 DEF CancelSent, PcShape
  <2>2. CASE kind[c] = "pin"
    <3>1. pc' = [pc EXCEPT ![c] = "got"] /\ leaked' = leaked
      BY <1>16, <2>2, Zenon DEF CancelSent
    <3>2. Charged' = Charged
      BY <2>1, <3>1 DEF TypeOK, PcShape, Charged, Owning
    <3> QED BY <2>1, <3>1, <3>2 DEF LiveIsExact, WithinMax
  <2>3. CASE kind[c] # "pin"
    <3>1. pc' = [pc EXCEPT ![c] = "start"] /\ leaked' = leaked + 1
      BY <1>16, <2>3, Zenon DEF CancelSent
    <3>2. c \in Charged /\ Charged' = Charged \ {c}
      BY <2>1, <3>1 DEF TypeOK, PcShape, Charged, Owning
    <3>c. Cardinality(Charged)' = Cardinality(Charged) - 1
      BY <3>2, DischargeOne
    <3> QED BY <2>1, <3>1, <1>a, <1>b, <3>c DEF LiveIsExact, WithinMax
  <2> QED BY <2>2, <2>3
<1>17. ASSUME NEW c \in Clients, HandoffToWaiter(c) PROVE Goal
  <2>1. phase = "open" /\ UNCHANGED <<phase, idle, live, leaked>>
    BY <1>17 DEF HandoffToWaiter, PcShape, TypeOK
  <2>2. PICK n \in 1..Len(waiters) : HandoffToWaiter(c)!2!(n)
    BY <1>17 DEF HandoffToWaiter
  <2> DEFINE d == waiters[n]
  <2>3. d \in Clients /\ pc[d] = "wait" /\ slot[d] = NoConn
    BY <2>2 DEF LastOpen, WaiterRegistered, TypeOK
  <2>4. conn[c] # NoConn /\ pc[c] = "handoff" /\ pc' = [pc EXCEPT ![c] = "start"] /\ slot[c] = NoConn
    BY <1>17 DEF HandoffToWaiter, PcShape, TypeOK, Owning
  <2>5. slot' = [slot EXCEPT ![d] = conn[c]]
    BY <2>2
  <2>6. c \in Charged /\ d \notin Charged
    BY <2>3, <2>4 DEF Charged, Owning
  <2>7. Charged' = (Charged \ {c}) \cup {d}
    BY <2>3, <2>4, <2>5 DEF TypeOK, Charged, Owning
  <2> QED BY <2>1, <2>6, <2>7, ChargeMoves DEF LiveIsExact, WithinMax
<1>18. ASSUME NEW c \in Clients, HandoffToIdle(c) PROVE Goal
  <2>1. phase = "open" /\ UNCHANGED <<phase, live, leaked>>
    BY <1>18 DEF HandoffToIdle, PcShape, TypeOK
  <2>2. c \in Charged /\ Charged' = Charged \ {c}
    BY <1>18 DEF TypeOK, PcShape, Charged, Owning, HandoffToIdle
  <2>3. Len(idle') = Len(idle) + 1
    BY <1>18 DEF HandoffToIdle, TypeOK, PcShape, Owning
  <2>c. Cardinality(Charged)' = Cardinality(Charged) - 1
    BY <2>2, DischargeOne
  <2> QED BY <2>1, <2>2, <2>3, <1>a, <1>b, <2>c DEF LiveIsExact, WithinMax
<1>19. ASSUME NEW k \in Conns, Worker(k) PROVE Goal
  <2>1. UNCHANGED <<phase, live, leaked, idle, pc, slot>>
    BY <1>19 DEF Worker, WorkerDone, WorkerFail, ReconnectOk, ReconnectErr, WorkerHangup
  <2> QED BY <2>1 DEF LiveIsExact, WithinMax, Charged
<1>20. CASE Reap
  <2>1. PICK n \in 1..(Len(idle) - MinConns) : Reap!3!(n)
    BY <1>20 DEF Reap
  <2>2. phase \in {"open", "stopping"} /\ UNCHANGED <<pc, slot, leaked>>
    BY <1>20 DEF Reap
  <2>3. Len(idle') = Len(idle) - n /\ live' = live - n
    <3>1. n \in Nat /\ n <= Len(idle)
      BY <2>1, <1>a
    <3>2. \A i \in (n + 1)..Len(idle) : idle[i] \in Conns
      BY <3>1, <1>a, ElementOfSeq DEF TypeOK
    <3>3. Len(SubSeq(idle, n + 1, Len(idle))) = IF n + 1 <= Len(idle) THEN Len(idle) - (n + 1) + 1 ELSE 0
      BY <3>1, <3>2, <1>a, SubSeqProperties
    <3>4. idle' = SubSeq(idle, n + 1, Len(idle)) /\ live' = live - n
      BY <2>1
    <3> QED BY <3>1, <3>3, <3>4, <1>a
  <2>4. Cardinality(Charged)' = Cardinality(Charged)
    BY <2>2 DEF Charged
  <2>5. live = Len(idle) + Cardinality(Charged) + leaked
    BY <2>2 DEF LiveIsExact
  <2>6. n \in Nat
    BY <2>1, <1>a
  <2>7. live' = Len(idle') + Cardinality(Charged)' + leaked'
    BY <2>2, <2>3, <2>4, <2>5, <2>6, <1>a
  <2>8. live' <= MaxConns
    BY <2>3, <2>6, <1>a
  <2> QED BY <2>7, <2>8 DEF LiveIsExact, WithinMax
<1>21. CASE CloseJoined \/ DropPool \/ Drain \/ Closed \/ Finished \/ UNCHANGED vars
  BY <1>21 DEF CloseJoined, DropPool, Drain, Closed, Finished, vars, LiveIsExact, WithinMax, Charged
<1> QED
  BY <1>1, <1>2, <1>3, <1>4, <1>5, <1>6, <1>7, <1>8, <1>9, <1>10, <1>11, <1>12, <1>13,
     <1>14, <1>15, <1>16, <1>17, <1>18, <1>19, <1>20, <1>21
     DEF Next, Client, Acquire, Release

-----------------------------------------------------------------------------
(* Ownership *)

\* What removing connections from either end of `idle` leaves.
LEMMA IdleSlice ==
  ASSUME TypeOK, NEW m \in 1..(Len(idle) + 1), NEW n \in 0..Len(idle)
  PROVE  /\ SubSeq(idle, m, n) \in Seq(Conns)
         /\ \A i \in DOMAIN SubSeq(idle, m, n) :
              /\ m + i - 1 \in m..n /\ m + i - 1 \in DOMAIN idle
              /\ SubSeq(idle, m, n)[i] = idle[m + i - 1]
<1>1. Len(idle) \in Nat /\ DOMAIN idle = 1..Len(idle)
  BY LenProperties DEF TypeOK
<1>2. \A i \in m..n : idle[i] \in Conns
  BY <1>1, ElementOfSeq DEF TypeOK
<1>3. /\ SubSeq(idle, m, n) \in Seq(Conns)
      /\ Len(SubSeq(idle, m, n)) = IF m <= n THEN n - m + 1 ELSE 0
      /\ \A i \in 1..(n - m + 1) : SubSeq(idle, m, n)[i] = idle[m + i - 1]
  BY <1>1, <1>2, SubSeqProperties
<1>4. DOMAIN SubSeq(idle, m, n) = 1..(IF m <= n THEN n - m + 1 ELSE 0)
  BY <1>3, LenProperties
<1> QED BY <1>1, <1>3, <1>4

\* No step puts a connection in two places.
LEMMA OwnerStep ==
  ASSUME IInv, [Next]_vars
  PROVE  SingleOwner'
<1> USE PoolAssumption DEF IInv, poolState, clientState, connState
<1>1. ASSUME UNCHANGED <<idle, doomed, conn, slot>> PROVE SingleOwner'
  BY <1>1 DEF SingleOwner
<1>2. ASSUME NEW c \in Clients, AcquireGot(c) PROVE SingleOwner'
  <2>1. PICK n \in 1..Len(idle) : AcquireGot(c)!2!(n)
    BY <1>2 DEF AcquireGot
  <2>2. Len(idle) \in Nat /\ DOMAIN idle = 1..Len(idle)
    BY LenProperties DEF TypeOK
  <2>3. \A i \in DOMAIN idle' : i \in DOMAIN idle /\ i < n /\ idle'[i] = idle[i]
    BY <2>1, <2>2, IdleSlice
  <2>4. conn' = [conn EXCEPT ![c] = idle[n]] /\ UNCHANGED <<slot, doomed>> /\ n \in DOMAIN idle
    BY <1>2, <2>1, <2>2 DEF AcquireGot
  <2> QED BY <2>2, <2>3, <2>4 DEF SingleOwner, TypeOK
<1>3. ASSUME NEW c \in Clients, AcquireCreate(c) PROVE SingleOwner'
  BY <1>3 DEF SingleOwner, AcquireCreate
<1>4. ASSUME NEW c \in Clients, AcquireWait(c) PROVE SingleOwner'
  BY <1>4 DEF SingleOwner, AcquireWait
<1>5. ASSUME NEW c \in Clients, SpawnOk(c) PROVE SingleOwner'
  <2>1. PICK k \in Conns : SpawnOk(c)!2!(k)
    BY <1>5 DEF SpawnOk
  <2>2. /\ k \notin Elems(idle) /\ k \notin Elems(doomed)
        /\ \A d \in Clients : conn[d] # k /\ slot[d] # k
    BY <2>1 DEF Fresh, Referenced
  <2>3. conn' = [conn EXCEPT ![c] = k] /\ UNCHANGED <<idle, slot, doomed>>
    BY <1>5, <2>1 DEF SpawnOk
  <2> QED BY <2>2, <2>3 DEF SingleOwner, TypeOK, Elems
<1>6. ASSUME NEW c \in Clients, WaitAlive(c) PROVE SingleOwner'
  BY <1>6 DEF SingleOwner, TypeOK, WaitAlive
<1>7. ASSUME NEW c \in Clients, WaitDead(c) PROVE SingleOwner'
  BY <1>7 DEF SingleOwner, TypeOK, WaitDead
<1>8. ASSUME NEW c \in Clients, WaitTimeout(c) PROVE SingleOwner'
  BY <1>8 DEF SingleOwner, TypeOK, WaitTimeout, DropReceiver
<1>9. ASSUME NEW c \in Clients, ReleaseDead(c) PROVE SingleOwner'
  BY <1>9 DEF SingleOwner, TypeOK, ReleaseDead
<1>10. ASSUME NEW c \in Clients, CancelSent(c) PROVE SingleOwner'
  <2>1. conn' = conn \/ conn' = [conn EXCEPT ![c] = NoConn]
    BY <1>10, Zenon DEF CancelSent
  <2>2. UNCHANGED <<idle, doomed, slot>>
    BY <1>10 DEF CancelSent
  <2>3. CASE conn' = conn
    BY <2>2, <2>3 DEF SingleOwner
  <2>4. CASE conn' = [conn EXCEPT ![c] = NoConn]
    BY <2>2, <2>4 DEF SingleOwner, TypeOK
  <2> QED BY <2>1, <2>3, <2>4
<1>11. ASSUME NEW c \in Clients, HandoffToWaiter(c) PROVE SingleOwner'
  <2>1. PICK d \in Clients : slot' = [slot EXCEPT ![d] = conn[c]]
    <3>1. PICK n \in 1..Len(waiters) : HandoffToWaiter(c)!2!(n)
      BY <1>11 DEF HandoffToWaiter
    <3>2. waiters[n] \in Clients
      BY <3>1, ElementOfSeq DEF LastOpen, TypeOK
    <3> QED BY <3>1, <3>2
  <2>2. conn' = [conn EXCEPT ![c] = NoConn] /\ UNCHANGED <<idle, doomed>>
    BY <1>11 DEF HandoffToWaiter
  <2> QED BY <2>1, <2>2 DEF SingleOwner, TypeOK
<1>12. ASSUME NEW c \in Clients, HandoffToIdle(c) PROVE SingleOwner'
  <2>1. conn[c] \in Conns /\ Len(idle) \in Nat /\ DOMAIN idle = 1..Len(idle)
    BY <1>12, LenProperties DEF HandoffToIdle, PcShape, Owning, TypeOK
  <2>2. /\ DOMAIN idle' = 1..(Len(idle) + 1) /\ idle'[Len(idle) + 1] = conn[c]
        /\ \A i \in DOMAIN idle : idle'[i] = idle[i]
    BY <1>12, <2>1, AppendProperties DEF HandoffToIdle, TypeOK
  <2>3. conn' = [conn EXCEPT ![c] = NoConn] /\ UNCHANGED <<slot, doomed>>
    BY <1>12 DEF HandoffToIdle
  <2>4. /\ \A i \in DOMAIN idle : idle[i] # conn[c]
        /\ \A i \in DOMAIN doomed : doomed[i] # conn[c]
        /\ \A d \in Clients : slot[d] # conn[c] /\ (d # c => conn[d] # conn[c])
    BY <2>1 DEF SingleOwner
  <2>5. \A i \in DOMAIN idle' : (i \in DOMAIN idle /\ idle'[i] = idle[i]) \/ (i = Len(idle) + 1 /\ idle'[i] = conn[c])
    BY <2>1, <2>2
  <2>6. \A i, j \in DOMAIN idle' : idle'[i] = idle'[j] => i = j
    BY <2>4, <2>5 DEF SingleOwner
  <2>7. \A d \in Clients : conn'[d] = IF d = c THEN NoConn ELSE conn[d]
    BY <2>3 DEF TypeOK
  <2>8. \A d \in Clients : \A i \in DOMAIN idle' : idle'[i] \notin {conn'[d], slot'[d]}
    BY <2>1, <2>3, <2>4, <2>5, <2>7 DEF SingleOwner, TypeOK
  <2>9. \A i \in DOMAIN idle', j \in DOMAIN doomed' : idle'[i] # doomed'[j]
    BY <2>3, <2>4, <2>5 DEF SingleOwner
  <2> QED BY <2>3, <2>6, <2>7, <2>8, <2>9 DEF SingleOwner, TypeOK
<1>13. CASE Reap
  <2>1. PICK n \in 1..(Len(idle) - MinConns) : Reap!3!(n)
    BY <1>13 DEF Reap
  <2>2. Len(idle) \in Nat /\ DOMAIN idle = 1..Len(idle) /\ n \in 1..Len(idle)
    BY <2>1, LenProperties DEF TypeOK
  <2>3. \A i \in DOMAIN doomed' : i \in DOMAIN idle /\ i <= n /\ doomed'[i] = idle[i]
    BY <2>1, <2>2, IdleSlice
  <2>4. \A i \in DOMAIN idle' : i \in Int /\ n + i \in DOMAIN idle /\ n + i > n /\ idle'[i] = idle[n + i]
    BY <2>1, <2>2, IdleSlice
  <2>5. UNCHANGED <<conn, slot>>
    BY <1>13 DEF Reap
  <2> QED BY <2>2, <2>3, <2>4, <2>5 DEF SingleOwner
<1>14. CASE CloseJoined
  <2>1. \A i \in DOMAIN doomed' : i \in Int /\ i + 1 \in DOMAIN doomed /\ doomed'[i] = doomed[i + 1]
    BY <1>14, HeadTailProperties, LenProperties DEF CloseJoined, TypeOK
  <2>2. UNCHANGED <<idle, conn, slot>>
    BY <1>14 DEF CloseJoined
  <2> QED BY <2>1, <2>2 DEF SingleOwner
<1>15. CASE Drain
  BY <1>15 DEF Drain, SingleOwner
<1>16. CASE DropPool \/ Closed \/ Finished \/ UNCHANGED vars
  BY <1>16, <1>1 DEF DropPool, Closed, Finished, vars
<1>17. ASSUME NEW k \in Conns, Worker(k) PROVE SingleOwner'
  BY <1>17, <1>1 DEF Worker, WorkerDone, WorkerFail, ReconnectOk, ReconnectErr, WorkerHangup
<1>18. ASSUME NEW c \in Clients,
              Begin(c) \/ SpawnErr(c) \/ SendOk(c) \/ SendClosed(c) \/ Receive(c) \/ DropPin(c) \/ ReleaseCheck(c)
       PROVE  SingleOwner'
  BY <1>18, <1>1 DEF Begin, SpawnErr, SendOk, SendClosed, Receive, DropPin, ReleaseCheck
<1> QED
  BY <1>1, <1>2, <1>3, <1>4, <1>5, <1>6, <1>7, <1>8, <1>9, <1>10, <1>11, <1>12, <1>13,
     <1>14, <1>15, <1>16, <1>17, <1>18
     DEF Next, Client, Acquire, Release

-----------------------------------------------------------------------------
(* Wakeups *)

\* Every step keeps each waiter registered once, and hands over rather than parks a
\* connection while one listens.
LEMMA WaiterStep ==
  ASSUME IInv, [Next]_vars
  PROVE  WaiterRegistered' /\ NoIdleWhileWaiting'
<1> USE PoolAssumption DEF IInv, poolState, clientState, connState
<1> DEFINE Goal == WaiterRegistered' /\ NoIdleWhileWaiting'
<1>a. /\ Len(waiters) \in Nat /\ DOMAIN waiters = 1..Len(waiters)
      /\ \A i \in DOMAIN waiters : waiters[i] \in Clients \cup {NoClient}
  BY LenProperties, ElementOfSeq DEF TypeOK
<1>1. ASSUME UNCHANGED <<idle, waiters, pc, slot>> PROVE Goal
  BY <1>1 DEF WaiterRegistered, NoIdleWhileWaiting
<1>2. ASSUME NEW c \in Clients, Begin(c) PROVE Goal
  BY <1>2 DEF WaiterRegistered, NoIdleWhileWaiting, TypeOK, Begin
<1>3. ASSUME NEW c \in Clients, AcquireCreate(c) PROVE Goal
  BY <1>3 DEF WaiterRegistered, NoIdleWhileWaiting, TypeOK, AcquireCreate
<1>4. ASSUME NEW c \in Clients, SpawnOk(c) PROVE Goal
  BY <1>4 DEF WaiterRegistered, NoIdleWhileWaiting, TypeOK, SpawnOk
<1>5. ASSUME NEW c \in Clients, SpawnErr(c) PROVE Goal
  BY <1>5 DEF WaiterRegistered, NoIdleWhileWaiting, TypeOK, SpawnErr
<1>6. ASSUME NEW c \in Clients, SendOk(c) PROVE Goal
  BY <1>6 DEF WaiterRegistered, NoIdleWhileWaiting, TypeOK, SendOk
<1>7. ASSUME NEW c \in Clients, SendClosed(c) PROVE Goal
  BY <1>7 DEF WaiterRegistered, NoIdleWhileWaiting, TypeOK, SendClosed
<1>8. ASSUME NEW c \in Clients, Receive(c) PROVE Goal
  BY <1>8 DEF WaiterRegistered, NoIdleWhileWaiting, TypeOK, Receive
<1>9. ASSUME NEW c \in Clients, DropPin(c) PROVE Goal
  BY <1>9 DEF WaiterRegistered, NoIdleWhileWaiting, TypeOK, DropPin
<1>10. ASSUME NEW c \in Clients, ReleaseDead(c) PROVE Goal
  BY <1>10 DEF WaiterRegistered, NoIdleWhileWaiting, TypeOK, ReleaseDead
<1>11. ASSUME NEW c \in Clients, ReleaseCheck(c) PROVE Goal
  BY <1>11 DEF WaiterRegistered, NoIdleWhileWaiting, TypeOK, ReleaseCheck
<1>12. ASSUME NEW c \in Clients, AcquireGot(c) PROVE Goal
  <2>1. idle # <<>> /\ UNCHANGED <<waiters, slot>> /\ pc[c] = "lock" /\ pc' = [pc EXCEPT ![c] = "got"]
    BY <1>12, EmptySeq DEF AcquireGot, TypeOK
  <2> QED BY <2>1 DEF WaiterRegistered, NoIdleWhileWaiting, TypeOK
<1>13. ASSUME NEW c \in Clients, AcquireWait(c) PROVE Goal
  <2>1. /\ DOMAIN waiters' = 1..(Len(waiters) + 1) /\ waiters'[Len(waiters) + 1] = c
        /\ \A i \in DOMAIN waiters : waiters'[i] = waiters[i]
    BY <1>13, <1>a, AppendProperties DEF AcquireWait, TypeOK
  <2>2. idle' = <<>> /\ UNCHANGED slot /\ pc[c] = "lock" /\ pc' = [pc EXCEPT ![c] = "wait"]
    BY <1>13 DEF AcquireWait
  <2>3. slot[c] = NoConn
    BY <2>2 DEF PcShape
  <2>4. \A i \in DOMAIN waiters : waiters[i] # c
    BY <2>2 DEF WaiterRegistered
  <2>5. \A i \in DOMAIN waiters' : (i \in DOMAIN waiters /\ waiters'[i] = waiters[i]) \/ (i = Len(waiters) + 1 /\ waiters'[i] = c)
    BY <1>a, <2>1
  <2>6. \A d \in Clients : pc'[d] = IF d = c THEN "wait" ELSE pc[d]
    BY <2>2 DEF TypeOK
  <2>7. (WaiterRegistered!1)'
    BY <1>a, <2>1, <2>2, <2>6 DEF WaiterRegistered
  <2>8. (WaiterRegistered!2)'
    BY <1>a, <2>2, <2>3, <2>5, <2>6 DEF WaiterRegistered
  <2>9. (WaiterRegistered!3)'
    BY <1>a, <2>4, <2>5 DEF WaiterRegistered
  <2> QED BY <2>2, <2>7, <2>8, <2>9 DEF WaiterRegistered, NoIdleWhileWaiting
<1>14. ASSUME NEW c \in Clients, WaitAlive(c) PROVE Goal
  <2>1. \A i \in DOMAIN waiters : waiters[i] # c
    BY <1>14 DEF WaiterRegistered, WaitAlive
  <2> QED BY <1>14, <2>1 DEF WaiterRegistered, NoIdleWhileWaiting, TypeOK, WaitAlive
<1>15. ASSUME NEW c \in Clients, WaitDead(c) PROVE Goal
  <2>1. \A i \in DOMAIN waiters : waiters[i] # c
    BY <1>15 DEF WaiterRegistered, WaitDead
  <2> QED BY <1>15, <2>1 DEF WaiterRegistered, NoIdleWhileWaiting, TypeOK, WaitDead
<1>16. ASSUME NEW c \in Clients, WaitTimeout(c) PROVE Goal
  <2>1. /\ DOMAIN waiters' = DOMAIN waiters
        /\ \A i \in DOMAIN waiters : waiters'[i] = IF waiters[i] = c THEN NoClient ELSE waiters[i]
    <3>1. waiters' = Forget(waiters, c) /\ waiters \in Seq(Clients \cup {NoClient})
      BY <1>16 DEF WaitTimeout, DropReceiver, TypeOK
    <3> QED BY <3>1, ForgetSeq
  <2>2. UNCHANGED idle /\ pc' = [pc EXCEPT ![c] = "start"] /\ slot' = [slot EXCEPT ![c] = NoConn]
    BY <1>16 DEF WaitTimeout, DropReceiver
  <2> QED BY <1>a, <2>1, <2>2 DEF WaiterRegistered, NoIdleWhileWaiting, TypeOK
<1>17. ASSUME NEW c \in Clients, CancelSent(c) PROVE Goal
  <2>1. UNCHANGED <<idle, waiters, slot>> /\ pc[c] = "sent"
    BY <1>17 DEF CancelSent
  <2>2. PICK w \in {"got", "start"} : pc' = [pc EXCEPT ![c] = w]
    BY <1>17, Zenon DEF CancelSent
  <2> QED BY <2>1, <2>2 DEF WaiterRegistered, NoIdleWhileWaiting, TypeOK
<1>18. ASSUME NEW c \in Clients, HandoffToWaiter(c) PROVE Goal
  <2>1. PICK n \in 1..Len(waiters) : HandoffToWaiter(c)!2!(n)
    BY <1>18 DEF HandoffToWaiter
  <2> DEFINE d == waiters[n]
  <2>2. d \in Clients /\ d # NoClient /\ n \in DOMAIN waiters
    BY <1>a, <2>1 DEF LastOpen
  <2>3. \A i \in DOMAIN waiters' : i \in DOMAIN waiters /\ i < n /\ waiters'[i] = waiters[i]
    BY <1>a, <2>1, SubSeqProperties, LenProperties
  <2>4. \A i \in DOMAIN waiters : i < n => i \in DOMAIN waiters'
    BY <1>a, <2>1, SubSeqProperties, LenProperties
  <2>5. UNCHANGED idle /\ pc[c] = "handoff" /\ pc' = [pc EXCEPT ![c] = "start"] /\ slot' = [slot EXCEPT ![d] = conn[c]]
    BY <1>18, <2>1 DEF HandoffToWaiter
  <2>6. idle = <<>>
    BY <2>2 DEF NoIdleWhileWaiting
  <2>7. \A i \in DOMAIN waiters : waiters[i] # NoClient => i <= n
    BY <1>a, <2>1 DEF LastOpen
  <2>8. conn[c] # NoConn /\ slot[d] = NoConn /\ pc[d] = "wait"
    BY <2>2, <2>5 DEF PcShape, Owning, WaiterRegistered
  <2>9. \A e \in Clients : slot'[e] = (IF e = d THEN conn[c] ELSE slot[e]) /\ pc'[e] = (IF e = c THEN "start" ELSE pc[e])
    BY <2>5 DEF TypeOK
  <2>10. (WaiterRegistered!1)'
    <3> SUFFICES ASSUME NEW e \in Clients, pc'[e] = "wait", slot'[e] = NoConn
                 PROVE  \E i \in DOMAIN waiters' : waiters'[i] = e
      OBVIOUS
    <3>1. pc[e] = "wait" /\ slot[e] = NoConn /\ e # d
      BY <2>8, <2>9
    <3>2. PICK i \in DOMAIN waiters : waiters[i] = e
      BY <3>1 DEF WaiterRegistered
    <3>3. i < n
      BY <1>a, <2>2, <2>7, <3>1, <3>2
    <3> QED BY <2>3, <2>4, <3>2, <3>3
  <2>11. (WaiterRegistered!2)'
    BY <1>a, <2>2, <2>3, <2>5, <2>9 DEF WaiterRegistered
  <2>12. (WaiterRegistered!3)'
    BY <2>3 DEF WaiterRegistered
  <2> QED BY <2>5, <2>6, <2>10, <2>11, <2>12 DEF WaiterRegistered, NoIdleWhileWaiting
<1>19. ASSUME NEW c \in Clients, HandoffToIdle(c) PROVE Goal
  <2>1. waiters' = <<>> /\ UNCHANGED slot /\ pc' = [pc EXCEPT ![c] = "start"] /\ \A i \in DOMAIN waiters : waiters[i] = NoClient
    BY <1>19, <1>a DEF HandoffToIdle
  <2> QED BY <2>1 DEF WaiterRegistered, NoIdleWhileWaiting, TypeOK
<1>20. CASE Reap
  <2>1. idle # <<>> /\ UNCHANGED <<waiters, pc, slot>>
    BY <1>20, EmptySeq, LenProperties DEF Reap, TypeOK
  <2> QED BY <2>1 DEF WaiterRegistered, NoIdleWhileWaiting
<1>21. CASE Drain
  BY <1>21 DEF Drain, WaiterRegistered, NoIdleWhileWaiting
<1>22. CASE CloseJoined \/ DropPool \/ Closed \/ Finished \/ UNCHANGED vars
  BY <1>22, <1>1 DEF CloseJoined, DropPool, Closed, Finished, vars
<1>23. ASSUME NEW k \in Conns, Worker(k) PROVE Goal
  BY <1>23, <1>1 DEF Worker, WorkerDone, WorkerFail, ReconnectOk, ReconnectErr, WorkerHangup
<1> QED
  BY <1>1, <1>2, <1>3, <1>4, <1>5, <1>6, <1>7, <1>8, <1>9, <1>10, <1>11, <1>12, <1>13,
     <1>14, <1>15, <1>16, <1>17, <1>18, <1>19, <1>20, <1>21, <1>22, <1>23
     DEF Next, Client, Acquire, Release

-----------------------------------------------------------------------------
(* Commands and replies *)

\* Every step keeps commands in the channels paired with the replies awaited.
LEMMA PendingStep ==
  ASSUME IInv, [Next]_vars
  PROVE  PendingIsQueued'
<1> USE PoolAssumption DEF IInv, poolState, clientState, connState
<1>a. \A k \in Conns : /\ queue[k] \in Seq(Clients \cup {NoClient}) /\ Len(queue[k]) \in Nat
                       /\ DOMAIN queue[k] = 1..Len(queue[k])
                       /\ \A i \in DOMAIN queue[k] : queue[k][i] \in Clients \cup {NoClient}
  BY LenProperties, ElementOfSeq DEF TypeOK
<1>b. \A c \in Clients : pc[c] \in Owning => conn[c] \in Conns
  BY DEF PcShape, TypeOK
<1>c. \A c \in Clients : reply[c] = "pending" => pc[c] = "sent" /\ conn[c] \in Conns
  BY <1>b DEF PcShape, Owning
<1>1. ASSUME UNCHANGED <<reply, worker, queue, conn>>,
             \A c \in Clients : pc[c] = "sent" => pc'[c] = "sent"
      PROVE  PendingIsQueued'
  BY <1>1, <1>a DEF PendingIsQueued
<1>2. ASSUME NEW c \in Clients, Begin(c) PROVE PendingIsQueued'
  BY <1>2, <1>1 DEF Begin, TypeOK
<1>3. ASSUME NEW c \in Clients, AcquireCreate(c) PROVE PendingIsQueued'
  BY <1>3, <1>1 DEF AcquireCreate, TypeOK
<1>4. ASSUME NEW c \in Clients, AcquireWait(c) PROVE PendingIsQueued'
  BY <1>4, <1>1 DEF AcquireWait, TypeOK
<1>5. ASSUME NEW c \in Clients, SpawnErr(c) PROVE PendingIsQueued'
  BY <1>5, <1>1 DEF SpawnErr, TypeOK
<1>6. ASSUME NEW c \in Clients, WaitDead(c) PROVE PendingIsQueued'
  BY <1>6, <1>1 DEF WaitDead, TypeOK
<1>7. ASSUME NEW c \in Clients, WaitTimeout(c) PROVE PendingIsQueued'
  BY <1>7, <1>1 DEF WaitTimeout, TypeOK
<1>8. ASSUME NEW c \in Clients, SendClosed(c) PROVE PendingIsQueued'
  BY <1>8, <1>1 DEF SendClosed, TypeOK
<1>9. ASSUME NEW c \in Clients, ReleaseCheck(c) PROVE PendingIsQueued'
  BY <1>9, <1>1 DEF ReleaseCheck, TypeOK
<1>10. ASSUME NEW c \in Clients, AcquireGot(c) PROVE PendingIsQueued'
  <2>1. UNCHANGED <<reply, worker, queue>> /\ pc[c] # "sent"
    BY <1>10 DEF AcquireGot
  <2>2. \A d \in Clients : d # c => conn'[d] = conn[d] /\ pc'[d] = pc[d]
    BY <1>10 DEF AcquireGot, TypeOK
  <2> QED BY <1>a, <1>c, <2>1, <2>2 DEF PendingIsQueued
<1>11. ASSUME NEW c \in Clients, WaitAlive(c) PROVE PendingIsQueued'
  <2>1. UNCHANGED <<reply, worker, queue>> /\ pc[c] # "sent"
    BY <1>11 DEF WaitAlive
  <2>2. \A d \in Clients : d # c => conn'[d] = conn[d] /\ pc'[d] = pc[d]
    BY <1>11 DEF WaitAlive, TypeOK
  <2> QED BY <1>a, <1>c, <2>1, <2>2 DEF PendingIsQueued
<1>12. ASSUME NEW c \in Clients, ReleaseDead(c) PROVE PendingIsQueued'
  <2>1. UNCHANGED <<reply, worker, queue>> /\ pc[c] # "sent"
    BY <1>12 DEF ReleaseDead
  <2>2. \A d \in Clients : d # c => conn'[d] = conn[d] /\ pc'[d] = pc[d]
    BY <1>12 DEF ReleaseDead, TypeOK
  <2> QED BY <1>a, <1>c, <2>1, <2>2 DEF PendingIsQueued
<1>13. ASSUME NEW c \in Clients, HandoffToWaiter(c) PROVE PendingIsQueued'
  <2>1. UNCHANGED <<reply, worker, queue>> /\ pc[c] # "sent"
    BY <1>13 DEF HandoffToWaiter
  <2>2. \A d \in Clients : d # c => conn'[d] = conn[d] /\ pc'[d] = pc[d]
    BY <1>13 DEF HandoffToWaiter, TypeOK
  <2> QED BY <1>a, <1>c, <2>1, <2>2 DEF PendingIsQueued
<1>14. ASSUME NEW c \in Clients, HandoffToIdle(c) PROVE PendingIsQueued'
  <2>1. UNCHANGED <<reply, worker, queue>> /\ pc[c] # "sent"
    BY <1>14 DEF HandoffToIdle
  <2>2. \A d \in Clients : d # c => conn'[d] = conn[d] /\ pc'[d] = pc[d]
    BY <1>14 DEF HandoffToIdle, TypeOK
  <2> QED BY <1>a, <1>c, <2>1, <2>2 DEF PendingIsQueued
<1>15. ASSUME NEW c \in Clients, SpawnOk(c) PROVE PendingIsQueued'
  <2>1. UNCHANGED <<reply, queue>> /\ pc[c] = "create"
    BY <1>15 DEF SpawnOk
  <2>2. \A d \in Clients : d # c => conn'[d] = conn[d] /\ pc'[d] = pc[d]
    BY <1>15 DEF SpawnOk, TypeOK
  <2>3. \A k \in Conns : worker'[k] = "exited" => worker[k] = "exited"
    BY <1>15 DEF SpawnOk, TypeOK
  <2> QED BY <1>a, <1>c, <2>1, <2>2, <2>3 DEF PendingIsQueued
<1>16. ASSUME NEW c \in Clients, SendOk(c) PROVE PendingIsQueued'
  <2>1. conn[c] \in Conns /\ worker[conn[c]] # "exited" /\ UNCHANGED <<worker, conn>> /\ pc[c] = "got"
    BY <1>16, <1>b DEF SendOk, Owning
  <2> DEFINE k == conn[c]
  <2>q. queue[k] \in Seq(Clients \cup {NoClient}) /\ Len(queue[k]) \in Nat /\ DOMAIN queue[k] = 1..Len(queue[k])
    BY <1>a, <2>1
  <2>2. /\ DOMAIN queue'[k] = 1..(Len(queue[k]) + 1) /\ queue'[k][Len(queue[k]) + 1] = c
        /\ \A i \in DOMAIN queue[k] : queue'[k][i] = queue[k][i]
        /\ \A h \in Conns : h # k => queue'[h] = queue[h]
    BY <1>16, <1>a, <2>1, AppendProperties DEF SendOk, TypeOK
  <2>3. \A d \in Clients : /\ reply'[d] = (IF d = c THEN "pending" ELSE reply[d])
                           /\ pc'[d] = (IF d = c THEN "sent" ELSE pc[d])
    BY <1>16 DEF SendOk, TypeOK
  <2>4. \A h \in Conns : \A i \in DOMAIN queue[h] : queue[h][i] # c
    BY <1>a, <2>1 DEF PendingIsQueued
  <2>5. \A i \in DOMAIN queue'[k] :
          \/ i \in DOMAIN queue[k] /\ queue'[k][i] = queue[k][i]
          \/ i = Len(queue[k]) + 1 /\ queue'[k][i] = c
    <3>1. queue'[k] = Append(queue[k], c)
      BY <1>16, <2>1 DEF SendOk, TypeOK
    <3>2. c \in Clients \cup {NoClient}
      OBVIOUS
    <3> QED BY <2>q, <3>1, <3>2, AppendEntries
  <2>6. (PendingIsQueued!1)'
    <3> SUFFICES ASSUME NEW d \in Clients, reply'[d] = "pending"
                 PROVE  worker'[conn'[d]] # "exited" /\ \E i \in DOMAIN queue'[conn'[d]] : queue'[conn'[d]][i] = d
      OBVIOUS
    <3>1. CASE d = c
      <4>1. Len(queue[k]) + 1 \in DOMAIN queue'[k]
        BY <2>q, <2>2
      <4> QED BY <2>1, <2>2, <3>1, <4>1
    <3>2. CASE d # c
      <4>1. reply[d] = "pending" /\ conn[d] \in Conns
        BY <1>c, <2>3, <3>2
      <4>2. PICK i \in DOMAIN queue[conn[d]] : queue[conn[d]][i] = d
        BY <4>1 DEF PendingIsQueued
      <4>3. i \in DOMAIN queue'[conn[d]] /\ queue'[conn[d]][i] = d
        <5>1. CASE conn[d] = k
          BY <2>q, <2>2, <4>2, <5>1
        <5>2. CASE conn[d] # k
          BY <2>2, <4>1, <4>2, <5>2
        <5> QED BY <5>1, <5>2
      <4> QED BY <2>1, <4>1, <4>3 DEF PendingIsQueued
    <3> QED BY <3>1, <3>2
  <2>7. (PendingIsQueued!2)'
    <3> SUFFICES ASSUME NEW h \in Conns, NEW i \in DOMAIN queue'[h], queue'[h][i] # NoClient
                 PROVE  /\ conn'[queue'[h][i]] = h /\ pc'[queue'[h][i]] = "sent" /\ reply'[queue'[h][i]] = "pending"
                        /\ \A j \in DOMAIN queue'[h] : queue'[h][j] = queue'[h][i] => i = j
      OBVIOUS
    <3>1. CASE h # k
      BY <1>a, <2>1, <2>2, <2>3, <2>4, <3>1, SMTT(30) DEF PendingIsQueued
    <3>2. CASE h = k
      BY <1>a, <2>1, <2>3, <2>4, <2>5, <3>2 DEF PendingIsQueued
    <3> QED BY <3>1, <3>2
  <2> QED BY <2>6, <2>7 DEF PendingIsQueued
<1>17. ASSUME NEW c \in Clients, Receive(c) PROVE PendingIsQueued'
  <2>1. reply[c] # "pending" /\ UNCHANGED <<worker, queue, conn>>
    BY <1>17 DEF Receive
  <2>2. \A d \in Clients : /\ reply'[d] = (IF d = c THEN "none" ELSE reply[d])
                           /\ d # c => pc'[d] = pc[d]
    BY <1>17 DEF Receive, TypeOK
  <2> QED BY <1>a, <1>c, <2>1, <2>2 DEF PendingIsQueued
<1>18. ASSUME NEW c \in Clients, CancelSent(c) PROVE PendingIsQueued'
  <2>1. conn[c] \in Conns /\ UNCHANGED worker
    BY <1>18, <1>b DEF CancelSent, Owning
  <2> DEFINE k == conn[c]
  <2>2. queue' = [queue EXCEPT ![k] = Forget(@, c)]
    BY <1>18 DEF CancelSent
  <2>3. \A h \in Conns : /\ DOMAIN queue'[h] = DOMAIN queue[h]
                         /\ \A i \in DOMAIN queue[h] : queue'[h][i] = IF h = k /\ queue[h][i] = c THEN NoClient ELSE queue[h][i]
    <3>1. /\ DOMAIN queue'[k] = DOMAIN queue[k]
          /\ \A i \in DOMAIN queue[k] : queue'[k][i] = IF queue[k][i] = c THEN NoClient ELSE queue[k][i]
      <4>1. queue[k] \in Seq(Clients \cup {NoClient}) /\ queue'[k] = Forget(queue[k], c)
        BY <1>a, <2>1, <2>2 DEF TypeOK
      <4> QED BY <4>1, ForgetSeq
    <3>2. \A h \in Conns : h # k => queue'[h] = queue[h]
      BY <2>2 DEF TypeOK
    <3> QED BY <3>1, <3>2
  <2>4. \A d \in Clients : d # c => reply'[d] = reply[d] /\ pc'[d] = pc[d] /\ conn'[d] = conn[d]
    BY <1>18 DEF CancelSent, TypeOK
  <2>5. reply'[c] # "pending"
    BY <1>18 DEF CancelSent, TypeOK
  <2>6. \A h \in Conns : \A i \in DOMAIN queue[h] : queue[h][i] = c => h = k
    BY PoolAssumption DEF PendingIsQueued
  <2>7. (PendingIsQueued!1)'
    <3> SUFFICES ASSUME NEW d \in Clients, reply'[d] = "pending"
                 PROVE  /\ worker'[conn'[d]] # "exited"
                        /\ \E i \in DOMAIN queue'[conn'[d]] : queue'[conn'[d]][i] = d
      OBVIOUS
    <3>1. d # c /\ reply[d] = "pending" /\ conn'[d] = conn[d] /\ conn[d] \in Conns
      BY <1>c, <2>4, <2>5
    <3>2. PICK i \in DOMAIN queue[conn[d]] : queue[conn[d]][i] = d
      BY <3>1 DEF PendingIsQueued
    <3>3. i \in DOMAIN queue'[conn[d]] /\ queue'[conn[d]][i] = d
      BY <2>3, <3>1, <3>2
    <3> QED BY <2>1, <3>1, <3>3 DEF PendingIsQueued
  <2>8. (PendingIsQueued!2)'
    <3> SUFFICES ASSUME NEW h \in Conns, NEW i \in DOMAIN queue'[h], queue'[h][i] # NoClient
                 PROVE  /\ conn'[queue'[h][i]] = h /\ pc'[queue'[h][i]] = "sent" /\ reply'[queue'[h][i]] = "pending"
                        /\ \A j \in DOMAIN queue'[h] : queue'[h][j] = queue'[h][i] => i = j
      OBVIOUS
    <3>1. i \in DOMAIN queue[h] /\ queue[h][i] \in Clients \cup {NoClient}
      BY <1>a, <2>3
    <3>2. queue[h][i] # c /\ queue'[h][i] = queue[h][i]
      BY <2>3, <2>6, <3>1
    <3>3. \A j \in DOMAIN queue'[h] : queue'[h][j] = queue[h][i] => j \in DOMAIN queue[h] /\ queue[h][j] = queue[h][i]
      BY <2>3, <3>1, <3>2
    <3> QED BY <2>4, <3>1, <3>2, <3>3 DEF PendingIsQueued
  <2> QED BY <2>7, <2>8 DEF PendingIsQueued
<1>19. ASSUME NEW c \in Clients, DropPin(c) PROVE PendingIsQueued'
  <2>1. conn[c] \in Conns /\ UNCHANGED <<worker, conn, reply>> /\ pc[c] = "got"
    BY <1>19, <1>b DEF DropPin, Owning
  <2>2. \A d \in Clients : d # c => pc'[d] = pc[d]
    BY <1>19 DEF DropPin, TypeOK
  <2>3. \A h \in Conns : /\ DOMAIN queue[h] \subseteq DOMAIN queue'[h]
                         /\ \A i \in DOMAIN queue[h] : queue'[h][i] = queue[h][i]
                         /\ \A i \in DOMAIN queue'[h] : i \in DOMAIN queue[h] \/ queue'[h][i] = NoClient
    <3>1. CASE UNCHANGED queue
      BY <3>1
    <3>2. CASE queue' = [queue EXCEPT ![conn[c]] = Append(@, NoClient)]
      <4>1. /\ queue'[conn[c]] = Append(queue[conn[c]], NoClient)
            /\ queue[conn[c]] \in Seq(Clients \cup {NoClient})
            /\ \A h \in Conns : h # conn[c] => queue'[h] = queue[h]
        BY <2>1, <3>2 DEF TypeOK
      <4>2. /\ \A i \in DOMAIN queue[conn[c]] :
                 i \in DOMAIN queue'[conn[c]] /\ queue'[conn[c]][i] = queue[conn[c]][i]
            /\ \A i \in DOMAIN queue'[conn[c]] :
                 i \in DOMAIN queue[conn[c]] \/ queue'[conn[c]][i] = NoClient
        BY <4>1, AppendEntries
      <4>3. SUFFICES ASSUME NEW h \in Conns
                     PROVE  /\ DOMAIN queue[h] \subseteq DOMAIN queue'[h]
                            /\ \A i \in DOMAIN queue[h] : queue'[h][i] = queue[h][i]
                            /\ \A i \in DOMAIN queue'[h] : i \in DOMAIN queue[h] \/ queue'[h][i] = NoClient
        OBVIOUS
      <4>4. CASE h = conn[c]
        BY <4>2, <4>4
      <4>5. CASE h # conn[c]
        BY <4>1, <4>5
      <4> QED BY <4>4, <4>5
    <3> QED BY <1>19, <3>1, <3>2 DEF DropPin
  <2> QED BY <1>a, <1>c, <2>1, <2>2, <2>3 DEF PendingIsQueued
<1>20. ASSUME NEW k \in Conns, WorkerDone(k) \/ WorkerFail(k) PROVE PendingIsQueued'
  <2>1. PICK r \in {"ok", "err"} : Answer(k, r)
    BY <1>20 DEF WorkerDone, WorkerFail
  <2>2. UNCHANGED <<pc, conn>> /\ queue[k] # <<>> /\ \A h \in Conns : worker'[h] = "exited" => worker[h] = "exited"
    BY <1>20 DEF WorkerDone, WorkerFail, TypeOK
  <2>3. /\ \A h \in Conns : h # k => queue'[h] = queue[h]
        /\ queue'[k] = Tail(queue[k])
        /\ \A d \in Clients : reply'[d] = IF d = Head(queue[k]) THEN r ELSE reply[d]
    BY <2>1 DEF Answer, TypeOK
  <2>4. 1 \in DOMAIN queue[k] /\ Head(queue[k]) = queue[k][1]
    BY <1>a, <2>2, EmptySeq
  <2>5. DOMAIN queue'[k] = 1..(Len(queue[k]) - 1) /\ \A i \in DOMAIN queue'[k] : queue'[k][i] = queue[k][i + 1]
    BY <1>a, <2>2, <2>3, HeadTailProperties, LenProperties
  <2>6. (PendingIsQueued!1)'
    <3> SUFFICES ASSUME NEW d \in Clients, reply'[d] = "pending"
                 PROVE  worker'[conn'[d]] # "exited" /\ \E i \in DOMAIN queue'[conn'[d]] : queue'[conn'[d]][i] = d
      OBVIOUS
    <3>1. reply[d] = "pending" /\ d # queue[k][1] /\ conn[d] \in Conns
      BY <1>c, <2>3, <2>4
    <3>2. PICK i \in DOMAIN queue[conn[d]] : queue[conn[d]][i] = d
      BY <3>1 DEF PendingIsQueued
    <3>3. CASE conn[d] # k
      BY <2>2, <2>3, <3>1, <3>2, <3>3 DEF PendingIsQueued
    <3>4. CASE conn[d] = k
      <4>1. i - 1 \in DOMAIN queue'[k] /\ queue'[k][i - 1] = d
        BY <1>a, <2>5, <3>1, <3>2, <3>4
      <4> QED BY <2>2, <3>1, <3>4, <4>1 DEF PendingIsQueued
    <3> QED BY <3>3, <3>4
  <2>7. (PendingIsQueued!2)'
    <3> SUFFICES ASSUME NEW h \in Conns, NEW i \in DOMAIN queue'[h], queue'[h][i] # NoClient
                 PROVE  /\ conn'[queue'[h][i]] = h /\ pc'[queue'[h][i]] = "sent" /\ reply'[queue'[h][i]] = "pending"
                        /\ \A j \in DOMAIN queue'[h] : queue'[h][j] = queue'[h][i] => i = j
      OBVIOUS
    <3>1. CASE h # k
      <4>1. queue[h][i] # queue[k][1]
        BY <1>a, <2>3, <2>4, <3>1 DEF PendingIsQueued
      <4> QED BY <1>a, <2>2, <2>3, <2>4, <3>1, <4>1 DEF PendingIsQueued
    <3>2. CASE h = k
      <4>0. Len(queue[k]) \in Nat /\ DOMAIN queue[k] = 1..Len(queue[k]) /\ i \in 1..(Len(queue[k]) - 1)
        BY <1>a, <2>5, <3>2
      <4>1. i \in Int /\ i > 0 /\ i + 1 \in DOMAIN queue[k] /\ queue'[k][i] = queue[k][i + 1]
        <5>1. i \in Int /\ i > 0 /\ i + 1 \in 1..Len(queue[k])
          BY <4>0
        <5> QED BY <2>5, <3>2, <4>0, <5>1
      <4>2. queue[k][i + 1] # queue[k][1]
        <5>1. queue[k][i + 1] # NoClient
          BY <3>2, <4>1
        <5>2. \A j \in DOMAIN queue[k] : queue[k][j] = queue[k][i + 1] => i + 1 = j
          BY <4>1, <5>1 DEF PendingIsQueued
        <5> QED BY <2>4, <4>1, <5>2
      <4>3. \A j \in DOMAIN queue'[k] : j \in Int /\ j + 1 \in DOMAIN queue[k] /\ queue'[k][j] = queue[k][j + 1]
        BY <1>a, <2>5
      <4> DEFINE d == queue[k][i + 1]
      <4>4. d \in Clients /\ conn[d] = k /\ pc[d] = "sent" /\ reply[d] = "pending"
        BY <1>a, <3>2, <4>1 DEF PendingIsQueued
      <4>5. reply'[d] = "pending" /\ conn'[d] = k /\ pc'[d] = "sent"
        BY <2>2, <2>3, <2>4, <4>2, <4>4
      <4>6. \A j \in DOMAIN queue'[k] : queue'[k][j] = d => i = j
        <5>1. \A j \in DOMAIN queue[k] : queue[k][j] = d => i + 1 = j
          BY <3>2, <4>1, PoolAssumption, <4>4 DEF PendingIsQueued
        <5> QED BY <4>1, <4>3, <5>1
      <4> QED BY <3>2, <4>1, <4>5, <4>6
    <3> QED BY <3>1, <3>2
  <2> QED BY <2>6, <2>7 DEF PendingIsQueued
<1>21. ASSUME NEW k \in Conns, ReconnectErr(k) PROVE PendingIsQueued'
  <2>1. UNCHANGED <<pc, conn>> /\ queue'[k] = <<>>
    BY <1>21 DEF ReconnectErr, TypeOK
  <2>2. \A h \in Conns : h # k => queue'[h] = queue[h] /\ worker'[h] = worker[h]
    BY <1>21 DEF ReconnectErr, TypeOK
  <2>3. \A d \in Clients : reply'[d] = IF d \in Elems(queue[k]) THEN "err" ELSE reply[d]
    BY <1>21 DEF ReconnectErr
  <2>4. \A d \in Clients : reply'[d] = "pending" => reply[d] = "pending" /\ conn[d] # k
    BY <2>3 DEF Elems, PendingIsQueued
  <2>5. \A h \in Conns : \A i \in DOMAIN queue[h] : h # k /\ queue[h][i] # NoClient => queue[h][i] \notin Elems(queue[k])
    BY <1>a DEF Elems, PendingIsQueued
  <2>6. (PendingIsQueued!1)'
    BY <1>c, <2>1, <2>2, <2>4 DEF PendingIsQueued
  <2>7. (PendingIsQueued!2)'
    <3> SUFFICES ASSUME NEW h \in Conns, NEW i \in DOMAIN queue'[h], queue'[h][i] # NoClient
                 PROVE  /\ conn'[queue'[h][i]] = h /\ pc'[queue'[h][i]] = "sent" /\ reply'[queue'[h][i]] = "pending"
                        /\ \A j \in DOMAIN queue'[h] : queue'[h][j] = queue'[h][i] => i = j
      OBVIOUS
    <3>1. h # k
      BY <2>1
    <3>2. queue'[h] = queue[h] /\ queue[h][i] \in Clients
      BY <1>a, <2>2, <3>1
    <3> QED BY <2>1, <2>3, <2>5, <3>1, <3>2 DEF PendingIsQueued
  <2> QED BY <2>6, <2>7 DEF PendingIsQueued
<1>22. ASSUME NEW k \in Conns, ReconnectOk(k) \/ WorkerHangup(k) PROVE PendingIsQueued'
  <2>1. UNCHANGED <<pc, conn, reply, queue>>
    BY <1>22 DEF ReconnectOk, WorkerHangup
  <2>2. \A h \in Conns : worker'[h] # "exited" \/ worker'[h] = worker[h] \/ queue[h] = <<>>
    BY <1>22 DEF ReconnectOk, WorkerHangup, TypeOK
  <2> QED BY <1>a, <1>c, <2>1, <2>2 DEF PendingIsQueued
<1>23. CASE Reap \/ CloseJoined \/ DropPool \/ Drain \/ Closed \/ Finished \/ UNCHANGED vars
  BY <1>23, <1>1 DEF Reap, CloseJoined, DropPool, Drain, Closed, Finished, vars
<1> QED
  BY <1>1, <1>2, <1>3, <1>4, <1>5, <1>6, <1>7, <1>8, <1>9, <1>10, <1>11, <1>12, <1>13,
     <1>14, <1>15, <1>16, <1>17, <1>18, <1>19, <1>20, <1>21, <1>22, <1>23
     DEF Next, Client, Worker, Acquire, Release

-----------------------------------------------------------------------------
(* The theorems *)

\* Pool::start leaves `min` idle connections, all different, and nobody in acquire.
LEMMA InitInvariant == Init => IInv
<1> SUFFICES ASSUME Init PROVE IInv
  OBVIOUS
<1> USE PoolAssumption
<1>1. /\ idle \in [1..MinConns -> Conns] /\ MinConns \in Nat /\ MaxConns \in Nat /\ MinConns <= MaxConns
      /\ \A i, j \in 1..MinConns : idle[i] = idle[j] => i = j
  BY DEF Init
<1>2. idle \in Seq(Conns) /\ Len(idle) = MinConns /\ DOMAIN idle = 1..MinConns
  <2>1. idle \in Seq(Conns)
    BY <1>1, IsASeq
  <2> QED BY <1>1, <2>1, LenProperties
<1>3. TypeOK
  BY <1>1, <1>2 DEF Init, TypeOK, PcStates
<1>4. Charged = {}
  BY DEF Init, Charged, Owning
<1>5. LiveIsExact /\ WithinMax
  BY <1>1, <1>2, <1>4, FS_EmptySet DEF Init, LiveIsExact, WithinMax
<1>6. PcShape
  BY DEF Init, PcShape, Owning
<1>7. SingleOwner
  BY <1>1, <1>2, ElementOfSeq DEF Init, SingleOwner
<1>8. WaiterRegistered /\ NoIdleWhileWaiting /\ PendingIsQueued
  BY DEF Init, WaiterRegistered, NoIdleWhileWaiting, PendingIsQueued
<1> QED BY <1>3, <1>5, <1>6, <1>7, <1>8 DEF IInv

\* Every step of acquire, release, the workers, the reaper and Drop keeps IInv.
LEMMA StepInvariant == IInv /\ [Next]_vars => IInv'
  BY TypeStep, ShapeStep, AccountStep, OwnerStep, WaiterStep, PendingStep DEF IInv

\* IInv holds in every state the pool reaches.
THEOREM Invariance == Spec => []IInv
  BY InitInvariant, StepInvariant, PTL DEF Spec

\* The variables keep their types: `live` never underflows.
THEOREM TypeCorrect == Spec => []TypeOK
<1>1. IInv => TypeOK
  BY DEF IInv
<1> QED BY Invariance, <1>1, PTL

\* `live` is exact until Drop drains the pool, and never above PoolConfig.max.
THEOREM Accounting == Spec => [](LiveIsExact /\ WithinMax)
<1>1. IInv => LiveIsExact /\ WithinMax
  BY DEF IInv
<1> QED BY Invariance, <1>1, PTL

\* A connection is idle, in flight to a waiter, owned or being closed: one of these only.
THEOREM Ownership == Spec => []SingleOwner
<1>1. IInv => SingleOwner
  BY DEF IInv
<1> QED BY Invariance, <1>1, PTL

\* Whoever waits in acquire is registered exactly once or has its connection in the
\* oneshot, and nobody who gave up is registered: release never sends into the void.
THEOREM Registration == Spec => []WaiterRegistered
<1>1. IInv => WaiterRegistered
  BY DEF IInv
<1> QED BY Invariance, <1>1, PTL

\* No wakeup is lost: while a waiter listens no connection lies idle.
THEOREM Wakeups == Spec => []NoIdleWhileWaiting
<1>1. IInv => NoIdleWhileWaiting
  BY DEF IInv
<1> QED BY Invariance, <1>1, PTL

\* A command awaiting its reply sits in the channel of a worker that runs, and a command
\* in a channel belongs to the client that owns that connection and awaits that reply.
THEOREM Replies == Spec => []PendingIsQueued
<1>1. IInv => PendingIsQueued
  BY DEF IInv
<1> QED BY Invariance, <1>1, PTL

-----------------------------------------------------------------------------
(* Server sessions *)

\* Somebody still has the Conn: the idle list, a client, a oneshot, or whoever closes it.
Placed(k) ==
  \/ k \in Elems(idle) \/ k \in Elems(doomed)
  \/ \E c \in Clients : conn[c] = k \/ slot[c] = k

\* Sessions of connections that nobody has any more and whose worker has not noticed yet.
Orphans == {k \in Conns : worker[k] # "exited" /\ ~Placed(k)}

\* Every orphan is a connection that was dropped with its unit, and those units are still
\* in `live`: a connection dropped after its unit was given back has no session left.
OrphanInv ==
  /\ \A k \in Conns : ~alive[k] => worker[k] = "exited"
  /\ IsFiniteSet(Orphans) /\ Cardinality(Orphans) <= leaked
  /\ leaked <= live

\* Fewer orphans, or one more and one more unit leaked.
LEMMA OrphanCount ==
  ASSUME OrphanInv, leaked \in Nat,
         \/ Orphans' \subseteq Orphans /\ leaked' = leaked
         \/ leaked' = leaked + 1 /\ \E k : Orphans' \subseteq Orphans \cup {k}
  PROVE  IsFiniteSet(Orphans') /\ Cardinality(Orphans') <= leaked'
<1> USE DEF OrphanInv
<1>1. Cardinality(Orphans) \in Nat
  BY FS_CardinalityType
<1>2. CASE Orphans' \subseteq Orphans /\ leaked' = leaked
  BY <1>1, <1>2, FS_Subset, FS_CardinalityType
<1>3. CASE leaked' = leaked + 1 /\ \E k : Orphans' \subseteq Orphans \cup {k}
  <2>1. PICK k : Orphans' \subseteq Orphans \cup {k}
    BY <1>3
  <2>2. IsFiniteSet(Orphans \cup {k}) /\ Cardinality(Orphans \cup {k}) <= Cardinality(Orphans) + 1
    BY <1>1, FS_AddElement
  <2>3. IsFiniteSet(Orphans') /\ Cardinality(Orphans') <= Cardinality(Orphans \cup {k})
    BY <2>1, <2>2, FS_Subset
  <2>4. Cardinality(Orphans \cup {k}) \in Nat /\ Cardinality(Orphans') \in Nat
    BY <2>2, <2>3, FS_CardinalityType
  <2> QED BY <1>1, <1>3, <2>2, <2>3, <2>4
<1> QED BY <1>2, <1>3

\* Once the pool drains, `live` and `leaked` stay as they are.
LEMMA LeakedStep ==
  ASSUME IInv, leaked <= live, [Next]_vars
  PROVE  leaked' <= live'
<1> USE PoolAssumption DEF IInv, poolState, clientState, connState
<1>1. TypeOK' /\ LiveIsExact'
  BY TypeStep, AccountStep
<1>2. CASE phase' \in {"open", "stopping", "joining"}
  <2>1. live' = Len(idle') + Cardinality(Charged)' + leaked'
    BY <1>1, <1>2 DEF LiveIsExact
  <2>2. Charged' \in SUBSET Clients
    BY DEF Charged
  <2>3. Cardinality(Charged') \in Nat /\ Len(idle') \in Nat /\ leaked' \in Nat
    BY <1>1, <2>2, FS_Subset, FS_CardinalityType, LenProperties DEF TypeOK
  <2> QED BY <2>1, <2>3
<1>3. CASE phase' \notin {"open", "stopping", "joining"}
  <2>1. phase # "open" \/ UNCHANGED vars \/ DropPool
    BY <1>3 DEF Next, Client, Begin, Acquire, AcquireGot, AcquireCreate, AcquireWait, SpawnOk, SpawnErr,
      WaitAlive, WaitDead, WaitTimeout, SendOk, SendClosed, Receive, CancelSent, DropPin, Release,
      ReleaseDead, ReleaseCheck, HandoffToWaiter, HandoffToIdle, Worker, WorkerDone, WorkerFail,
      ReconnectOk, ReconnectErr, WorkerHangup, Reap, CloseJoined, Drain, Closed, Finished
  <2>2. CASE phase # "open"
    <3>1. ASSUME NEW c \in Clients, Client(c) PROVE FALSE
      BY <2>2, <3>1 DEF PcShape, Client, Begin, Acquire, AcquireGot, AcquireCreate, AcquireWait, SpawnOk,
        SpawnErr, WaitAlive, WaitDead, WaitTimeout, SendOk, SendClosed, Receive, CancelSent, DropPin,
        Release, ReleaseDead, ReleaseCheck, HandoffToWaiter, HandoffToIdle
    <3>2. UNCHANGED <<live, leaked>>
      BY <1>3, <2>2, <3>1 DEF Next, Worker, WorkerDone, WorkerFail, ReconnectOk, ReconnectErr, WorkerHangup,
        Reap, CloseJoined, DropPool, Drain, Closed, Finished, vars
    <3> QED BY <3>2
  <2>3. CASE UNCHANGED vars \/ DropPool
    BY <2>3 DEF vars, DropPool
  <2> QED BY <2>1, <2>2, <2>3
<1> QED BY <1>2, <1>3

\* A step adds an orphan only where it drops a connection with its unit.
LEMMA OrphanStep ==
  ASSUME IInv, OrphanInv, [Next]_vars
  PROVE  OrphanInv'
<1> USE PoolAssumption DEF IInv, poolState, clientState, connState
<1> DEFINE Fewer == Orphans' \subseteq Orphans /\ leaked' = leaked
           OneMore == leaked' = leaked + 1 /\ \E k : Orphans' \subseteq Orphans \cup {k}
           DeadIsGone == \A k \in Conns : ~alive[k] => worker[k] = "exited"
           Goal == DeadIsGone' /\ (Fewer \/ OneMore)
<1>a. TypeOK /\ DeadIsGone
  BY DEF OrphanInv
<1>1. ASSUME NEW c \in Clients,
             \/ Begin(c) \/ SpawnErr(c) \/ SendOk(c) \/ SendClosed(c) \/ Receive(c) \/ DropPin(c)
             \/ ReleaseCheck(c)
      PROVE  Goal
  <2>1. UNCHANGED <<idle, doomed, conn, slot, worker, alive, leaked>>
    BY <1>1 DEF Begin, SpawnErr, SendOk, SendClosed, Receive, DropPin, ReleaseCheck
  <2> QED BY <1>a, <2>1 DEF Orphans, Placed, Elems
<1>2. ASSUME NEW c \in Clients, AcquireGot(c) PROVE Goal
  <2>1. PICK n \in 1..Len(idle) : AcquireGot(c)!2!(n)
    BY <1>2 DEF AcquireGot
  <2>2. UNCHANGED <<doomed, slot, worker, alive, leaked>>
    BY <1>2 DEF AcquireGot
  <2>3. Len(idle) \in Nat /\ DOMAIN idle = 1..Len(idle)
    BY LenProperties DEF TypeOK
  <2>4. /\ DOMAIN idle' = 1..(n - 1)
        /\ \A i \in 1..(n - 1) : idle'[i] = idle[i]
    BY <2>1, <2>3, IdleSlice
  <2>5. conn[c] = NoConn
    BY <1>2 DEF AcquireGot, PcShape, Owning
  <2>6. conn' = [conn EXCEPT ![c] = idle[n]]
    BY <2>1
  <2>7. ASSUME NEW k \in Orphans' PROVE k \in Orphans
    <3>1. k \in Conns /\ worker[k] # "exited" /\ k \notin Elems(doomed)
      BY <2>2 DEF Orphans, Placed, Elems
    <3>2. \A d \in Clients : conn[d] # k /\ slot[d] # k
      BY <2>2, <2>5, <2>6, <2>7, <3>1 DEF Orphans, Placed, TypeOK
    <3>3. \A i \in 1..(n - 1) : idle[i] # k
      BY <2>4, <2>7 DEF Orphans, Placed, Elems
    <3>4. idle[n] # k
      BY <2>6, <2>7 DEF Orphans, Placed, TypeOK
    <3>5. \A i \in (n + 1)..Len(idle) : idle[i] # k
      <4>1. \A i \in (n + 1)..Len(idle) : idle[i] \in Conns /\ ~alive[idle[i]]
        BY <2>1, <2>3, ElementOfSeq DEF LastAlive, TypeOK
      <4> QED BY <4>1, <1>a, <3>1
    <3>6. \A i \in DOMAIN idle : i \in 1..(n - 1) \/ i = n \/ i \in (n + 1)..Len(idle)
      BY <2>3
    <3> QED BY <3>1, <3>2, <3>3, <3>4, <3>5, <3>6 DEF Orphans, Placed, Elems
  <2> QED BY <1>a, <2>2, <2>7
<1>3. ASSUME NEW c \in Clients, AcquireCreate(c) \/ AcquireWait(c) PROVE Goal
  <2>1. UNCHANGED <<doomed, conn, slot, worker, alive, leaked>> /\ LastAlive(0)
    BY <1>3 DEF AcquireCreate, AcquireWait
  <2>2. Len(idle) \in Nat /\ DOMAIN idle = 1..Len(idle)
    BY LenProperties DEF TypeOK
  <2>3. \A i \in DOMAIN idle : idle[i] \in Conns /\ ~alive[idle[i]]
    BY <2>1, <2>2, ElementOfSeq DEF LastAlive, TypeOK
  <2> QED BY <1>a, <2>1, <2>3 DEF Orphans, Placed, Elems
<1>4. ASSUME NEW c \in Clients, SpawnOk(c) PROVE Goal
  <2>1. PICK k \in Conns : SpawnOk(c)!2!(k)
    BY <1>4 DEF SpawnOk
  <2>2. UNCHANGED <<doomed, idle, slot, leaked>> /\ conn[c] = NoConn
    BY <1>4 DEF SpawnOk, PcShape, Owning
  <2> QED BY <1>a, <2>1, <2>2 DEF Orphans, Placed, Elems, TypeOK
<1>5. ASSUME NEW c \in Clients, WaitAlive(c) PROVE Goal
  <2>1. /\ UNCHANGED <<doomed, idle, worker, alive, leaked>> /\ conn[c] = NoConn
        /\ conn' = [conn EXCEPT ![c] = slot[c]] /\ slot' = [slot EXCEPT ![c] = NoConn]
    BY <1>5 DEF WaitAlive, PcShape, Owning
  <2> QED BY <1>a, <2>1 DEF Orphans, Placed, Elems, TypeOK
<1>6. ASSUME NEW c \in Clients, WaitDead(c) PROVE Goal
  <2>1. /\ UNCHANGED <<doomed, idle, worker, alive, conn, leaked>> /\ ~alive[slot[c]]
        /\ slot[c] # NoConn /\ slot' = [slot EXCEPT ![c] = NoConn]
    BY <1>6 DEF WaitDead
  <2> QED BY <1>a, <2>1 DEF Orphans, Placed, Elems, TypeOK
<1>7. ASSUME NEW c \in Clients, WaitTimeout(c) PROVE Goal
  <2>1. /\ UNCHANGED <<doomed, idle, worker, alive, conn>> /\ slot' = [slot EXCEPT ![c] = NoConn]
        /\ leaked' = IF slot[c] = NoConn THEN leaked ELSE leaked + 1
    BY <1>7 DEF WaitTimeout, DropReceiver
  <2>2. \A k \in Orphans' : k \in Orphans \/ (slot[c] # NoConn /\ k = slot[c])
    BY <1>a, <2>1 DEF Orphans, Placed, Elems, TypeOK
  <2> QED BY <1>a, <2>1, <2>2
<1>8. ASSUME NEW c \in Clients, CancelSent(c) PROVE Goal
  <2>1. UNCHANGED <<doomed, idle, worker, alive, slot>>
    BY <1>8 DEF CancelSent
  <2>2. \/ UNCHANGED <<conn, leaked>>
        \/ conn' = [conn EXCEPT ![c] = NoConn] /\ leaked' = leaked + 1
    BY <1>8, Zenon DEF CancelSent
  <2>3. CASE UNCHANGED <<conn, leaked>>
    BY <1>a, <2>1, <2>3 DEF Orphans, Placed, Elems
  <2>4. CASE conn' = [conn EXCEPT ![c] = NoConn] /\ leaked' = leaked + 1
    <3>1. \A k \in Orphans' : k \in Orphans \/ k = conn[c]
      BY <1>a, <2>1, <2>4 DEF Orphans, Placed, Elems, TypeOK
    <3> QED BY <1>a, <2>1, <2>4, <3>1
  <2> QED BY <2>2, <2>3, <2>4
<1>9. ASSUME NEW c \in Clients, ReleaseDead(c) PROVE Goal
  <2>1. /\ UNCHANGED <<doomed, idle, worker, alive, slot, leaked>> /\ ~alive[conn[c]]
        /\ conn' = [conn EXCEPT ![c] = NoConn]
    BY <1>9 DEF ReleaseDead
  <2> QED BY <1>a, <2>1 DEF Orphans, Placed, Elems, TypeOK
<1>10. ASSUME NEW c \in Clients, HandoffToWaiter(c) PROVE Goal
  <2>1. /\ UNCHANGED <<doomed, idle, worker, alive, leaked>>
        /\ conn' = [conn EXCEPT ![c] = NoConn]
    BY <1>10 DEF HandoffToWaiter
  <2>2. PICK n \in 1..Len(waiters) : HandoffToWaiter(c)!2!(n)
    BY <1>10 DEF HandoffToWaiter
  <2>3. waiters[n] \in Clients /\ slot[waiters[n]] = NoConn
    BY <2>2 DEF LastOpen, WaiterRegistered, TypeOK
  <2>4. slot' = [slot EXCEPT ![waiters[n]] = conn[c]]
    BY <2>2
  <2> QED BY <1>a, <2>1, <2>3, <2>4 DEF Orphans, Placed, Elems, TypeOK
<1>11. ASSUME NEW c \in Clients, HandoffToIdle(c) PROVE Goal
  <2>1. /\ UNCHANGED <<doomed, worker, alive, slot, leaked>>
        /\ conn' = [conn EXCEPT ![c] = NoConn] /\ idle' = Append(idle, conn[c]) /\ conn[c] \in Conns
    BY <1>11 DEF HandoffToIdle, PcShape, Owning, TypeOK
  <2>2. /\ Len(idle) + 1 \in DOMAIN idle' /\ idle'[Len(idle) + 1] = conn[c]
        /\ \A i \in DOMAIN idle : i \in DOMAIN idle' /\ idle'[i] = idle[i]
    BY <2>1, AppendEntries DEF TypeOK
  <2>3. ASSUME NEW k \in Orphans' PROVE k \in Orphans
    <3>1. k \in Conns /\ worker[k] # "exited" /\ k \notin Elems(doomed) /\ \A d \in Clients : slot[d] # k
      BY <2>1 DEF Orphans, Placed, Elems
    <3>2. conn[c] # k /\ \A i \in DOMAIN idle : idle[i] # k
      BY <2>2 DEF Orphans, Placed, Elems
    <3>3. \A d \in Clients : conn[d] # k
      <4>1. \A d \in Clients : conn'[d] # k
        BY DEF Orphans, Placed
      <4> QED BY <2>1, <3>2, <4>1 DEF TypeOK
    <3> QED BY <3>1, <3>2, <3>3 DEF Orphans, Placed, Elems
  <2> QED BY <1>a, <2>1, <2>3
<1>12. ASSUME NEW k \in Conns, Worker(k) PROVE Goal
  <2>1. UNCHANGED <<doomed, idle, conn, slot, leaked>>
    BY <1>12 DEF Worker, WorkerDone, WorkerFail, ReconnectOk, ReconnectErr, WorkerHangup
  <2>2. /\ alive' \in [Conns -> BOOLEAN] /\ \A j \in Conns : worker[j] = "exited" => worker'[j] = "exited"
        /\ \A j \in Conns : ~alive'[j] => ~alive[j] \/ worker'[j] = "exited"
    <3>1. alive \in [Conns -> BOOLEAN] /\ worker \in [Conns -> {"run", "reconnect", "exited"}]
      BY DEF TypeOK
    <3>2. CASE WorkerDone(k) \/ WorkerFail(k)
      BY <3>1, <3>2 DEF WorkerDone, WorkerFail
    <3>3. CASE ReconnectOk(k) \/ ReconnectErr(k) \/ WorkerHangup(k)
      BY <3>1, <3>3 DEF ReconnectOk, ReconnectErr, WorkerHangup
    <3> QED BY <1>12, <3>2, <3>3 DEF Worker
  <2> QED BY <1>a, <2>1, <2>2 DEF Orphans, Placed, Elems
<1>13. ASSUME Reap PROVE Goal
  <2>1. PICK n \in 1..(Len(idle) - MinConns) : Reap!3!(n)
    BY <1>13 DEF Reap
  <2>2. UNCHANGED <<conn, slot, worker, alive, leaked>> /\ doomed = <<>>
    BY <1>13 DEF Reap
  <2>3. Len(idle) \in Nat /\ DOMAIN idle = 1..Len(idle) /\ n \in 1..Len(idle)
    BY LenProperties DEF TypeOK
  <2>4. /\ DOMAIN doomed' = 1..n /\ \A i \in 1..n : doomed'[i] = idle[i]
        /\ DOMAIN idle' = 1..(Len(idle) - n) /\ \A i \in 1..(Len(idle) - n) : idle'[i] = idle[n + i]
    BY <2>1, <2>3, IdleSlice
  <2>5. ASSUME NEW i \in DOMAIN idle PROVE idle[i] \in Elems(doomed') \/ idle[i] \in Elems(idle')
    <3>1. CASE i <= n
      BY <2>3, <2>4, <3>1 DEF Elems
    <3>2. CASE i > n
      <4>1. i - n \in 1..(Len(idle) - n) /\ n + (i - n) = i
        BY <2>3, <3>2
      <4>2. i - n \in DOMAIN idle' /\ idle'[i - n] = idle[i]
        BY <2>4, <4>1
      <4> QED BY <4>2 DEF Elems
    <3> QED BY <2>3, <3>1, <3>2
  <2>6. ASSUME NEW k \in Orphans' PROVE k \in Orphans
    <3>1. k \in Conns /\ worker[k] # "exited" /\ \A d \in Clients : conn[d] # k /\ slot[d] # k
      BY <2>2 DEF Orphans, Placed
    <3>2. /\ \A i \in DOMAIN doomed' : doomed'[i] # k
          /\ \A i \in DOMAIN idle' : idle'[i] # k
      BY DEF Orphans, Placed, Elems
    <3>3. \A i \in DOMAIN idle : idle[i] # k
      BY <2>5, <3>2 DEF Elems
    <3>4. \A i \in DOMAIN doomed : doomed[i] # k
      BY <2>2
    <3> QED BY <3>1, <3>3, <3>4 DEF Orphans, Placed, Elems
  <2> QED BY <1>a, <2>2, <2>6
<1>14. ASSUME CloseJoined PROVE Goal
  <2>1. UNCHANGED <<idle, conn, slot, worker, alive, leaked>> /\ doomed # <<>> /\ doomed' = Tail(doomed)
        /\ worker[Head(doomed)] = "exited"
    BY <1>14 DEF CloseJoined
  <2>2. Len(doomed) \in Nat \ {0} /\ DOMAIN doomed = 1..Len(doomed) /\ Head(doomed) = doomed[1]
        /\ DOMAIN doomed' = 1..(Len(doomed) - 1) /\ \A i \in 1..(Len(doomed) - 1) : doomed'[i] = doomed[i + 1]
    BY <2>1, LenProperties, EmptySeq, HeadTailProperties DEF TypeOK
  <2>3. ASSUME NEW k \in Conns, k \in Elems(doomed), worker[k] # "exited" PROVE k \in Elems(doomed')
    <3>1. PICK i \in 1..Len(doomed) : doomed[i] = k
      BY <2>2, <2>3 DEF Elems
    <3>2. i # 1
      BY <2>1, <2>2, <2>3, <3>1
    <3>3. i - 1 \in 1..(Len(doomed) - 1) /\ (i - 1) + 1 = i
      BY <2>2, <3>2
    <3>4. i - 1 \in DOMAIN doomed' /\ doomed'[i - 1] = k
      BY <2>2, <3>1, <3>3
    <3> QED BY <3>4 DEF Elems
  <2>4. ASSUME NEW k \in Orphans' PROVE k \in Orphans
    <3>1. /\ k \in Conns /\ worker[k] # "exited" /\ k \notin Elems(idle)
          /\ \A d \in Clients : conn[d] # k /\ slot[d] # k
      BY <2>1 DEF Orphans, Placed, Elems
    <3>2. \A i \in DOMAIN doomed' : doomed'[i] # k
      BY DEF Orphans, Placed, Elems
    <3>3. k \notin Elems(doomed)
      BY <2>3, <3>1, <3>2 DEF Elems
    <3> QED BY <3>1, <3>3 DEF Orphans, Placed
  <2> QED BY <1>a, <2>1, <2>4
<1>15. ASSUME Drain PROVE Goal
  <2>1. UNCHANGED <<conn, slot, worker, alive, leaked>> /\ doomed' = idle /\ doomed = <<>>
    BY <1>15 DEF Drain
  <2>2. ASSUME NEW k \in Orphans' PROVE k \in Orphans
    <3>1. /\ k \in Conns /\ worker[k] # "exited" /\ \A i \in DOMAIN idle : idle[i] # k
          /\ \A d \in Clients : conn[d] # k /\ slot[d] # k
      BY <2>1 DEF Orphans, Placed, Elems
    <3>2. \A i \in DOMAIN doomed : doomed[i] # k
      BY <2>1
    <3> QED BY <3>1, <3>2 DEF Orphans, Placed, Elems
  <2> QED BY <1>a, <2>1, <2>2
<1>16. ASSUME DropPool \/ Closed \/ Finished \/ UNCHANGED vars PROVE Goal
  <2>1. UNCHANGED <<idle, doomed, conn, slot, worker, alive, leaked>>
    BY <1>16 DEF DropPool, Closed, Finished, vars
  <2> QED BY <1>a, <2>1 DEF Orphans, Placed, Elems
<1> HIDE DEF Goal
<1>17. Goal
  BY <1>1, <1>2, <1>3, <1>4, <1>5, <1>6, <1>7, <1>8, <1>9, <1>10, <1>11, <1>12, <1>13, <1>14, <1>15,
     <1>16 DEF Next, Client, Acquire, Release
<1>18. leaked \in Nat /\ DeadIsGone' /\ (Fewer \/ OneMore)
  BY <1>17 DEF TypeOK, Goal
<1>19. IsFiniteSet(Orphans') /\ Cardinality(Orphans') <= leaked'
  BY <1>18, OrphanCount
<1>20. leaked' <= live'
  BY LeakedStep DEF OrphanInv
<1> QED BY <1>18, <1>19, <1>20 DEF OrphanInv

\* Drop for Pool empties the idle list, and nobody is left to fill it again.
DrainedInv == phase \in {"draining", "closed"} => idle = <<>>

\* No client runs once Drop has begun, so what Drain empties stays empty.
LEMMA DrainedStep ==
  ASSUME IInv, DrainedInv, [Next]_vars
  PROVE  DrainedInv'
<1> USE DEF IInv, DrainedInv, poolState
<1>1. ASSUME NEW c \in Clients, Client(c) PROVE phase = "open" /\ phase' = phase
  BY <1>1 DEF PcShape, Client, Begin, Acquire, AcquireGot, AcquireCreate, AcquireWait, SpawnOk,
    SpawnErr, WaitAlive, WaitDead, WaitTimeout, SendOk, SendClosed, Receive, CancelSent, DropPin,
    Release, ReleaseDead, ReleaseCheck, HandoffToWaiter, HandoffToIdle
<1>2. ASSUME NEW k \in Conns, Worker(k) PROVE UNCHANGED <<idle, phase>>
  BY <1>2 DEF Worker, WorkerDone, WorkerFail, ReconnectOk, ReconnectErr, WorkerHangup
<1>3. ASSUME Reap PROVE phase' \notin {"draining", "closed"}
  BY <1>3 DEF Reap
<1>4. ASSUME CloseJoined \/ Finished \/ UNCHANGED vars PROVE UNCHANGED <<idle, phase>>
  BY <1>4 DEF CloseJoined, Finished, vars
<1>5. ASSUME DropPool PROVE phase' \notin {"draining", "closed"}
  BY <1>5 DEF DropPool
<1>6. ASSUME Drain PROVE idle' = <<>>
  BY <1>6 DEF Drain
<1>7. ASSUME Closed PROVE phase = "draining" /\ idle' = idle
  BY <1>7 DEF Closed
<1> QED BY <1>1, <1>2, <1>3, <1>4, <1>5, <1>6, <1>7 DEF Next

\* A list of connections holds at most its length of them.
LEMMA ElemsBound ==
  ASSUME NEW S, NEW s \in Seq(S)
  PROVE  IsFiniteSet(Elems(s)) /\ Cardinality(Elems(s)) \in Nat /\ Cardinality(Elems(s)) <= Len(s)
<1>1. Len(s) \in Nat /\ DOMAIN s = 1..Len(s) /\ s \in [1..Len(s) -> S]
  BY LenProperties
<1>2. s \in Surjection(1..Len(s), Elems(s))
  BY <1>1 DEF Surjection, Elems
<1>3. IsFiniteSet(1..Len(s)) /\ Cardinality(1..Len(s)) = Len(s)
  BY <1>1, FS_Interval
<1> QED BY <1>2, <1>3, FS_Surjection, FS_CardinalityType

\* The union of two finite sets has at most as many members as both together.
LEMMA UnionBound ==
  ASSUME NEW S, NEW T, IsFiniteSet(S), IsFiniteSet(T)
  PROVE  /\ IsFiniteSet(S \cup T)
         /\ Cardinality(S \cup T) <= Cardinality(S) + Cardinality(T)
<1>1. IsFiniteSet(S \cap T)
  BY FS_Subset
<1>2. Cardinality(S) \in Nat /\ Cardinality(T) \in Nat /\ Cardinality(S \cap T) \in Nat
  BY <1>1, FS_CardinalityType
<1>3. /\ IsFiniteSet(S \cup T)
      /\ Cardinality(S \cup T) = Cardinality(S) + Cardinality(T) - Cardinality(S \cap T)
  BY FS_Union
<1> QED BY <1>2, <1>3

\* The connections clients own or have waiting in a oneshot.
Held == {k \in Conns : \E c \in Clients : conn[c] = k \/ slot[c] = k}

\* Each held connection has a client that answers for it, and its unit of `live`.
LEMMA HeldBound ==
  ASSUME IInv
  PROVE  IsFiniteSet(Held) /\ Cardinality(Held) \in Nat /\ Cardinality(Held) <= Cardinality(Charged)
<1> USE PoolAssumption DEF IInv
<1> DEFINE Holders == {c \in Clients : conn[c] # NoConn \/ slot[c] # NoConn}
           f == [c \in Holders |-> IF conn[c] # NoConn THEN conn[c] ELSE slot[c]]
<1>1. Holders \subseteq Charged /\ IsFiniteSet(Charged)
  BY ChargedFinite DEF Charged, PcShape
<1>2. \A c \in Clients : conn[c] = NoConn \/ slot[c] = NoConn
  BY DEF PcShape, Owning
<1>3. f \in [Holders -> Held]
  BY DEF Held, TypeOK
<1>4. ASSUME NEW k \in Held PROVE \E c \in Holders : f[c] = k
  BY <1>2 DEF Held
<1>5. f \in Surjection(Holders, Held)
  BY <1>3, <1>4 DEF Surjection
<1>6. IsFiniteSet(Holders) /\ Cardinality(Holders) <= Cardinality(Charged)
  BY <1>1, FS_Subset
<1>7. IsFiniteSet(Held) /\ Cardinality(Held) <= Cardinality(Holders)
  BY <1>5, <1>6, FS_Surjection
<1> QED BY <1>1, <1>6, <1>7, FS_CardinalityType

\* A session is an orphan's, or of a connection that is idle, held or being closed; all
\* but the last have their unit of `live`.
LEMMA SessionsCounted ==
  ASSUME IInv, OrphanInv, DrainedInv
  PROVE  SessionBound
<1> USE PoolAssumption DEF IInv
<1> DEFINE Running == {k \in Conns : worker[k] # "exited"}
           A == Orphans \cup Elems(idle)
           B == A \cup Held
           C == B \cup Elems(doomed)
<1>1. Running \subseteq C
  BY DEF Orphans, Placed, Held
<1>2. /\ IsFiniteSet(Elems(idle)) /\ Cardinality(Elems(idle)) \in Nat
      /\ Cardinality(Elems(idle)) <= Len(idle)
      /\ IsFiniteSet(Elems(doomed)) /\ Cardinality(Elems(doomed)) \in Nat
      /\ Cardinality(Elems(doomed)) <= Len(doomed)
  BY ElemsBound DEF TypeOK
<1>3. IsFiniteSet(Held) /\ Cardinality(Held) \in Nat /\ Cardinality(Held) <= Cardinality(Charged)
  BY HeldBound
<1>4. IsFiniteSet(Orphans) /\ Cardinality(Orphans) \in Nat /\ Cardinality(Orphans) <= leaked
  BY FS_CardinalityType DEF OrphanInv
<1>5. IsFiniteSet(A) /\ Cardinality(A) <= Cardinality(Orphans) + Cardinality(Elems(idle))
  BY <1>2, <1>4, UnionBound
<1>6. IsFiniteSet(B) /\ Cardinality(B) <= Cardinality(A) + Cardinality(Held)
  BY <1>3, <1>5, UnionBound
<1>7. IsFiniteSet(C) /\ Cardinality(C) <= Cardinality(B) + Cardinality(Elems(doomed))
  BY <1>2, <1>6, UnionBound
<1>8. IsFiniteSet(Running) /\ Cardinality(Running) <= Cardinality(C)
  BY <1>1, <1>7, FS_Subset
<1>9. /\ Cardinality(A) \in Nat /\ Cardinality(B) \in Nat /\ Cardinality(C) \in Nat
      /\ Cardinality(Running) \in Nat /\ Cardinality(Charged) \in Nat
      /\ Len(idle) \in Nat /\ Len(doomed) \in Nat /\ leaked \in Nat /\ live \in Nat
  BY <1>5, <1>6, <1>7, <1>8, ChargedFinite, FS_CardinalityType, LenProperties DEF TypeOK
<1>10. leaked + Len(idle) + Cardinality(Held) <= live
  <2>1. CASE phase \in {"open", "stopping", "joining"}
    BY <1>3, <1>9, <2>1 DEF LiveIsExact
  <2>2. CASE phase \in {"draining", "closed"}
    <3>1. idle = <<>>
      BY <2>2 DEF DrainedInv
    <3>2. Held = {}
      BY <2>2 DEF Held, PcShape, Owning
    <3>3. Cardinality(Held) = 0
      BY <3>2, FS_EmptySet
    <3> QED BY <1>9, <3>1, <3>3 DEF OrphanInv
  <2> QED BY <2>1, <2>2 DEF TypeOK
<1>11. Cardinality(Running) <= live + Len(doomed)
  <2> HIDE DEF A, B, C, Running
  <2>1. Cardinality(A) <= leaked + Len(idle)
    BY <1>2, <1>4, <1>5, <1>9
  <2>2. Cardinality(B) <= leaked + Len(idle) + Cardinality(Held)
    BY <2>1, <1>3, <1>6, <1>9
  <2>3. Cardinality(B) <= live
    BY <2>2, <1>3, <1>9, <1>10
  <2>4. Cardinality(C) <= Cardinality(B) + Len(doomed)
    BY <1>2, <1>7, <1>9
  <2> QED BY <2>3, <2>4, <1>8, <1>9
<1>12. live <= MaxConns
  BY DEF WithinMax
<1> HIDE DEF Running
<1>13. Cardinality(Running) <= MaxConns + Len(doomed)
  BY <1>9, <1>11, <1>12
<1> QED BY <1>13 DEF SessionBound, Running

\* The pool never has more server sessions open than PoolConfig.max and the connections
\* it is closing at the moment: also those dropped with a cancelled future count.
THEOREM Sessions == Spec => []SessionBound
<1> USE PoolAssumption
<1>1. Init => OrphanInv /\ DrainedInv
  <2> SUFFICES ASSUME Init PROVE OrphanInv /\ DrainedInv
    OBVIOUS
  <2>1. Orphans = {}
    BY DEF Init, Orphans, Placed
  <2>2. IsFiniteSet(Orphans) /\ Cardinality(Orphans) = 0
    BY <2>1, FS_EmptySet
  <2>3. \A k \in Conns : ~alive[k] => worker[k] = "exited"
    BY DEF Init
  <2>4. leaked = 0 /\ live \in Nat /\ DrainedInv
    BY DEF Init, DrainedInv
  <2> QED BY <2>2, <2>3, <2>4 DEF OrphanInv
<1>2. IInv /\ OrphanInv /\ DrainedInv /\ [Next]_vars => OrphanInv' /\ DrainedInv'
  BY OrphanStep, DrainedStep
<1>3. IInv /\ OrphanInv /\ DrainedInv => SessionBound
  BY SessionsCounted
<1> QED BY <1>1, <1>2, <1>3, Invariance, PTL DEF Spec

-----------------------------------------------------------------------------
(* Refinement *)

\* A client about to own a connection has its unit of `live` already, or takes over that
\* of an idle connection; so fewer than PoolConfig.max connections are lent.
LEMMA RoomToLend ==
  ASSUME IInv, phase = "open", NEW c \in Clients, conn[c] = NoConn,
         c \in Charged \/ Len(idle) > 0
  PROVE  Cardinality(Lease!Holders) < MaxConns
<1>1. Lease!Holders \subseteq Charged /\ c \notin Lease!Holders
  BY DEF Lease!Holders, Charged, IInv, PcShape
<1>2. /\ Len(idle) \in Nat /\ leaked \in Nat /\ live \in Nat /\ MaxConns \in Nat /\ live <= MaxConns
      /\ live = Len(idle) + Cardinality(Charged) + leaked
  BY PoolAssumption, LenProperties DEF IInv, TypeOK, WithinMax, LiveIsExact
<1>3. CASE c \in Charged
  <2>1. IsFiniteSet(Charged \ {c}) /\ Cardinality(Charged \ {c}) = Cardinality(Charged) - 1
    BY <1>3, ChargedFinite, FS_RemoveElement
  <2>2. Lease!Holders \subseteq Charged \ {c}
    BY <1>1
  <2>3. Cardinality(Lease!Holders) <= Cardinality(Charged \ {c}) /\ IsFiniteSet(Lease!Holders)
    BY <2>1, <2>2, FS_Subset
  <2> QED BY <1>2, <2>1, <2>3, ChargedFinite, FS_CardinalityType
<1>4. CASE Len(idle) > 0
  <2>1. Cardinality(Lease!Holders) <= Cardinality(Charged) /\ IsFiniteSet(Lease!Holders)
    BY <1>1, ChargedFinite, FS_Subset
  <2> QED BY <1>2, <1>4, <2>1, ChargedFinite, FS_CardinalityType
<1> QED BY <1>3, <1>4

\* Every step of the pool lends a free connection, takes one back, or changes no lease.
LEMMA LeaseStep ==
  ASSUME IInv, [Next]_vars
  PROVE  [Lease!Next]_conn
<1> USE PoolAssumption DEF IInv, poolState, clientState, connState
<1>1. ASSUME NEW c \in Clients, NEW k \in Conns, phase = "open", conn[c] = NoConn,
             \A d \in Clients : conn[d] # k, c \in Charged \/ Len(idle) > 0,
             conn' = [conn EXCEPT ![c] = k]
      PROVE  Lease!Next
  <2>1. Cardinality(Lease!Holders) < MaxConns
    BY <1>1, RoomToLend
  <2>2. k \notin Lease!Lent
    BY <1>1 DEF Lease!Lent, Lease!Holders
  <2>3. Lease!Take(c, k)
    <3>1. \A S : Lease!Cardinality(S) = Cardinality(S)
      BY DEF Lease!Cardinality, Cardinality
    <3> QED BY <1>1, <2>1, <2>2, <3>1 DEF Lease!Take
  <2> QED BY <2>3 DEF Lease!Next
<1>2. ASSUME NEW c \in Clients, conn[c] # NoConn, conn' = [conn EXCEPT ![c] = NoConn]
      PROVE  Lease!Next
  BY <1>2 DEF Lease!Next, Lease!Give
<1>3. ASSUME NEW c \in Clients, AcquireGot(c) PROVE Lease!Next
  <2>1. PICK n \in 1..Len(idle) : AcquireGot(c)!2!(n)
    BY <1>3 DEF AcquireGot
  <2>2. phase = "open" /\ conn[c] = NoConn
    BY <1>3 DEF AcquireGot, PcShape, Owning
  <2>3. Len(idle) \in Nat /\ n \in DOMAIN idle /\ idle[n] \in Conns
    BY LenProperties, ElementOfSeq DEF TypeOK
  <2>4. \A d \in Clients : conn[d] # idle[n]
    BY <2>3 DEF SingleOwner
  <2>5. conn' = [conn EXCEPT ![c] = idle[n]]
    BY <2>1
  <2>6. Len(idle) > 0
    BY <2>3
  <2> QED BY <1>1, <2>2, <2>3, <2>4, <2>5, <2>6
<1>4. ASSUME NEW c \in Clients, SpawnOk(c) PROVE Lease!Next
  <2>1. PICK k \in Conns : Fresh(k) /\ conn' = [conn EXCEPT ![c] = k]
    BY <1>4 DEF SpawnOk
  <2>2. phase = "open" /\ conn[c] = NoConn /\ c \in Charged
    BY <1>4 DEF SpawnOk, PcShape, Owning, Charged
  <2>3. \A d \in Clients : conn[d] # k
    BY <2>1 DEF Fresh, Referenced
  <2> QED BY <1>1, <2>1, <2>2, <2>3
<1>5. ASSUME NEW c \in Clients, WaitAlive(c) PROVE Lease!Next
  <2>a. pc[c] = "wait" /\ slot[c] # NoConn /\ conn' = [conn EXCEPT ![c] = slot[c]]
    BY <1>5 DEF WaitAlive
  <2>b. phase = "open" /\ conn[c] = NoConn
    BY <2>a DEF PcShape, Owning
  <2>c. c \in Charged
    BY <2>a DEF Charged
  <2>d. slot[c] \in Conns
    BY <2>a DEF TypeOK
  <2>1. phase = "open" /\ conn[c] = NoConn /\ c \in Charged /\ slot[c] \in Conns
    BY <2>b, <2>c, <2>d
  <2>2. \A d \in Clients : conn[d] # slot[c]
    BY <2>1 DEF SingleOwner
  <2> QED BY <1>1, <2>a, <2>1, <2>2
<1>6. ASSUME NEW c \in Clients, ReleaseDead(c) \/ HandoffToWaiter(c) \/ HandoffToIdle(c)
      PROVE  Lease!Next
  <2>1. conn[c] # NoConn /\ conn' = [conn EXCEPT ![c] = NoConn]
    BY <1>6 DEF ReleaseDead, HandoffToWaiter, HandoffToIdle, PcShape, Owning
  <2> QED BY <1>2, <2>1
<1>7. ASSUME NEW c \in Clients, CancelSent(c) PROVE Lease!Next \/ UNCHANGED conn
  <2>1. conn[c] # NoConn
    BY <1>7 DEF CancelSent, PcShape, Owning
  <2>2. conn' = conn \/ conn' = [conn EXCEPT ![c] = NoConn]
    BY <1>7, Zenon DEF CancelSent
  <2> QED BY <1>2, <2>1, <2>2
<1>8. ASSUME NEW c \in Clients,
             \/ Begin(c) \/ AcquireCreate(c) \/ AcquireWait(c) \/ SpawnErr(c) \/ WaitDead(c)
             \/ WaitTimeout(c) \/ SendOk(c) \/ SendClosed(c) \/ Receive(c) \/ DropPin(c)
             \/ ReleaseCheck(c)
      PROVE  UNCHANGED conn
  BY <1>8 DEF Begin, AcquireCreate, AcquireWait, SpawnErr, WaitDead, WaitTimeout, SendOk,
              SendClosed, Receive, DropPin, ReleaseCheck
<1>9. ASSUME NEW k \in Conns, Worker(k) PROVE UNCHANGED conn
  BY <1>9 DEF Worker, WorkerDone, WorkerFail, ReconnectOk, ReconnectErr, WorkerHangup
<1>10. CASE Reap \/ CloseJoined \/ DropPool \/ Drain \/ Closed \/ Finished \/ UNCHANGED vars
  BY <1>10 DEF Reap, CloseJoined, DropPool, Drain, Closed, Finished, vars
<1> QED
  BY <1>3, <1>4, <1>5, <1>6, <1>7, <1>8, <1>9, <1>10 DEF Next, Client, Acquire, Release

\* The pool implements ConnLease, for every number of clients and every PoolConfig: what
\* Session assumes of acquire and release is what pool.rs provides.
THEOREM Refinement == Spec => PoolImplementsLease
<1>1. Init => Lease!Init
  BY DEF Init, Lease!Init
<1>2. IInv /\ [Next]_vars => [Lease!Next]_conn
  BY LeaseStep
<1> QED BY Invariance, <1>1, <1>2, PTL DEF Spec, PoolImplementsLease, Lease!Spec
=============================================================================
