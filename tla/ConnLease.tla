----------------------------- MODULE ConnLease -----------------------------
(***************************************************************************)
(* What Pool::acquire and Pool::release promise their callers, and all     *)
(* that a caller may rely on: a connection is lent to one client at a      *)
(* time, a client gets another only after it gave the first one back, and  *)
(* at most MaxConns are out at once.  Pool implements this specification   *)
(* (PoolImplementsLease); Session is built on it.                          *)
(***************************************************************************)
EXTENDS Integers, FiniteSets

CONSTANTS Clients, Conns, NoConn, MaxConns

VARIABLE lease    \* the connection each client holds, or NoConn

Holders == {c \in Clients : lease[c] # NoConn}
Lent == {lease[c] : c \in Holders}

Init == lease = [c \in Clients |-> NoConn]

\* acquire returned Ok(k) to c.
Take(c, k) ==
  /\ lease[c] = NoConn /\ k \notin Lent
  /\ Cardinality(Holders) < MaxConns
  /\ lease' = [lease EXCEPT ![c] = k]

\* c's Conn was released or dropped.
Give(c) ==
  /\ lease[c] # NoConn
  /\ lease' = [lease EXCEPT ![c] = NoConn]

Next == \E c \in Clients : Give(c) \/ \E k \in Conns : Take(c, k)

Spec == Init /\ [][Next]_lease
=============================================================================
