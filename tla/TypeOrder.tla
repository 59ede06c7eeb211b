----------------------------- MODULE TypeOrder -----------------------------
(***************************************************************************)
(* topo_order (replica/backfill.rs): the order in which the replica makes  *)
(* the user-defined types of the publication.  A depth-first search with   *)
(* an explicit stack of (node, next dependency); a step is one round of    *)
(* its while loop.                                                         *)
(*                                                                         *)
(* uses[i] lists what definition i names, in order: pairs <<j, how>> with  *)
(* how "plain" or "array".  introspect_types takes the oid of an attribute *)
(* for a dependency when that oid is one of the definitions: the oid of an *)
(* array type never is, so an array is no dependency on its element.       *)
(***************************************************************************)
EXTENDS Integers, Sequences

CONSTANT N   \* number of definitions

ASSUME NAssumption == N \in Nat

Items == 1..N

VARIABLES
  uses,
  colour,    \* `state`: 0, 1, 2
  stack,     \* `stack`: records [node, di], di the place of the last dependency looked at
  order,
  outcome    \* "none", "ok", or "cycle" when ReplicaConfig is returned

typeVars == <<uses, colour, stack, order, outcome>>

\* The places of the list at which definition i names a dependency, and what it names there.
Deps(i) == {k \in DOMAIN uses[i] : uses[i][k][2] = "plain"}
Dep(i, k) == uses[i][k][1]

InitOrder ==
  /\ colour = [i \in Items |-> "white"]
  /\ stack = <<>> /\ order = <<>> /\ outcome = "none"

Top == stack[Len(stack)]
Below == SubSeq(stack, 1, Len(stack) - 1)

\* for start in 0..n
Root ==
  /\ outcome = "none" /\ stack = <<>>
  /\ \E i \in Items :
       /\ colour[i] = "white" /\ \A j \in 1..(i - 1) : colour[j] # "white"
       /\ stack' = <<[node |-> i, di |-> 0]>>
  /\ UNCHANGED <<uses, colour, order, outcome>>

\* Dependencies of the top not looked at yet, that are not done; the top itself counts as
\* grey from its first round on.
Seen(i) == IF i = Top.node THEN "grey" ELSE colour[i]
Open == {k \in Deps(Top.node) : k > Top.di /\ Seen(Dep(Top.node, k)) # "black"}
NextOpen == CHOOSE k \in Open : \A l \in Open : k <= l
NextDep == Dep(Top.node, NextOpen)

Descend ==
  /\ outcome = "none" /\ stack # <<>>
  /\ Open # {} /\ Seen(NextDep) = "white"
  /\ colour' = [colour EXCEPT ![Top.node] = "grey"]
  /\ stack' = Below \o <<[Top EXCEPT !.di = NextOpen], [node |-> NextDep, di |-> 0]>>
  /\ UNCHANGED <<uses, order, outcome>>

Cycle ==
  /\ outcome = "none" /\ stack # <<>>
  /\ Open # {} /\ Seen(NextDep) = "grey"
  /\ outcome' = "cycle"
  /\ UNCHANGED <<uses, colour, stack, order>>

\* Mutant: a node is left grey when it is done.
FinishGrey ==
  /\ outcome = "none" /\ stack # <<>> /\ Open = {}
  /\ order' = Append(order, Top.node)
  /\ colour' = [colour EXCEPT ![Top.node] = "grey"]
  /\ stack' = Below
  /\ UNCHANGED <<uses, outcome>>

\* Mutant: nodes come out as they are entered.
FinishFirst ==
  /\ outcome = "none" /\ stack # <<>> /\ Open = {}
  /\ order' = <<Top.node>> \o order
  /\ colour' = [colour EXCEPT ![Top.node] = "black"]
  /\ stack' = Below
  /\ UNCHANGED <<uses, outcome>>

Finish ==
  /\ outcome = "none" /\ stack # <<>> /\ Open = {}
  /\ order' = Append(order, Top.node)
  /\ colour' = [colour EXCEPT ![Top.node] = "black"]
  /\ stack' = Below
  /\ UNCHANGED <<uses, outcome>>

Ordered ==
  /\ outcome = "none" /\ stack = <<>> /\ \A i \in Items : colour[i] # "white"
  /\ outcome' = "ok"
  /\ UNCHANGED <<uses, colour, stack, order>>

NextOrder == Root \/ Descend \/ Cycle \/ Finish \/ Ordered

-----------------------------------------------------------------------------
(* Properties *)

\* A definition comes out once, after every definition it names directly; and when the
\* search ends well every definition has come out.
DependenciesFirst ==
  /\ \A p, q \in DOMAIN order : order[p] = order[q] => p = q
  /\ \A p \in DOMAIN order : \A k \in Deps(order[p]) :
       \E q \in 1..(p - 1) : order[q] = Dep(order[p], k)
  /\ outcome = "ok" => \A i \in Items : \E p \in DOMAIN order : order[p] = i

\* Some definition names itself, directly or through others.
Cyclic ==
  \E S \in (SUBSET Items) \ {{}} :
    \A i \in S : \E k \in Deps(i) : Dep(i, k) \in S
=============================================================================
