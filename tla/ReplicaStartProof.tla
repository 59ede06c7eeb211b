------------------------- MODULE ReplicaStartProof -------------------------
(***************************************************************************)
(* The first run and the row changes after it.                             *)
(*                                                                         *)
(* The order of the types is right for every graph of definitions, and the *)
(* first run fails over them only for a reason.  The invariant is that of  *)
(* a depth-first search: the stack is a path of dependencies, what lies on *)
(* it is grey, what is done is black and has come out after everything it  *)
(* names.                                                                  *)
(*                                                                         *)
(* Row changes, for every set of keys and texts and every table: decode    *)
(* reads back what was sent and refuses what was cut off, and what Rel     *)
(* makes of a change does to the local table what it did upstream.         *)
(***************************************************************************)
EXTENDS ReplicaStart, SequenceTheorems, FiniteSetTheorems, WellFoundedInduction, NaturalsInduction, TLAPS

Frames == [node : Items, di : Nat]
Named == Items \X {"plain", "array"}

DfsTypes ==
  /\ uses \in [Items -> Seq(Named)]
  /\ colour \in [Items -> {"white", "grey", "black"}]
  /\ stack \in Seq(Frames) /\ order \in Seq(Items)
  /\ outcome \in {"none", "ok", "cycle"}

\* What has come out is black, came out once, and after all it names.
Sorted ==
  /\ \A i \in Items : colour[i] = "black" <=> \E p \in DOMAIN order : order[p] = i
  /\ \A p, q \in DOMAIN order : order[p] = order[q] => p = q
  /\ \A p \in DOMAIN order : \A k \in Deps(order[p]) :
       \E q \in 1..(p - 1) : order[q] = Dep(order[p], k)

\* Grey is what lies on the stack, its top perhaps white still.
Grey ==
  /\ \A m \in DOMAIN stack : colour[stack[m].node] # "black"
  /\ \A m \in 1..(Len(stack) - 1) : colour[stack[m].node] = "grey"
  /\ \A m, n \in DOMAIN stack : stack[m].node = stack[n].node => m = n
  /\ \A i \in Items : colour[i] = "grey" => \E m \in DOMAIN stack : stack[m].node = i

\* A frame waits for the frame above it, which is the dependency it looked at last; all it
\* looked at before are done.
Path ==
  /\ \A m \in 1..(Len(stack) - 1) :
       /\ stack[m].di \in Deps(stack[m].node)
       /\ Dep(stack[m].node, stack[m].di) = stack[m + 1].node
  /\ \A m \in DOMAIN stack : \A k \in Deps(stack[m].node) :
       k < stack[m].di \/ (k = stack[m].di /\ m = Len(stack)) =>
         colour[Dep(stack[m].node, k)] = "black"

Ended ==
  /\ outcome = "cycle" => Cyclic
  /\ outcome = "ok" => \A i \in Items : colour[i] = "black"

DfsInv == DfsTypes /\ Sorted /\ Grey /\ Path /\ Ended

-----------------------------------------------------------------------------
(* Lemmas *)

\* A set of naturals with an element has a least one.
LEMMA LeastOf ==
  ASSUME NEW T, T \subseteq Nat, T # {}
  PROVE  \E x \in T : \A y \in T : x <= y
<1>1. PICK x \in T : \A y \in T : ~(<<y, x>> \in OpToRel(<, Nat))
  BY WFMin, NatLessThanWellFounded, Zenon
<1>2. \A y \in T : x \in Nat /\ y \in Nat /\ ~(y < x)
  BY <1>1 DEF OpToRel
<1>3. \A y \in T : x <= y
  BY ONLY <1>2
<1> QED BY <1>3

\* What definitions name are definitions.
LEMMA DepType ==
  ASSUME DfsTypes, NEW i \in Items
  PROVE  /\ Deps(i) \subseteq Nat
         /\ \A k \in Deps(i) : Dep(i, k) \in Items
<1>1. uses[i] \in Seq(Named)
  BY DEF DfsTypes
<1>2. DOMAIN uses[i] = 1..Len(uses[i]) /\ Len(uses[i]) \in Nat
  BY <1>1
<1>3. \A k \in DOMAIN uses[i] : uses[i][k] \in Named
  BY <1>1, <1>2
<1> QED BY <1>2, <1>3 DEF Deps, Dep, Named

\* The loop looks at the first dependency that is not done.
LEMMA NextOpenIs ==
  ASSUME DfsTypes, stack # <<>>, Open # {}
  PROVE  /\ NextOpen \in Deps(Top.node) /\ NextOpen > Top.di /\ NextOpen \in Nat
         /\ Seen(NextDep) # "black" /\ NextDep \in Items
         /\ \A k \in Deps(Top.node) : k > Top.di /\ k < NextOpen => Seen(Dep(Top.node, k)) = "black"
<1>1. Top \in Frames
  BY DEF DfsTypes, Top
<1>2. Top.node \in Items /\ Top.di \in Nat
  BY <1>1 DEF Frames
<1>3. Deps(Top.node) \subseteq Nat /\ \A k \in Deps(Top.node) : Dep(Top.node, k) \in Items
  BY <1>2, DepType
<1>4. Open \subseteq Nat
  BY <1>3 DEF Open
<1>5. \E x \in Open : \A y \in Open : x <= y
  BY <1>4, LeastOf, Zenon
<1>6. NextOpen \in Open /\ \A l \in Open : NextOpen <= l
  BY <1>5, Zenon DEF NextOpen
<1>7. NextOpen \in Deps(Top.node) /\ NextOpen > Top.di /\ NextOpen \in Nat /\ Seen(NextDep) # "black"
  BY <1>6, <1>4 DEF Open, NextDep
<1>8. ASSUME NEW k \in Deps(Top.node), k > Top.di, k < NextOpen PROVE Seen(Dep(Top.node, k)) = "black"
  <2>1. k \in Nat
    BY <1>3
  <2>2. k \notin Open
    BY <2>1, <1>6, <1>7, <1>8
  <2> QED BY <2>2, <1>8 DEF Open
<1> QED BY <1>3, <1>7, <1>8 DEF NextDep

-----------------------------------------------------------------------------
(* The steps of topo_order *)

\* for start in 0..n puts a white definition on the empty stack.
LEMMA RootStep ==
  ASSUME DfsInv, Root
  PROVE  DfsInv'
<1>1. PICK i \in Items : colour[i] = "white" /\ stack' = <<[node |-> i, di |-> 0]>>
  BY DEF Root
<1>2. stack = <<>> /\ outcome = "none" /\ UNCHANGED <<uses, colour, order, outcome>>
  BY DEF Root
<1>3. /\ stack' \in Seq(Frames) /\ Len(stack') = 1 /\ DOMAIN stack' = {1}
      /\ stack'[1].node = i /\ stack'[1].di = 0
  BY <1>1 DEF Frames
<1>4. DfsTypes'
  BY <1>2, <1>3 DEF DfsInv, DfsTypes
<1>5. Sorted'
  BY <1>2 DEF DfsInv, Sorted, Deps, Dep
<1>6. Grey'
  <2>1. \A j \in Items : colour[j] # "grey"
    BY <1>2 DEF DfsInv, Grey
  <2> QED BY <1>1, <1>2, <1>3, <2>1 DEF Grey
<1>7. Path'
  <2>1. \A k \in Deps(i) : k > 0
    <3>1. uses[i] \in Seq(Named)
      BY DEF DfsInv, DfsTypes
    <3> QED BY <3>1 DEF Deps
  <2>2. \A k \in Deps(i)' : k > 0 /\ k \in Nat
    BY <2>1, <1>2, DepType DEF Deps, DfsInv
  <2> QED BY <1>3, <2>2 DEF Path
<1>8. Ended'
  BY <1>2 DEF DfsInv, Ended
<1> QED BY <1>4, <1>5, <1>6, <1>7, <1>8 DEF DfsInv

\* A dependency that is white is put on the stack.
LEMMA DescendStep ==
  ASSUME DfsInv, Descend
  PROVE  DfsInv'
<1> DEFINE n == Len(stack)
<1>1. /\ stack # <<>> /\ outcome = "none" /\ Open # {} /\ Seen(NextDep) = "white"
      /\ colour' = [colour EXCEPT ![Top.node] = "grey"]
      /\ stack' = Below \o <<[Top EXCEPT !.di = NextOpen], [node |-> NextDep, di |-> 0]>>
      /\ UNCHANGED <<uses, order, outcome>>
  BY DEF Descend
<1>2. DfsTypes /\ stack \in Seq(Frames) /\ n \in Nat \ {0} /\ DOMAIN stack = 1..n
  BY <1>1 DEF DfsInv, DfsTypes
<1>3. Top = stack[n] /\ Top \in Frames
  BY <1>2 DEF Top
<1> DEFINE t == Top.node d == NextDep o == NextOpen
<1>4. t \in Items /\ Top.di \in Nat
  BY <1>3 DEF Frames
<1>5. /\ o \in Deps(t) /\ o > Top.di /\ o \in Nat /\ d \in Items /\ d = Dep(t, o)
      /\ \A k \in Deps(t) : k > Top.di /\ k < o => Seen(Dep(t, k)) = "black"
  BY <1>1, <1>2, NextOpenIs DEF NextDep
<1>6. d # t /\ colour[d] = "white"
  BY <1>1 DEF Seen
<1>7. /\ stack' \in Seq(Frames) /\ Len(stack') = n + 1 /\ DOMAIN stack' = 1..(n + 1)
      /\ \A m \in 1..(n - 1) : stack'[m] = stack[m]
      /\ stack'[n].node = t /\ stack'[n].di = o
      /\ stack'[n + 1].node = d /\ stack'[n + 1].di = 0
  <2>1. Below \in Seq(Frames) /\ Len(Below) = n - 1 /\ \A m \in 1..(n - 1) : Below[m] = stack[m]
    BY <1>2 DEF Below
  <2> DEFINE f == [Top EXCEPT !.di = NextOpen] g == [node |-> NextDep, di |-> 0]
  <2>2. f \in Frames /\ f.node = t /\ f.di = o
    BY <1>3, <1>5 DEF Frames
  <2>3. g \in Frames /\ g.node = d /\ g.di = 0
    BY <1>5 DEF Frames
  <2> HIDE DEF f, g
  <2>4. stack' = Below \o <<f, g>>
    BY <1>1 DEF f, g
  <2>5. stack' \in Seq(Frames) /\ Len(stack') = n + 1 /\ DOMAIN stack' = 1..(n + 1)
    <3>1. <<f, g>> \in Seq(Frames) /\ Len(<<f, g>>) = 2
      BY <2>2, <2>3
    <3>2. stack' \in Seq(Frames) /\ Len(stack') = Len(Below) + 2
      BY <2>1, <2>4, <3>1, ConcatProperties
    <3> QED BY <2>1, <3>2, <1>2
  <2>6. /\ \A m \in 1..(n - 1) : stack'[m] = stack[m]
        /\ stack'[n] = f /\ stack'[n + 1] = g
    <3>1. /\ <<f, g>> \in Seq(Frames) /\ Len(<<f, g>>) = 2
          /\ <<f, g>>[1] = f /\ <<f, g>>[2] = g
      BY <2>2, <2>3
    <3> DEFINE pair == <<f, g>>
    <3> HIDE DEF pair
    <3>2. \A i \in 1..(Len(Below) + Len(pair)) :
            (Below \o pair)[i] = IF i <= Len(Below) THEN Below[i] ELSE pair[i - Len(Below)]
      BY <2>1, <3>1, ConcatProperties DEF pair
    <3>3. Len(Below) = n - 1 /\ Len(pair) = 2 /\ stack' = Below \o pair
      BY <2>1, <3>1, <2>4 DEF pair
    <3>4. \A i \in 1..(n + 1) : stack'[i] = IF i <= n - 1 THEN Below[i] ELSE pair[i - (n - 1)]
      <4> SUFFICES ASSUME NEW i \in 1..(n + 1)
                   PROVE  stack'[i] = IF i <= n - 1 THEN Below[i] ELSE pair[i - (n - 1)]
        OBVIOUS
      <4>1. i \in 1..(Len(Below) + Len(pair))
        BY <3>3, <1>2
      <4>2. (Below \o pair)[i] = IF i <= Len(Below) THEN Below[i] ELSE pair[i - Len(Below)]
        BY <3>2, <4>1
      <4> QED BY <3>3, <4>2
    <3>5. stack'[n] = pair[1] /\ stack'[n + 1] = pair[2]
      BY <3>4, <1>2
    <3>6. ASSUME NEW m \in 1..(n - 1) PROVE stack'[m] = stack[m]
      <4>1. m \in 1..(n + 1) /\ m <= n - 1
        BY <1>2
      <4> QED BY <3>4, <4>1, <2>1
    <3>7. pair[1] = f /\ pair[2] = g
      BY <3>1 DEF pair
    <3> QED BY <3>5, <3>6, <3>7
  <2> QED BY <2>2, <2>3, <2>5, <2>6
<1>8. /\ colour' \in [Items -> {"white", "grey", "black"}] /\ colour'[t] = "grey"
      /\ \A i \in Items : i # t => colour'[i] = colour[i]
  BY <1>1, <1>2, <1>4 DEF DfsTypes
<1>9. colour[t] # "black"
  BY <1>2, <1>3 DEF DfsInv, Grey
<1>10. \A i \in Items : colour'[i] = "black" <=> colour[i] = "black"
  BY <1>8, <1>9
<1>11. DfsTypes'
  BY <1>1, <1>2, <1>7, <1>8 DEF DfsTypes
<1>12. Sorted'
  BY <1>1, <1>10 DEF DfsInv, Sorted, Deps, Dep
<1> HIDE DEF t, d, o, n
<1>13. \A m \in 1..n : stack'[m].node = stack[m].node /\ stack[m].node \in Items
  <2>1. \A m \in 1..n : stack[m] \in Frames
    BY <1>2 DEF n
  <2>2. \A m \in 1..n : stack[m].node \in Items
    BY <2>1 DEF Frames
  <2>3. stack'[n].node = stack[n].node
    BY <1>7, <1>3 DEF t
  <2>4. \A m \in 1..n : m = n \/ m \in 1..(n - 1)
    BY <1>2
  <2> QED BY <2>2, <2>3, <2>4, <1>7
<1>14. \A m \in 1..n : stack[m].node # d
  <2>1. \A m \in 1..(n - 1) : colour[stack[m].node] = "grey"
    BY DEF DfsInv, Grey, n
  <2> QED BY <1>6, <2>1, <1>3, <1>2 DEF t
<1>15. Grey'
  <2>1. \A m \in 1..(n + 1) : colour'[stack'[m].node] # "black"
    <3>1. \A m \in 1..n : colour[stack[m].node] # "black"
      BY <1>2 DEF DfsInv, Grey
    <3> QED BY <1>2, <1>7, <1>13, <3>1, <1>10, <1>6, <1>5
  <2>2. \A m \in 1..n : colour'[stack'[m].node] = "grey"
    <3>1. \A m \in 1..(n - 1) : colour[stack[m].node] = "grey"
      BY DEF DfsInv, Grey, n
    <3> QED BY <1>2, <1>7, <1>13, <3>1, <1>8
  <2>3. \A m, k \in 1..(n + 1) : stack'[m].node = stack'[k].node => m = k
    <3>1. \A m, k \in 1..n : stack[m].node = stack[k].node => m = k
      BY <1>2 DEF DfsInv, Grey
    <3> QED BY <1>2, <1>7, <1>13, <1>14, <3>1
  <2>4. \A i \in Items : colour'[i] = "grey" => \E m \in 1..(n + 1) : stack'[m].node = i
    <3>1. \A i \in Items : colour[i] = "grey" => \E m \in 1..n : stack[m].node = i
      BY <1>2 DEF DfsInv, Grey
    <3> QED BY <1>2, <1>7, <1>8, <1>13, <3>1
  <2> QED BY <1>2, <1>7, <2>1, <2>2, <2>3, <2>4, SMTT(30) DEF Grey
<1>16. Path'
  <2>1. \A i \in Items : Deps(i)' = Deps(i) /\ \A k \in Deps(i) : Dep(i, k)' = Dep(i, k) /\ k \in Nat /\ k > 0
    <3>1. \A i \in Items : uses[i] \in Seq(Named)
      BY <1>2 DEF DfsTypes
    <3> QED BY <1>1, <3>1 DEF Deps, Dep
  <2>2. /\ \A m \in 1..(n - 1) : stack[m].di \in Deps(stack[m].node) /\ Dep(stack[m].node, stack[m].di) = stack[m + 1].node
        /\ \A m \in 1..n : \A k \in Deps(stack[m].node) :
             k < stack[m].di \/ (k = stack[m].di /\ m = n) => colour[Dep(stack[m].node, k)] = "black"
    BY <1>2 DEF DfsInv, Path, n
  <2> PICK st : st = stack'
    OBVIOUS
  <2>3. ASSUME NEW m \in 1..n
        PROVE  st[m].di \in Deps(st[m].node) /\ Dep(st[m].node, st[m].di) = st[m + 1].node
    <3>1. CASE m < n
      <4>1. st[m] = stack[m] /\ st[m + 1].node = stack[m + 1].node
        BY <1>2, <1>7, <1>13, <3>1
      <4> QED BY <4>1, <2>2, <3>1, <1>2
    <3>2. CASE m = n
      BY <1>5, <1>7, <3>2
    <3> QED BY <3>1, <3>2, <1>2
  <2>4. ASSUME NEW m \in 1..(n + 1), NEW k \in Deps(st[m].node),
               k < st[m].di \/ (k = st[m].di /\ m = n + 1)
        PROVE  colour[Dep(st[m].node, k)] = "black"
    <3>1. CASE m < n
      BY <1>2, <1>7, <2>2, <2>4, <3>1
    <3>2. CASE m = n
      <4>1. k \in Deps(t) /\ k < o /\ k \in Nat
        BY <1>2, <1>7, <2>1, <2>4, <3>2, <1>4, <1>5 DEF t
      <4>2. CASE k <= Top.di
        <5>1. k \in Deps(stack[n].node) /\ (k < stack[n].di \/ k = stack[n].di)
          BY <4>1, <4>2, <1>3, <1>4 DEF t
        <5>2. colour[Dep(stack[n].node, k)] = "black"
          <6>1. n \in 1..n
            BY <1>2
          <6>2. \A j \in Deps(stack[n].node) : j < stack[n].di \/ j = stack[n].di =>
                   colour[Dep(stack[n].node, j)] = "black"
            BY <6>1, <2>2
          <6> QED BY <5>1, <6>2
        <5> QED BY <5>2, <3>2, <1>13, <1>2
      <4>3. CASE k > Top.di
        BY <4>1, <4>3, <1>5, <1>7, <3>2 DEF Seen, t
      <4> QED BY <4>1, <4>2, <4>3, <1>4
    <3>3. CASE m = n + 1
      <4>1. st[m].di = 0 /\ st[m].node = d
        BY <1>7, <3>3
      <4>2. k > 0 /\ k \in Nat
        BY <4>1, <2>1, <1>5
      <4> QED BY <4>1, <4>2, <2>4
    <3> QED BY <3>1, <3>2, <3>3, <1>2
  <2>5. \A m \in 1..(n + 1) : st[m].node \in Items
    BY <1>13, <1>7, <1>5, <1>2
  <2>6. \A m \in 1..(n + 1) : \A k \in Deps(st[m].node) : Dep(st[m].node, k) \in Items
    BY <2>5, <1>2, DepType
  <2>7. \A m \in 1..n : st[m].di \in Deps(st[m].node)' /\ Dep(st[m].node, st[m].di)' = st[m + 1].node
    <3>1. \A m \in 1..n : m \in 1..(n + 1)
      BY <1>2
    <3>2. \A i : Deps(i)' = Deps(i) /\ \A k : Dep(i, k)' = Dep(i, k)
      BY <1>1 DEF Deps, Dep
    <3> QED BY <3>2, <2>3
  <2>8. \A m \in 1..(n + 1) : \A k \in Deps(st[m].node)' :
           k < st[m].di \/ (k = st[m].di /\ m = n + 1) => colour'[Dep(st[m].node, k)'] = "black"
    <3>1. \A i : Deps(i)' = Deps(i) /\ \A k : Dep(i, k)' = Dep(i, k)
      BY <1>1 DEF Deps, Dep
    <3> QED BY <3>1, <2>4, <2>6, <1>10
  <2>9. Len(stack') - 1 = n /\ DOMAIN stack' = 1..(n + 1) /\ Len(stack') = n + 1
    BY <1>2, <1>7
  <2> QED BY <2>9, <2>7, <2>8 DEF Path, Deps, Dep
<1>17. Ended'
  BY <1>1 DEF DfsInv, Ended
<1> QED BY <1>11, <1>12, <1>15, <1>16, <1>17 DEF DfsInv

\* A dependency that is grey lies on the stack: from there up, each names the next.
LEMMA CycleStep ==
  ASSUME DfsInv, Cycle
  PROVE  DfsInv'
<1>1. /\ stack # <<>> /\ Open # {} /\ Seen(NextDep) = "grey" /\ outcome' = "cycle"
      /\ UNCHANGED <<uses, colour, stack, order>>
  BY DEF Cycle
<1> DEFINE n == Len(stack)
<1>2. DfsTypes /\ stack \in Seq(Frames) /\ n \in Nat \ {0} /\ DOMAIN stack = 1..n
  BY <1>1 DEF DfsInv, DfsTypes
<1>3. Top = stack[n] /\ Top \in Frames
  BY <1>2 DEF Top
<1>4. NextOpen \in Deps(Top.node) /\ NextDep \in Items /\ NextDep = Dep(Top.node, NextOpen)
  BY <1>1, <1>2, NextOpenIs DEF NextDep
<1> HIDE DEF n
<1>5. PICK m \in 1..n : stack[m].node = NextDep
  <2>1. CASE NextDep = Top.node
    BY <2>1, <1>2, <1>3
  <2>2. CASE NextDep # Top.node
    <3>1. colour[NextDep] = "grey"
      BY <1>1, <2>2 DEF Seen
    <3> QED BY <3>1, <1>2, <1>4 DEF DfsInv, Grey
  <2> QED BY <2>1, <2>2
<1>6. Cyclic
  <2> DEFINE S == {stack[j].node : j \in m..n}
  <2>1. S \in SUBSET Items
    <3>1. \A j \in m..n : j \in 1..n
      BY <1>2
    <3>2. \A j \in 1..n : stack[j] \in Frames
      BY <1>2 DEF n
    <3> QED BY <3>1, <3>2 DEF Frames
  <2>2. stack[m].node \in S /\ stack[n].node \in S
    BY <1>2
  <2>3. ASSUME NEW i \in S PROVE \E k \in Deps(i) : Dep(i, k) \in S
    <3>1. PICK j \in m..n : i = stack[j].node
      OBVIOUS
    <3>2. CASE j < n
      <4>1. j \in 1..(n - 1) /\ j + 1 \in m..n
        BY <1>2, <3>2
      <4>2. stack[j].di \in Deps(stack[j].node) /\ Dep(stack[j].node, stack[j].di) = stack[j + 1].node
        BY <4>1 DEF DfsInv, Path, n
      <4>3. stack[j + 1].node \in S
        BY <4>1
      <4> HIDE DEF S
      <4> QED BY <3>1, <4>2, <4>3
    <3>3. CASE j = n
      <4> HIDE DEF S
      <4> QED BY <3>1, <3>3, <1>3, <1>4, <1>5, <2>2
    <3> QED BY <3>2, <3>3, <1>2
  <2> HIDE DEF S
  <2>4. S \in (SUBSET Items) \ {{}}
    BY <2>1, <2>2
  <2> QED BY <2>3, <2>4 DEF Cyclic
<1>7. Cyclic'
  BY <1>1, <1>6 DEF Cyclic, Deps, Dep
<1>8. DfsTypes'
  BY <1>1, <1>2 DEF DfsTypes
<1>9. Sorted' /\ Grey' /\ Path'
  BY <1>1 DEF DfsInv, Sorted, Grey, Path, Deps, Dep
<1>10. Ended'
  BY <1>1, <1>7 DEF Ended
<1> QED BY <1>8, <1>9, <1>10 DEF DfsInv

\* A definition comes out when all it names has.
LEMMA FinishStep ==
  ASSUME DfsInv, Finish
  PROVE  DfsInv'
<1>1. /\ stack # <<>> /\ outcome = "none" /\ Open = {}
      /\ order' = Append(order, Top.node)
      /\ colour' = [colour EXCEPT ![Top.node] = "black"]
      /\ stack' = Below /\ UNCHANGED <<uses, outcome>>
  BY DEF Finish
<1> DEFINE n == Len(stack)
<1>2. DfsTypes /\ stack \in Seq(Frames) /\ n \in Nat \ {0} /\ DOMAIN stack = 1..n
  BY <1>1 DEF DfsInv, DfsTypes
<1>3. Top = stack[n] /\ Top \in Frames
  BY <1>2 DEF Top
<1>4. PICK t \in Items : t = Top.node /\ Top.di \in Nat
  BY <1>3 DEF Frames
<1>5. stack' \in Seq(Frames) /\ Len(stack') = n - 1 /\ \A m \in 1..(n - 1) : stack'[m] = stack[m]
  BY <1>1, <1>2 DEF Below
<1> HIDE DEF n
<1>6. DOMAIN stack' = 1..(n - 1)
  BY <1>5, <1>2
<1>7. /\ colour' \in [Items -> {"white", "grey", "black"}] /\ colour'[t] = "black"
      /\ \A i \in Items : i # t => colour'[i] = colour[i]
  BY <1>1, <1>2, <1>4 DEF DfsTypes
<1>8. colour[t] # "black"
  BY <1>2, <1>3, <1>4 DEF DfsInv, Grey
<1>9. \A i : Deps(i)' = Deps(i) /\ \A k : Dep(i, k)' = Dep(i, k)
  BY <1>1 DEF Deps, Dep
<1>10. \A i \in Items : Deps(i) \subseteq Nat /\ \A k \in Deps(i) : Dep(i, k) \in Items
  BY <1>2, DepType
<1>11. ASSUME NEW k \in Deps(t) PROVE colour[Dep(t, k)] = "black"
  <2>1. CASE k > Top.di
    BY <1>1, <1>4, <1>8, <1>11, <2>1 DEF Open, Seen
  <2>2. CASE k <= Top.di
    <3>1. k \in Nat /\ n \in 1..n /\ n \in DOMAIN stack
      BY <1>10, <1>2
    <3>2. \A j \in Deps(stack[n].node) : j < stack[n].di \/ j = stack[n].di => colour[Dep(stack[n].node, j)] = "black"
      BY <3>1 DEF DfsInv, Path, n
    <3> QED BY <3>1, <3>2, <2>2, <1>3, <1>4
  <2> QED BY <2>1, <2>2, <1>4, <1>10
<1>12. DfsTypes'
  BY <1>1, <1>2, <1>4, <1>5, <1>7 DEF DfsTypes
<1> DEFINE l == Len(order)
<1>13. /\ l \in Nat /\ DOMAIN order = 1..l /\ DOMAIN order' = 1..(l + 1)
       /\ \A p \in 1..l : order'[p] = order[p]
       /\ order'[l + 1] = t
  BY <1>1, <1>2, <1>4 DEF DfsTypes
<1> HIDE DEF l
<1>14. /\ \A i \in Items : colour[i] = "black" <=> \E p \in 1..l : order[p] = i
       /\ \A p, q \in 1..l : order[p] = order[q] => p = q
       /\ \A p \in 1..l : \A k \in Deps(order[p]) : \E q \in 1..(p - 1) : order[q] = Dep(order[p], k)
  BY <1>13 DEF DfsInv, Sorted
<1>15. Sorted'
  <2>1. \A i \in Items : colour'[i] = "black" <=> \E p \in 1..(l + 1) : order'[p] = i
    BY <1>7, <1>13, <1>14
  <2>2. \A p, q \in 1..(l + 1) : order'[p] = order'[q] => p = q
    BY <1>4, <1>8, <1>13, <1>14
  <2> PICK ord : ord = order'
    OBVIOUS
  <2>3. ASSUME NEW p \in 1..(l + 1), NEW k \in Deps(ord[p])
        PROVE  \E q \in 1..(p - 1) : ord[q] = Dep(ord[p], k)
    <3>1. CASE p \in 1..l
      <4>1. ord[p] = order[p]
        BY <1>13, <3>1
      <4>2. PICK q \in 1..(p - 1) : order[q] = Dep(order[p], k)
        BY <1>14, <2>3, <3>1, <4>1
      <4>3. q \in 1..l /\ ord[q] = order[q]
        BY <1>13, <3>1
      <4> QED BY <4>1, <4>2, <4>3
    <3>2. CASE p = l + 1
      <4>1. ord[p] = t
        BY <1>13, <3>2
      <4>2. PICK q \in 1..l : order[q] = Dep(t, k)
        BY <4>1, <2>3, <1>10, <1>11, <1>14
      <4>3. ord[q] = order[q] /\ q \in 1..(p - 1)
        BY <1>13, <3>2
      <4> QED BY <4>1, <4>2, <4>3
    <3> QED BY <3>1, <3>2, <1>13
  <2> QED BY <2>1, <2>2, <2>3, <1>9, <1>13 DEF Sorted
<1>16. \A m \in 1..n : stack[m].node \in Items
  <2>1. \A m \in 1..n : stack[m] \in Frames
    BY <1>2 DEF n
  <2> QED BY <2>1 DEF Frames
<1>17. \A m \in 1..(n - 1) : stack[m].node # t
  <2>1. \A m \in 1..n : stack[m].node = stack[n].node => m = n
    BY <1>2 DEF DfsInv, Grey
  <2> QED BY <2>1, <1>2, <1>3, <1>4
<1>18. Grey'
  <2>1. /\ \A m \in 1..(n - 1) : colour[stack[m].node] = "grey"
        /\ \A m, k \in 1..n : stack[m].node = stack[k].node => m = k
        /\ \A i \in Items : colour[i] = "grey" => \E m \in 1..n : stack[m].node = i
    BY <1>2 DEF DfsInv, Grey, n
  <2>2. \A m \in 1..(n - 1) : m \in 1..n /\ colour'[stack'[m].node] = "grey"
    BY <1>2, <1>5, <1>7, <1>16, <1>17, <2>1
  <2>3. \A m, k \in 1..(n - 1) : stack'[m].node = stack'[k].node => m = k
    BY <2>1, <2>2, <1>5
  <2>4. \A i \in Items : colour'[i] = "grey" => \E m \in 1..(n - 1) : stack'[m].node = i
    BY <2>1, <1>2, <1>3, <1>4, <1>5, <1>7
  <2>5. \A m \in 1..(Len(stack') - 1) : m \in 1..(n - 1)
    BY <1>2, <1>5
  <2> QED BY <1>6, <2>2, <2>3, <2>4, <2>5 DEF Grey
<1>19. Path'
  <2>1. /\ \A m \in 1..(n - 1) : stack[m].di \in Deps(stack[m].node) /\ Dep(stack[m].node, stack[m].di) = stack[m + 1].node
        /\ \A m \in 1..n : \A k \in Deps(stack[m].node) :
             k < stack[m].di \/ (k = stack[m].di /\ m = n) => colour[Dep(stack[m].node, k)] = "black"
    BY <1>2 DEF DfsInv, Path, n
  <2> PICK st : st = stack'
    OBVIOUS
  <2>2. ASSUME NEW m \in 1..(n - 2) PROVE st[m].di \in Deps(st[m].node) /\ Dep(st[m].node, st[m].di) = st[m + 1].node
    BY <1>2, <1>5, <2>1
  <2>3. ASSUME NEW m \in 1..(n - 1), NEW k \in Deps(st[m].node), k < st[m].di \/ (k = st[m].di /\ m = n - 1)
        PROVE  colour'[Dep(st[m].node, k)] = "black"
    <3>1. m \in 1..n /\ st[m] = stack[m] /\ st[m].node \in Items /\ Dep(st[m].node, k) \in Items
      BY <1>2, <1>5, <1>10, <1>16, <2>3
    <3>2. CASE k < st[m].di
      <4>1. colour[Dep(st[m].node, k)] = "black"
        BY <2>1, <2>3, <3>1, <3>2
      <4> QED BY <4>1, <3>1, <1>7
    <3>3. CASE k = st[m].di /\ m = n - 1
      <4>1. Dep(st[m].node, k) = stack[m + 1].node /\ m + 1 = n
        BY <2>1, <3>1, <3>3, <1>2
      <4> QED BY <4>1, <1>3, <1>4, <1>7
    <3> QED BY <2>3, <3>2, <3>3
  <2>4. Len(stack') - 1 = n - 2 /\ DOMAIN stack' = 1..(n - 1) /\ Len(stack') = n - 1
    BY <1>2, <1>5, <1>6
  <2>5. \A m \in 1..(n - 1) : \A k \in Deps(st[m].node)' :
           k < st[m].di \/ (k = st[m].di /\ m = n - 1) => colour'[Dep(st[m].node, k)'] = "black"
    BY <2>3, <1>9
  <2>6. \A m \in 1..(n - 2) : st[m].di \in Deps(st[m].node)' /\ Dep(st[m].node, st[m].di)' = st[m + 1].node
    BY <2>2, <1>9
  <2> QED BY <2>4, <2>5, <2>6 DEF Path, Deps, Dep
<1>20. Ended'
  BY <1>1 DEF DfsInv, Ended
<1> QED BY <1>12, <1>15, <1>18, <1>19, <1>20 DEF DfsInv

\* At the end nothing is white, and nothing grey as the stack is empty.
LEMMA OrderedStep ==
  ASSUME DfsInv, Ordered
  PROVE  DfsInv'
<1>1. /\ stack = <<>> /\ outcome' = "ok" /\ UNCHANGED <<uses, colour, stack, order>>
      /\ \A i \in Items : colour[i] # "white"
  BY DEF Ordered
<1>2. \A i \in Items : colour[i] # "grey"
  BY <1>1 DEF DfsInv, Grey
<1>3. \A i \in Items : colour[i] = "black"
  BY <1>1, <1>2 DEF DfsInv, DfsTypes
<1>4. DfsTypes'
  BY <1>1 DEF DfsInv, DfsTypes
<1>5. Sorted' /\ Grey' /\ Path'
  BY <1>1 DEF DfsInv, Sorted, Grey, Path, Deps, Dep
<1>6. Ended'
  BY <1>1, <1>3 DEF Ended
<1> QED BY <1>4, <1>5, <1>6 DEF DfsInv

-----------------------------------------------------------------------------
(* The first run *)

StartInv == DfsInv /\ phase \in {"types", "rows", "failed"} /\ FailsForReason

\* A step that leaves topo_order alone keeps the invariant of the search.
LEMMA DfsSame ==
  ASSUME DfsInv, UNCHANGED <<uses, colour, stack, order, outcome>>
  PROVE  DfsInv' /\ Cyclic' = Cyclic
<1>1. DfsTypes'
  BY DEF DfsInv, DfsTypes
<1>2. Sorted'
  BY DEF DfsInv, Sorted, Deps, Dep
<1>3. Grey'
  BY DEF DfsInv, Grey
<1>4. Path'
  BY DEF DfsInv, Path, Deps, Dep
<1>5. Cyclic' = Cyclic
  BY DEF Cyclic, Deps, Dep
<1>6. Ended'
  BY <1>5 DEF DfsInv, Ended
<1> QED BY <1>1, <1>2, <1>3, <1>4, <1>5, <1>6 DEF DfsInv

\* At the start nothing is on the stack and nothing has come out.
LEMMA InitStart ==
  ASSUME Init
  PROVE  StartInv
<1>1. uses \in [Items -> Uses] /\ InitOrder /\ phase = "types"
  BY DEF Init
<1>2. Uses \subseteq Seq(Named)
  <2>1. ASSUME NEW u \in Uses PROVE u \in Seq(Named)
    <3>1. PICK n \in 0..MaxUses : u \in [1..n -> Named]
      BY <2>1 DEF Uses, Named
    <3>2. n \in Nat
      BY <3>1
    <3> QED BY <3>1, <3>2, SeqDef
  <2> QED BY <2>1
<1>3. DfsTypes
  BY <1>1, <1>2 DEF DfsTypes, InitOrder
<1>4. DOMAIN stack = {} /\ DOMAIN order = {} /\ Len(stack) = 0
  BY <1>1 DEF InitOrder
<1>5. \A i \in Items : colour[i] = "white"
  BY <1>1 DEF InitOrder
<1>6. Sorted /\ Grey /\ Path
  BY <1>4, <1>5 DEF Sorted, Grey, Path
<1>7. Ended /\ FailsForReason
  BY <1>1 DEF Ended, InitOrder, FailsForReason
<1> QED BY <1>1, <1>3, <1>6, <1>7 DEF StartInv, DfsInv

\* A round of topo_order keeps the invariant of the search.
LEMMA OrderStep ==
  ASSUME DfsInv, NextOrder
  PROVE  DfsInv'
BY RootStep, DescendStep, CycleStep, FinishStep, OrderedStep DEF NextOrder

\* When the types are made the search is forgotten.
LEMMA BootstrapStep ==
  ASSUME StartInv, Bootstrap
  PROVE  StartInv'
<1>1. /\ phase' = "rows" /\ outcome' = "none"
      /\ uses' = [i \in Items |-> <<>>] /\ colour' = [i \in Items |-> "white"]
      /\ stack' = <<>> /\ order' = <<>>
  BY DEF Bootstrap
<1>2. DfsTypes'
  BY <1>1 DEF DfsTypes
<1>3. DOMAIN stack' = {} /\ DOMAIN order' = {} /\ Len(stack') = 0
  BY <1>1
<1>4. \A i \in Items : colour'[i] = "white"
  BY <1>1
<1>5. Sorted' /\ Grey' /\ Path'
  BY <1>3, <1>4 DEF Sorted, Grey, Path
<1>6. Ended' /\ FailsForReason'
  BY <1>1 DEF Ended, FailsForReason
<1> QED BY <1>1, <1>2, <1>5, <1>6 DEF StartInv, DfsInv

\* Without arrays an order that puts dependencies first can be made: bootstrap_schema fails
\* over a cycle or over an array.
LEMMA BootstrapFailsStep ==
  ASSUME StartInv, BootstrapFails
  PROVE  StartInv'
<1>1. phase' = "failed" /\ UNCHANGED <<uses, colour, stack, order, outcome>> /\ (outcome = "cycle" \/ ~Makeable)
  BY DEF BootstrapFails, typeVars
<1>2. DfsInv'
  BY <1>1, DfsSame DEF StartInv
<1>3. CASE outcome = "cycle"
  <2>1. Cyclic'
    BY <1>1, <1>2, <1>3 DEF DfsInv, Ended
  <2> QED BY <1>1, <1>2, <2>1 DEF StartInv, FailsForReason
<1>4. CASE ~Makeable
  <2>0. PICK p \in DOMAIN order :
          \E k \in DOMAIN uses[order[p]] : ~\E q \in 1..(p - 1) : order[q] = uses[order[p]][k][1]
    BY <1>4 DEF Makeable
  <2>1. PICK k \in DOMAIN uses[order[p]] : ~\E q \in 1..(p - 1) : order[q] = uses[order[p]][k][1]
    BY <2>0
  <2>2. PICK i : i = order[p]
    OBVIOUS
  <2>3. i \in Items
    BY <2>2 DEF StartInv, DfsInv, DfsTypes
  <2>4. k \notin Deps(i)
    BY <2>1, <2>2 DEF StartInv, DfsInv, Sorted, Dep
  <2>5. uses[i][k][2] # "plain"
    BY <2>1, <2>2, <2>4 DEF Deps
  <2>6. uses[i][k][2] = "array"
    <3>1. uses[i] \in Seq(Named) /\ k \in DOMAIN uses[i]
      BY <2>1, <2>2, <2>3 DEF StartInv, DfsInv, DfsTypes
    <3>2. uses[i][k] \in Named
      BY <3>1
    <3> QED BY <3>2, <2>5 DEF Named
  <2> QED BY <1>1, <1>2, <2>1, <2>2, <2>3, <2>6 DEF StartInv, FailsForReason
<1> QED BY <1>1, <1>3, <1>4

\* The invariant of the first run.
THEOREM StartInvariance == Spec => []StartInv
<1>1. Init => StartInv
  BY InitStart
<1>2. StartInv /\ [Next]_vars => StartInv'
  <2> SUFFICES ASSUME StartInv, [Next]_vars PROVE StartInv'
    OBVIOUS
  <2>1. CASE Order
    <3>1. DfsInv' /\ phase' = phase /\ phase = "types"
      BY <2>1, OrderStep DEF Order, StartInv
    <3> QED BY <3>1 DEF StartInv, FailsForReason
  <2>2. CASE Bootstrap
    BY <2>2, BootstrapStep
  <2>3. CASE BootstrapFails
    BY <2>3, BootstrapFailsStep
  <2>4. CASE Replicate \/ UNCHANGED vars
    <3>1. UNCHANGED <<uses, colour, stack, order, outcome, phase>>
      BY <2>4 DEF Replicate, vars, typeVars
    <3>2. DfsInv' /\ Cyclic' = Cyclic
      BY <3>1, DfsSame DEF StartInv
    <3>3. FailsForReason'
      BY <3>1, <3>2 DEF StartInv, FailsForReason
    <3> QED BY <3>1, <3>2, <3>3 DEF StartInv
  <2> QED BY <2>1, <2>2, <2>3, <2>4 DEF Next
<1> QED BY <1>1, <1>2, PTL DEF Spec

\* For every graph of definitions, each comes out of topo_order once and after what it
\* names, and all come out when it returns Ok.
THEOREM TypesInOrder == Spec => []DependenciesFirst
<1>1. StartInv => DependenciesFirst
  BY DEF StartInv, DfsInv, Sorted, Ended, DependenciesFirst
<1> QED BY <1>1, StartInvariance, PTL

\* bootstrap_schema fails over the types only for a circle or for an array.
THEOREM FailureExplained == Spec => []FailsForReason
<1>1. StartInv => FailsForReason
  BY DEF StartInv
<1> QED BY <1>1, StartInvariance, PTL

-----------------------------------------------------------------------------
(* The rows *)

Words == Keys \cup Texts
Cells == {Null, Toast} \cup {Text(s) : s \in Words}
Tuples == Cells \X Cells

Tokens ==
  {"n", "u", "t", "I", "U", "D", "T", "K", "O", "N"} \cup Nat
    \cup UNION {{s[i] : i \in DOMAIN s} : s \in Words}

\* What PostgreSQL sends: an insert has the new row, an update the new row and perhaps the
\* old key or row, a delete the old key or row, a truncate none.
Options == {<<>>} \cup {<<t>> : t \in Tuples}
Messages ==
  {m \in [op : {"I", "U", "D", "T"}, key : Options, old : Options, new : Options] :
     /\ m.new = <<>> <=> m.op \in {"D", "T"}
     /\ m.key = <<>> \/ m.old = <<>>
     /\ m.op \in {"I", "T"} => m.key = <<>> /\ m.old = <<>>
     /\ m.op = "D" => m.key # <<>> \/ m.old # <<>>}

\* As far as the buffer goes, s is in it from p on.
Reads(buf, p, s) == \A i \in 1..Len(s) : p + i - 1 <= Len(buf) => buf[p + i - 1] = s[i]

-----------------------------------------------------------------------------
(* pgoutput.rs *)

\* A cell is a tag, and for a text its length and its characters.
LEMMA CellTokens ==
  ASSUME NEW c \in Cells
  PROVE  /\ EncodeCell(c) \in Seq(Tokens)
         /\ \/ /\ c \in {Null, Toast} /\ c[1] \in {"n", "u"} /\ c = <<c[1]>>
               /\ EncodeCell(c) = c /\ Len(c) = 1
            \/ \E s \in Words :
                 /\ c = Text(s) /\ c[1] = "t" /\ s \in Seq(Tokens)
                 /\ Len(EncodeCell(c)) = 2 + Len(s)
                 /\ EncodeCell(c)[1] = "t" /\ EncodeCell(c)[2] = Len(s)
                 /\ \A i \in 1..Len(s) : EncodeCell(c)[2 + i] = s[i]
<1>1. CASE c \in {Null, Toast}
  <2>1. c = <<"n">> \/ c = <<"u">>
    BY <1>1 DEF Null, Toast
  <2>2. EncodeCell(c) = c
    BY <2>1 DEF EncodeCell
  <2>3. c \in Seq(Tokens)
    <3>1. "n" \in Tokens /\ "u" \in Tokens
      BY DEF Tokens
    <3>2. <<"n">> \in Seq(Tokens) /\ <<"u">> \in Seq(Tokens)
      BY <3>1
    <3> QED BY <2>1, <3>2
  <2> QED BY <1>1, <2>1, <2>2, <2>3
<1>2. CASE c \notin {Null, Toast}
  <2>1. PICK s \in Words : c = <<"t", s>>
    BY <1>2 DEF Cells, Text
  <2>2. s \in Seq(Tokens)
    <3>1. s \in Seq({s[i] : i \in DOMAIN s})
      BY RowsAssumption DEF Words
    <3>2. {s[i] : i \in DOMAIN s} \subseteq Tokens
      BY DEF Tokens
    <3> QED BY <3>1, <3>2, SeqMonotonic
  <2>3. Len(s) \in Nat
    BY <2>2
  <2>4. <<"t", Len(s)>> \in Seq(Tokens)
    BY <2>3 DEF Tokens
  <2>5. EncodeCell(c) = <<"t", Len(s)>> \o s
    BY <2>1 DEF EncodeCell
  <2>6. /\ EncodeCell(c) \in Seq(Tokens)
        /\ Len(EncodeCell(c)) = 2 + Len(s)
    BY <2>2, <2>4, <2>5
  <2>7. EncodeCell(c)[1] = "t" /\ EncodeCell(c)[2] = Len(s) /\ \A i \in 1..Len(s) : EncodeCell(c)[2 + i] = s[i]
    BY <2>2, <2>3, <2>4, <2>5
  <2> QED BY <2>1, <2>2, <2>6, <2>7 DEF Text
<1> QED BY <1>1, <1>2

\* Cursor::tuple reads a cell that is there and meets the end in one that is not.
LEMMA CellReads ==
  ASSUME NEW c \in Cells, NEW buf \in Seq(Tokens), NEW p \in Nat \ {0}, NEW v,
         Reads(buf, p, EncodeCell(c))
  PROVE  CellAt(buf, Cursor(p, v)) =
           IF p + Len(EncodeCell(c)) - 1 <= Len(buf)
           THEN Cursor(p + Len(EncodeCell(c)), Append(v, c)) ELSE Truncated
<1> DEFINE e == EncodeCell(c)
<1>0. Len(buf) \in Nat
  OBVIOUS
<1>1. Cursor(p, v).ok = TRUE /\ Cursor(p, v).pos = p /\ Cursor(p, v).val = v
  BY DEF Cursor
<1>2. \A q, n : Take(buf, q, n).ok <=> ~(q + n - 1 > Len(buf))
  BY DEF Take, Truncated, Cursor
<1>3. CASE p > Len(buf)
  <2>1. ~Take(buf, p, 1).ok
    BY <1>0, <1>2, <1>3
  <2>2. Len(e) >= 1 /\ Len(e) \in Nat
    BY CellTokens
  <2>3. ~(p + Len(e) - 1 <= Len(buf))
    BY <2>2, <1>0, <1>3
  <2> QED BY <2>1, <2>3, <1>1 DEF CellAt
<1>4. CASE p <= Len(buf) /\ c \in {Null, Toast}
  <2>1. e = c /\ Len(e) = 1 /\ c[1] \in {"n", "u"} /\ c = <<c[1]>>
    BY <1>4, CellTokens DEF Text, Null, Toast
  <2>2. buf[p] = c[1]
    BY <2>1, <1>4, <1>0 DEF Reads
  <2>3. Take(buf, p, 1).ok
    BY <1>0, <1>2, <1>4
  <2>4. p + Len(e) - 1 <= Len(buf) /\ p + Len(e) = p + 1
    BY <2>1, <1>4
  <2> QED BY <1>1, <2>1, <2>2, <2>3, <2>4 DEF CellAt
<1>5. CASE p <= Len(buf) /\ c \notin {Null, Toast}
  <2>1. PICK s \in Words :
          /\ c = Text(s) /\ s \in Seq(Tokens) /\ Len(e) = 2 + Len(s)
          /\ e[1] = "t" /\ e[2] = Len(s) /\ \A i \in 1..Len(s) : e[2 + i] = s[i]
    BY <1>5, CellTokens
  <2>2. Len(s) \in Nat
    BY <2>1
  <2>3. buf[p] = "t" /\ Take(buf, p, 1).ok
    BY <2>1, <2>2, <1>0, <1>2, <1>5 DEF Reads
  <2>4. CASE p + 1 > Len(buf)
    <3>1. ~Take(buf, p + 1, 1).ok
      BY <2>4, <1>0, <1>2
    <3>2. ~(p + Len(e) - 1 <= Len(buf))
      BY <2>1, <2>2, <2>4, <1>0
    <3> QED BY <1>1, <2>3, <3>1, <3>2 DEF CellAt
  <2>5. CASE p + 1 <= Len(buf)
    <3>1. buf[p + 1] = Len(s) /\ Take(buf, p + 1, 1).ok
      BY <2>1, <2>2, <2>5, <1>0, <1>2 DEF Reads
    <3>2. CASE p + 2 + Len(s) - 1 > Len(buf)
      <4>1. ~Take(buf, p + 2, Len(s)).ok
        BY <3>2, <1>2
      <4>2. ~(p + Len(e) - 1 <= Len(buf))
        BY <2>1, <2>2, <3>2, <1>0
      <4> QED BY <1>1, <2>3, <3>1, <4>1, <4>2 DEF CellAt
    <3>3. CASE p + 2 + Len(s) - 1 <= Len(buf)
      <4>1. SubSeq(buf, p + 2, p + 2 + Len(s) - 1) = s
        <5> DEFINE u == SubSeq(buf, p + 2, p + 2 + Len(s) - 1)
        <5>1. \A i \in (p + 2)..(p + 2 + Len(s) - 1) : buf[i] \in Tokens
          BY <3>3, <1>0, <2>2
        <5>2. u \in Seq(Tokens) /\ Len(u) = Len(s) /\ \A i \in 1..Len(s) : u[i] = buf[p + 2 + i - 1]
          BY <5>1, <2>2, SubSeqProperties
        <5>3. \A i \in 1..Len(s) : buf[p + 2 + i - 1] = s[i]
          <6> SUFFICES ASSUME NEW i \in 1..Len(s) PROVE buf[p + 2 + i - 1] = s[i]
            OBVIOUS
          <6>1. 2 + i \in 1..Len(e) /\ p + (2 + i) - 1 <= Len(buf) /\ p + (2 + i) - 1 = p + 2 + i - 1
            BY <2>1, <2>2, <3>3, <1>0
          <6>2. buf[p + (2 + i) - 1] = e[2 + i]
            BY <6>1 DEF Reads
          <6> QED BY <6>1, <6>2, <2>1
        <5> QED BY <5>2, <5>3, <2>1, SeqEqual
      <4>2. Take(buf, p + 2, Len(s)) = Cursor(p + 2 + Len(s), s)
        <5>1. ~((p + 2) + Len(s) - 1 > Len(buf))
          BY <3>3, <1>0, <2>2
        <5> QED BY <5>1, <4>1 DEF Take
      <4>3. /\ Take(buf, p + 2, Len(s)).ok /\ Take(buf, p + 2, Len(s)).pos = p + 2 + Len(s)
            /\ Take(buf, p + 2, Len(s)).val = s
        BY <4>2 DEF Cursor
      <4>4. p + Len(e) - 1 <= Len(buf) /\ p + Len(e) = p + 2 + Len(s)
        BY <2>1, <2>2, <3>3
      <4> QED BY <1>1, <2>1, <2>3, <3>1, <4>3, <4>4 DEF CellAt
    <3> QED BY <3>2, <3>3, <1>0, <2>2
  <2> QED BY <2>4, <2>5, <1>0
<1> QED BY <1>0, <1>3, <1>4, <1>5

\* Two sequences one after the other.
LEMMA ReadsConcat ==
  ASSUME NEW buf, NEW p \in Nat, NEW s \in Seq(Tokens), NEW t \in Seq(Tokens), Len(buf) \in Nat,
         Reads(buf, p, s \o t)
  PROVE  Reads(buf, p, s) /\ Reads(buf, p + Len(s), t)
<1>1. /\ Len(s) \in Nat /\ Len(t) \in Nat /\ Len(s \o t) = Len(s) + Len(t)
      /\ \A i \in 1..(Len(s) + Len(t)) : (s \o t)[i] = IF i <= Len(s) THEN s[i] ELSE t[i - Len(s)]
  BY ConcatProperties
<1> DEFINE u == s \o t
<1> HIDE DEF u
<1>2. Reads(buf, p, s)
  <2> SUFFICES ASSUME NEW i \in 1..Len(s), p + i - 1 <= Len(buf) PROVE buf[p + i - 1] = s[i]
    BY DEF Reads
  <2>1. i \in 1..Len(u) /\ u[i] = s[i]
    BY <1>1 DEF u
  <2> QED BY <2>1 DEF Reads, u
<1>3. Reads(buf, p + Len(s), t)
  <2> SUFFICES ASSUME NEW i \in 1..Len(t), p + Len(s) + i - 1 <= Len(buf) PROVE buf[p + Len(s) + i - 1] = t[i]
    BY DEF Reads
  <2>1. Len(s) + i \in 1..Len(u) /\ u[Len(s) + i] = t[i]
    BY <1>1 DEF u
  <2>2. p + (Len(s) + i) - 1 = p + Len(s) + i - 1
    BY <1>1
  <2>3. buf[p + (Len(s) + i) - 1] = u[Len(s) + i]
    BY <2>1, <2>2 DEF Reads, u
  <2> QED BY <2>1, <2>2, <2>3
<1> QED BY <1>2, <1>3

\* A tuple is its number of cells and the cells.
LEMMA TupleTokens ==
  ASSUME NEW t \in Tuples
  PROVE  /\ EncodeTuple(t) \in Seq(Tokens) /\ Len(t) = 2
         /\ t[1] \in Cells /\ t[2] \in Cells /\ t = <<t[1], t[2]>>
         /\ Len(EncodeTuple(t)) = 1 + Len(EncodeCell(t[1])) + Len(EncodeCell(t[2]))
         /\ Len(EncodeCell(t[1])) \in Nat \ {0} /\ Len(EncodeCell(t[2])) \in Nat \ {0}
         /\ EncodeTuple(t) = <<2>> \o EncodeCell(t[1]) \o EncodeCell(t[2])
<1>1. t[1] \in Cells /\ t[2] \in Cells /\ t = <<t[1], t[2]>> /\ Len(t) = 2
  BY DEF Tuples
<1>2. PICK a, b : a = EncodeCell(t[1]) /\ b = EncodeCell(t[2])
  OBVIOUS
<1>3. a \in Seq(Tokens) /\ b \in Seq(Tokens) /\ Len(a) \in Nat \ {0} /\ Len(b) \in Nat \ {0}
  <2>1. \A c \in Cells : EncodeCell(c) \in Seq(Tokens) /\ Len(EncodeCell(c)) \in Nat \ {0}
    <3> SUFFICES ASSUME NEW c \in Cells PROVE EncodeCell(c) \in Seq(Tokens) /\ Len(EncodeCell(c)) \in Nat \ {0}
      OBVIOUS
    <3>1. EncodeCell(c) \in Seq(Tokens)
      BY CellTokens
    <3>2. Len(EncodeCell(c)) \in Nat
      BY <3>1
    <3>3. Len(EncodeCell(c)) # 0
      <4>1. CASE Len(EncodeCell(c)) = 1
        BY <4>1
      <4>2. CASE \E s \in Words : s \in Seq(Tokens) /\ Len(EncodeCell(c)) = 2 + Len(s)
        BY <4>2
      <4> QED BY <4>1, <4>2, CellTokens
    <3> QED BY <3>1, <3>2, <3>3
  <2> QED BY <2>1, <1>1, <1>2
<1>4. <<2>> \in Seq(Tokens)
  <2>1. 2 \in Tokens
    BY DEF Tokens
  <2> QED BY <2>1
<1>5. EncodeTuple(t) = <<2>> \o a \o b
  BY <1>1, <1>2 DEF EncodeTuple
<1>6. <<2>> \o a \o b \in Seq(Tokens) /\ Len(<<2>> \o a \o b) = 1 + Len(a) + Len(b)
  BY <1>3, <1>4
<1> QED BY <1>1, <1>2, <1>3, <1>5, <1>6

\* Cursor::tuple reads a tuple that is there and refuses one that was cut off.
LEMMA TupleReads ==
  ASSUME NEW t \in Tuples, NEW buf \in Seq(Tokens), NEW p \in Nat \ {0},
         Reads(buf, p, EncodeTuple(t))
  PROVE  TupleAt(buf, p) =
           IF p + Len(EncodeTuple(t)) - 1 <= Len(buf)
           THEN Cursor(p + Len(EncodeTuple(t)), t) ELSE Truncated
<1>0. Len(buf) \in Nat
  OBVIOUS
<1>1. PICK a, b : a = EncodeCell(t[1]) /\ b = EncodeCell(t[2])
  OBVIOUS
<1>2. PICK L : L = Len(EncodeTuple(t))
  OBVIOUS
<1>3. /\ a \in Seq(Tokens) /\ b \in Seq(Tokens) /\ Len(a) \in Nat \ {0} /\ Len(b) \in Nat \ {0}
      /\ L = 1 + Len(a) + Len(b) /\ EncodeTuple(t) = <<2>> \o a \o b
      /\ t[1] \in Cells /\ t[2] \in Cells /\ t = <<t[1], t[2]>>
  BY <1>1, <1>2, TupleTokens, CellTokens
<1>4. <<2>> \in Seq(Tokens) /\ Len(<<2>>) = 1 /\ <<2>>[1] = 2
  <2>1. 2 \in Tokens
    BY DEF Tokens
  <2> QED BY <2>1
<1>5. Reads(buf, p, <<2>>) /\ Reads(buf, p + 1, a) /\ Reads(buf, p + 1 + Len(a), b)
  <2>1. <<2>> \o a \in Seq(Tokens) /\ Len(<<2>> \o a) = 1 + Len(a)
    BY <1>3, <1>4
  <2>2. Reads(buf, p, <<2>> \o a) /\ Reads(buf, p + Len(<<2>> \o a), b)
    BY <2>1, <1>0, <1>3, ReadsConcat
  <2>3. Reads(buf, p, <<2>>) /\ Reads(buf, p + Len(<<2>>), a)
    BY <2>2, <1>0, <1>3, <1>4, ReadsConcat
  <2>4. p + Len(<<2>> \o a) = p + 1 + Len(a)
    BY <2>1, <1>3
  <2> QED BY <2>2, <2>3, <2>4, <1>4
<1>6. Take(buf, p, 1).ok <=> p <= Len(buf)
  BY <1>0 DEF Take, Truncated, Cursor
<1>7. CASE p > Len(buf)
  <2>1. ~(p + L - 1 <= Len(buf))
    BY <1>0, <1>3, <1>7
  <2> QED BY <2>1, <1>0, <1>2, <1>6, <1>7 DEF TupleAt
<1>8. CASE p <= Len(buf)
  <2>1. buf[p] = 2
    BY <1>0, <1>4, <1>5, <1>8 DEF Reads
  <2>2. PICK c0 : c0 = Cursor(p + 1, <<>>)
    OBVIOUS
  <2>3. PICK c1 : c1 = CellAt(buf, c0)
    OBVIOUS
  <2>4. PICK c2 : c2 = CellAt(buf, c1)
    OBVIOUS
  <2>5. TupleAt(buf, p) = c2
    <3> DEFINE F(f) == [k \in 0..2 |-> IF k = 0 THEN Cursor(p + 1, <<>>) ELSE CellAt(buf, f[k - 1])]
               w == [k \in 0..2 |-> IF k = 0 THEN c0 ELSE IF k = 1 THEN c1 ELSE c2]
               g == CHOOSE f : f = F(f)
    <3>1. w = F(w)
      <4>1. w[0] = c0 /\ w[1] = c1
        OBVIOUS
      <4>2. \A k \in 0..2 : w[k] = F(w)[k]
        BY <4>1, <2>2, <2>3, <2>4
      <4> QED BY <4>2
    <3>2. g = F(g)
      BY <3>1
    <3> HIDE DEF w
    <3>3. g[2] = c2
      <4>1. g[0] = c0
        BY <3>2, <2>2
      <4>2. g[1] = CellAt(buf, g[0])
        BY <3>2, SMTT(30)
      <4>3. g[2] = CellAt(buf, g[1])
        BY <3>2
      <4> QED BY <4>1, <4>2, <4>3, <2>3, <2>4
    <3>4. TupleAt(buf, p) = g[2]
      BY <2>1, <1>6, <1>8 DEF TupleAt
    <3> QED BY <3>3, <3>4
  <2>6. c1 = IF p + 1 + Len(a) - 1 <= Len(buf) THEN Cursor(p + 1 + Len(a), Append(<<>>, t[1])) ELSE Truncated
    <3>1. p + 1 \in Nat \ {0}
      OBVIOUS
    <3> QED BY <3>1, <2>2, <2>3, <1>1, <1>3, <1>5, CellReads
  <2>7. CASE p + 1 + Len(a) - 1 > Len(buf)
    <3>1. c1 = Truncated
      BY <2>6, <2>7, <1>0, <1>3
    <3>2. c2 = Truncated
      BY <2>4, <3>1 DEF CellAt, Truncated
    <3>3. ~(p + L - 1 <= Len(buf))
      BY <2>7, <1>0, <1>3
    <3> QED BY <2>5, <3>2, <3>3, <1>2
  <2>8. CASE p + 1 + Len(a) - 1 <= Len(buf)
    <3>1. c1 = Cursor(p + 1 + Len(a), Append(<<>>, t[1]))
      BY <2>6, <2>8
    <3>2. p + 1 + Len(a) \in Nat \ {0}
      BY <1>3
    <3>3. c2 = IF p + 1 + Len(a) + Len(b) - 1 <= Len(buf)
               THEN Cursor(p + 1 + Len(a) + Len(b), Append(Append(<<>>, t[1]), t[2])) ELSE Truncated
      BY <2>4, <3>1, <3>2, <1>1, <1>3, <1>5, CellReads
    <3>4. Append(Append(<<>>, t[1]), t[2]) = t
      BY <1>3
    <3>5. p + 1 + Len(a) + Len(b) = p + L /\ p + 1 + Len(a) + Len(b) - 1 = p + L - 1
      BY <1>3
    <3> QED BY <2>5, <3>3, <3>4, <3>5, <1>2
  <2> QED BY <2>7, <2>8, <1>0, <1>3
<1> QED BY <1>0, <1>7, <1>8


\* The tag of the tuple that comes next.
LEMMA MarkerReads ==
  ASSUME NEW buf, Len(buf) \in Nat, NEW p \in Nat \ {0}
  PROVE  MarkerAt(buf, p) = IF p <= Len(buf) THEN buf[p] ELSE "none"
<1>1. Take(buf, p, 1).ok <=> p <= Len(buf)
  BY DEF Take, Truncated, Cursor
<1> QED BY <1>1 DEF MarkerAt

\* An optional tuple is nothing, or its marker and the tuple.
LEMMA OptionReads ==
  ASSUME NEW t \in Tuples, NEW buf \in Seq(Tokens), NEW p \in Nat \ {0}, NEW k \in {"K", "O", "N"},
         Reads(buf, p, Optional(k, <<t>>))
  PROVE  /\ MarkerAt(buf, p) = IF p <= Len(buf) THEN k ELSE "none"
         /\ TupleAt(buf, p + 1) =
              IF p + Len(Optional(k, <<t>>)) - 1 <= Len(buf)
              THEN Cursor(p + Len(Optional(k, <<t>>)), t) ELSE Truncated
<1>1. PICK e : e = EncodeTuple(t)
  OBVIOUS
<1>2. e \in Seq(Tokens) /\ Len(e) \in Nat
  BY <1>1, TupleTokens
<1>3. <<k>> \in Seq(Tokens) /\ Len(<<k>>) = 1 /\ <<k>>[1] = k
  <2>1. k \in Tokens
    BY DEF Tokens
  <2> QED BY <2>1
<1>4. Optional(k, <<t>>) = <<k>> \o e /\ Len(Optional(k, <<t>>)) = 1 + Len(e)
  <2>1. Optional(k, <<t>>) = <<k>> \o e
    BY <1>1 DEF Optional
  <2> QED BY <2>1, <1>2, <1>3
<1>5. Reads(buf, p, <<k>>) /\ Reads(buf, p + 1, e)
  <2>0. Len(buf) \in Nat
    OBVIOUS
  <2>1. Reads(buf, p, <<k>> \o e)
    BY <1>4, Zenon
  <2>2. Reads(buf, p, <<k>>) /\ Reads(buf, p + Len(<<k>>), e)
    BY <2>0, <2>1, <1>2, <1>3, ReadsConcat
  <2> QED BY <2>2, <1>3
<1>6. MarkerAt(buf, p) = IF p <= Len(buf) THEN k ELSE "none"
  <2>1. p <= Len(buf) => buf[p] = k
    BY <1>3, <1>5 DEF Reads
  <2> QED BY <2>1, MarkerReads
<1>7. TupleAt(buf, p + 1) = IF p + 1 + Len(e) - 1 <= Len(buf) THEN Cursor(p + 1 + Len(e), t) ELSE Truncated
  <2>1. p + 1 \in Nat \ {0}
    OBVIOUS
  <2> QED BY <2>1, <1>1, <1>5, TupleReads
<1>8. p + 1 + Len(e) = p + Len(Optional(k, <<t>>)) /\ p + 1 + Len(e) - 1 = p + Len(Optional(k, <<t>>)) - 1
  <2>1. PICK l : l = Len(Optional(k, <<t>>))
    OBVIOUS
  <2>2. l = 1 + Len(e)
    BY <2>1, <1>4
  <2>3. p + 1 + Len(e) = p + l /\ p + 1 + Len(e) - 1 = p + l - 1
    BY <2>2, <1>2
  <2> QED BY <2>1, <2>3
<1> QED BY <1>6, <1>7, <1>8

\* What an optional tuple is made of.
LEMMA OptionTokens ==
  ASSUME NEW o \in Options, NEW k \in {"K", "O", "N"}
  PROVE  /\ Optional(k, o) \in Seq(Tokens)
         /\ o = <<>> => Optional(k, o) = <<>> /\ Len(Optional(k, o)) = 0
         /\ o # <<>> => Len(Optional(k, o)) >= 2 /\ \E t \in Tuples : o = <<t>>
<1>1. CASE o = <<>>
  BY <1>1 DEF Optional
<1>2. CASE o # <<>>
  <2>1. PICK t \in Tuples : o = <<t>>
    BY <1>2 DEF Options
  <2>2. PICK e : e = EncodeTuple(t)
    OBVIOUS
  <2>3. e \in Seq(Tokens) /\ Len(e) \in Nat \ {0}
    BY <2>2, TupleTokens
  <2>4. <<k>> \in Seq(Tokens) /\ Len(<<k>>) = 1
    <3>1. k \in Tokens
      BY DEF Tokens
    <3> QED BY <3>1
  <2>5. Optional(k, o) = <<k>> \o e
    BY <2>1, <2>2 DEF Optional
  <2>6. Optional(k, o) \in Seq(Tokens) /\ Len(Optional(k, o)) = 1 + Len(e)
    BY <2>3, <2>4, <2>5
  <2> QED BY <2>1, <2>3, <2>6, <1>2
<1> QED BY <1>1, <1>2


\* Two sequences of tokens are one.
LEMMA ConcatTokens ==
  ASSUME NEW s \in Seq(Tokens), NEW t \in Seq(Tokens)
  PROVE  s \o t \in Seq(Tokens) /\ Len(s \o t) = Len(s) + Len(t) /\ Len(s) \in Nat /\ Len(t) \in Nat
BY ConcatProperties

\* The parts of a message.
LEMMA MessageReads ==
  ASSUME NEW m \in Messages, NEW buf \in Seq(Tokens), Reads(buf, 1, Encode(m)),
         NEW K, NEW O, NEW E, K = Optional("K", m.key), O = Optional("O", m.old), E = Optional("N", m.new)
  PROVE  /\ Encode(m) \in Seq(Tokens)
         /\ Len(K) \in Nat /\ Len(O) \in Nat /\ Len(E) \in Nat
         /\ Len(Encode(m)) = 2 + Len(K) + Len(O) + Len(E)
         /\ Len(buf) >= 1 => buf[1] = m.op
         /\ Reads(buf, 3, K) /\ Reads(buf, 3 + Len(K), O) /\ Reads(buf, 3 + Len(K) + Len(O), E)
<1>1. m.key \in Options /\ m.old \in Options /\ m.new \in Options /\ m.op \in {"I", "U", "D", "T"}
  BY DEF Messages
<1>2. K \in Seq(Tokens) /\ O \in Seq(Tokens) /\ E \in Seq(Tokens)
  BY <1>1, OptionTokens
<1>3. PICK h : h = <<m.op, 7>>
  OBVIOUS
<1>4. h \in Seq(Tokens) /\ Len(h) = 2 /\ h[1] = m.op
  <2>1. m.op \in Tokens /\ 7 \in Tokens
    BY <1>1 DEF Tokens
  <2> QED BY <2>1, <1>3
<1>5. Encode(m) = ((h \o K) \o O) \o E
  BY <1>3 DEF Encode, RelId
<1>6. h \o K \in Seq(Tokens) /\ Len(h \o K) = 2 + Len(K)
  BY <1>2, <1>4, ConcatTokens
<1>7. PICK hk : hk = h \o K
  OBVIOUS
<1>8. hk \o O \in Seq(Tokens) /\ Len(hk \o O) = 2 + Len(K) + Len(O)
  <2>1. hk \in Seq(Tokens) /\ Len(hk) = 2 + Len(K)
    BY <1>6, <1>7
  <2> QED BY <2>1, <1>2, ConcatTokens, ZenonT(60)
<1>9. PICK hko : hko = hk \o O
  OBVIOUS
<1>10. hko \o E \in Seq(Tokens) /\ Len(hko \o E) = 2 + Len(K) + Len(O) + Len(E)
  <2>1. hko \in Seq(Tokens) /\ Len(hko) = 2 + Len(K) + Len(O)
    BY <1>8, <1>9
  <2> QED BY <2>1, <1>2, ConcatTokens, ZenonT(60)
<1>11. Len(K) \in Nat /\ Len(O) \in Nat /\ Len(E) \in Nat /\ Len(buf) \in Nat
  BY <1>2
<1>12. Reads(buf, 1, hko \o E)
  BY <1>5, <1>7, <1>9
<1>13. Reads(buf, 1, hko) /\ Reads(buf, 1 + Len(hko), E)
  BY <1>12, <1>2, <1>8, <1>9, <1>11, ReadsConcat
<1>14. Reads(buf, 1, hk) /\ Reads(buf, 1 + Len(hk), O)
  BY <1>13, <1>2, <1>6, <1>7, <1>9, <1>11, ReadsConcat
<1>15. Reads(buf, 1, h) /\ Reads(buf, 1 + Len(h), K)
  BY <1>14, <1>2, <1>4, <1>7, <1>11, ReadsConcat
<1>16. 1 + Len(h) = 3 /\ 1 + Len(hk) = 3 + Len(K) /\ 1 + Len(hko) = 3 + Len(K) + Len(O)
  <2>1. Len(h) = 2 /\ Len(hk) = 2 + Len(K) /\ Len(hko) = 2 + Len(K) + Len(O)
    BY <1>4, <1>6, <1>7, <1>8, <1>9
  <2> QED BY <2>1, <1>11
<1>17. Len(buf) >= 1 => buf[1] = m.op
  BY <1>4, <1>15, <1>11 DEF Reads
<1> QED BY <1>5, <1>7, <1>9, <1>10, <1>11, <1>13, <1>14, <1>15, <1>16, <1>17

\* decode reads a whole message back as it was and refuses one that was cut off.
LEMMA DecodeReads ==
  ASSUME NEW m \in Messages, NEW buf \in Seq(Tokens), Reads(buf, 1, Encode(m)),
         Len(buf) <= Len(Encode(m))
  PROVE  Decode(buf) = IF Len(buf) = Len(Encode(m)) THEN <<m>> ELSE <<>>
<1>1. PICK K, O, E, l : /\ K = Optional("K", m.key) /\ O = Optional("O", m.old) /\ E = Optional("N", m.new)
                        /\ l = Len(Encode(m))
  OBVIOUS
<1>2. /\ Len(K) \in Nat /\ Len(O) \in Nat /\ Len(E) \in Nat /\ Len(buf) \in Nat
      /\ l = 2 + Len(K) + Len(O) + Len(E) /\ l \in Nat
      /\ Len(buf) >= 1 => buf[1] = m.op
      /\ Reads(buf, 3, K) /\ Reads(buf, 3 + Len(K), O) /\ Reads(buf, 3 + Len(K) + Len(O), E)
  <2>1. /\ Len(K) \in Nat /\ Len(O) \in Nat /\ Len(E) \in Nat
        /\ l = 2 + Len(K) + Len(O) + Len(E)
        /\ Len(buf) >= 1 => buf[1] = m.op
        /\ Reads(buf, 3, K) /\ Reads(buf, 3 + Len(K), O) /\ Reads(buf, 3 + Len(K) + Len(O), E)
    BY <1>1, MessageReads, SMTT(30)
  <2> QED BY <2>1
<1>3. /\ m.key \in Options /\ m.old \in Options /\ m.new \in Options /\ m.op \in {"I", "U", "D", "T"}
      /\ m = Change(m.op, m.key, m.old, m.new)
      /\ m.new = <<>> <=> m.op \in {"D", "T"}
      /\ m.key = <<>> \/ m.old = <<>>
      /\ m.op \in {"I", "T"} => m.key = <<>> /\ m.old = <<>>
      /\ m.op = "D" => m.key # <<>> \/ m.old # <<>>
  BY DEF Messages, Change
<1>4. /\ m.key = <<>> => Len(K) = 0
      /\ m.key # <<>> => Len(K) >= 2 /\ \E t \in Tuples : m.key = <<t>>
      /\ m.old = <<>> => Len(O) = 0
      /\ m.old # <<>> => Len(O) >= 2 /\ \E t \in Tuples : m.old = <<t>>
      /\ m.new = <<>> => Len(E) = 0
      /\ m.new # <<>> => Len(E) >= 2 /\ \E t \in Tuples : m.new = <<t>>
  BY <1>1, <1>3, OptionTokens
<1> DEFINE marker == MarkerAt(buf, 3)
           first == IF marker \in {"K", "O"} THEN TupleAt(buf, 4) ELSE Cursor(3, <<>>)
           key == IF marker = "K" THEN <<first.val>> ELSE <<>>
           old == IF marker = "O" THEN <<first.val>> ELSE <<>>
           second == TupleAt(buf, first.pos + 1)
           P == Len(K) + Len(O)
<1>5. CASE Len(buf) < 2
  BY <1>1, <1>2, <1>5 DEF Decode
<1>6. ASSUME Len(buf) >= 2, m.key = <<>>, m.old = <<>>
      PROVE  /\ P = 0 /\ marker \notin {"K", "O"} /\ first = Cursor(3, <<>>)
             /\ key = m.key /\ old = m.old
  <2>1. Len(K) = 0 /\ Len(O) = 0
    BY <1>4, <1>6
  <2>2. Reads(buf, 3, E)
    BY <1>2, <2>1
  <2>3. CASE m.new = <<>>
    <3>1. ~(3 <= Len(buf))
      BY <1>1, <1>2, <1>4, <2>1, <2>3
    <3> QED BY <3>1, <2>1, <1>2, <1>6, MarkerReads
  <2>4. CASE m.new # <<>>
    <3>1. marker \in {"N", "none"}
      <4>1. PICK t \in Tuples : m.new = <<t>>
        BY <1>4, <2>4
      <4>2. Reads(buf, 3, Optional("N", <<t>>))
        BY <1>1, <2>2, <4>1
      <4>3. MarkerAt(buf, 3) = IF 3 <= Len(buf) THEN "N" ELSE "none"
        BY <4>2, OptionReads
      <4> QED BY <4>3
    <3> QED BY <3>1, <2>1, <1>6
  <2> QED BY <2>3, <2>4
<1>7. ASSUME Len(buf) >= 2, m.key # <<>> \/ m.old # <<>>
      PROVE  /\ P >= 2
             /\ Len(buf) >= 2 + P => /\ first.ok = TRUE /\ first.pos = 3 + P /\ marker \in {"K", "O"}
                                      /\ key = m.key /\ old = m.old
             /\ Len(buf) < 2 + P => first.ok = FALSE \/ marker = "none"
  <2>1. CASE m.key # <<>>
    <3>1. PICK t \in Tuples : m.key = <<t>>
      BY <1>4, <2>1
    <3>2. Len(O) = 0 /\ m.old = <<>> /\ Len(K) >= 2
      BY <1>3, <1>4, <2>1
    <3>3. /\ marker = IF 3 <= Len(buf) THEN "K" ELSE "none"
          /\ TupleAt(buf, 4) = IF 3 + Len(K) - 1 <= Len(buf) THEN Cursor(3 + Len(K), t) ELSE Truncated
      BY <1>1, <1>2, <3>1, OptionReads
    <3> HIDE DEF marker
    <3>4. ASSUME Len(buf) >= 2 + P
          PROVE  /\ first.ok = TRUE /\ first.pos = 3 + P /\ marker \in {"K", "O"}
                 /\ key = m.key /\ old = m.old
      <4>1. marker = "K" /\ first = Cursor(3 + P, t)
        BY <1>2, <3>2, <3>3, <3>4
      <4>2. first.ok = TRUE /\ first.pos = 3 + P /\ first.val = t
        BY <4>1 DEF Cursor
      <4> HIDE DEF first
      <4> QED BY <3>1, <3>2, <4>1, <4>2
    <3>5. ASSUME Len(buf) < 2 + P PROVE first.ok = FALSE \/ marker = "none"
      <4>1. CASE 3 <= Len(buf)
        <5>1. marker = "K" /\ first = Truncated
          BY <1>2, <3>2, <3>3, <3>5, <4>1
        <5> QED BY <5>1 DEF Truncated
      <4>2. CASE ~(3 <= Len(buf))
        BY <3>3, <4>2
      <4> QED BY <4>1, <4>2
    <3>6. P >= 2
      BY <1>2, <3>2
    <3> QED BY <3>4, <3>5, <3>6
  <2>2. CASE m.key = <<>>
    <3>1. PICK t \in Tuples : m.old = <<t>>
      BY <1>4, <1>7, <2>2
    <3>2. Len(K) = 0 /\ m.old # <<>> /\ Len(O) >= 2
      BY <1>4, <1>7, <2>2
    <3>3. /\ marker = IF 3 <= Len(buf) THEN "O" ELSE "none"
          /\ TupleAt(buf, 4) = IF 3 + Len(O) - 1 <= Len(buf) THEN Cursor(3 + Len(O), t) ELSE Truncated
      <4>1. Reads(buf, 3, O)
        BY <1>2, <3>2
      <4>2. O = Optional("O", <<t>>)
        BY <1>1, <3>1
      <4>3. /\ MarkerAt(buf, 3) = IF 3 <= Len(buf) THEN "O" ELSE "none"
            /\ TupleAt(buf, 3 + 1) = IF 3 + Len(O) - 1 <= Len(buf) THEN Cursor(3 + Len(O), t) ELSE Truncated
        BY <4>1, <4>2, OptionReads
      <4> QED BY <4>3
    <3> HIDE DEF marker
    <3>4. ASSUME Len(buf) >= 2 + P
          PROVE  /\ first.ok = TRUE /\ first.pos = 3 + P /\ marker \in {"K", "O"}
                 /\ key = m.key /\ old = m.old
      <4>1. marker = "O" /\ first = Cursor(3 + P, t)
        BY <1>2, <3>2, <3>3, <3>4
      <4>2. first.ok = TRUE /\ first.pos = 3 + P /\ first.val = t
        BY <4>1 DEF Cursor
      <4> HIDE DEF first
      <4> QED BY <2>2, <3>1, <3>2, <4>1, <4>2
    <3>5. ASSUME Len(buf) < 2 + P PROVE first.ok = FALSE \/ marker = "none"
      <4>1. CASE 3 <= Len(buf)
        <5>1. marker = "O" /\ first = Truncated
          BY <1>2, <3>2, <3>3, <3>5, <4>1
        <5> QED BY <5>1 DEF Truncated
      <4>2. CASE ~(3 <= Len(buf))
        BY <3>3, <4>2
      <4> QED BY <4>1, <4>2
    <3>6. P >= 2
      BY <1>2, <3>2
    <3> QED BY <3>4, <3>5, <3>6
  <2> QED BY <2>1, <2>2

<1>8. ASSUME m.new # <<>>
      PROVE  \E t \in Tuples :
               /\ m.new = <<t>>
               /\ MarkerAt(buf, 3 + P) = IF 3 + P <= Len(buf) THEN "N" ELSE "none"
               /\ TupleAt(buf, 3 + P + 1) = IF Len(buf) = l THEN Cursor(l + 1, t) ELSE Truncated
  <2>1. PICK t \in Tuples : m.new = <<t>>
    BY <1>4, <1>8
  <2>2. 3 + P \in Nat \ {0} /\ 3 + P = 3 + Len(K) + Len(O) /\ 3 + P + Len(E) = l + 1 /\ Len(buf) <= l
    BY <1>1, <1>2
  <2>3. Reads(buf, 3 + P, E)
    BY <1>2, <2>2
  <2>4. PICK b : b = 3 + P
    OBVIOUS
  <2>5. /\ MarkerAt(buf, b) = IF b <= Len(buf) THEN "N" ELSE "none"
        /\ TupleAt(buf, b + 1) = IF b + Len(E) - 1 <= Len(buf) THEN Cursor(b + Len(E), t) ELSE Truncated
    BY <1>1, <2>1, <2>2, <2>3, <2>4, OptionReads
  <2>6. (b + Len(E) - 1 <= Len(buf) <=> Len(buf) = l) /\ b + Len(E) = l + 1
    BY <1>2, <2>2, <2>4
  <2> QED BY <2>1, <2>4, <2>5, <2>6
<1>9. Len(buf) >= 2 /\ first.ok = FALSE => Decode(buf) = <<>>
  BY <1>2 DEF Decode
<1>10. ASSUME Len(buf) >= 2, first.ok = TRUE
       PROVE  /\ m.op \in {"I", "U"} =>
                   Decode(buf) = IF MarkerAt(buf, first.pos) = "N" /\ second.ok
                                 THEN <<Change(m.op, key, old, <<second.val>>)>> ELSE <<>>
              /\ m.op = "D" => Decode(buf) = IF marker \in {"K", "O"} THEN <<Change("D", key, old, <<>>)>> ELSE <<>>
              /\ m.op = "T" => Decode(buf) = <<Change("T", <<>>, <<>>, <<>>)>>
  <2>1. buf[1] = m.op /\ ~(Len(buf) < 2)
    BY <1>2, <1>10
  <2> QED BY <2>1, <1>2, <1>10 DEF Decode
<1> HIDE DEF marker, first, key, old
<1>11. CASE Len(buf) >= 2 /\ m.op = "T"
  <2>1. m.key = <<>> /\ m.old = <<>> /\ m.new = <<>>
    BY <1>3, <1>11
  <2>2. Len(buf) = l
    BY <1>1, <1>2, <1>4, <2>1, <1>11
  <2>3. first.ok = TRUE
    BY <1>6, <1>11, <2>1 DEF Cursor
  <2> QED BY <1>1, <1>3, <1>10, <1>11, <2>1, <2>2, <2>3
<1>12. CASE Len(buf) >= 2 /\ m.op = "D"
  <2>1. m.new = <<>> /\ (m.key # <<>> \/ m.old # <<>>) /\ Len(E) = 0 /\ l = 2 + P
    BY <1>2, <1>3, <1>4, <1>12
  <2>2. CASE Len(buf) >= 2 + P
    <3>1. Len(buf) = l
      BY <1>1, <1>2, <2>1, <2>2
    <3>2. first.ok = TRUE /\ marker \in {"K", "O"} /\ key = m.key /\ old = m.old
      BY <1>7, <1>12, <2>1, <2>2
    <3> QED BY <1>1, <1>3, <1>10, <1>12, <2>1, <3>1, <3>2
  <2>3. CASE Len(buf) < 2 + P
    <3>1. Len(buf) # l
      BY <1>2, <2>1, <2>3
    <3>2. first.ok = FALSE \/ marker = "none"
      BY <1>7, <1>12, <2>1, <2>3
    <3>3. marker = "none" => first.ok = TRUE
      BY DEF first, Cursor
    <3> QED BY <1>1, <1>9, <1>10, <1>12, <3>1, <3>2, <3>3
  <2> QED BY <2>2, <2>3, <1>2
<1>13. CASE Len(buf) >= 2 /\ m.op \in {"I", "U"}
  <2>1. m.new # <<>>
    BY <1>3, <1>13
  <2>2. PICK t \in Tuples :
          /\ m.new = <<t>>
          /\ MarkerAt(buf, 3 + P) = IF 3 + P <= Len(buf) THEN "N" ELSE "none"
          /\ TupleAt(buf, 3 + P + 1) = IF Len(buf) = l THEN Cursor(l + 1, t) ELSE Truncated
    BY <1>8, <2>1
  <2>3. Len(E) >= 2 /\ l = 2 + P + Len(E)
    BY <1>2, <1>4, <2>1
  <2>4. ASSUME first.ok = TRUE, first.pos = 3 + P, key = m.key, old = m.old
        PROVE  Decode(buf) = IF Len(buf) = l THEN <<m>> ELSE <<>>
    <3>1. Decode(buf) = IF MarkerAt(buf, 3 + P) = "N" /\ TupleAt(buf, 3 + P + 1).ok
                        THEN <<Change(m.op, m.key, m.old, <<TupleAt(buf, 3 + P + 1).val>>)>> ELSE <<>>
      BY <1>10, <1>13, <2>4
    <3>2. CASE Len(buf) = l
      <4>1. 3 + P <= Len(buf)
        BY <1>2, <2>3, <3>2
      <4>2. TupleAt(buf, 3 + P + 1).ok = TRUE /\ TupleAt(buf, 3 + P + 1).val = t
        BY <2>2, <3>2 DEF Cursor
      <4> QED BY <1>3, <2>2, <3>1, <3>2, <4>1, <4>2
    <3>3. CASE Len(buf) # l
      <4>1. TupleAt(buf, 3 + P + 1).ok = FALSE
        BY <2>2, <3>3 DEF Truncated
      <4> QED BY <3>1, <3>3, <4>1
    <3> QED BY <3>2, <3>3
  <2>5. CASE m.key = <<>> /\ m.old = <<>>
    <3>1. P = 0 /\ first = Cursor(3, <<>>) /\ key = m.key /\ old = m.old
      BY <1>6, <1>13, <2>5
    <3>2. first.ok = TRUE /\ first.pos = 3 + P
      BY <3>1 DEF Cursor
    <3> QED BY <1>1, <2>4, <3>1, <3>2
  <2>6. CASE m.key # <<>> \/ m.old # <<>>
    <3>1. CASE Len(buf) >= 2 + P
      BY <1>1, <1>7, <1>13, <2>4, <2>6, <3>1
    <3>2. CASE Len(buf) < 2 + P
      <4>1. Len(buf) # l
        BY <1>2, <2>3, <3>2
      <4>2. first.ok = FALSE \/ marker = "none"
        BY <1>7, <1>13, <2>6, <3>2
      <4>3. marker = "none" => first.ok = TRUE /\ MarkerAt(buf, first.pos) = "none"
        BY DEF first, Cursor, marker
      <4> QED BY <1>1, <1>9, <1>10, <1>13, <4>1, <4>2, <4>3
    <3> QED BY <3>1, <3>2, <1>2
  <2> QED BY <2>5, <2>6
<1> QED BY <1>2, <1>3, <1>5, <1>11, <1>12, <1>13

\* The whole message, and every part of it that ends early.
LEMMA DecodeEncode ==
  ASSUME NEW m \in Messages
  PROVE  /\ Decode(Encode(m)) = <<m>>
         /\ \A n \in 0..(Len(Encode(m)) - 1) : Decode(SubSeq(Encode(m), 1, n)) = <<>>
<1>1. PICK e : e = Encode(m)
  OBVIOUS
<1>2. e \in Seq(Tokens)
  <2>1. <<>> \in Seq(Tokens) /\ Reads(<<>>, 1, Encode(m))
    BY DEF Reads
  <2> QED BY <1>1, <2>1, MessageReads
<1>3. Reads(e, 1, e)
  BY DEF Reads
<1>4. Decode(e) = <<m>>
  BY <1>1, <1>2, <1>3, DecodeReads
<1>5. ASSUME NEW n \in 0..(Len(e) - 1) PROVE Decode(SubSeq(e, 1, n)) = <<>>
  <2>1. PICK b : b = SubSeq(e, 1, n)
    OBVIOUS
  <2>2. b \in Seq(Tokens) /\ Len(b) = n /\ \A i \in 1..n : b[i] = e[i]
    BY <1>2, <2>1
  <2>3. Reads(b, 1, e)
    BY <1>2, <2>2 DEF Reads
  <2>4. Len(b) <= Len(e) /\ Len(b) # Len(e)
    BY <1>2, <2>2
  <2> QED BY <1>1, <2>1, <2>2, <2>3, <2>4, DecodeReads
<1> QED BY <1>1, <1>4, <1>5

-----------------------------------------------------------------------------
(* Rel *)

\* A row has a key, and no cell of it is sent as unchanged.
LEMMA RowShape ==
  ASSUME NEW r \in Rows
  PROVE  /\ r \in Tuples /\ r = <<r[1], r[2]>>
         /\ r[1] \in Cells /\ r[2] \in Cells
         /\ r[1] # Toast /\ r[1] # Null /\ r[2] # Toast
         /\ Given(r) = Columns
<1>1. PICK k \in Keys, v \in {Null} \cup {Text(s) : s \in Texts} : r = <<Text(k), v>>
  BY DEF Rows
<1>2. Text(k) # Toast /\ Text(k) # Null /\ v # Toast
  BY DEF Text, Toast, Null
<1>3. Text(k) \in Cells /\ v \in Cells
  BY DEF Cells, Words
<1>4. r[1] = Text(k) /\ r[2] = v
  BY <1>1
<1>5. Given(r) = Columns
  BY <1>2, <1>4 DEF Given, Columns
<1> QED BY <1>1, <1>2, <1>3, <1>4, <1>5 DEF Tuples

\* Rows are equal when their cells are.
LEMMA RowEqual ==
  ASSUME NEW q \in Rows, NEW r \in Rows, q[1] = r[1], q[2] = r[2]
  PROVE  q = r
BY RowShape

\* UPDATE on a table where the condition hits one row, which is there once.
LEMMA UpdateOne ==
  ASSUME NEW b \in [Rows -> Nat], NEW q \in Rows, NEW r \in Rows, NEW w, NEW s,
         b[q] = 1, Matches(q, w), Assign(q, s) = r,
         \A x \in Rows : Matches(x, w) /\ x # q => b[x] = 0
  PROVE  UpdateWhere(b, w, s) = Plus(Minus(b, q), r)
<1> DEFINE Hit(x) == {c \in Copies(b) : Matches(c[1], w) /\ Assign(c[1], s) = x}
<1>1. \A c \in Copies(b) : c = <<c[1], c[2]>> /\ c[1] \in Rows /\ c[2] \in 1..b[c[1]]
  BY DEF Copies
<1>2. \A c \in Copies(b) : Matches(c[1], w) => c = <<q, 1>>
  <2> SUFFICES ASSUME NEW c \in Copies(b), Matches(c[1], w) PROVE c = <<q, 1>>
    OBVIOUS
  <2>1. c[1] \in Rows /\ c[2] \in 1..b[c[1]] /\ c = <<c[1], c[2]>>
    BY <1>1
  <2>2. c[1] = q
    <3>1. b[c[1]] # 0
      BY <2>1
    <3> QED BY <2>1, <3>1
  <2>3. c[2] = 1
    BY <2>1, <2>2
  <2> QED BY <2>1, <2>2, <2>3
<1>3. <<q, 1>> \in Copies(b)
  BY DEF Copies
<1>4. Hit(r) = {<<q, 1>>}
  BY <1>2, <1>3
<1>5. \A x : x # r => Hit(x) = {}
  BY <1>2
<1> HIDE DEF Hit
<1>6. Cardinality(Hit(r)) = 1
  BY <1>4, FS_Singleton
<1>7. \A x : x # r => Cardinality(Hit(x)) = 0
  BY <1>5, FS_EmptySet
<1>8. \A x \in Rows : UpdateWhere(b, w, s)[x] = (IF Matches(x, w) THEN 0 ELSE b[x]) + (IF x = r THEN 1 ELSE 0)
  BY <1>6, <1>7 DEF UpdateWhere, Hit
<1>9. \A x \in Rows : Minus(b, q)[x] = (IF Matches(x, w) THEN 0 ELSE b[x])
  BY DEF Minus
<1>10. \A x \in Rows : Plus(Minus(b, q), r)[x] = (IF Matches(x, w) THEN 0 ELSE b[x]) + (IF x = r THEN 1 ELSE 0)
  <2>1. Minus(b, q) \in [Rows -> Nat]
    BY <1>9 DEF Minus
  <2>2. \A x \in Rows : Plus(Minus(b, q), r)[x] = Minus(b, q)[x] + (IF x = r THEN 1 ELSE 0)
    BY <2>1 DEF Plus
  <2> QED BY <2>2, <1>9
<1>11. DOMAIN UpdateWhere(b, w, s) = Rows /\ DOMAIN Plus(Minus(b, q), r) = Rows
  BY DEF UpdateWhere, Plus, Minus
<1>12. \A x \in Rows : UpdateWhere(b, w, s)[x] = Plus(Minus(b, q), r)[x]
  BY <1>8, <1>10
<1>13. /\ UpdateWhere(b, w, s) = [x \in Rows |-> UpdateWhere(b, w, s)[x]]
       /\ Plus(Minus(b, q), r) = [x \in Rows |-> Plus(Minus(b, q), r)[x]]
  BY <1>11 DEF UpdateWhere, Plus, Minus
<1> QED BY <1>12, <1>13

\* DELETE on such a table.
LEMMA DeleteOne ==
  ASSUME NEW b \in [Rows -> Nat], NEW q \in Rows, NEW w,
         b[q] = 1, Matches(q, w), \A x \in Rows : Matches(x, w) /\ x # q => b[x] = 0
  PROVE  DeleteWhere(b, w) = Minus(b, q)
<1>1. \A x \in Rows : DeleteWhere(b, w)[x] = Minus(b, q)[x]
  BY DEF DeleteWhere, Minus
<1>2. DeleteWhere(b, w) = [x \in Rows |-> DeleteWhere(b, w)[x]] /\ Minus(b, q) = [x \in Rows |-> Minus(b, q)[x]]
  BY DEF DeleteWhere, Minus
<1> QED BY <1>1, <1>2

\* Only the cells the new tuple gives are assigned, and the others are as they should be.
LEMMA SetAssigns ==
  ASSUME NEW q \in Rows, NEW r \in Rows, NEW t \in NewTuples(q, r)
  PROVE  /\ t \in Tuples /\ DOMAIN Set(t) = Given(t) /\ Assign(q, Set(t)) = r
         /\ t[1] \in {r[1], Toast} /\ t[2] \in {r[2], Toast}
         /\ t[1] = Toast => r[1] = q[1]
         /\ t[2] = Toast => r[2] = q[2]
<1>1. /\ t[1] \in {r[1], Toast} /\ t[2] \in {r[2], Toast} /\ t = <<t[1], t[2]>>
      /\ t[1] = Toast => r[1] = q[1]
      /\ t[2] = Toast => r[2] = q[2]
  <2>1. PICK a \in {r[1], Toast}, b \in {r[2], Toast} : t = <<a, b>>
    BY DEF NewTuples
  <2>2. t[1] = a /\ t[2] = b
    BY <2>1
  <2>3. \A c \in Columns : t[c] = Toast => r[c] = q[c]
    BY DEF NewTuples
  <2> QED BY <2>1, <2>2, <2>3 DEF Columns
<1>2. t \in Tuples
  <2>1. Toast \in Cells
    BY DEF Cells
  <2> QED BY <1>1, <2>1, RowShape DEF Tuples
<1>3. DOMAIN Set(t) = Given(t) /\ \A c \in Given(t) : Set(t)[c] = t[c]
  BY DEF Set, Part
<1>4. Assign(q, Set(t))[1] = r[1] /\ Assign(q, Set(t))[2] = r[2]
  BY <1>1, <1>3 DEF Assign, Given, Columns
<1>5. Assign(q, Set(t)) = <<r[1], r[2]>>
  <2>1. Assign(q, Set(t)) = [c \in 1..2 |-> Assign(q, Set(t))[c]]
    <3>1. Columns = 1..2
      BY DEF Columns
    <3> QED BY <3>1 DEF Assign
  <2>2. <<r[1], r[2]>> = [c \in 1..2 |-> Assign(q, Set(t))[c]]
    BY <1>4
  <2> QED BY <2>1, <2>2
<1> QED BY <1>1, <1>2, <1>3, <1>5, RowShape

-----------------------------------------------------------------------------
(* The invariant *)

RowTypes ==
  /\ identity \in {"d", "f"}
  /\ up \in [Rows -> Nat] /\ todo \in [Rows -> Nat] /\ batch \in [Rows -> Nat]
  /\ status \in {"new", "copy", "stream", "halted"}

KeyOnce == identity = "d" => Keyed(up)

\* Until the copy ends a row of the snapshot is here, in the batch or still to be read.
Copying ==
  /\ status \in {"new", "copy"} =>
       /\ ~doubled /\ local \in [Rows -> Nat]
       /\ \A r \in Rows : up[r] = local[r] + batch[r] + todo[r]
  /\ status = "new" => local = Empty /\ batch = Empty

Streaming ==
  status \in {"stream", "halted"} => rel = Flags /\ (~doubled => local = up)

\* The last message is one that PostgreSQL sends; the one that halted the replica is an
\* update that gives no cell.
Sent ==
  /\ status = "stream" => wire[1] = "R" \/ \E m \in Messages : wire = Encode(m)
  /\ status = "halted" =>
       \E m \in Messages : wire = Encode(m) /\ m.op = "U" /\ Given(m.new[1]) = {}

RowsInv == RowTypes /\ KeyOnce /\ Copying /\ Streaming /\ Sent

\* The WHERE clause hits the row that was changed upstream, and no other that is there.
LEMMA WhereHits ==
  ASSUME RowTypes, KeyOnce, rel = Flags, NEW q \in Rows, up[q] > 0, NEW m \in Messages,
         identity = "f" => m.old = <<q>>,
         identity = "d" => m.old = <<>> /\ (m.key = <<KeyOnly(q)>> \/ (m.key = <<>> /\ m.new[1][1] = q[1]))
  PROVE  \E w : /\ Where(m) = <<w>> /\ Matches(q, w)
                /\ \A x \in Rows : Matches(x, w) /\ x # q => up[x] = 0
<1>1. q[1] # Toast /\ Given(q) = Columns
  BY RowShape
<1>2. CASE identity = "f"
  <2>1. Where(m) = <<Part(q, Columns)>>
    BY <1>1, <1>2 DEF Where
  <2>2. Matches(q, Part(q, Columns))
    BY DEF Matches, Part
  <2>3. \A x \in Rows : Matches(x, Part(q, Columns)) => x = q
    <3> SUFFICES ASSUME NEW x \in Rows, Matches(x, Part(q, Columns)) PROVE x = q
      OBVIOUS
    <3>1. x[1] = q[1] /\ x[2] = q[2]
      BY DEF Matches, Part, Columns
    <3> QED BY <3>1, RowEqual
  <2> QED BY <2>1, <2>2, <2>3
<1>3. CASE identity = "d"
  <2>1. KeyColumns = {1}
    <3>1. rel = <<1, 0>>
      BY <1>3 DEF Flags
    <3>2. rel[1] = 1 /\ rel[2] = 0
      BY <3>1
    <3> QED BY <3>2 DEF KeyColumns, Columns
  <2>2. PICK t : t[1] = q[1] /\ t = (IF m.key # <<>> THEN m.key[1] ELSE m.new[1])
    <3>1. KeyOnly(q)[1] = q[1]
      BY DEF KeyOnly
    <3>2. CASE m.key = <<KeyOnly(q)>>
      <4>1. m.key # <<>> /\ m.key[1] = KeyOnly(q)
        BY <3>2
      <4> QED BY <3>1, <4>1
    <3>3. CASE m.key = <<>> /\ m.new[1][1] = q[1]
      BY <3>3
    <3> QED BY <1>3, <3>2, <3>3
  <2>3. Where(m) = <<Part(t, {1})>>
    BY <1>1, <1>3, <2>1, <2>2 DEF Where
  <2>4. \A x : Matches(x, Part(t, {1})) <=> x[1] = q[1]
    BY <2>2 DEF Matches, Part
  <2>5. \A x \in Rows : x[1] = q[1] /\ x # q => ~(up[x] > 0)
    BY <1>3 DEF KeyOnce, Keyed
  <2>6. \A x \in Rows : x[1] = q[1] /\ x # q => up[x] = 0
    BY <2>5 DEF RowTypes
  <2> QED BY <2>3, <2>4, <2>6
<1> QED BY <1>2, <1>3 DEF RowTypes

\* An insert tells the new row.
LEMMA InsertMessage ==
  ASSUME NEW r \in Rows
  PROVE  Change("I", <<>>, <<>>, <<r>>) \in Messages
BY RowShape DEF Change, Messages, Options

\* A delete tells the key or the row.
LEMMA DeleteMessage ==
  ASSUME NEW r \in Rows, RowTypes
  PROVE  Change("D", IF identity = "d" THEN <<KeyOnly(r)>> ELSE <<>>,
                IF identity = "f" THEN <<r>> ELSE <<>>, <<>>) \in Messages
<1>1. r \in Tuples /\ KeyOnly(r) \in Tuples
  BY RowShape DEF KeyOnly, Tuples, Cells
<1>2. <<r>> \in Options /\ <<KeyOnly(r)>> \in Options /\ <<>> \in Options /\ <<r>> # <<>> /\ <<KeyOnly(r)>> # <<>>
  BY <1>1 DEF Options
<1>3. CASE identity = "d"
  BY <1>2, <1>3 DEF Change, Messages
<1>4. CASE identity = "f"
  BY <1>2, <1>4 DEF Change, Messages
<1> QED BY <1>3, <1>4 DEF RowTypes

\* A truncate tells nothing but the table.
LEMMA TruncateMessage == Change("T", <<>>, <<>>, <<>>) \in Messages
BY DEF Change, Messages, Options

\* An update tells the new row, and the old one or its key where they are needed.
LEMMA UpdateMessage ==
  ASSUME NEW q \in Rows, NEW r \in Rows, RowTypes, NEW m \in Updates(q, r)
  PROVE  /\ m \in Messages /\ m.op = "U"
         /\ \E t \in NewTuples(q, r) : m.new = <<t>>
         /\ identity = "f" => m.old = <<q>>
         /\ identity = "d" => m.old = <<>> /\ (m.key = <<KeyOnly(q)>> \/ (m.key = <<>> /\ m.new[1][1] = q[1]))
<1>1. PICK t \in NewTuples(q, r) :
        m = Change("U", IF identity = "d" /\ (t[1] = Toast \/ q[1] # r[1]) THEN <<KeyOnly(q)>> ELSE <<>>,
                   IF identity = "f" THEN <<q>> ELSE <<>>, <<t>>)
  BY DEF Updates
<1>2. t \in Tuples /\ t[1] \in {r[1], Toast}
  BY SetAssigns
<1>3. q \in Tuples /\ KeyOnly(q) \in Tuples
  BY RowShape DEF KeyOnly, Tuples, Cells
<1>4. /\ <<t>> \in Options /\ <<q>> \in Options /\ <<KeyOnly(q)>> \in Options /\ <<>> \in Options
      /\ <<t>> # <<>> /\ <<q>> # <<>> /\ <<KeyOnly(q)>> # <<>> /\ <<t>>[1] = t
  BY <1>2, <1>3 DEF Options
<1>5. m.op = "U" /\ m.new = <<t>>
  BY <1>1 DEF Change
<1>6. CASE identity = "f"
  <2>1. m = Change("U", <<>>, <<q>>, <<t>>)
    BY <1>1, <1>6
  <2>2. m \in Messages /\ m.old = <<q>>
    BY <1>4, <2>1 DEF Change, Messages
  <2> QED BY <1>5, <1>6, <2>2
<1>7. CASE identity = "d"
  <2>1. m.old = <<>>
    BY <1>1, <1>7 DEF Change
  <2>2. CASE t[1] = Toast \/ q[1] # r[1]
    <3>1. m = Change("U", <<KeyOnly(q)>>, <<>>, <<t>>)
      BY <1>1, <1>7, <2>2
    <3>2. m \in Messages /\ m.key = <<KeyOnly(q)>>
      BY <1>4, <3>1 DEF Change, Messages
    <3> QED BY <1>5, <1>7, <2>1, <3>2
  <2>3. CASE ~(t[1] = Toast \/ q[1] # r[1])
    <3>1. m = Change("U", <<>>, <<>>, <<t>>)
      BY <1>1, <1>7, <2>3
    <3>2. m \in Messages /\ m.key = <<>>
      BY <1>4, <3>1 DEF Change, Messages
    <3>3. m.new[1][1] = q[1]
      BY <1>2, <1>4, <1>5, <2>3
    <3> QED BY <1>5, <1>7, <2>1, <3>2, <3>3
  <2> QED BY <2>2, <2>3
<1> QED BY <1>6, <1>7 DEF RowTypes

-----------------------------------------------------------------------------
(* The steps *)

\* Bags of rows stay bags.
LEMMA BagSteps ==
  ASSUME NEW b \in [Rows -> Nat], NEW r \in Rows
  PROVE  /\ Plus(b, r) \in [Rows -> Nat] /\ Empty \in [Rows -> Nat]
         /\ \A x \in Rows : Empty[x] = 0
         /\ \A x \in Rows : Plus(b, r)[x] = b[x] + (IF x = r THEN 1 ELSE 0)
         /\ b[r] > 0 => /\ Minus(b, r) \in [Rows -> Nat]
                        /\ \A x \in Rows : Minus(b, r)[x] = b[x] - (IF x = r THEN 1 ELSE 0)
BY DEF Plus, Minus, Empty

\* The flags of the columns come back from the Relation message.
LEMMA FlagsRead ==
  ASSUME RowTypes
  PROVE  DecodeRelation(EncodeRelation(Flags)) = Flags /\ EncodeRelation(Flags)[1] = "R"
<1>0. PICK S : S = {"R"} \cup Nat
  OBVIOUS
<1>1. PICK a \in Nat, b \in Nat : Flags = <<a, b>>
  BY DEF Flags
<1>2. PICK h, f : h = <<"R", 7, 2>> /\ f = <<a, b>>
  OBVIOUS
<1>3. h \in Seq(S) /\ Len(h) = 3 /\ h[1] = "R" /\ h[3] = 2
  <2>1. "R" \in S /\ 7 \in S /\ 2 \in S
    BY <1>0
  <2> QED BY <2>1, <1>2
<1>4. f \in Seq(S) /\ Len(f) = 2
  <2>1. a \in S /\ b \in S
    BY <1>0
  <2> QED BY <2>1, <1>2
<1>5. EncodeRelation(Flags) = h \o f
  BY <1>1, <1>2 DEF EncodeRelation, RelId
<1>6. PICK e : e = h \o f
  OBVIOUS
<1>7. e \in Seq(S) /\ Len(e) = 5 /\ e[1] = "R" /\ e[3] = 2 /\ e[4] = f[1] /\ e[5] = f[2]
  <2>1. e \in Seq(S) /\ Len(e) = 5 /\ \A i \in 1..5 : e[i] = IF i <= 3 THEN h[i] ELSE f[i - 3]
    <3>1. /\ h \o f \in Seq(S) /\ Len(h \o f) = Len(h) + Len(f)
          /\ \A i \in 1..(Len(h) + Len(f)) : (h \o f)[i] = IF i <= Len(h) THEN h[i] ELSE f[i - Len(h)]
      BY <1>3, <1>4, ConcatProperties
    <3>2. Len(h) + Len(f) = 5
      BY <1>3, <1>4
    <3> QED BY <3>1, <3>2, <1>3, <1>6, Zenon
  <2> QED BY <2>1, <1>3
<1>8. SubSeq(e, 4, 5) = f
  <2>1. PICK u : u = SubSeq(e, 4, 5)
    OBVIOUS
  <2>2. \A i \in 4..5 : e[i] \in S
    <3>1. \A i \in 4..5 : i \in 1..Len(e)
      BY <1>7
    <3> QED BY <3>1, <1>7, ElementOfSeq
  <2>3. u \in Seq(S) /\ Len(u) = 2 /\ \A i \in 1..2 : u[i] = e[4 + i - 1]
    BY <2>1, <2>2, SubSeqProperties
  <2>4. u[1] = f[1] /\ u[2] = f[2]
    BY <2>3, <1>7
  <2>5. \A i \in 1..Len(u) : u[i] = f[i]
    BY <2>3, <2>4
  <2>6. u = f
    BY <2>3, <2>5, <1>4, SeqEqual
  <2> QED BY <2>1, <2>6
<1>9. DecodeRelation(e) = SubSeq(e, 4, 5)
  BY <1>7 DEF DecodeRelation
<1> QED BY <1>1, <1>2, <1>5, <1>6, <1>7, <1>8, <1>9

\* The snapshot: nothing is here yet.
LEMMA SnapshotStep ==
  ASSUME RowsInv, Snapshot
  PROVE  RowsInv'
<1>1. /\ status = "new" /\ identity' \in Identities /\ up' \in Tables(identity')
      /\ todo' = up' /\ status' = "copy" /\ local' = local /\ batch' = batch /\ doubled' = doubled
  BY DEF Snapshot
<1>2. identity' \in {"d", "f"}
  BY <1>1, RowsAssumption
<1>3. up' \in [Rows -> Nat] /\ (identity' = "d" => Keyed(up'))
  <2>1. up' \in AllTables /\ (identity' = "d" => Keyed(up'))
    BY <1>1 DEF Tables, KeyedTables
  <2> QED BY <2>1, RowsAssumption DEF AllTables
<1>4. RowTypes'
  BY <1>1, <1>2, <1>3 DEF RowsInv, RowTypes
<1>5. KeyOnce'
  BY <1>3 DEF KeyOnce, Keyed
<1>6. Copying'
  <2>1. ~doubled' /\ local' \in [Rows -> Nat] /\ local' = Empty /\ batch' = Empty
    BY <1>1 DEF RowsInv, Copying
  <2>2. \A r \in Rows : Empty[r] = 0
    BY DEF Empty
  <2>3. \A r \in Rows : up'[r] = local'[r] + batch'[r] + todo'[r]
    BY <1>1, <1>3, <2>1, <2>2
  <2> QED BY <1>1, <2>1, <2>3 DEF Copying
<1>7. Streaming' /\ Sent'
  BY <1>1 DEF Streaming, Sent
<1> QED BY <1>4, <1>5, <1>6, <1>7 DEF RowsInv

\* A row is read; a full batch is written.
LEMMA CopyRowStep ==
  ASSUME RowsInv, CopyRow
  PROVE  RowsInv'
<1>1. PICK r \in Rows :
        /\ todo[r] > 0 /\ todo' = Minus(todo, r)
        /\ IF Total(batch) + 1 >= MaxBatch
           THEN local' = Join(local, Plus(batch, r)) /\ batch' = Empty
           ELSE local' = local /\ batch' = Plus(batch, r)
  BY DEF CopyRow
<1>2. status = "copy" /\ UNCHANGED <<identity, up, status>> /\ doubled' = doubled
  BY DEF CopyRow
<1>3. /\ up \in [Rows -> Nat] /\ todo \in [Rows -> Nat] /\ batch \in [Rows -> Nat] /\ local \in [Rows -> Nat]
      /\ \A x \in Rows : up[x] = local[x] + batch[x] + todo[x]
  BY <1>2 DEF RowsInv, RowTypes, Copying
<1>4. /\ todo' \in [Rows -> Nat] /\ \A x \in Rows : todo'[x] = todo[x] - (IF x = r THEN 1 ELSE 0)
  BY <1>1, <1>3, BagSteps
<1>5. /\ Plus(batch, r) \in [Rows -> Nat] /\ Empty \in [Rows -> Nat] /\ \A x \in Rows : Empty[x] = 0
      /\ \A x \in Rows : Plus(batch, r)[x] = batch[x] + (IF x = r THEN 1 ELSE 0)
  BY <1>3, BagSteps
<1>6. /\ local' \in [Rows -> Nat] /\ batch' \in [Rows -> Nat]
      /\ \A x \in Rows : local'[x] + batch'[x] = local[x] + batch[x] + (IF x = r THEN 1 ELSE 0)
  <2>1. CASE Total(batch) + 1 >= MaxBatch
    <3>1. local' = Join(local, Plus(batch, r)) /\ batch' = Empty
      BY <1>1, <2>1
    <3>2. local' \in [Rows -> Nat] /\ \A x \in Rows : local'[x] = local[x] + Plus(batch, r)[x]
      BY <3>1, <1>3, <1>5 DEF Join
    <3> QED BY <3>1, <3>2, <1>3, <1>5
  <2>2. CASE ~(Total(batch) + 1 >= MaxBatch)
    <3>1. local' = local /\ batch' = Plus(batch, r)
      BY <1>1, <2>2
    <3> QED BY <3>1, <1>3, <1>5
  <2> QED BY <2>1, <2>2
<1>7. \A x \in Rows : up'[x] = local'[x] + batch'[x] + todo'[x]
  BY <1>2, <1>3, <1>4, <1>6
<1>8. RowTypes'
  BY <1>2, <1>4, <1>6 DEF RowsInv, RowTypes
<1>9. KeyOnce'
  BY <1>2 DEF RowsInv, KeyOnce, Keyed
<1>10. Copying'
  BY <1>2, <1>6, <1>7 DEF RowsInv, Copying
<1>11. Streaming' /\ Sent'
  BY <1>2 DEF Streaming, Sent
<1> QED BY <1>8, <1>9, <1>10, <1>11 DEF RowsInv

\* The rest of the batch is written: the snapshot is here.
LEMMA CopyEndsStep ==
  ASSUME RowsInv, CopyEnds
  PROVE  RowsInv'
<1>1. /\ status = "copy" /\ todo = Empty /\ local' = Join(local, batch) /\ batch' = Empty
      /\ wire' = EncodeRelation(Flags) /\ rel' = DecodeRelation(wire') /\ status' = "stream"
      /\ UNCHANGED <<identity, up, todo>> /\ doubled' = doubled
  BY DEF CopyEnds
<1>2. /\ up \in [Rows -> Nat] /\ batch \in [Rows -> Nat] /\ local \in [Rows -> Nat]
      /\ \A x \in Rows : up[x] = local[x] + batch[x] + todo[x]
  BY <1>1 DEF RowsInv, RowTypes, Copying
<1>3. local' = up
  <2>1. \A x \in Rows : todo[x] = 0
    BY <1>1 DEF Empty
  <2>2. \A x \in Rows : up[x] = local[x] + batch[x]
    BY <1>2, <2>1
  <2> QED BY <1>1, <1>2, <2>2 DEF Join
<1>4. rel' = Flags' /\ wire'[1] = "R"
  <2>1. Flags' = Flags
    BY <1>1 DEF Flags
  <2> QED BY <1>1, <2>1, FlagsRead DEF RowsInv
<1>5. RowTypes'
  <2>1. batch' \in [Rows -> Nat]
    BY <1>1 DEF Empty
  <2> QED BY <1>1, <2>1 DEF RowsInv, RowTypes
<1>6. KeyOnce'
  BY <1>1 DEF RowsInv, KeyOnce, Keyed
<1>7. Copying' /\ Streaming' /\ Sent'
  BY <1>1, <1>3, <1>4 DEF Copying, Streaming, Sent
<1> QED BY <1>5, <1>6, <1>7 DEF RowsInv

\* A message is decoded to what was sent; the table is what Rel makes of it.
LEMMA ReceiveStep ==
  ASSUME RowsInv, status = "stream", NEW m \in Messages, Receive(m),
         up' \in [Rows -> Nat], identity = "d" => Keyed(up'),
         NEW t, t = Applied(local, m),
         t = <<>> => m.op = "U" /\ Given(m.new[1]) = {} /\ (~doubled' => local = up'),
         t # <<>> => (~doubled' => t[1] = up')
  PROVE  RowsInv'
<1>1. /\ wire' = Encode(m) /\ UNCHANGED <<identity, todo, batch, rel>>
      /\ LET got == Decode(wire')
             n == IF got = <<>> THEN <<>> ELSE Applied(local, got[1])
         IN IF n = <<>> THEN status' = "halted" /\ local' = local
                        ELSE status' = status /\ local' = n[1]
  BY DEF Receive
<1>2. Decode(wire') = <<m>>
  BY <1>1, DecodeEncode
<1>3. IF t = <<>> THEN status' = "halted" /\ local' = local
                  ELSE status' = "stream" /\ local' = t[1]
  <2>1. <<m>> # <<>> /\ <<m>>[1] = m
    OBVIOUS
  <2> QED BY <1>1, <1>2, <2>1
<1>4. status' \in {"stream", "halted"} /\ (~doubled' => local' = up')
  BY <1>3
<1>5. RowTypes'
  BY <1>1, <1>4 DEF RowsInv, RowTypes
<1>6. KeyOnce'
  BY <1>1 DEF KeyOnce, Keyed
<1>7. Copying'
  BY <1>4 DEF Copying
<1>8. Streaming'
  <2>1. rel' = Flags'
    BY <1>1 DEF RowsInv, Streaming, Flags
  <2> QED BY <1>4, <2>1 DEF Streaming
<1>9. Sent'
  BY <1>1, <1>3 DEF Sent
<1> QED BY <1>5, <1>6, <1>7, <1>8, <1>9 DEF RowsInv

\* INSERT gives every cell.
LEMMA InsertStep ==
  ASSUME RowsInv, NEW r \in Rows, Insert(r)
  PROVE  RowsInv'
<1>1. PICK m : m = Change("I", <<>>, <<>>, <<r>>)
  OBVIOUS
<1>2. /\ status = "stream" /\ Plus(up, r) \in Tables(identity) /\ up' = Plus(up, r)
      /\ doubled' = doubled /\ Receive(m) /\ ~doubled
  BY <1>1 DEF Insert, Receive
<1>3. m \in Messages /\ m.op = "I" /\ m.new[1] = r
  <2>1. m \in Messages
    BY <1>1, InsertMessage
  <2>2. m.op = "I" /\ m.new = <<r>>
    BY <1>1 DEF Change
  <2> QED BY <2>1, <2>2
<1>4. up' \in [Rows -> Nat] /\ (identity = "d" => Keyed(up'))
  <2>1. identity = "d" => Plus(up, r) \in KeyedTables
    BY <1>2 DEF Tables
  <2> QED BY <2>1, <1>2, BagSteps DEF RowsInv, RowTypes, KeyedTables
<1>5. local = up
  BY <1>2 DEF RowsInv, Streaming
<1>6. Applied(local, m) = <<up'>>
  <2>1. Given(r) = Columns
    BY RowShape
  <2> QED BY <2>1, <1>2, <1>3, <1>5 DEF Applied
<1>7. <<up'>> # <<>> /\ <<up'>>[1] = up'
  OBVIOUS
<1>8. PICK t : t = Applied(local, m)
  OBVIOUS
<1>9. t # <<>> /\ t[1] = up'
  BY <1>6, <1>7, <1>8
<1> QED BY <1>2, <1>3, <1>4, <1>8, <1>9, ReceiveStep

\* TRUNCATE.
LEMMA TruncateStep ==
  ASSUME RowsInv, Truncate
  PROVE  RowsInv'
<1>1. PICK m : m = Change("T", <<>>, <<>>, <<>>)
  OBVIOUS
<1>2. status = "stream" /\ up' = Empty /\ Receive(m)
  BY <1>1 DEF Truncate
<1>3. m \in Messages /\ m.op = "T"
  BY <1>1, TruncateMessage DEF Change
<1>4. up' \in [Rows -> Nat] /\ Keyed(up')
  BY <1>2 DEF Empty, Keyed
<1>5. PICK t : t = Applied(local, m)
  OBVIOUS
<1>6. t = <<up'>>
  BY <1>2, <1>3, <1>5 DEF Applied
<1>7. t # <<>> /\ t[1] = up'
  BY <1>6
<1> QED BY <1>2, <1>3, <1>4, <1>5, <1>7, ReceiveStep

\* DELETE hits the one row, unless it is there twice.
LEMMA DeleteStep ==
  ASSUME RowsInv, NEW r \in Rows, Delete(r)
  PROVE  RowsInv'
<1>1. PICK m : m = Change("D", IF identity = "d" THEN <<KeyOnly(r)>> ELSE <<>>,
                         IF identity = "f" THEN <<r>> ELSE <<>>, <<>>)
  OBVIOUS
<1>2. /\ status = "stream" /\ up[r] > 0 /\ up' = Minus(up, r)
      /\ doubled' = (doubled \/ up[r] > 1) /\ Receive(m) /\ ~doubled
  BY <1>1 DEF Delete, Receive
<1>3. RowTypes /\ KeyOnce /\ rel = Flags /\ local = up /\ up \in [Rows -> Nat]
  BY <1>2 DEF RowsInv, Streaming, RowTypes
<1>4. m \in Messages
  BY <1>1, <1>3, DeleteMessage
<1>5. /\ m.op = "D" /\ (identity = "f" => m.old = <<r>>)
      /\ (identity = "d" => m.old = <<>> /\ m.key = <<KeyOnly(r)>>)
  BY <1>1 DEF Change
<1>6. PICK w : /\ Where(m) = <<w>> /\ Matches(r, w)
               /\ \A x \in Rows : Matches(x, w) /\ x # r => up[x] = 0
  BY <1>2, <1>3, <1>4, <1>5, WhereHits
<1>7. up' \in [Rows -> Nat] /\ \A x \in Rows : up'[x] = up[x] - (IF x = r THEN 1 ELSE 0)
  BY <1>2, <1>3, BagSteps
<1>8. identity = "d" => Keyed(up')
  <2> SUFFICES ASSUME identity = "d" PROVE Keyed(up')
    OBVIOUS
  <2>1. Keyed(up)
    BY <1>3 DEF KeyOnce
  <2>2. \A x \in Rows : up'[x] > 0 => up[x] > 0 /\ (up[x] = 1 => up'[x] = 1)
    BY <1>3, <1>7
  <2> QED BY <2>1, <2>2 DEF Keyed
<1>9. PICK t : t = Applied(local, m)
  OBVIOUS
<1>10. t = <<DeleteWhere(up, w)>> /\ t # <<>> /\ t[1] = DeleteWhere(up, w)
  <2>1. Where(m) # <<>> /\ Where(m)[1] = w
    BY <1>6
  <2>2. t = <<DeleteWhere(up, w)>>
    BY <2>1, <1>3, <1>5, <1>9 DEF Applied
  <2> QED BY <2>2
<1>11. ~doubled' => t[1] = up'
  <2> SUFFICES ASSUME ~doubled' PROVE t[1] = up'
    OBVIOUS
  <2>0. ~(up[r] > 1)
    BY <1>2, Zenon
  <2>1. up[r] = 1
    BY <1>2, <1>3, <2>0
  <2>2. DeleteWhere(up, w) = Minus(up, r)
    BY <2>1, <1>3, <1>6, DeleteOne
  <2> QED BY <2>2, <1>2, <1>10
<1> QED BY <1>2, <1>4, <1>7, <1>8, <1>9, <1>10, <1>11, ReceiveStep

\* UPDATE makes of the one row what it became upstream; one that gives no cell halts the
\* replica, and changed nothing.
LEMMA UpdateStep ==
  ASSUME RowsInv, NEW q \in Rows, NEW r \in Rows, Update(q, r)
  PROVE  RowsInv'
<1>1. PICK m \in Updates(q, r) : Receive(m)
  BY DEF Update
<1>2. /\ status = "stream" /\ up[q] > 0 /\ up' = Plus(Minus(up, q), r)
      /\ Plus(Minus(up, q), r) \in Tables(identity)
      /\ doubled' = (doubled \/ up[q] > 1) /\ ~doubled
  BY <1>1 DEF Update, Receive
<1>3. RowTypes /\ KeyOnce /\ rel = Flags /\ local = up /\ up \in [Rows -> Nat]
  BY <1>2 DEF RowsInv, Streaming, RowTypes
<1>4. /\ m \in Messages /\ m.op = "U"
      /\ \E u \in NewTuples(q, r) : m.new = <<u>>
      /\ identity = "f" => m.old = <<q>>
      /\ identity = "d" => m.old = <<>> /\ (m.key = <<KeyOnly(q)>> \/ (m.key = <<>> /\ m.new[1][1] = q[1]))
  BY <1>1, <1>3, UpdateMessage
<1>5. PICK u \in NewTuples(q, r) : m.new = <<u>>
  BY <1>4
<1>6. /\ m.new[1] = u /\ DOMAIN Set(u) = Given(u) /\ Assign(q, Set(u)) = r
      /\ u[1] = Toast => r[1] = q[1]
      /\ u[2] = Toast => r[2] = q[2]
  BY <1>5, SetAssigns
<1>7. PICK w : /\ Where(m) = <<w>> /\ Matches(q, w)
               /\ \A x \in Rows : Matches(x, w) /\ x # q => up[x] = 0
  BY <1>2, <1>3, <1>4, WhereHits
<1>8. up' \in [Rows -> Nat] /\ (identity = "d" => Keyed(up'))
  <2>1. Minus(up, q) \in [Rows -> Nat]
    BY <1>2, <1>3, BagSteps
  <2>2. up' \in [Rows -> Nat]
    BY <2>1, <1>2, BagSteps
  <2>3. identity = "d" => up' \in KeyedTables
    BY <1>2 DEF Tables
  <2> QED BY <2>2, <2>3 DEF KeyedTables
<1>9. PICK t : t = Applied(local, m)
  OBVIOUS
<1>10. Where(m) # <<>> /\ Where(m)[1] = w
  BY <1>7
<1>11. t = IF Given(u) = {} THEN <<>> ELSE <<UpdateWhere(up, w, Set(u))>>
  BY <1>3, <1>4, <1>6, <1>9, <1>10 DEF Applied
<1>12. CASE Given(u) = {}
  <2>1. t = <<>>
    BY <1>11, <1>12
  <2>2. u[1] = Toast /\ u[2] = Toast
    BY <1>12 DEF Given, Columns
  <2>3. q = r
    BY <1>6, <2>2, RowEqual
  <2>4. up' = up
    <3>1. up' = Plus(Minus(up, q), q)
      BY <1>2, <2>3
    <3> QED BY <3>1, <1>2, <1>3 DEF Plus, Minus
  <2> QED BY <1>1, <1>2, <1>3, <1>4, <1>6, <1>8, <1>9, <1>12, <2>1, <2>4, ReceiveStep
<1>13. CASE Given(u) # {}
  <2>1. t # <<>> /\ t[1] = UpdateWhere(up, w, Set(u))
    BY <1>11, <1>13
  <2>2. ~doubled' => t[1] = up'
    <3> SUFFICES ASSUME ~doubled' PROVE t[1] = up'
      OBVIOUS
    <3>0. ~(up[q] > 1)
      BY <1>2, Zenon
    <3>1. up[q] = 1
      BY <1>2, <1>3, <3>0
    <3>2. UpdateWhere(up, w, Set(u)) = Plus(Minus(up, q), r)
      BY <3>1, <1>3, <1>6, <1>7, UpdateOne
    <3> QED BY <3>2, <1>2, <2>1
  <2> QED BY <1>1, <1>2, <1>4, <1>8, <1>9, <2>1, <2>2, ReceiveStep
<1> QED BY <1>12, <1>13

\* Every step of the copy and of the stream keeps the invariant.
LEMMA RowsStep ==
  ASSUME RowsInv, NextRows
  PROVE  RowsInv'
BY SnapshotStep, CopyRowStep, CopyEndsStep, TruncateStep, InsertStep, DeleteStep, UpdateStep DEF NextRows

\* A step that leaves the rows alone keeps it too.
LEMMA RowsSame ==
  ASSUME RowsInv, UNCHANGED rowVars
  PROVE  RowsInv'
<1>1. UNCHANGED <<identity, up, local, todo, batch, rel, wire, status>> /\ doubled' = doubled
  BY DEF rowVars
<1>2. RowTypes'
  BY <1>1 DEF RowsInv, RowTypes
<1>3. KeyOnce'
  BY <1>1 DEF RowsInv, KeyOnce, Keyed
<1>4. Copying'
  BY <1>1 DEF RowsInv, Copying
<1>5. Streaming'
  BY <1>1 DEF RowsInv, Streaming, Flags
<1>6. Sent'
  BY <1>1 DEF RowsInv, Sent
<1> QED BY <1>2, <1>3, <1>4, <1>5, <1>6 DEF RowsInv

\* Nothing has been copied yet.
LEMMA RowsInit ==
  ASSUME InitRows
  PROVE  RowsInv
<1>1. /\ identity = "d" /\ up = Empty /\ local = Empty /\ todo = Empty /\ batch = Empty
      /\ status = "new" /\ doubled = FALSE
  BY DEF InitRows
<1>2. Empty \in [Rows -> Nat] /\ \A r \in Rows : Empty[r] = 0
  BY DEF Empty
<1>3. RowTypes /\ KeyOnce
  BY <1>1, <1>2 DEF RowTypes, KeyOnce, Keyed
<1>4. Copying
  BY <1>1, <1>2 DEF Copying
<1>5. Streaming /\ Sent
  BY <1>1 DEF Streaming, Sent
<1> QED BY <1>3, <1>4, <1>5 DEF RowsInv

\* What the invariant says of the table and of the messages.
LEMMA RowsSafe ==
  ASSUME RowsInv
  PROVE  Mirrors /\ ReadsBack /\ StopsOnlyOnNoop
<1>1. Mirrors
  BY DEF RowsInv, Streaming, Mirrors
<1>2. ReadsBack
  <2> SUFFICES ASSUME status = "stream", wire[1] # "R"
               PROVE  /\ Decode(wire) # <<>> /\ Encode(Decode(wire)[1]) = wire
                      /\ \A n \in 0..(Len(wire) - 1) : Decode(SubSeq(wire, 1, n)) = <<>>
    BY DEF ReadsBack
  <2>1. PICK m \in Messages : wire = Encode(m)
    BY DEF RowsInv, Sent
  <2>2. Decode(wire) = <<m>> /\ \A n \in 0..(Len(wire) - 1) : Decode(SubSeq(wire, 1, n)) = <<>>
    BY <2>1, DecodeEncode
  <2>3. <<m>> # <<>> /\ <<m>>[1] = m
    OBVIOUS
  <2> QED BY <2>1, <2>2, <2>3
<1>3. StopsOnlyOnNoop
  <2> SUFFICES ASSUME status = "halted"
               PROVE  /\ Decode(wire) # <<>> /\ Decode(wire)[1].op = "U"
                      /\ Given(Decode(wire)[1].new[1]) = {}
                      /\ ~doubled => local = up
    BY DEF StopsOnlyOnNoop
  <2>1. PICK m \in Messages : wire = Encode(m) /\ m.op = "U" /\ Given(m.new[1]) = {}
    BY DEF RowsInv, Sent
  <2>2. Decode(wire) = <<m>>
    BY <2>1, DecodeEncode
  <2>3. <<m>> # <<>> /\ <<m>>[1] = m
    OBVIOUS
  <2>4. ~doubled => local = up
    BY DEF RowsInv, Streaming
  <2> QED BY <2>1, <2>2, <2>3, <2>4
<1> QED BY <1>1, <1>2, <1>3

-----------------------------------------------------------------------------
(* The theorems about rows *)

\* The invariant of the copy and of the stream.
THEOREM RowsInvariance == Spec => []RowsInv
<1>1. Init => RowsInv
  BY RowsInit DEF Init
<1>2. RowsInv /\ [Next]_vars => RowsInv'
  <2> SUFFICES ASSUME RowsInv, [Next]_vars PROVE RowsInv'
    OBVIOUS
  <2>1. CASE Replicate
    BY <2>1, RowsStep DEF Replicate
  <2>2. CASE Order \/ Bootstrap \/ BootstrapFails \/ UNCHANGED vars
    <3>1. UNCHANGED rowVars
      BY <2>2 DEF Order, Bootstrap, BootstrapFails, vars
    <3> QED BY <3>1, RowsSame
  <2> QED BY <2>1, <2>2 DEF Next
<1> QED BY <1>1, <1>2, PTL DEF Spec

\* For every table, every set of texts and either replica identity the copy and each row
\* change leave the local table equal to the upstream one.
THEOREM RowsMirror == Spec => []Mirrors
<1>1. RowsInv => Mirrors
  BY RowsSafe
<1> QED BY <1>1, RowsInvariance, PTL

\* decode reads every message back and refuses every message that ends early.
THEOREM DecodesWhatWasSent == Spec => []ReadsBack
<1>1. RowsInv => ReadsBack
  BY RowsSafe
<1> QED BY <1>1, RowsInvariance, PTL

\* Only an update that gives no cell halts the stream, and it changed nothing.
THEOREM HaltsOnNoop == Spec => []StopsOnlyOnNoop
<1>1. RowsInv => StopsOnlyOnNoop
  BY RowsSafe
<1> QED BY <1>1, RowsInvariance, PTL

=============================================================================
