------------------------- MODULE ReplicaAccessProof -------------------------
(***************************************************************************)
(* Converges, for every set of tables and roles and every number of        *)
(* changes and interruptions.  The plan of a resync is followed fact by    *)
(* fact: what the target has is granted again or is there for good, what   *)
(* it has not is taken away or not there; and nothing is taken away after  *)
(* it was granted.                                                         *)
(***************************************************************************)
EXTENDS ReplicaAccess, FiniteSetTheorems, FunctionTheorems, WellFoundedInduction, NaturalsInduction, TLAPS

Kinds == {"member", "rls", "grant", "policy"}
Add(f) == [op |-> "add", f |-> f]
Del(f) == [op |-> "del", f |-> f]

\* The facts a resync to the catalog c answers for.
Concern(f, c) == f \in Facts /\ f[1] \in Kinds /\ (f[1] = "member" \/ Table(f[2]) \in c)

AccessTypes ==
  /\ sec \subseteq Facts /\ acl \subseteq Facts /\ stored \subseteq Facts /\ target \subseteq Facts
  /\ \A s \in plan : s.f \in Facts /\ s \in {Add(s.f), Del(s.f)}
  /\ mode \in {"idle", "signal", "read", "reconcile", "halted"}

\* What was stored is true here while no resync is under way.
Held ==
  /\ mode \in {"idle", "signal", "read"} /\ ~disturbed => Agrees(stored)
  /\ mode = "halted" => disturbed
  /\ seen # Nothing => seen = stored /\ mode = "idle"

\* Of every fact f: the plan P, run on the catalog have, leads to want.
Leads(want, have, P, f) ==
  /\ f \in want => Add(f) \in P \/ (f \in have /\ Del(f) \notin P)
  /\ f \notin want => Add(f) \notin P /\ (Del(f) \in P \/ f \notin have)

\* Where the plan of a resync leads.
Planned == mode = "reconcile" => \A f : Concern(f, target) => Leads(target, acl, plan, f)

AccessInv == AccessTypes /\ Held /\ Planned

-----------------------------------------------------------------------------
(* Lemmas *)

\* A fact has a kind, and rests on roles and on its table.
LEMMA FactShape ==
  ASSUME NEW f \in Facts
  PROVE  /\ f[1] \in Kinds \cup {"role", "table"}
         /\ f[1] \in {"rls", "grant", "policy"} => f[2] \in Tables
         /\ f[1] = "member" => Needs(f) = {Role(f[2]), Role(f[3])}
         /\ f[1] \in {"rls", "grant", "policy"} => Needs(f) \subseteq {Table(f[2]), Role(f[3])}
         /\ f[1] = "table" => \E t \in Tables : f = Table(t)
         /\ f[1] = "rls" => f = Rls(f[2])
<1>1. \/ \E r \in Roles : f = Role(r)
      \/ \E t \in Tables : f = Table(t) \/ f = Rls(t) \/ f = Policy(t)
      \/ \E t \in Tables, r \in Roles : f = Grant(t, r)
      \/ \E x \in Roles \X Roles : f = Member(x[1], x[2])
  BY DEF Facts
<1>2. /\ f[1] \in Kinds \cup {"role", "table"}
      /\ f[1] \in {"rls", "grant", "policy"} => f[2] \in Tables
      /\ f[1] = "table" => \E t \in Tables : f = Table(t)
      /\ f[1] = "rls" => f = Rls(f[2])
  BY <1>1 DEF Role, Table, Rls, Policy, Grant, Member, Kinds
<1>3. /\ f[1] = "member" => Needs(f) = {Role(f[2]), Role(f[3])}
      /\ f[1] \in {"rls", "grant", "policy"} => Needs(f) \subseteq {Table(f[2]), Role(f[3])}
  BY DEF Needs
<1> QED BY <1>2, <1>3

\* Roles and tables are facts of kinds of their own.
LEMMA Apart ==
  /\ \A t, r : Table(t) # Role(r)
  /\ \A t : Table(t)[1] = "table" /\ Table(t)[2] = t
  /\ \A t \in Tables : Table(t) \in Facts
BY DEF Table, Role, Facts

\* A set of naturals with an element has a least one.
LEMMA LeastOf ==
  ASSUME NEW T, T \subseteq Nat, T # {}
  PROVE  \E x \in T : \A y \in T : x <= y
<1>1. PICK x \in T : \A y \in T : ~(<<y, x>> \in OpToRel(<, Nat))
  BY WFMin, NatLessThanWellFounded, Zenon
<1>2. \A y \in T : x \in Nat /\ y \in Nat /\ ~(y < x)
  BY <1>1 DEF OpToRel
<1>3. \A y \in T : x <= y
  BY ONLY <1>2
<1> QED BY <1>3

\* The tables have numbers.
LEMMA TableNumbers == TableNo \in [Tables -> Nat]
<1> DEFINE n == Cardinality(Tables)
<1>1. n \in Nat /\ ExistsBijection(1..n, Tables)
  BY AccessAssumption, FS_CardinalityType
<1>2. PICK b : b \in Bijection(1..n, Tables)
  BY <1>1 DEF ExistsBijection
<1>3. Inverse(b, 1..n, Tables) \in Bijection(Tables, 1..n)
  BY <1>2, Fun_BijInverse
<1>4. \E m \in [Tables -> 1..n] : IsInjective(m)
  <2>1. PICK m : m \in Bijection(Tables, 1..n)
    BY <1>3
  <2>2. m \in [Tables -> 1..n] /\ IsInjective(m)
    BY <2>1 DEF Bijection, Injection, IsInjective
  <2> QED BY <2>2
<1>5. TableNo \in [Tables -> 1..n]
  BY <1>4 DEF TableNo
<1> QED BY <1>5, <1>1

\* Every statement has its place, and a fact is taken away before it is granted.
LEMMA Places ==
  ASSUME NEW f \in Facts
  PROVE  /\ Place(Add(f)) \in Nat /\ Place(Del(f)) \in Nat
         /\ Place(Del(f)) < Place(Add(f))
<1> DEFINE part == CASE f[1] = "role" -> 0 [] f[1] = "member" -> 1 [] OTHER -> 1 + TableNo[f[2]]
           rank == CASE f[1] = "grant" -> 1 [] f[1] = "policy" -> 2 [] OTHER -> 0
<1>1. part \in Nat
  <2>1. f[1] \in {"table", "rls", "grant", "policy"} => TableNo[f[2]] \in Nat
    BY FactShape, TableNumbers, Apart
  <2>2. f[1] \in {"role", "member", "table", "rls", "grant", "policy"}
    BY FactShape DEF Kinds
  <2> QED BY <2>1, <2>2
<1>2. rank \in Nat
  OBVIOUS
<1>3. Place(Add(f)) = 6 * part + 2 * rank + 1 /\ Place(Del(f)) = 6 * part + 2 * rank + 0
  BY DEF Place, Add, Del
<1> HIDE DEF part, rank
<1> QED BY <1>1, <1>2, <1>3

\* reconcile_security runs the statement of the least place.
LEMMA NextStatement ==
  ASSUME NEW P, P # {}, \A s \in P : s.f \in Facts /\ s \in {Add(s.f), Del(s.f)}
  PROVE  LET s == CHOOSE s \in P : \A p \in P : Place(s) <= Place(p)
         IN s \in P /\ \A p \in P : Place(s) <= Place(p)
<1> DEFINE T == {Place(s) : s \in P}
<1>1. T \subseteq Nat
  BY Places
<1>2. T # {}
  OBVIOUS
<1>3. PICK x \in T : \A y \in T : x <= y
  <2> HIDE DEF T
  <2> QED BY <1>1, <1>2, LeastOf
<1>4. \E s \in P : \A p \in P : Place(s) <= Place(p)
  BY <1>3
<1> QED BY <1>4

\* What the statements of a resync are: grants only of what the catalog has, and for every
\* fact it answers for the statement that brings it there.
LEMMA ReconcileShape ==
  ASSUME NEW have, have \subseteq Facts, NEW want, want \subseteq Facts
  PROVE  /\ \A s \in Reconcile(have, want) : s.f \in Facts /\ s \in {Add(s.f), Del(s.f)}
         /\ \A f \in Facts : Add(f) \in Reconcile(have, want) => f \in want
         /\ \A f : Concern(f, want) /\ f \in want => Add(f) \in Reconcile(have, want)
         /\ \A f : Concern(f, want) /\ f \in have \ want => Del(f) \in Reconcile(have, want)
<1>1. \A S : Adds(S) = {Add(f) : f \in S} /\ Dels(S) = {Del(f) : f \in S}
  BY DEF Adds, Dels, Add, Del
<1>2. \A f, g : Add(f) # Del(g) /\ (Add(f) = Add(g) <=> f = g) /\ (Del(f) = Del(g) <=> f = g)
               /\ Add(f).f = f /\ Del(f).f = f
  BY DEF Add, Del
<1> DEFINE On(kind, t, facts) == {f \in Of(kind, facts) : f[2] = t}
<1>3. \A t \in Tables : ReconcileTable(t, have, want) =
         (IF Rls(t) \in want THEN Adds({Rls(t)}) ELSE Dels({Rls(t)})) \cup
         Dels(On("grant", t, have)) \cup Adds(On("grant", t, want)) \cup
         Dels(On("policy", t, have)) \cup Adds(On("policy", t, want))
  BY DEF ReconcileTable
<1>4. \A t \in Tables : \A s \in ReconcileTable(t, have, want) :
         \/ s = Add(s.f) /\ s.f \in want
         \/ s = Del(s.f) /\ s.f \in Facts
  <2> TAKE t \in Tables
  <2> TAKE s \in ReconcileTable(t, have, want)
  <2>1. Rls(t) \in Facts
    BY DEF Facts
  <2>2. On("grant", t, have) \subseteq Facts /\ On("policy", t, have) \subseteq Facts
        /\ On("grant", t, want) \subseteq want /\ On("policy", t, want) \subseteq want
    BY DEF Of
  <2>3. \/ \E f \in want : s = Add(f)
        \/ \E f \in Facts : s = Del(f)
    <3>1. \/ s \in Adds({Rls(t)}) /\ Rls(t) \in want
          \/ s \in Dels({Rls(t)})
          \/ s \in Dels(On("grant", t, have)) \/ s \in Adds(On("grant", t, want))
          \/ s \in Dels(On("policy", t, have)) \/ s \in Adds(On("policy", t, want))
      <4> HIDE DEF On
      <4> QED BY <1>3
    <3> HIDE DEF On
    <3> QED BY <3>1, <2>1, <2>2, <1>1
  <2> QED BY <2>3, <1>2
<1>5. \A s \in Reconcile(have, want) :
         \/ s = Add(s.f) /\ s.f \in want
         \/ s = Del(s.f) /\ s.f \in Facts
  <2> TAKE s \in Reconcile(have, want)
  <2>1. \/ s \in Adds(Of("role", want) \ have) \/ s \in Dels(Of("member", have))
        \/ s \in Adds(Of("member", want))
        \/ \E t \in Tables : s \in ReconcileTable(t, have, want)
    BY DEF Reconcile
  <2>2. Of("role", want) \ have \subseteq want /\ Of("member", have) \subseteq Facts
        /\ Of("member", want) \subseteq want
    BY DEF Of
  <2>3. CASE \E t \in Tables : s \in ReconcileTable(t, have, want)
    BY <2>3, <1>4
  <2>4. CASE \/ s \in Adds(Of("role", want) \ have) \/ s \in Dels(Of("member", have))
             \/ s \in Adds(Of("member", want))
    <3>1. \/ \E f \in want : s = Add(f)
          \/ \E f \in Facts : s = Del(f)
      BY <2>4, <2>2, <1>1
    <3> QED BY <3>1, <1>2
  <2> QED BY <2>1, <2>3, <2>4
<1>6. \A s \in Reconcile(have, want) : s.f \in Facts /\ s \in {Add(s.f), Del(s.f)}
  BY <1>5
<1>7. \A f \in Facts : Add(f) \in Reconcile(have, want) => f \in want
  BY <1>5, <1>2
<1>8. ASSUME NEW f, Concern(f, want)
      PROVE  /\ f \in want => Add(f) \in Reconcile(have, want)
             /\ f \in have \ want => Del(f) \in Reconcile(have, want)
  <2>1. f \in Facts /\ f[1] \in Kinds
    BY <1>8 DEF Concern
  <2>2. CASE f[1] = "member"
    <3>1. f \in want => f \in Of("member", want)
      BY <2>2 DEF Of
    <3>2. f \in have => f \in Of("member", have)
      BY <2>2 DEF Of
    <3>3. f \in want => Add(f) \in Adds(Of("member", want))
      BY <3>1, <1>1
    <3>4. f \in have => Del(f) \in Dels(Of("member", have))
      BY <3>2, <1>1
    <3> QED BY <3>3, <3>4 DEF Reconcile
  <2>3. CASE f[1] \in {"rls", "grant", "policy"}
    <3>1. f[2] \in Tables /\ Table(f[2]) \in want
      BY <1>8, <2>1, <2>3, FactShape DEF Concern
    <3>2. ReconcileTable(f[2], have, want) \subseteq Reconcile(have, want)
      BY <3>1 DEF Reconcile
    <3>3. /\ f \in want => Add(f) \in ReconcileTable(f[2], have, want)
          /\ f \in have \ want => Del(f) \in ReconcileTable(f[2], have, want)
      <4>1. CASE f[1] = "rls"
        <5>1. f = Rls(f[2])
          BY <2>1, <4>1, FactShape
        <5>2. Add(f) \in Adds({Rls(f[2])}) /\ Del(f) \in Dels({Rls(f[2])})
          BY <5>1, <1>1
        <5>3. /\ f \in want => Adds({Rls(f[2])}) \subseteq ReconcileTable(f[2], have, want)
              /\ f \notin want => Dels({Rls(f[2])}) \subseteq ReconcileTable(f[2], have, want)
          BY <5>1 DEF ReconcileTable
        <5> QED BY <5>2, <5>3
      <4>2. ASSUME NEW k \in {"grant", "policy"}, f[1] = k
            PROVE  /\ f \in want => Add(f) \in ReconcileTable(f[2], have, want)
                   /\ f \in have \ want => Del(f) \in ReconcileTable(f[2], have, want)
        <5>1. /\ f \in want => f \in On(k, f[2], want)
              /\ f \in have => f \in On(k, f[2], have)
          BY <4>2 DEF Of
        <5>2. /\ Adds(On(k, f[2], want)) \subseteq ReconcileTable(f[2], have, want)
              /\ Dels(On(k, f[2], have)) \subseteq ReconcileTable(f[2], have, want)
          <6> HIDE DEF On
          <6> QED BY <3>1, <1>3, <4>2
        <5> HIDE DEF On
        <5>3. /\ f \in want => Add(f) \in Adds(On(k, f[2], want))
              /\ f \in have => Del(f) \in Dels(On(k, f[2], have))
          BY <5>1, <1>1
        <5> QED BY <5>2, <5>3
      <4> QED BY <2>3, <4>1, <4>2
    <3> QED BY <3>2, <3>3
  <2> QED BY <2>1, <2>2, <2>3 DEF Kinds
<1> HIDE DEF On
<1> QED BY <1>6, <1>7, <1>8

-----------------------------------------------------------------------------
(* The invariant *)

\* After the first run the local catalog is the stored one, or nothing is stored.
LEMMA AccessInit == Init => AccessInv
<1> SUFFICES ASSUME Init PROVE AccessInv
  OBVIOUS
<1>1. PICK g : g \in Facts /\ g[1] = "grant" /\ sec \in {TableFacts, TableFacts \cup RoleFacts \cup {g}}
  <2>1. PICK t \in Tables, r \in Roles : TRUE
    BY AccessAssumption
  <2>2. Grant(t, r) \in Facts /\ Grant(t, r)[1] = "grant"
    BY DEF Facts, Grant
  <2>3. \E f \in Facts : f[1] = "grant"
    BY <2>2
  <2>4. (CHOOSE f \in Facts : f[1] = "grant") \in Facts /\ (CHOOSE f \in Facts : f[1] = "grant")[1] = "grant"
    BY <2>3
  <2> QED BY <2>4 DEF Init
<1>2. TableFacts \cup RoleFacts \subseteq Facts /\ \A f \in TableFacts \cup RoleFacts : f[1] \in {"table", "role"}
  BY DEF TableFacts, RoleFacts, Of
<1>3. sec \subseteq Facts /\ \A f \in sec : f[1] # "member"
  BY <1>1, <1>2
<1>4. acl = sec /\ stored \in {sec, {}} /\ target = {} /\ plan = {} /\ mode = "idle" /\ seen = Nothing
  BY DEF Init
<1>5. AccessTypes
  BY <1>3, <1>4 DEF AccessTypes
<1>6. Agrees(stored)
  BY <1>3, <1>4 DEF Agrees
<1> QED BY <1>4, <1>5, <1>6 DEF AccessInv, Held, Planned

\* The catalog after a statement.
After(s, have) == IF s.op = "add" THEN have \cup {s.f} ELSE have \ {s.f}

\* A step of the plan leads where the plan leads.
LEMMA StepsLead ==
  ASSUME NEW want, NEW have, NEW P, NEW s, s \in P, s.f \in Facts, s \in {Add(s.f), Del(s.f)},
         \A p \in P : Place(s) <= Place(p),
         NEW f \in Facts,
         Leads(want, have, P, f)
  PROVE  Leads(want, After(s, have), P \ {s}, f)
<1> USE DEF Leads, After
<1> DEFINE now == After(s, have)
<1>1. /\ Add(f).op = "add" /\ Del(f).op = "del" /\ Add(f).f = f /\ Del(f).f = f
      /\ Add(s.f).op = "add" /\ Del(s.f).op = "del"
  BY DEF Add, Del
<1>2. CASE s = Add(f)
  <2>1. Del(f) \notin P
    <3>1. ~(Place(Add(f)) <= Place(Del(f)))
      BY Places
    <3> QED BY <3>1, <1>2
  <2>2. f \in now
    BY <1>1, <1>2
  <2>3. f \in want
    BY <1>2
  <2> QED BY <2>1, <2>2, <2>3
<1>3. CASE s = Del(f)
  <2>1. f \notin now
    BY <1>1, <1>3
  <2>2. f \in want => Add(f) \in P \ {s}
    BY <1>1, <1>3
  <2> QED BY <2>1, <2>2
<1>4. CASE s # Add(f) /\ s # Del(f)
  <2>1. s.f # f
    BY <1>4
  <2>2. f \in now <=> f \in have
    BY <2>1
  <2> QED BY <1>4, <2>2
<1> QED BY <1>2, <1>3, <1>4

\* The schema half of a signal leaves what was stored true, or says that it has not.
LEMMA FollowKeeps ==
  ASSUME AccessInv, FollowSchema, ~disturbed'
  PROVE  Agrees(stored)'
<1>0. /\ mode = "idle" /\ stored' = stored
      /\ acl' = {f \in acl : \A t \in Of("table", Facts) \ sec : f # t /\ t \notin Needs(f)}
                  \cup Of("table", sec)
      /\ disturbed' = (disturbed \/ Of("table", sec \cap stored) \ acl # {})
      /\ ~disturbed'
  BY DEF FollowSchema
<1>1. ~disturbed /\ Of("table", sec \cap stored) \ acl = {}
  BY <1>0
<1>2. Agrees(stored)
  BY <1>0, <1>1 DEF AccessInv, Held
<1> SUFFICES ASSUME NEW f \in Facts, f[1] \in Kinds, f[1] = "member" \/ Table(f[2]) \in acl' \cap stored
             PROVE  f \in acl' <=> f \in stored
  BY <1>0 DEF Agrees, Kinds
<1>3. f \notin Of("table", sec) /\ \A t \in Of("table", Facts) : f # t
  BY DEF Of, Kinds
<1>4. f[1] = "member" \/ Table(f[2]) \in acl
  <2>1. CASE Table(f[2]) \in Of("table", sec) /\ Table(f[2]) \in stored
    BY <2>1, <1>1 DEF Of
  <2> QED BY <2>1, <1>0
<1>5. f \in acl <=> f \in stored
  BY <1>2, <1>4 DEF Agrees, Kinds
<1>6. \A t \in Of("table", Facts) \ sec : t \notin Needs(f)
  <2> SUFFICES ASSUME NEW t \in Of("table", Facts), t \notin sec, t \in Needs(f)
               PROVE  FALSE
    OBVIOUS
  <2>1. PICK u \in Tables : t = Table(u)
    BY FactShape DEF Of
  <2>2. f[1] # "member" /\ t = Table(f[2])
    <3>1. f[1] = "member" => Needs(f) = {Role(f[2]), Role(f[3])}
      BY FactShape
    <3>2. f[1] # "member" => Needs(f) \subseteq {Table(f[2]), Role(f[3])}
      BY FactShape DEF Kinds
    <3> QED BY <2>1, <3>1, <3>2, Apart
  <2>3. t \in acl'
    BY <2>2
  <2>4. t \in Of("table", sec)
    BY <2>3, <1>0
  <2> QED BY <2>4 DEF Of
<1>7. f \in acl' <=> f \in acl
  BY <1>0, <1>3, <1>6
<1> QED BY <1>5, <1>7

\* Every action keeps what the catalogs and the plan are made of.
LEMMA AccessTypesStep == AccessInv /\ [Next]_vars => AccessTypes'
<1> SUFFICES ASSUME AccessInv, [Next]_vars PROVE AccessTypes'
  OBVIOUS
<1> USE DEF AccessTypes
<1>0. AccessTypes
  BY DEF AccessInv
<1>1. CASE UpstreamChange
  <2>1. UNCHANGED <<acl, stored, target, plan, mode>>
    BY <1>1 DEF UpstreamChange
  <2>2. PICK f \in Facts : sec' = sec \cup {f} \/ sec' = Without(sec, f)
    BY <1>1 DEF UpstreamChange
  <2>3. sec' \subseteq Facts
    BY <1>0, <2>2 DEF Without
  <2> QED BY <1>0, <2>1, <2>3
<1>2. CASE Resync
  <2>1. UNCHANGED <<sec, acl, stored>>
    BY <1>2 DEF Resync
  <2>2. CASE target = stored
    BY <1>0, <1>2, <2>1, <2>2 DEF Resync
  <2>3. CASE target # stored
    <3>1. target' = target /\ plan' = Reconcile(acl, target) /\ mode' = "reconcile"
      BY <1>2, <2>3 DEF Resync
    <3>2. \A s \in plan' : s.f \in Facts /\ s \in {Add(s.f), Del(s.f)}
      BY <1>0, <3>1, ReconcileShape
    <3> QED BY <1>0, <2>1, <3>1, <3>2
  <2> QED BY <2>2, <2>3
<1>9. CASE ReadCatalog
  BY <1>0, <1>9 DEF ReadCatalog
<1>3. CASE RunStatement
  <2>1. UNCHANGED <<sec, stored, target>> /\ plan # {} /\ mode = "reconcile"
    BY <1>3 DEF RunStatement
  <2>2. PICK s : s \in plan /\
          \/ mode' = "halted" /\ UNCHANGED <<acl, plan>>
          \/ /\ acl' = IF s.op = "add" THEN acl \cup {s.f} ELSE acl \ {s.f}
             /\ plan' = plan \ {s} /\ UNCHANGED mode
    BY <1>0, <1>3, <2>1, NextStatement DEF RunStatement
  <2>3. acl' \subseteq Facts /\ plan' \subseteq plan /\ mode' \in {"reconcile", "halted"}
    BY <1>0, <2>1, <2>2
  <2> QED BY <1>0, <2>1, <2>3
<1>4. CASE Finish
  BY <1>0, <1>4 DEF Finish
<1>5. CASE Interrupt
  BY <1>0, <1>5 DEF Interrupt
<1>6. CASE FollowSchema
  BY <1>0, <1>6 DEF FollowSchema, Of
<1>7. CASE Recreate
  <2>1. PICK f \in Of("table", acl) : acl' = Without(acl, f) \cup {f}
    BY <1>7 DEF Recreate
  <2>2. acl' \subseteq Facts
    BY <1>0, <2>1 DEF Of, Without
  <2> QED BY <1>0, <1>7, <2>2 DEF Recreate
<1>8. CASE UNCHANGED vars
  BY <1>0, <1>8 DEF vars
<1> QED BY <1>1, <1>2, <1>3, <1>4, <1>5, <1>6, <1>7, <1>8, <1>9 DEF Next

\* What was stored holds, and the plan of a resync leads to its target.
LEMMA AccessStep == AccessInv /\ [Next]_vars => (Held /\ Planned)'
<1> SUFFICES ASSUME AccessInv, [Next]_vars PROVE (Held /\ Planned)'
  OBVIOUS
<1>0. AccessTypes /\ Held /\ Planned
  BY DEF AccessInv
<1>a. ASSUME UNCHANGED <<acl, stored>> PROVE Agrees(stored)' <=> Agrees(stored)
  BY <1>a DEF Agrees
<1>1. CASE UpstreamChange
  <2>1. UNCHANGED <<acl, stored, target, plan, mode, seen, disturbed>>
    BY <1>1 DEF UpstreamChange
  <2>2. Held'
    BY <1>0, <1>a, <2>1 DEF Held
  <2> QED BY <1>0, <2>1, <2>2 DEF Planned
<1>2. CASE Resync
  <2>1. UNCHANGED <<sec, acl, stored, disturbed>> /\ mode = "read"
    BY <1>2 DEF Resync
  <2>2. CASE target = stored
    <3>1. mode' = "idle" /\ seen' = stored
      BY <1>2, <2>2 DEF Resync
    <3>2. ~disturbed' => Agrees(stored)'
      BY <1>0, <1>a, <2>1 DEF Held
    <3> QED BY <2>1, <3>1, <3>2 DEF Held, Planned
  <2>3. CASE target # stored
    <3>1. /\ target' = target /\ plan' = Reconcile(acl, target)
          /\ mode' = "reconcile" /\ seen' = Nothing
      BY <1>0, <1>2, <2>1, <2>3 DEF Resync, Held
    <3>2. ASSUME NEW f, Concern(f, target)
          PROVE  Leads(target, acl', plan', f)
      <4>1. f \in Facts
        BY <3>2 DEF Concern
      <4>2. acl \subseteq Facts /\ target \subseteq Facts
        BY <1>0 DEF AccessTypes
      <4> QED BY <2>1, <3>1, <3>2, <4>1, <4>2, ReconcileShape DEF Leads
    <3>3. Planned'
      BY <3>1, <3>2 DEF Planned, Concern
    <3> QED BY <3>1, <3>3 DEF Held
  <2> QED BY <2>2, <2>3
<1>9. CASE ReadCatalog
  <2>1. /\ mode \in {"idle", "signal", "read"} /\ mode' = "read" /\ seen' = Nothing
        /\ UNCHANGED <<acl, stored, disturbed>>
    BY <1>9 DEF ReadCatalog
  <2> QED BY <1>0, <1>a, <2>1 DEF Held, Planned
<1>3. CASE RunStatement
  <2>1. UNCHANGED <<sec, stored, target, seen>> /\ plan # {} /\ mode = "reconcile"
    BY <1>3 DEF RunStatement
  <2>2. PICK s : /\ s \in plan /\ \A p \in plan : Place(s) <= Place(p)
                 /\ \/ mode' = "halted" /\ disturbed' = TRUE
                    \/ /\ acl' = IF s.op = "add" THEN acl \cup {s.f} ELSE acl \ {s.f}
                       /\ plan' = plan \ {s} /\ UNCHANGED mode
    BY <1>0, <1>3, <2>1, NextStatement DEF RunStatement, AccessTypes
  <2>3. seen' = Nothing
    BY <1>0, <2>1 DEF Held
  <2>4. CASE mode' = "halted" /\ disturbed' = TRUE
    BY <2>3, <2>4 DEF Held, Planned
  <2>5. CASE /\ acl' = IF s.op = "add" THEN acl \cup {s.f} ELSE acl \ {s.f}
             /\ plan' = plan \ {s} /\ UNCHANGED mode
    <3>1. ASSUME NEW f, Concern(f, target)
          PROVE  Leads(target, acl', plan', f)
      <4>1. f \in Facts
        BY <3>1 DEF Concern
      <4>2. Leads(target, acl, plan, f)
        BY <1>0, <2>1, <3>1 DEF Planned
      <4>3. s.f \in Facts /\ s \in {Add(s.f), Del(s.f)}
        BY <1>0, <2>2 DEF AccessTypes
      <4>4. Leads(target, After(s, acl), plan \ {s}, f)
        BY <2>2, <4>1, <4>2, <4>3, StepsLead
      <4> QED BY <2>5, <4>4 DEF After
    <3>2. Planned'
      BY <2>1, <3>1 DEF Planned, Concern
    <3> QED BY <2>1, <2>3, <2>5, <3>2 DEF Held
  <2> QED BY <2>2, <2>4, <2>5
<1>4. CASE Finish
  <2>1. /\ mode = "reconcile" /\ plan = {} /\ acl' = acl
        /\ stored' = target /\ seen' = target /\ mode' = "idle"
    BY <1>4 DEF Finish
  <2>2. Agrees(stored)'
    <3> SUFFICES ASSUME NEW f \in Facts, f[1] \in Kinds, f[1] = "member" \/ Table(f[2]) \in acl \cap target
                 PROVE  f \in acl <=> f \in target
      BY <2>1 DEF Agrees, Kinds
    <3>1. Concern(f, target)
      BY DEF Concern
    <3> QED BY <1>0, <2>1, <3>1 DEF Planned, Leads
  <2> QED BY <2>1, <2>2 DEF Held, Planned
<1>5. CASE Interrupt
  <2>1. /\ mode # "idle" /\ mode' = "idle" /\ seen' = Nothing
        /\ disturbed' = (disturbed \/ mode = "reconcile") /\ UNCHANGED <<acl, stored>>
    BY <1>5 DEF Interrupt
  <2>2. ~disturbed' => Agrees(stored)
    BY <1>0, <2>1 DEF Held, AccessTypes
  <2> QED BY <1>a, <2>1, <2>2 DEF Held, Planned
<1>6. CASE FollowSchema
  <2>1. mode' = "signal" /\ seen' = Nothing
    BY <1>6 DEF FollowSchema
  <2>2. ~disturbed' => Agrees(stored)'
    BY <1>6, FollowKeeps
  <2> QED BY <2>1, <2>2 DEF Held, Planned
<1>7. CASE Recreate
  BY <1>7 DEF Recreate, Held, Planned
<1>8. CASE UNCHANGED vars
  <2>1. UNCHANGED <<acl, stored, target, plan, mode, seen, disturbed>>
    BY <1>8 DEF vars
  <2>2. Held'
    BY <1>0, <1>a, <2>1 DEF Held
  <2> QED BY <1>0, <2>1, <2>2 DEF Planned
<1> QED BY <1>1, <1>2, <1>3, <1>4, <1>5, <1>6, <1>7, <1>8, <1>9 DEF Next

\* The invariant holds in every state of reconcile_security and of what interrupts it.
THEOREM AccessInvariance == Spec => []AccessInv
<1>1. Init => AccessInv
  BY AccessInit
<1>2. AccessInv /\ [Next]_vars => AccessInv'
  BY AccessTypesStep, AccessStep DEF AccessInv
<1> QED BY <1>1, <1>2, PTL DEF Spec

\* A resync_security that returned Ok, by its statements or by the fingerprint alone, has
\* left the local memberships, row security, grants and policies as it read those of the
\* upstream, query by query, unless a reconcile cut off or a re-created table is hidden by
\* a fingerprint that came back.
THEOREM CatalogConverges == Spec => []Converges
<1>1. AccessInv => Converges
  BY DEF AccessInv, Held, Converges
<1> QED BY <1>1, AccessInvariance, PTL

=============================================================================
