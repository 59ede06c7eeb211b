--------------------------- MODULE ReplicaAccess ---------------------------
(***************************************************************************)
(* Roles, memberships, row-level security, grants and policies of the      *)
(* replica (replica/mod.rs resync_security, backfill.rs, meta.rs).  The    *)
(* role poll and every DDL signal read the upstream catalog, in five       *)
(* queries without a transaction, so that the parts may not fit together.  *)
(* If its fingerprint differs from the stored one, reconcile_security      *)
(* brings the local catalog there, statement by statement and outside any  *)
(* transaction, and the fingerprint is stored after the last statement.    *)
(*                                                                         *)
(* A catalog is a set of facts <<kind, a, b>>.  The options of a role, a   *)
(* membership or a policy are left out, and so is what the facts allow:    *)
(* the question is only whether the local catalog becomes the upstream one.*)
(***************************************************************************)
EXTENDS Integers, FiniteSets, Sequences, Functions

CONSTANTS
  Tables, Roles,  \* names
  MaxChanges,     \* bound of the model: changes upstream
  MaxFaults       \* bound of the model: interruptions and re-created tables

\* A publication has a table: introspect refuses one without.
ASSUME AccessAssumption ==
  /\ IsFiniteSet(Tables) /\ Tables # {} /\ Roles # {}
  /\ MaxChanges \in Nat /\ MaxFaults \in Nat

VARIABLES
  sec,        \* upstream: the catalog
  acl,        \* local: the same facts of the local catalog
  stored,     \* local: security_fingerprint of _pglite_replica
  query,      \* how many queries introspect_security has made
  target,     \* what they have read
  plan,       \* the statements the resync has still to run
  mode,       \* "idle" (in the stream loop), "signal", "read", "reconcile", "halted"
  seen,       \* history: the catalog of the last resync that returned Ok
  disturbed,  \* history: interrupted, or a table re-created, since the last full reconcile
  changes, faults

vars == <<sec, acl, stored, query, target, plan, mode, seen, disturbed, changes, faults>>

Role(r) == <<"role", r, r>>
Member(g, m) == <<"member", g, m>>
Table(t) == <<"table", t, t>>
Rls(t) == <<"rls", t, t>>
Grant(t, r) == <<"grant", t, r>>
Policy(t) == <<"policy", t, t>>

Facts ==
  UNION {{Role(r) : r \in Roles}, {Table(t) : t \in Tables}, {Rls(t) : t \in Tables},
         {Policy(t) : t \in Tables}, {Grant(t, r) : t \in Tables, r \in Roles},
         {Member(x[1], x[2]) : x \in {y \in Roles \X Roles : y[1] # y[2]}}}

\* What a fact rests on.
Needs(f) ==
  CASE f[1] = "member" -> {Role(f[2]), Role(f[3])}
    [] f[1] = "grant" -> {Table(f[2]), Role(f[3])}
    [] f[1] \in {"rls", "policy"} -> {Table(f[2])}
    [] OTHER -> {}

Of(kind, facts) == {f \in facts : f[1] = kind}
Without(facts, f) == {g \in facts \ {f} : f \notin Needs(g)}
Nothing == {<<"none", "", "">>}
TableFacts == Of("table", Facts)
RoleFacts == Of("role", Facts)

\* After the first run, which reconciles under the snapshot: init_state has written the row
\* and bump_security the fingerprint, unless the process ended in between.
Init ==
  /\ sec \in {TableFacts, TableFacts \cup RoleFacts \cup {CHOOSE f \in Facts : f[1] = "grant"}}
  /\ acl = sec /\ stored \in {sec, {}}
  /\ query = 0 /\ target = {} /\ plan = {} /\ mode = "idle"
  /\ seen = Nothing /\ disturbed = FALSE /\ changes = 0 /\ faults = 0

\* One fact comes or goes upstream; a table takes its facts along.
UpstreamChange ==
  /\ changes < MaxChanges
  /\ \E f \in Facts :
       \/ f \notin sec /\ Needs(f) \subseteq sec /\ sec' = sec \cup {f}
       \/ /\ f \in sec /\ (f[1] = "table" \/ \A g \in sec : f \notin Needs(g))
          /\ sec' = Without(sec, f)
  /\ changes' = changes + 1
  /\ UNCHANGED <<acl, stored, query, target, plan, mode, seen, disturbed, faults>>

-----------------------------------------------------------------------------
(* resync_security *)

Adds(facts) == {[op |-> "add", f |-> f] : f \in facts}
Dels(facts) == {[op |-> "del", f |-> f] : f \in facts}

\* The catalog queries order the tables, and reconcile_security what it does: roles are
\* created, memberships revoked, then granted; table by table row security, then SELECT
\* revoked and granted, then policies dropped and created.
TableNo == CHOOSE n \in [Tables -> 1..Cardinality(Tables)] : IsInjective(n)
Place(s) ==
  LET part == CASE s.f[1] = "role" -> 0 [] s.f[1] = "member" -> 1 [] OTHER -> 1 + TableNo[s.f[2]]
      rank == CASE s.f[1] = "grant" -> 1 [] s.f[1] = "policy" -> 2 [] OTHER -> 0
  IN 6 * part + 2 * rank + (IF s.op = "add" THEN 1 ELSE 0)

\* Mutant: local grants that the catalog does not list stay.
ReconcileTableKeeps(t, have, want) ==
  LET On(kind, facts) == {f \in Of(kind, facts) : f[2] = t} IN
  (IF Rls(t) \in want THEN Adds({Rls(t)}) ELSE Dels({Rls(t)})) \cup
  Adds(On("grant", want)) \cup Dels(On("policy", have)) \cup Adds(On("policy", want))

\* The statements of reconcile_security for one table: row security on or off, SELECT taken
\* from every role and granted again, policies dropped and created again.
ReconcileTable(t, have, want) ==
  LET On(kind, facts) == {f \in Of(kind, facts) : f[2] = t} IN
  (IF Rls(t) \in want THEN Adds({Rls(t)}) ELSE Dels({Rls(t)})) \cup
  Dels(On("grant", have)) \cup Adds(On("grant", want)) \cup
  Dels(On("policy", have)) \cup Adds(On("policy", want))

\* reconcile_security, without the statements that find nothing to change: roles are created
\* and never dropped, memberships are all revoked and granted again, then table by table.
Reconcile(have, want) ==
  Adds(Of("role", want) \ have) \cup Dels(Of("member", have)) \cup Adds(Of("member", want)) \cup
  UNION {ReconcileTable(t, have, want) : t \in {u \in Tables : Table(u) \in want}}

\* What each query of introspect_security reads.
Queries == <<{"role"}, {"member"}, {"table", "rls"}, {"grant"}, {"policy"}>>

\* The role poll, or the second half of a DDL signal: one query more.
ReadCatalog ==
  /\ mode \in {"idle", "signal", "read"} /\ query < Len(Queries)
  /\ query' = query + 1
  /\ target' = target \cup {f \in sec : f[1] \in Queries[query']}
  /\ mode' = "read" /\ seen' = Nothing
  /\ UNCHANGED <<sec, acl, stored, plan, disturbed, changes, faults>>

\* The fingerprint of what was read is the stored one, or there is something to do.
Resync ==
  /\ mode = "read" /\ query = Len(Queries)
  /\ query' = 0
  /\ IF target = stored
     THEN mode' = "idle" /\ seen' = target /\ target' = {} /\ UNCHANGED plan
     ELSE mode' = "reconcile" /\ plan' = Reconcile(acl, target) /\ UNCHANGED <<target, seen>>
  /\ UNCHANGED <<sec, acl, stored, disturbed, changes, faults>>

\* One statement.  On a table that is not there locally, or for a role that was not read, it
\* fails, and the replica halts.
RunStatement ==
  /\ mode = "reconcile" /\ plan # {}
  /\ LET s == CHOOSE s \in plan : \A p \in plan : Place(s) <= Place(p) IN
     IF s.f[1] # "role" /\ ~(Needs(s.f) \subseteq acl)
     THEN mode' = "halted" /\ disturbed' = TRUE /\ UNCHANGED <<acl, plan>>
     ELSE /\ acl' = IF s.op = "add" THEN acl \cup {s.f} ELSE acl \ {s.f}
          /\ plan' = plan \ {s} /\ UNCHANGED <<mode, disturbed>>
  /\ UNCHANGED <<sec, stored, query, target, seen, changes, faults>>

\* Mutant: the fingerprint is not stored.
FinishUnstored ==
  /\ mode = "reconcile" /\ plan = {}
  /\ seen' = target /\ target' = {}
  /\ disturbed' = FALSE
  /\ mode' = "idle"
  /\ UNCHANGED <<sec, acl, stored, query, plan, changes, faults>>

\* bump_security
Finish ==
  /\ mode = "reconcile" /\ plan = {}
  /\ stored' = target /\ seen' = target /\ target' = {}
  /\ disturbed' = FALSE
  /\ mode' = "idle"
  /\ UNCHANGED <<sec, acl, query, plan, changes, faults>>

\* A statement fails, the connection or the process is lost: the stream begins again.
Interrupt ==
  /\ mode # "idle" /\ faults < MaxFaults
  /\ mode' = "idle" /\ query' = 0 /\ target' = {} /\ plan' = {} /\ seen' = Nothing
  /\ disturbed' = (disturbed \/ mode = "reconcile")
  /\ faults' = faults + 1
  /\ UNCHANGED <<sec, acl, stored, changes>>

-----------------------------------------------------------------------------
(* The local tables (ReplicaSchema) *)

\* The first half of a DDL signal: resync_schema makes the local tables those of the upstream.
\* A table that is made has none of the facts, also if the fingerprint knows them.
FollowSchema ==
  /\ mode = "idle"
  /\ acl' = {f \in acl : \A t \in Of("table", Facts) \ sec : f # t /\ t \notin Needs(f)}
              \cup Of("table", sec)
  /\ disturbed' = (disturbed \/ Of("table", sec \cap stored) \ acl # {})
  /\ mode' = "signal" /\ seen' = Nothing
  /\ UNCHANGED <<sec, stored, query, target, plan, changes, faults>>

\* After a reconnect resync_schema may drop and create a table that was there.
Recreate ==
  /\ mode = "idle" /\ faults < MaxFaults
  /\ \E f \in Of("table", acl) : acl' = Without(acl, f) \cup {f}
  /\ mode' = "signal" /\ seen' = Nothing /\ disturbed' = TRUE
  /\ faults' = faults + 1
  /\ UNCHANGED <<sec, stored, query, target, plan, changes>>

-----------------------------------------------------------------------------
Next ==
  \/ UpstreamChange \/ ReadCatalog \/ Resync \/ RunStatement \/ Finish
  \/ Interrupt \/ FollowSchema \/ Recreate

\* The stream loop polls, and the local database answers.
Fairness ==
  WF_vars(ReadCatalog) /\ WF_vars(Resync) /\ WF_vars(RunStatement) /\ WF_vars(Finish)

Spec == Init /\ [][Next]_vars /\ Fairness

-----------------------------------------------------------------------------
(* Properties *)

\* The local facts are those of the catalog c, where both know the table.
Agrees(c) ==
  \A f \in Facts : f[1] \in {"member", "rls", "grant", "policy"} =>
    ((f[1] = "member" \/ Table(f[2]) \in acl \cap c) => (f \in acl <=> f \in c))

\* A resync that returned Ok leaves the local catalog as it read the upstream one, query by
\* query, whether it ran all statements or trusted the fingerprint, and whatever an earlier one
\* left behind; except when an interrupted reconcile or a re-created table is hidden by a
\* fingerprint that has come back to the stored one.
Converges == seen # Nothing /\ ~disturbed => Agrees(seen)

\* When the upstream is quiet, polling reaches its catalog, also if what it read before never
\* was one, or halts, or is stuck in that case.
PollSettles ==
  <>[](mode = "halted" \/ Agrees(sec) \/ (disturbed /\ sec = stored))
=============================================================================
