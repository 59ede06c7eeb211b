---------------------------- MODULE ReplicaStart ----------------------------
(***************************************************************************)
(* The first run of a replica on the data side (replica/mod.rs, first_run, *)
(* then stream_loop): order the user-defined types, make them, copy the    *)
(* tables, apply changes.  TypeOrder and ReplicaRows, one after the other. *)
(***************************************************************************)
EXTENDS TypeOrder, ReplicaRows, Functions

CONSTANT MaxUses   \* bound of the model: names in one definition

VARIABLE phase     \* "types", "rows", "failed"

vars == <<typeVars, rowVars, phase>>

Uses ==
  {u \in UNION {[1..n -> Items \X {"plain", "array"}] : n \in 0..MaxUses} : IsInjective(u)}

Init == uses \in [Items -> Uses] /\ InitOrder /\ InitRows /\ phase = "types"

Order == phase = "types" /\ NextOrder /\ UNCHANGED <<rowVars, phase>>

\* Everything a definition names, also through an array, exists before it.
Makeable ==
  \A p \in DOMAIN order : \A k \in DOMAIN uses[order[p]] :
    \E q \in 1..(p - 1) : order[q] = uses[order[p]][k][1]

\* bootstrap_schema makes the types in that order; the first error ends the first run.
\* When it is done the locals of topo_order are gone.
Bootstrap ==
  /\ phase = "types" /\ outcome = "ok" /\ Makeable
  /\ phase' = "rows"
  /\ uses' = [i \in Items |-> <<>>] /\ colour' = [i \in Items |-> "white"]
  /\ stack' = <<>> /\ order' = <<>> /\ outcome' = "none"
  /\ UNCHANGED rowVars

BootstrapFails ==
  /\ phase = "types" /\ outcome # "none" /\ (outcome = "cycle" \/ ~Makeable)
  /\ phase' = "failed"
  /\ UNCHANGED <<typeVars, rowVars>>

Replicate == phase = "rows" /\ NextRows /\ UNCHANGED <<typeVars, phase>>

Next == Order \/ Bootstrap \/ BootstrapFails \/ Replicate

Spec == Init /\ [][Next]_vars

-----------------------------------------------------------------------------
(* Properties *)

\* The first run fails over the types only when they name one another in a circle, or when
\* one holds an array of another.
FailsForReason ==
  phase = "failed" => Cyclic \/ \E i \in Items : \E k \in DOMAIN uses[i] : uses[i][k][2] = "array"
=============================================================================
