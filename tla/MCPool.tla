------------------------------- MODULE MCPool -------------------------------
(* Model-checking instances of Pool. *)
EXTENDS Pool, TLC

Symmetry == Permutations(Clients) \cup Permutations(Conns)
=============================================================================
