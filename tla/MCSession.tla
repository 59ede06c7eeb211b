----------------------------- MODULE MCSession -----------------------------
(* Session, for TLC: the kinds of calls of each run. *)
EXTENDS Session, TLC

Symmetry == Permutations(Tasks) \cup Permutations(Conns)

BothKinds == [InProcess |-> {"query", "tx", "wire"}, MultiProcess |-> {"exec", "tx"}]
LiveKinds == [InProcess |-> {"copy", "format", "tx"}, MultiProcess |-> {"query", "format", "tx"}]
QueryKinds == [MultiProcess |-> {"query"}]
=============================================================================
