--------------------------- MODULE MCReplicaStart ---------------------------
(* ReplicaStart, for TLC: texts are sequences of characters, one of them empty. *)
EXTENDS ReplicaStart

MCKeys == {<<"a">>, <<"b">>}
MCTexts == {<<>>, <<"a", "b">>}
=============================================================================
