-------------------------- MODULE MCReplicaSchema --------------------------
EXTENDS ReplicaSchema

TwoTables == <<"t", "u">>
=============================================================================
