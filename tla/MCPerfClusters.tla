--------------------------- MODULE MCPerfClusters ---------------------------
(* An instance of PerfClusters for TLC.                                     *)
EXTENDS PerfClusters

MCNames == {<<"serving", "b1">>, <<"eventing", "b1">>}
MCOthers == {<<<<"eventing", "b1">>, <<"us-central1">>>>}
MCFiles == {[location |-> <<"us-central1", "a">>, nodes |-> 2]}
MCFlags == {{"recreate"}, {"reconcile"}, {"delete"}, {}, {"recreate", "delete"}}

=============================================================================
