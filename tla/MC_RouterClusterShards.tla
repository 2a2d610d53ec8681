---------------------- MODULE MC_RouterClusterShards ----------------------
(* Two messages in flight on a stable cluster whose shards have one     *)
(* replica each, not yet connected: a GET on shard 1's master, then an  *)
(* all_nodes command, whose connect_replicas calls cluster_shards() on  *)
(* the same connection.                                                 *)
EXTENDS ClusterRouter

MCInitOwner == (1 :> 1) @@ (2 :> 2)
MCReplicas  == (1 :> 1) @@ (2 :> 1)
MCKeySlot   == (1 :> 1) @@ (2 :> 2)
C == INSTANCE CommandCatalog
W(w) == C!WordArg(w)
K(k) == C!KeyArg(k)
MCCmds ==
     ("GET" :> [reply |-> C!CommandReply("get", <<>>, C!GetSpecs), argv |-> <<W("GET"), K(1)>>, keys |-> <<1>>])
  @@ ("SLOWLOG GET" :> [reply |-> C!CommandReply("slowlog|get", <<<<"request_policy", "all_nodes">>, <<"nondeterministic_output">>>>, <<>>),
                        argv |-> <<W("SLOWLOG"), W("GET")>>, keys |-> <<>>])
=============================================================================
