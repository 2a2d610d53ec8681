------------------------- MODULE MC_RouterStable -------------------------
(* A stable two-shard cluster, three slots, pipelined callers: the     *)
(* all_shards, multi_shard and default request policies and every       *)
(* no_response_policy branch, no redirection.  all_nodes is left to the *)
(* runs with one message in flight (its connect_replicas misreads a     *)
(* pipelined reply, MC_RouterClusterShards).                            *)
EXTENDS ClusterRouter

MCInitOwner == (1 :> 1) @@ (2 :> 2) @@ (3 :> 1)
MCReplicas  == (1 :> 0) @@ (2 :> 0)
MCKeySlot   == (1 :> 1) @@ (2 :> 2) @@ (3 :> 3)
C == INSTANCE CommandCatalog
W(w) == C!WordArg(w)
K(k) == C!KeyArg(k)
MCCmds ==
     ("GET" :> [reply |-> C!CommandReply("get", <<>>, C!GetSpecs), argv |-> <<W("GET"), K(2)>>, keys |-> <<2>>])
  @@ ("MGET" :> [reply |-> C!CommandReply("mget", <<<<"request_policy", "multi_shard">>>>, C!MGetSpecs),
                 argv |-> <<W("MGET"), K(3), K(2), K(1)>>, keys |-> <<3, 2, 1>>])
  @@ ("KEYS" :> [reply |-> C!CommandReply("keys", <<<<"request_policy", "all_shards">>, <<"nondeterministic_output_order">>>>, <<>>),
                 argv |-> <<W("KEYS"), W("*")>>, keys |-> <<>>])
  @@ ("EVAL" :> [reply |-> C!CommandReply("eval", <<>>, <<C!KeySpec(C!IndexSearch(2), C!KeyNumKeys(0, 1, 1))>>),
                 argv |-> <<W("EVAL"), W("return 1"), C!IntArg(0)>>, keys |-> <<>>])
  @@ ("XREAD" :> [reply |-> C!CommandReply("xread", <<>>, <<C!KeySpec(C!KeywordSearch("STREAMS", 1), C!RangeKeys(-1, 1, 2))>>),
                  argv |-> <<W("XREAD"), W("STREAMS"), K(1), K(2), W("0"), W("0")>>, keys |-> <<1, 2>>])
=============================================================================
