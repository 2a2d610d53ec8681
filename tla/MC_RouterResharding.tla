----------------------- MODULE MC_RouterResharding -----------------------
(* Slots migrate while one caller at a time sends single-slot commands:  *)
(* ASK and MOVED redirections, reconnects (one may fail) and retries;    *)
(* keyless all_nodes commands with one_succeeded and all_succeeded       *)
(* response policies, on a first shard with one replica, whose connection *)
(* may fail once (the same failure budget as the reconnect).              *)
EXTENDS ClusterRouter

MCInitOwner == (1 :> 1) @@ (2 :> 2)
MCReplicas  == (1 :> 1) @@ (2 :> 0)
MCKeySlot   == (1 :> 1) @@ (2 :> 2)
C == INSTANCE CommandCatalog
W(w) == C!WordArg(w)
K(k) == C!KeyArg(k)
MCCmds ==
     ("GET1" :> [reply |-> C!CommandReply("get", <<>>, C!GetSpecs), argv |-> <<W("GET"), K(1)>>, keys |-> <<1>>])
  @@ ("GET2" :> [reply |-> C!CommandReply("get", <<>>, C!GetSpecs), argv |-> <<W("GET"), K(2)>>, keys |-> <<2>>])
  @@ ("KEYS" :> [reply |-> C!CommandReply("keys", <<<<"request_policy", "all_shards">>, <<"nondeterministic_output_order">>>>, <<>>),
                 argv |-> <<W("KEYS"), W("*")>>, keys |-> <<>>])
  @@ ("SCRIPT KILL" :> [reply |-> C!CommandReply("script|kill", <<<<"nondeterministic_output">>, <<"request_policy", "all_nodes">>,
                                                             <<"response_policy", "one_succeeded">>>>, <<>>),
                        argv |-> <<W("SCRIPT"), W("KILL")>>, keys |-> <<>>])
  @@ ("CONFIG SET" :> [reply |-> C!CommandReply("config|set", <<<<"request_policy", "all_nodes">>, <<"response_policy", "all_succeeded">>>>, <<>>),
                       argv |-> <<W("CONFIG"), W("SET"), W("timeout"), W("0")>>, keys |-> <<>>])
=============================================================================
