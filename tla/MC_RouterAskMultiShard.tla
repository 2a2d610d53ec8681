---------------------- MODULE MC_RouterAskMultiShard ----------------------
(* One caller at a time sends an MGET over two slots while slot 2        *)
(* migrates from shard 1 to shard 2, which already owns slot 1.          *)
EXTENDS ClusterRouter

MCInitOwner == (1 :> 2) @@ (2 :> 1)
MCReplicas  == (1 :> 0) @@ (2 :> 0)
MCKeySlot   == (1 :> 1) @@ (2 :> 2)
C == INSTANCE CommandCatalog
W(w) == C!WordArg(w)
K(k) == C!KeyArg(k)
MCCmds ==
  ("MGET" :> [reply |-> C!CommandReply("mget", <<<<"request_policy", "multi_shard">>>>, C!MGetSpecs),
              argv |-> <<W("MGET"), K(1), K(2)>>, keys |-> <<1, 2>>])
=============================================================================
