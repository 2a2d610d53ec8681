------------------------- MODULE MC_RouterDupKeys -------------------------
(* A stable cluster and an MGET naming one key twice.                    *)
EXTENDS ClusterRouter

MCInitOwner == (1 :> 1) @@ (2 :> 2)
MCReplicas  == (1 :> 0) @@ (2 :> 0)
MCKeySlot   == (1 :> 1) @@ (2 :> 2)
C == INSTANCE CommandCatalog
W(w) == C!WordArg(w)
K(k) == C!KeyArg(k)
MCCmds ==
  ("MGET" :> [reply |-> C!CommandReply("mget", <<<<"request_policy", "multi_shard">>>>, C!MGetSpecs),
              argv |-> <<W("MGET"), K(1), K(2), K(1)>>, keys |-> <<1, 2, 1>>])
=============================================================================
