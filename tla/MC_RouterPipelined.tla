------------------------ MODULE MC_RouterPipelined ------------------------
(* Two messages in flight on a cluster whose slot 1 moves to shard 2:    *)
(* single-key commands only.                                             *)
EXTENDS ClusterRouter

MCInitOwner == (1 :> 1) @@ (2 :> 2)
MCReplicas  == (1 :> 0) @@ (2 :> 0)
MCKeySlot   == (1 :> 1) @@ (2 :> 2)
C == INSTANCE CommandCatalog
W(w) == C!WordArg(w)
K(k) == C!KeyArg(k)
MCCmds ==
     ("GET1" :> [reply |-> C!CommandReply("get", <<>>, C!GetSpecs), argv |-> <<W("GET"), K(1)>>, keys |-> <<1>>])
  @@ ("GET2" :> [reply |-> C!CommandReply("get", <<>>, C!GetSpecs), argv |-> <<W("GET"), K(2)>>, keys |-> <<2>>])
=============================================================================
