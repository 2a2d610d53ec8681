--------------------------- MODULE ClusterRouter ---------------------------
(***************************************************************************)
(* The cluster request router of src/src/network/cluster_connection.rs.   *)
(*                                                                         *)
(* ClusterConnection::write_batch splits every command into sub-requests, *)
(* writes them on the master connections of the shards, and queues one   *)
(* RequestInfo per command on request_sender.  ClusterConnection::read    *)
(* pops the next RequestInfo and reads one reply per sub-request from the *)
(* same connections, blindly: a connection is a FIFO of replies.  The     *)
(* model gives every reply a ghost tag <<req, sub>> naming the command    *)
(* and sub-request it answers, so that the FIFO matching can be checked.  *)
(*                                                                         *)
(* The Redis cluster is the environment: it owns slots, migrates them     *)
(* (ASK while migrating, MOVED once moved) and answers each command when  *)
(* it is written (the server is sequential per connection, so answering   *)
(* at write time gives the same replies as answering later).              *)
(*                                                                         *)
(* The caller of write_batch/read (the network handler, not under src/)   *)
(* is modelled from the spec (sections 4.4, 4.5): it writes batches of     *)
(* messages, matches read results to written messages in FIFO order, and  *)
(* re-submits a message with its retry reasons, up to MaxAttempts.        *)
(***************************************************************************)
EXTENDS Integers, Sequences, SequencesExt, FiniteSets, TLC

CONSTANTS
  NumShards,      \* number of shards returned by CLUSTER SHARDS
  Replicas,       \* [Shards -> Nat]: replicas of every shard in CLUSTER SHARDS
  MaxConnFailures, \* replica connections that fail to open (connect_replicas)
  InitOwner,      \* [Slots -> Shards]: the slot ranges of the cluster at start
  KeySlot,        \* [Keys -> Slots]: hash_slot of every key
  Cmds,           \* [CmdNames -> [reply, argv, keys]]: the command catalog
                  \* and one call of every command: the command's COMMAND
                  \* reply (CommandCatalog), the call's arguments and the
                  \* keys the call names
  NumMsgs,        \* number of messages the callers submit
  MaxInFlight,    \* written messages whose result is not yet read
  MaxBatch,       \* messages per write_batch call
  MaxAttempts,    \* max_command_attempts of the caller
  MaxMigrations,  \* slot migrations the cluster performs (ASK window)
  MaxSlotMoves    \* slots moved at once (no ASK window seen by the client)

Shards == 1..NumShards
Slots  == DOMAIN InitOwner
Keys   == DOMAIN KeySlot
Msgs   == 1..NumMsgs
NoShard == 0
NoSlot  == 0

\* A connection is <<shard, node index>>: index 0 is the master
\* (shard.nodes[0]), replicas follow in the order connect_replicas pushed
\* them.  A failed connect_replicas leaves shards half done, and a later
\* call pushes their replicas again, so a shard may hold up to
\* MaxConnFailures + 1 copies of its replicas.
MaxConns(n) == (MaxConnFailures + 1) * Replicas[n]
Conns == UNION {{<<n, i>> : i \in 0..MaxConns(n)} : n \in Shards}

-----------------------------------------------------------------------------
(* Command tips (src/src/commands/server_commands.rs).                     *)

RequestPolicies  == {"all_nodes", "all_shards", "multi_shard", "special"}
ResponsePolicies == {"one_succeeded", "all_succeeded", "agg_logical_and", "agg_logical_or",
                     "agg_min", "agg_max", "agg_sum", "special"}
Tip(kind, policy) == [kind |-> kind, policy |-> policy]

\* CommandTip::from_value, with RequestPolicy::from_str and
\* ResponsePolicy::from_str: the two nondeterministic tips, or exactly two
\* parts naming a known policy; anything else is a parse error
CommandTip(parts) ==
  CASE parts \in {<<"nondeterministic_output">>, <<"nondeterministic_output_order">>}
         -> Tip("nondeterministic", "none")
    [] Len(parts) = 2 /\ parts[1] = "request_policy" /\ parts[2] \in RequestPolicies
         -> Tip("request", parts[2])
    [] Len(parts) = 2 /\ parts[1] = "response_policy" /\ parts[2] \in ResponsePolicies
         -> Tip("response", parts[2])
    [] OTHER -> Tip("parse_error", "none")

Catalog == INSTANCE CommandCatalog

\* get_command_info(command): the CommandInfo of every command, parsed
\* from its COMMAND reply
Info == [c \in DOMAIN Cmds |-> Catalog!CommandInfoFromValue(Cmds[c].reply).val]

Tips(c) == Info[c].command_tips

\* Mutant: only the first tip is looked at (.first() for .find_map).
FindPolicyFirstTip(c, kind) ==
  IF Tips(c) = <<>> THEN "none"
  ELSE LET t == CommandTip(Head(Tips(c))) IN IF t.kind = kind THEN t.policy ELSE "none"

\* command_tips.iter().find_map(..): the policy of the first tip of the
\* kind, "none" when there is none
FindPolicy(c, kind) ==
  LET ts == SelectSeq([i \in DOMAIN Tips(c) |-> CommandTip(Tips(c)[i])],
                      LAMBDA t : t.kind = kind)
  IN  IF ts = <<>> THEN "none" ELSE Head(ts).policy

\* write_batch: command_info_manager.extract_keys(command, ..) of every
\* command of the catalog, from its parsed key specifications
ExtractedKeys ==
  [c \in DOMAIN Cmds |->
     Catalog!ExtractKeys(Info[c].key_specifications, Cmds[c].argv)]

RequestPolicyOf(c)  == FindPolicy(c, "request")
ResponsePolicyOf(c) == FindPolicy(c, "response")

\* The catalog holds what COMMAND returned and parsed (a parse error fails
\* the connection); special is todo!() in both routers, and the agg_*
\* response policies combine integers (module ResponsePolicy), which no
\* command of the catalog answers.
ASSUME /\ Slots \subseteq Nat \ {0}
       /\ Keys \subseteq Nat
       /\ \A c \in DOMAIN Cmds :
            /\ Catalog!CommandInfoFromValue(Cmds[c].reply).ok
            /\ \A i \in DOMAIN Tips(c) : CommandTip(Tips(c)[i]).kind # "parse_error"
            /\ RequestPolicyOf(c) \in {"none", "all_nodes", "all_shards", "multi_shard"}
            /\ ResponsePolicyOf(c) \in {"none", "one_succeeded", "all_succeeded"}

RedirectTypes == {"ask", "moved"}

VARIABLES
  owner,       \* cluster: slot -> shard that owns it
  migrating,   \* cluster: slot -> shard it is being migrated to, or NoShard
  migrations,  \* cluster: migrations started so far
  moves,       \* cluster: slots moved at once so far
  view,        \* router: slot_ranges, slot -> shard index
  replicas,    \* router: shard -> replica connections in shard.nodes
  failures,    \* cluster: replica connections that failed to open so far
  inbox,       \* router: connection -> replies not yet read on it
  requests,    \* router: request_stream, the queued RequestInfos
  batch,       \* router: messages of the write_batch call in progress
  cursor,      \* router: index in batch of the next command to dispatch
  askReasons,  \* router: ask_reasons of the write_batch call in progress
  cmd,         \* caller: message -> command name
  pending,     \* caller: messages to write, [m, reasons]
  inflight,    \* caller: written messages, in write order
  attempts,    \* caller: message -> times written
  result       \* caller: message -> result delivered, or NoResult

vars == <<owner, migrating, migrations, moves, view, replicas, failures, inbox, requests, batch, cursor,
          askReasons, cmd, pending, inflight, attempts, result>>

NoResult == [type |-> "none", val |-> <<>>, from |-> {}]

-----------------------------------------------------------------------------
(* Replies.  req/sub are ghost fields: the wire carries only the value.    *)

Reply(m, i, type, s, n, val) ==
  [req |-> m, sub |-> i, type |-> type, slot |-> s, node |-> n, val |-> val]

\* "+OK" of ASKING; sub 0 marks it as belonging to no sub-request
AskingReply(m) == Reply(m, 0, "simple", NoSlot, NoShard, <<>>)

\* A sub-request: its target shard and node, its slot (NoSlot if keyless),
\* whether it is preceded by ASKING, and its keys.
Group(n, s, ask, ks) == [shard |-> n, node |-> 0, slot |-> s, ask |-> ask, keys |-> ks]
NodeGroup(n, i) == [Group(n, NoSlot, FALSE, <<>>) EXCEPT !.node = i]
ConnOf(g) == <<g.shard, g.node>>

\* What the cluster may answer to sub-request i of message m (the Redis
\* cluster specification: ASK while a slot migrates, MOVED otherwise).
ServerReplies(m, i, g) ==
  LET s  == g.slot
      n  == g.shard
      ok == Reply(m, i, "array", s, n, IF g.keys = <<>> THEN <<n>> ELSE g.keys)
  IN  IF s = NoSlot THEN {ok}
      ELSE IF owner[s] = n
           THEN {ok} \cup (IF migrating[s] # NoShard
                           THEN {Reply(m, i, "ask", s, migrating[s], <<>>)}
                           ELSE {})
      ELSE IF g.ask /\ migrating[s] = n THEN {ok}
      ELSE {Reply(m, i, "moved", s, owner[s], <<>>)}

ReplyChoices(m, gs) ==
  { r \in [DOMAIN gs -> UNION {ServerReplies(m, i, gs[i]) : i \in DOMAIN gs}] :
      \A i \in DOMAIN gs : r[i] \in ServerReplies(m, i, gs[i]) }

-----------------------------------------------------------------------------
(* Router helpers.                                                         *)

\* Mutant: the ASK reasons are not looked up (ask_reasons ignored).
GetShardIndexBySlotNoAsk(s) == <<view[s], FALSE>>

\* get_shard_index_by_slot: an ASK reason for the slot overrides slot_ranges
GetShardIndexBySlot(s) ==
  IF \E r \in askReasons : r.slot = s
  THEN <<(CHOOSE r \in askReasons : r.slot = s).node, TRUE>>
  ELSE <<view[s], FALSE>>

KeysOf(m)  == ExtractedKeys[cmd[m]]
SlotsOf(m) == {KeySlot[k] : k \in ToSet(KeysOf(m))}

\* Mutant: ASKING written, its reply left unread on the connection.
AskingUnread(m, q) == [rest |-> Append(q, AskingReply(m)), read |-> AskingReply(m)]

\* connection.asking().await (a PreparedCommand on StandaloneConnection):
\* write ASKING, then read the NEXT reply of the connection.  Yields the
\* connection's remaining replies and the reply that was read.
Asking(m, q) ==
  LET q1 == Append(q, AskingReply(m)) IN [rest |-> Tail(q1), read |-> Head(q1)]

\* Mutant: the write after the loop (the last group) is forgotten.
RECURSIVE WriteGroupsNoTrailing(_, _, _, _, _)
WriteGroupsNoTrailing(m, gs, r, i, ibx) ==
  IF i >= Len(gs) THEN [inbox |-> ibx, ok |-> TRUE]
  ELSE LET n  == ConnOf(gs[i])
           a  == Asking(m, ibx[n])
           q  == IF gs[i].ask THEN a.rest ELSE ibx[n]
       IN  IF gs[i].ask /\ a.read.type \in RedirectTypes
           THEN [inbox |-> [ibx EXCEPT ![n] = q], ok |-> FALSE]
           ELSE WriteGroupsNoTrailing(m, gs, r, i + 1, [ibx EXCEPT ![n] = Append(q, r[i])])

\* Writes sub-requests i.. of gs (replies r) on the connections ibx,
\* prefixing ASKING where asked; stops at the first ASKING whose read
\* value is an error (the `?` after asking().await).
RECURSIVE WriteGroups(_, _, _, _, _)
WriteGroups(m, gs, r, i, ibx) ==
  IF i > Len(gs) THEN [inbox |-> ibx, ok |-> TRUE]
  ELSE LET n  == ConnOf(gs[i])
           a  == Asking(m, ibx[n])
           q  == IF gs[i].ask THEN a.rest ELSE ibx[n]
       IN  IF gs[i].ask /\ a.read.type \in RedirectTypes
           THEN [inbox |-> [ibx EXCEPT ![n] = q], ok |-> FALSE]
           ELSE WriteGroups(m, gs, r, i + 1, [ibx EXCEPT ![n] = Append(q, r[i])])

\* The reply to CLUSTER SHARDS (an array of shard maps); sub 0 marks it as
\* belonging to no sub-request.
ClusterShardsReply(m) == Reply(m, 0, "array", NoSlot, NoShard, <<>>)

\* shards[0].nodes[0]: the connection cluster_shards() and extract_keys use
Master0 == <<1, 0>>

\* connection.cluster_shards().await (a PreparedCommand): write CLUSTER
\* SHARDS, then read the NEXT reply of the connection, as Asking does.
ClusterShards(m, q) ==
  LET q1 == Append(q, ClusterShardsReply(m)) IN [rest |-> Tail(q1), read |-> Head(q1)]

RequestInfo(m, gs) ==
  [id   |-> m,
   keys |-> KeysOf(m),
   subs |-> [i \in DOMAIN gs |-> [shard |-> gs[i].shard, node |-> gs[i].node,
                                   keys |-> gs[i].keys]]]

\* The caller's handling of an Err from write_batch: the messages of the
\* batch whose RequestInfo is not queued (the current one and those after
\* it) fail and stop waiting; those dispatched before still wait for read.
WriteBatchFailed ==
  LET failed == ToSet(SubSeq(batch, cursor, Len(batch))) IN
  /\ cursor' = Len(batch) + 1
  /\ result' = [x \in Msgs |-> IF x \in failed
                                THEN [type |-> "error", val |-> <<>>, from |-> {}]
                                ELSE result[x]]
  /\ inflight' = SelectSeq(inflight, LAMBDA x : x \notin failed)
  /\ UNCHANGED requests

\* Writes the sub-requests gs of message m and queues its RequestInfo.
Dispatch(m, gs) ==
  \E r \in ReplyChoices(m, gs) :
    LET w == WriteGroups(m, gs, r, 1, inbox) IN
    /\ inbox' = w.inbox
    /\ IF w.ok
       THEN /\ requests' = Append(requests, RequestInfo(m, gs))
            /\ cursor' = cursor + 1
            /\ UNCHANGED <<result, inflight>>
       ELSE WriteBatchFailed

Dispatching == cursor <= Len(batch)
Current     == batch[cursor]

-----------------------------------------------------------------------------
(* write_batch.                                                            *)

\* connect_to_cluster: CLUSTER SHARDS from the first seed node that answers
\* gives the slot ranges of every shard (sorted by first slot) and one new
\* connection per shard, to its first listed node, taken as the master.
ConnectToCluster ==
  [view |-> owner, replicas |-> [n \in Shards |-> 0], inbox |-> [c \in Conns |-> <<>>]]

\* reconnect: the connections and slot_ranges are replaced (the unread
\* replies of the old connections are lost)
Reconnect ==
  /\ view' = ConnectToCluster.view
  /\ replicas' = ConnectToCluster.replicas
  /\ inbox' = ConnectToCluster.inbox

\* Mutant: attempts counted for every message, not only the batch's.
WriteBatchAllAttempts ==
  /\ ~Dispatching
  /\ pending # <<>>
  /\ \E k \in 1..MaxBatch :
       LET head == Head(pending)
           msgs == [i \in 1..k |-> pending[i].m]
       IN  /\ k <= Len(pending)
           /\ Len(inflight) + k <= MaxInFlight
           /\ head.reasons # {} => k = 1
           /\ \A i \in 1..k : i > 1 => pending[i].reasons = {}
           /\ batch' = msgs
           /\ cursor' = 1
           /\ askReasons' = {r \in head.reasons : r.kind = "ask"}
           /\ pending' = SubSeq(pending, k + 1, Len(pending))
           /\ inflight' = inflight \o msgs
           /\ attempts' = [x \in Msgs |-> attempts[x] + 1]
           /\ IF \E r \in head.reasons : r.kind = "moved"
              THEN Reconnect
              ELSE UNCHANGED <<view, replicas, inbox>>
  /\ UNCHANGED <<owner, migrating, migrations, moves, failures, requests, cmd, result>>

\* The caller hands write_batch either fresh messages or one message to
\* retry with its reasons.  write_batch reconnects if any reason is a
\* MOVED and keeps the ASK reasons for get_shard_index_by_slot.
WriteBatch ==
  /\ ~Dispatching
  /\ pending # <<>>
  /\ \E k \in 1..MaxBatch :
       LET head == Head(pending)
           msgs == [i \in 1..k |-> pending[i].m]
       IN  /\ k <= Len(pending)
           /\ Len(inflight) + k <= MaxInFlight
           /\ head.reasons # {} => k = 1
           /\ \A i \in 1..k : i > 1 => pending[i].reasons = {}
           /\ batch' = msgs
           /\ cursor' = 1
           /\ askReasons' = {r \in head.reasons : r.kind = "ask"}
           /\ pending' = SubSeq(pending, k + 1, Len(pending))
           /\ inflight' = inflight \o msgs
           /\ attempts' = [x \in Msgs |-> IF x \in ToSet(msgs)
                                           THEN attempts[x] + 1 ELSE attempts[x]]
           /\ IF \E r \in head.reasons : r.kind = "moved"
              THEN Reconnect
              ELSE UNCHANGED <<view, replicas, inbox>>
  /\ UNCHANGED <<owner, migrating, migrations, moves, failures, requests, cmd, result>>

\* write_batch with a MOVED reason whose reconnect fails (no seed node
\* answers CLUSTER SHARDS, or a master cannot be connected): the `?`
\* returns the error before any write, the old connections and
\* slot_ranges stay, and the caller fails the message.
WriteBatchReconnectFailed ==
  /\ ~Dispatching
  /\ pending # <<>>
  /\ failures < MaxConnFailures
  /\ LET head == Head(pending) IN
     /\ \E r \in head.reasons : r.kind = "moved"
     /\ Len(inflight) + 1 <= MaxInFlight
     /\ pending' = Tail(pending)
     /\ attempts' = [attempts EXCEPT ![head.m] = @ + 1]
     /\ result' = [result EXCEPT ![head.m] = [type |-> "error", val |-> <<>>, from |-> {}]]
  /\ failures' = failures + 1
  /\ UNCHANGED <<owner, migrating, migrations, moves, view, replicas, inbox, requests,
                 batch, cursor, askReasons, cmd, inflight>>

\* no_request_policy, all keys in one slot (or no key: a random shard)
NoRequestPolicy ==
  /\ Dispatching
  /\ LET m == Current IN
     /\ RequestPolicyOf(cmd[m]) = "none"
     /\ Cardinality(SlotsOf(m)) <= 1
     /\ \E n \in Shards :
          LET s == IF KeysOf(m) = <<>> THEN NoSlot ELSE CHOOSE x \in SlotsOf(m) : TRUE
              t == IF s = NoSlot THEN <<n, FALSE>> ELSE GetShardIndexBySlot(s)
          IN  /\ s # NoSlot => n = t[1]
              /\ Dispatch(m, <<Group(t[1], s, t[2], KeysOf(m))>>)
  /\ UNCHANGED <<owner, migrating, migrations, moves, view, replicas, failures, batch, askReasons,
                 cmd, pending, attempts>>

\* no_request_policy, keys in several slots: "mistmatched key slots"
NoRequestPolicyMismatchedSlots ==
  /\ Dispatching
  /\ RequestPolicyOf(cmd[Current]) = "none"
  /\ Cardinality(SlotsOf(Current)) > 1
  /\ WriteBatchFailed
  /\ UNCHANGED <<owner, migrating, migrations, moves, view, replicas, failures, inbox, batch, askReasons,
                 cmd, pending, attempts>>

\* request_policy_all_shards: the command on every master, in shard order
RequestPolicyAllShards ==
  /\ Dispatching
  /\ RequestPolicyOf(cmd[Current]) = "all_shards"
  /\ Dispatch(Current, [n \in Shards |-> Group(n, NoSlot, FALSE, <<>>)])
  /\ UNCHANGED <<owner, migrating, migrations, moves, view, replicas, failures, batch, askReasons,
                 cmd, pending, attempts>>

\* connect_replicas: cluster_shards() on shards[0]'s master, then for every
\* shard, in the reply's order, a connection to each replica pushed on
\* shard.nodes.  Opening one may fail (the `?`): the shards done before it
\* keep their new replicas, the failing shard the ones opened before it.
\* When the master connection still carries an unread reply of an earlier
\* message, cluster_shards() reads that reply instead, whose conversion to
\* Vec<ClusterShardResult> fails (an ASK or MOVED error, a GET or MGET
\* value): write_batch returns Err and the CLUSTER SHARDS reply stays queued.
ReplicasAdded == [n \in Shards |-> replicas[n] + Replicas[n]]

ReplicasHalfAdded(done, f, j) ==
  [n \in Shards |-> replicas[n] + (IF n \in done THEN Replicas[n] ELSE IF n = f THEN j ELSE 0)]

\* the sub-requests of request_policy_all_nodes: every node of every
\* shard, shard by shard, the master first
AllNodesGroups(rs) ==
  FlattenSeq([n \in Shards |-> [i \in 1..rs[n] + 1 |-> NodeGroup(n, i - 1)]])

\* request_policy_all_nodes: connect_replicas first if shards[0] holds no
\* replica (nodes.len() == 1), then the command written on every node
RequestPolicyAllNodes ==
  /\ Dispatching
  /\ RequestPolicyOf(cmd[Current]) = "all_nodes"
  /\ IF replicas[1] = 0
     THEN LET cs == ClusterShards(Current, inbox[Master0]) IN
          IF cs.read # ClusterShardsReply(Current)
          THEN /\ inbox' = [inbox EXCEPT ![Master0] = cs.rest]
               /\ WriteBatchFailed
               /\ UNCHANGED <<replicas, failures>>
          ELSE \/ /\ replicas' = ReplicasAdded
                  /\ Dispatch(Current, AllNodesGroups(ReplicasAdded))
                  /\ UNCHANGED failures
               \/ /\ failures < MaxConnFailures
                  /\ \E done \in SUBSET Shards, f \in Shards :
                       \E j \in 0..Replicas[f] - 1 :
                         f \notin done /\ replicas' = ReplicasHalfAdded(done, f, j)
                  /\ failures' = failures + 1
                  /\ WriteBatchFailed
                  /\ UNCHANGED inbox
     ELSE /\ Dispatch(Current, AllNodesGroups(replicas))
          /\ UNCHANGED <<replicas, failures>>
  /\ UNCHANGED <<owner, migrating, migrations, moves, view, batch, askReasons,
                 cmd, pending, attempts>>

\* request_policy_multi_shard: (shard, slot, key, ask) tuples sorted, one
\* sub-request per slot with that slot's keys in sorted order
ByShardThenSlot(a, b) == a[1] < b[1] \/ (a[1] = b[1] /\ a[2] < b[2])

MultiShardGroups(m) ==
  LET order == SetToSortSeq({<<GetShardIndexBySlot(s)[1], s>> : s \in SlotsOf(m)},
                            ByShardThenSlot)
  IN  [i \in DOMAIN order |->
         LET s == order[i][2] IN
         Group(order[i][1], s, GetShardIndexBySlot(s)[2],
               SortSeq(SelectSeq(KeysOf(m), LAMBDA k : KeySlot[k] = s), <))]

RequestPolicyMultiShard ==
  /\ Dispatching
  /\ RequestPolicyOf(cmd[Current]) = "multi_shard"
  /\ Dispatch(Current, MultiShardGroups(Current))
  /\ UNCHANGED <<owner, migrating, migrations, moves, view, replicas, failures, batch, askReasons,
                 cmd, pending, attempts>>

-----------------------------------------------------------------------------
(* read.                                                                   *)

\* Mutant: the first sub-request on a connection skips its reply.
RankOffByOne(subs, j) == Cardinality({i \in 1..j : ConnOf(subs[i]) = ConnOf(subs[j])}) + 1

\* Position of sub-request j among the sub-requests on its connection
Rank(subs, j) == Cardinality({i \in 1..j : ConnOf(subs[i]) = ConnOf(subs[j])})

\* position() of a key in the request's keys (first occurrence)
Position(ks, k) == SelectInSeq(ks, LAMBDA x : x = k)

ClientError(from) == [type |-> "error", val |-> <<>>, from |-> from]

\* Mutant: the sub-replies concatenated without restoring the key order.
NoResponsePolicyUnsorted(info, got) ==
  LET from == {got[j].req : j \in DOMAIN got}
  IN  IF Len(got) = 1
      THEN [type |-> got[1].type, val |-> got[1].val, from |-> from]
      ELSE IF \A j \in DOMAIN got : got[j].type = "array"
      THEN [type |-> "array", val |-> FlattenSeq([j \in DOMAIN got |-> got[j].val]),
            from |-> from]
      ELSE ClientError(from)

\* no_response_policy over the replies got of request info
NoResponsePolicy(info, got) ==
  LET from == {got[j].req : j \in DOMAIN got}
      arrays == \A j \in DOMAIN got : got[j].type = "array"
  IN  IF Len(got) = 1
      THEN [type |-> got[1].type, val |-> got[1].val, from |-> from]
      ELSE IF info.keys = <<>>
      THEN IF arrays
           THEN [type |-> "array", val |-> FlattenSeq([j \in DOMAIN got |-> got[j].val]),
                 from |-> from]
           ELSE ClientError(from)
      ELSE IF arrays /\ \A j \in DOMAIN got : Len(got[j].val) = Len(info.subs[j].keys)
      THEN LET pairs  == FlattenSeq([j \in DOMAIN got |-> Zip(info.subs[j].keys, got[j].val)])
               sorted == SortSeq(pairs, LAMBDA a, b :
                                   Position(info.keys, a[1]) < Position(info.keys, b[1]))
           IN  [type |-> "array", val |-> [i \in DOMAIN sorted |-> sorted[i][2]],
                from |-> from]
      ELSE ClientError(from)

\* response_policy_one_succeeded: the first reply that is not an error,
\* else the last error
OneSucceeded(got) ==
  LET ok == {j \in DOMAIN got : got[j].type # "error"}
  IN  IF ok # {} THEN got[Min(ok)] ELSE got[Len(got)]

\* response_policy_all_succeeded: the first error, else the last reply
AllSucceeded(got) ==
  LET err == {j \in DOMAIN got : got[j].type = "error"}
  IN  IF err # {} THEN got[Min(err)] ELSE got[Len(got)]

\* read(): the command's response_policy tip, if any, picks the aggregation
ApplyResponsePolicy(info, got) ==
  LET from == {got[j].req : j \in DOMAIN got}
      pick(r) == [type |-> r.type, val |-> r.val, from |-> from]
  IN  CASE ResponsePolicyOf(cmd[info.id]) = "one_succeeded" -> pick(OneSucceeded(got))
        [] ResponsePolicyOf(cmd[info.id]) = "all_succeeded" -> pick(AllSucceeded(got))
        [] OTHER -> NoResponsePolicy(info, got)

\* The caller matches the result to its oldest written message; a retry
\* is re-submitted while attempts remain.
Deliver(h, o) ==
  IF o.type = "retry"
  THEN IF attempts[h] < MaxAttempts
       THEN /\ pending' = Append(pending, [m |-> h, reasons |-> o.reasons])
            /\ UNCHANGED result
       ELSE /\ result' = [result EXCEPT ![h] =
                            [type |-> "exhausted", val |-> <<>>, from |-> {}]]
            /\ UNCHANGED pending
  ELSE /\ result' = [result EXCEPT ![h] = o]
       /\ UNCHANGED pending

\* Mutant: one reply read per connection, however many sub-requests.
ReadOncePerShard ==
  /\ ~Dispatching
  /\ requests # <<>>
  /\ inflight # <<>>
  /\ LET info == Head(requests)
         subs == info.subs
         used(c) == Cardinality({j \in DOMAIN subs : ConnOf(subs[j]) = c})
         got  == [j \in DOMAIN subs |-> inbox[ConnOf(subs[j])][Rank(subs, j)]]
     IN  /\ \A j \in DOMAIN subs : Rank(subs, j) <= Len(inbox[ConnOf(subs[j])])
         /\ inbox' = [c \in Conns |-> IF used(c) > 0 THEN Tail(inbox[c]) ELSE inbox[c]]
         /\ requests' = Tail(requests)
         /\ inflight' = Tail(inflight)
         /\ Deliver(Head(inflight), ApplyResponsePolicy(info, got))
  /\ UNCHANGED <<owner, migrating, migrations, moves, view, replicas, failures, batch, cursor, askReasons,
                 cmd, attempts>>

Read ==
  /\ ~Dispatching
  /\ requests # <<>>
  /\ inflight # <<>>
  /\ LET info == Head(requests)
         subs == info.subs
         used(c) == Cardinality({j \in DOMAIN subs : ConnOf(subs[j]) = c})
         got  == [j \in DOMAIN subs |-> inbox[ConnOf(subs[j])][Rank(subs, j)]]
         redirects == {j \in DOMAIN got : got[j].type \in RedirectTypes}
         reasons == {[kind |-> got[j].type, slot |-> got[j].slot, node |-> got[j].node]
                       : j \in redirects}
     IN  /\ \A j \in DOMAIN subs : Rank(subs, j) <= Len(inbox[ConnOf(subs[j])])
         /\ inbox' = [c \in Conns |-> SubSeq(inbox[c], used(c) + 1, Len(inbox[c]))]
         /\ requests' = Tail(requests)
         /\ inflight' = Tail(inflight)
         /\ Deliver(Head(inflight),
                    IF reasons # {} THEN [type |-> "retry", reasons |-> reasons]
                    ELSE ApplyResponsePolicy(info, got))
  /\ UNCHANGED <<owner, migrating, migrations, moves, view, replicas, failures, batch, cursor, askReasons,
                 cmd, attempts>>

-----------------------------------------------------------------------------
(* The cluster: slot migrations (environment, not code of this library).   *)

BeginMigration(s, t) ==
  /\ migrations < MaxMigrations
  /\ migrating[s] = NoShard
  /\ owner[s] # t
  /\ migrating' = [migrating EXCEPT ![s] = t]
  /\ migrations' = migrations + 1
  /\ UNCHANGED <<owner, moves, view, replicas, failures, inbox, requests, batch, cursor, askReasons,
                 cmd, pending, inflight, attempts, result>>

CompleteMigration(s) ==
  /\ migrating[s] # NoShard
  /\ owner' = [owner EXCEPT ![s] = migrating[s]]
  /\ migrating' = [migrating EXCEPT ![s] = NoShard]
  /\ UNCHANGED <<migrations, moves, view, replicas, failures, inbox, requests, batch, cursor,
                 askReasons, cmd, pending, inflight, attempts, result>>

\* A slot changes owner with no ASK window observed by the client (the
\* migration ran while the client sent nothing to the slot).
MoveSlot(s, t) ==
  /\ moves < MaxSlotMoves
  /\ migrating[s] = NoShard
  /\ owner[s] # t
  /\ owner' = [owner EXCEPT ![s] = t]
  /\ moves' = moves + 1
  /\ UNCHANGED <<migrating, migrations, view, replicas, failures, inbox, requests, batch, cursor,
                 askReasons, cmd, pending, inflight, attempts, result>>

-----------------------------------------------------------------------------

Init ==
  /\ owner = InitOwner
  /\ migrating = [s \in Slots |-> NoShard]
  /\ migrations = 0
  /\ moves = 0
  /\ view = InitOwner
  /\ replicas = [n \in Shards |-> 0]     \* connect_to_cluster: masters only
  /\ failures = 0
  /\ inbox = [c \in Conns |-> <<>>]
  /\ requests = <<>>
  /\ batch = <<>>
  /\ cursor = 1
  /\ askReasons = {}
  /\ cmd \in [Msgs -> DOMAIN Cmds]
  /\ pending = [i \in Msgs |-> [m |-> i, reasons |-> {}]]
  /\ inflight = <<>>
  /\ attempts = [m \in Msgs |-> 0]
  /\ result = [m \in Msgs |-> NoResult]

Answered == \A m \in Msgs : result[m] # NoResult

\* Every message has its result: the callers stop submitting.
Done == Answered /\ ~Dispatching /\ UNCHANGED vars

Next ==
  \/ WriteBatch
  \/ WriteBatchReconnectFailed
  \/ NoRequestPolicy
  \/ NoRequestPolicyMismatchedSlots
  \/ RequestPolicyAllNodes
  \/ RequestPolicyAllShards
  \/ RequestPolicyMultiShard
  \/ Read
  \/ \E s \in Slots, t \in Shards : BeginMigration(s, t)
  \/ \E s \in Slots : CompleteMigration(s)
  \/ \E s \in Slots, t \in Shards : MoveSlot(s, t)
  \/ Done

\* The router's task runs while it has work (write_batch, read); the
\* cluster's migrations are not bound to happen.
Fairness ==
  /\ WF_vars(WriteBatch \/ WriteBatchReconnectFailed)
  /\ WF_vars(NoRequestPolicy \/ NoRequestPolicyMismatchedSlots \/ RequestPolicyAllNodes
             \/ RequestPolicyAllShards \/ RequestPolicyMultiShard)
  /\ WF_vars(Read)

Spec == Init /\ [][Next]_vars /\ Fairness

-----------------------------------------------------------------------------
(* Properties.                                                             *)

ReplyType == [req : Msgs, sub : Nat, type : {"array", "simple"} \cup RedirectTypes,
              slot : Slots \cup {NoSlot}, node : Shards \cup {NoShard},
              val : Seq(Keys \cup Shards)]

TypeOK ==
  /\ owner \in [Slots -> Shards]
  /\ migrating \in [Slots -> Shards \cup {NoShard}]
  /\ view \in [Slots -> Shards]
  /\ replicas \in [Shards -> Nat] /\ \A n \in Shards : replicas[n] <= MaxConns(n)
  /\ inbox \in [Conns -> Seq(ReplyType)]
  /\ batch \in Seq(Msgs) /\ cursor \in 1..Len(batch) + 1
  /\ cmd \in [Msgs -> DOMAIN Cmds]
  /\ inflight \in Seq(Msgs)
  /\ attempts \in [Msgs -> 0..MaxAttempts]
  /\ result \in [Msgs -> [type : {"none", "array", "simple", "error", "exhausted"},
                          val : Seq(Keys \cup Shards), from : SUBSET Msgs]]

\* The <<req, sub>> tags a connection's replies must carry, in order: the
\* sub-requests on that connection of the queued RequestInfos.
Expected(c) ==
  FlattenSeq([r \in DOMAIN requests |->
    LET subs == requests[r].subs
        js   == SetToSortSeq({j \in DOMAIN subs : ConnOf(subs[j]) = c}, <)
    IN  [i \in DOMAIN js |-> <<requests[r].id, js[i]>>]])

\* FIFO matching (spec property 7): on every master and replica connection
\* the unread replies are exactly the replies to the sub-requests that
\* read() will consume from it, in the order it will consume them.  Broken if any
\* write is not matched by a queued sub-request or a queued sub-request
\* is not matched by a write (asking(), reconnect(), a failed batch).
InboxAligned ==
  \A c \in Conns :
    [i \in DOMAIN inbox[c] |-> <<inbox[c][i].req, inbox[c][i].sub>>] = Expected(c)

\* Every result a caller receives was built from replies to its own
\* message (ClusterConnection::read and the caller's FIFO matching).
ResultForOwnMessage == \A m \in Msgs : result[m].from \subseteq {m}

\* What a command's reply must be: the values of its keys in the order of
\* the keys (spec property 5, the MGET reordering of no_response_policy),
\* every shard's array once for a keyless all_shards command, one shard's
\* array for a keyless default command, for an all_nodes command the
\* arrays of every master and of the replicas connected, shard by shard,
\* and one node's reply for a command with a one_succeeded or
\* all_succeeded response policy.
\* the policy a command's tips declare, read off the catalog
DeclaredTips(c) == Cmds[c].reply[8]
Declares(c, kind, policy) == \E i \in DOMAIN DeclaredTips(c) : DeclaredTips(c)[i] = <<kind, policy>>
DeclaresAny(c, kind) == \E i \in DOMAIN DeclaredTips(c) : DeclaredTips(c)[i][1] = kind

ExpectedVals(m) ==
  IF DeclaresAny(cmd[m], "response_policy") THEN {<<n>> : n \in Shards}
  ELSE IF Cmds[cmd[m]].keys # <<>> THEN {Cmds[cmd[m]].keys}
  ELSE IF Declares(cmd[m], "request_policy", "all_shards") THEN {[n \in Shards |-> n]}
  ELSE {<<n>> : n \in Shards}

AllNodesVals(v) == ToSet(v) = Shards /\ \A i \in 1..Len(v) - 1 : v[i] <= v[i + 1]

ResultMatchesKeys ==
  \A m \in Msgs : result[m].type = "array" =>
    IF Declares(cmd[m], "request_policy", "all_nodes") /\ ~DeclaresAny(cmd[m], "response_policy")
    THEN AllNodesVals(result[m].val)
    ELSE result[m].val \in ExpectedVals(m)

\* write_batch routes every message by exactly the keys its call names, in
\* the order of its arguments: the key specifications of the COMMAND reply
\* (a fixed index or a keyword, a range with a step and a limit, or a key
\* count) are parsed into the right fields and extract_keys applies them.
KeysExtracted == \A m \in Msgs : KeysOf(m) = Cmds[cmd[m]].keys

\* Every submitted message eventually gets its result (the router never
\* blocks in read() and retries end).
AllAnswered == <>Answered

\* With enough attempts for the migrations, no message exhausts its
\* retries on ASK/MOVED redirections.
NeverExhausted == \A m \in Msgs : result[m].type # "exhausted"

=============================================================================
