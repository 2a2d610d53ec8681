# TLA+ models of redis-client-rs

These modules model the parts of `src/src` whose correctness depends on the order of events, not on one function's output:
- the cluster router, which splits commands over the connections of a cluster and must match every reply to the request it answers;
- the standalone connection and its handshake;
- the RESP frame decoder under arbitrary socket chunking;
- hash-slot computation;
- the response aggregation policies;
- the result filtering of pipelines and transactions.

All modules are plain TLA+. They use the standard modules and the community modules `SequencesExt`, `FiniteSetsExt`, `Functions`, `Folds` and `Bitwise`.

## 1. The system and how its parts interact

| Part | Source | Module |
|---|---|---|
| Cluster request router | `network/cluster_connection.rs` | `ClusterRouter`, `ResponsePolicy`, `HashSlot` |
| Command tips | `commands/server_commands.rs` (`CommandTip`, `RequestPolicy`, `ResponsePolicy`) | `ClusterRouter` |
| Standalone connection | `network/standalone_connection.rs` | `StandaloneConnection` (refines `MultiplexedConnection`), and `ClusterRouter` for `asking()` |
| RESP frame decoder | `resp/buffer_decoder.rs` | `RespFraming` |
| Pipelines and transactions | `clients/pipeline.rs`, `client/pipeline.rs`, `clients/transaction.rs`, `clients/client.rs`, `resp/value.rs` (`into_result`) | `BatchResults` |

**The caller.** It is the network handler of spec §4.4/§4.5, which is not under `src/`.
- It writes batches of messages with `write_batch` and calls `read` once per message, in FIFO order.
- When `read` returns `Error::Retry(reasons)`, it re-submits the message with those reasons, up to `max_command_attempts` times.

**`write_batch`.**
- On a MOVED reason it first calls `reconnect()`, which runs `connect_to_cluster`: the first seed that answers `CLUSTER SHARDS` gives the slot ranges, and one new connection is opened per shard.
- If the reconnect fails, the `?` returns before anything is written.
- The ASK reasons go to `get_shard_index_by_slot`. The command is then sent to the importing node, preceded by `ASKING`.
- The request policy is found among the command's tips. It chooses how the command is split into sub-requests:
  - `all_nodes`: every master and replica. It calls `connect_replicas` first.
  - `all_shards`: every master.
  - `multi_shard`: per slot.
  - no policy: one slot.
- Every sub-request is written to its connection, and one `RequestInfo` is queued on `request_stream`.

**`read`.**
- It pops the next `RequestInfo` and reads one reply per sub-request, blindly, from the connections the sub-requests were written to.
- ASK and MOVED replies become `Retry`. Otherwise the command's response policy combines the replies.

`ASKING` is sent with `connection.asking().await`. That is a `PreparedCommand` on the standalone connection (`into_future`): it writes the command and reads the connection's **next** reply. `connect_replicas` does the same with `cluster_shards()` on `shards[0]`'s master connection (`cluster_connection.rs:690`), the connection pipelined commands also use.

**What makes this hard:**
- Replies are matched only by FIFO position on each connection.
- Commands are pipelined.
- The cluster migrates slots between writes, which produces ASK and MOVED replies.
- `asking()`, `reconnect()` and `connect_replicas()` all change what a connection carries underneath the queued `RequestInfo`s.

## 2. Modules

### `ClusterRouter.tla`: router, cluster and caller

**Constants.**
- `NumShards`.
- `Replicas[n]`: the replicas `CLUSTER SHARDS` lists for shard `n`.
- `MaxConnFailures`: the connections that may fail to open, in `connect_replicas` and in a reconnect.
- `InitOwner`: slot to shard.
- `KeySlot`: the result of `hash_slot`, which is checked separately in `HashSlot`.
- `Cmds`: the catalog, with one call of every command. Each command has:
  - its `COMMAND` reply (`reply`), in the ten-field Redis 7 form. Its tips (each split at `:`) and key specifications are what the router reads, after `CommandInfo::from_value` has parsed them (`Info`, `Tips`);
  - the call's arguments (`argv`);
  - the keys the call names, which are the reference for `extract_keys`.
- `NumMsgs`, `MaxInFlight`, `MaxBatch`, `MaxAttempts`: bounds on the caller.
- `MaxMigrations`, `MaxSlotMoves`: bounds on the cluster.

**State.**

| Variable | Code |
|---|---|
| `view` | `slot_ranges` |
| `replicas[n]` | replica connections pushed into `shards[n].nodes` |
| `inbox[<<n, i>>]` | unread replies on node `i` of shard `n` (node 0 is the master). Each carries the ghost tag `<<req, sub>>`. |
| `requests` | `request_stream` |
| `batch`, `cursor`, `askReasons` | the loop of `write_batch` |
| `owner`, `migrating`, `migrations`, `moves`, `failures` | the cluster |
| `cmd`, `pending`, `inflight`, `attempts`, `result` | the caller |

**Actions.**

| Action | Code |
|---|---|
| `WriteBatch` | `write_batch` 117–140. It runs `Reconnect` (through `ConnectToCluster`) on MOVED and keeps the ASK reasons. |
| `WriteBatchReconnectFailed` | `self.reconnect().await?` fails. The message fails, and the old connections and slot ranges stay. |
| `NoRequestPolicy` | `no_request_policy` |
| `NoRequestPolicyMismatchedSlots` | `no_request_policy`'s cross-slot error |
| `RequestPolicyAllShards` | `request_policy_all_shards` |
| `RequestPolicyAllNodes` | `request_policy_all_nodes`. `connect_replicas` first writes CLUSTER SHARDS on `Master0` and reads that connection's next reply (`ClusterShards`). If that reply belongs to another message, the conversion fails, the batch fails and the CLUSTER SHARDS reply stays queued. Otherwise the replicas are connected, and opening one may fail halfway (`ReplicasHalfAdded`). |
| `RequestPolicyMultiShard` | `request_policy_multi_shard`: the tuple sort and per-slot groups |
| `Read` | `read`. Redirections become retries; otherwise `ApplyResponsePolicy` applies `OneSucceeded`, `AllSucceeded` or `NoResponsePolicy`. |
| `BeginMigration`, `CompleteMigration`, `MoveSlot` | the cluster (environment) |

`CommandTip` translates `CommandTip::from_value`, `RequestPolicy::from_str` and `ResponsePolicy::from_str`. `FindPolicy` is the `find_map` over the tips in `write_batch` and `read`.

**Writing sub-requests.**
- `Dispatch` draws the server's replies. `WriteGroups` writes the sub-requests.
- `Asking(m, q)` appends ASKING's `+OK` and pops the connection's head.
- An error read by `asking()` makes the batch fail with `WriteBatchFailed`. The messages of the batch from the current one on fail; those dispatched before it keep their queued `RequestInfo` and wait for `read`.

**How the cluster answers.** It answers at write time. Each connection is served in order, so this gives the same replies as answering later. `ServerReplies` states the cluster rules:
- the owner answers OK, or ASK while the slot migrates;
- the importing node answers OK after ASKING;
- any other node answers MOVED.

**Fairness.** Weak fairness of `WriteBatch` ∨ `WriteBatchReconnectFailed`, of the dispatch actions and of `Read`. The handler's loop keeps calling `write_batch` and `read` while it has work. The cluster's actions get no fairness.

**Properties.**
- `InboxAligned`: every connection's unread replies are exactly the sub-requests, on that connection, of the queued `RequestInfo`s, in order. This is spec property 7, and `read` relies on it.
- `ResultForOwnMessage`: a result is built only from replies to its own message.
- `ResultMatchesKeys`: a result holds the expected values.
  - Keyed commands get their keys' values in key order (spec property 5).
  - Keyless `all_shards` commands get every shard's array.
  - `all_nodes` commands without a response policy get every node's array.
  - Commands whose tips declare `one_succeeded` or `all_succeeded` get one node's reply.
  - The expectation is read off the declared tips, not off `FindPolicy`.
- `NeverExhausted`: no message runs out of retries.
- `AllAnswered` (liveness): every message eventually gets its result.

### `ResponsePolicy.tla`

This module covers the loop `for sub_result in sub_results` of `response_policy_one_succeeded`, `response_policy_all_succeeded` and `response_policy_agg` (the `agg_*` policies), with its early returns. It is run over every vector of up to 3 sub-results, drawn from integers, integer arrays and errors.

`ResultFollowsPolicy` compares the result with the aggregation table of spec §5, written as reference folds (`RefAgg`).

### `HashSlot.tla`

This module covers `hash_slot`:
- the hash tag, via `find('{')` and the next `}`, with the empty-tag check;
- CRC16/XMODEM, written bit by bit with `Bitwise`.

It runs over every key of up to 6 bytes from `{a, b, {, }}`. `SlotFollowsHashTagRule` compares each slot with the declarative rule of spec §6 (`FirstPair`, `EffectiveKey`).

### `RespFraming.tla`

This module covers `decode`, `next_crlf`, `sized_string`, `size`, `array` and `map` as RECURSIVE operators over byte sequences. FramedRead's loop drives them:
- `Receive` reads a chunk of 1 to `MaxChunk` bytes;
- `DecodeFrame` cuts a frame off the buffer;
- `DecodeNone` reads more;
- `DecodeError` covers decode failing.

The reference is the length-prefixed RESP3 encoding, `Encode`.

Properties:
- `FramesAreReplies`: every frame is one reply's encoding.
- `ErrorOnlyAtUnsupported`: decode fails only at a reply kind it has no arm for. The big number `(` is one.
- `AllRepliesFramed`: every supported reply is eventually framed.

### `CommandCatalog.tla`: `COMMAND` replies, key specifications and `extract_keys`

This module covers how a command's catalog entry is parsed and how its keys are found.

Parsing, translated from `server_commands.rs`:
- `CommandInfoFromValue` translates `CommandInfo::from_value`. A reply of ten fields keeps its tips and key specifications. A reply of seven or six fields has neither. Any other length is `Error::Parse`, and so is a key specification that does not parse. Only the fields the router reads are kept.
- `KeySpecificationFromValue`, `BeginSearchFromValue` and `FindKeysFromValue` translate the `from_value` functions of `KeySpecification`, `BeginSearch` and `FindKeys`.
- A map reply is a function of its field names. A missing field is `Error::Parse` (`remove_with_result`).
- Every result has Rust's `Result` shape (`Ok` / `ParseErr`).

`ExtractKeys` is modelled from spec §4.2, since `CommandInfoManager` is not under `src/`:
- The begin-search spec finds the first key, by a fixed index or by the argument after a keyword (searched backwards when `startfrom` is negative).
- The find-keys spec then names the keys: a range with `lastkey`, a step and a limit, or a key count read from the arguments.
- The keys come out in argument order.
- A specification of type `unknown` names no keys.

`ClusterRouter` uses this module through `ExtractedKeys`:
- `KeysOf(m)` is the parsed-and-extracted key list of the message's call.
- `ResultMatchesKeys` compares results against the keys the call names, which is the reference.
- `KeysExtracted` checks that the two lists agree for every message.

The catalogs use real Redis 7 key specifications:
- GET and MGET: index 1 with a range;
- EVAL: index 2 with a key count;
- XREAD: the keyword `STREAMS` with range `-1`, step 1 and limit 2, which stops the keys before the stream ids.

### `StandaloneConnection.tla`

This module covers the connection under the multiplexer of spec §4.4:
- `Connect`: `Streams::connect`, followed by `post_connect` writing HELLO;
- `ReadHello` and `ReadSelect`: the rest of `post_connect`;
- `Write`, `WriteBatch` and `Read`: the operations on the stream;
- `Resubmit`: after a reconnect, the commands kept for retry are written again as one batch;
- `CallerTimeout`: a caller stops waiting (`command_timeout`, spec §5) and gets a timeout. Its command keeps its sink, or its place among the commands to re-submit. When its reply comes, `read()` pops the sink and drops the reply (`Deliver`). At most `MaxTimeouts` callers time out.

Each write carries the batch's `retry_on_error` flag (`RetryOnError`). This is `client::Pipeline::retry_on_error` (`Some(flag)`) or the configured default, which `send_batch` receives. When `read()` finds the stream ended, `FailSinks` handles every sink:
- a command with the flag and attempts left (`Again`, below `max_command_attempts`) is kept in `retrying`;
- a flagged command at its last attempt fails as `exhausted`;
- any other command fails as `disconnected`.

This retry path belongs to the multiplexer and router of spec §4.4, §5 and §7, which are not under `src/`, so it is modelled from the spec.

The server side executes commands in order. It may close the stream or reject the handshake (`RejectHandshake`), up to `MaxFaults` times in total. A close (`Close`) loses the unexecuted commands. A reset also loses a suffix of the replies still in flight, which is how a command runs but its reply never arrives.

Properties:
- `RanInConfiguredSession`: every command runs after HELLO 3 / AUTH / SETNAME / SELECT.
- `AllCommandsComplete` (liveness): every command is eventually sent and completes, with its reply, `disconnected`, `exhausted` or a timeout. A stalled handshake breaks this property, and nothing else catches it.
- `RefinesMultiplexer`: the connection implements `MultiplexedConnection` (see below).

### `MultiplexedConnection.tla`: what a connection promises

This is the abstract specification of spec §4.3/§4.4 and property 7. It has no streams, sessions or handshakes. Its state:
- `submitted`: how many commands have been sent;
- `outcome[c]`: `pending`, `reply`, `disconnected`, `exhausted`, `timeout` or `misrouted`;
- `queue`: the commands sent and awaiting a reply, in sending order;
- `held`: the commands kept for sending again;
- `retry[c]`: the flag of the command's batch.

Its actions:
- `Submit`: one command, or a batch of them, is sent with a flag.
- `Reply`: the head of `queue` gets its own reply.
- `Disconnect`: every queued command fails (`disconnected`, or `exhausted` for a flagged one), except that flagged ones may be held instead.
- `Resend`: the held commands are queued again, in their order.
- `Timeout`: a command not yet answered gets `timeout`. It keeps its place, and the outcome it would later get is dropped.

Weak fairness on `Reply \/ Disconnect \/ Resend` makes every submitted command complete. The spec never produces `misrouted`.

`StandaloneConnection` maps onto it as follows:
- `submitted <- sent`, `queue <- sinks`, `held <- retrying` (`retry` is `retry`);
- `outcome[c]` is `reply` when `results[c]` is the reply to user command `c` executed in the configured session. Otherwise it is `pending`, `disconnected` or `misrouted`.

Each concrete step is one abstract step or a stutter:
- `Write` and `WriteBatch` are `Submit`;
- a `Read` of a user reply is `Reply`;
- `FailSinks` after a closed stream is `Disconnect`;
- `Resubmit` is `Resend`;
- `CallerTimeout` is `Timeout`;
- the handshake, server steps and faults are stutters.

The refinement is checked as the temporal property `RefinesMultiplexer == Multiplexer!Spec` in `standalone_faults`. It subsumes the earlier invariant that each sink gets its own command's reply, and it adds three facts:
- replies complete commands in sending order;
- a disconnection fails all of them at once, except the flagged commands it keeps;
- a retried command is queued again behind the commands already sent, and its reply still reaches its own sink;
- a timed-out command keeps its place in the FIFO. A connection that dropped its sink would hand the next reply to the command behind it (mutant `CallerTimeoutDropsSink`).

### `BatchResults.tla`

This module covers `create_pipeline` / `create_transaction` (`Init`, `New`), `Queue`, `Forget` and `Execute` of `clients::Pipeline`, `client::Pipeline` and `clients::Transaction`. `ExecuteSendFailed` covers `send_batch` failing.

The server's replies cover:
- any command failing;
- in a transaction: a rejection at queue time (EXECABORT), a failure inside EXEC, and a WATCH abort (nil).

`ResultsOfKeptCommands` states that the result holds the replies of exactly the commands not forgotten, in order, or the right error. It excludes `client::Pipeline`'s `results[0]` path for one command (`SingleCommandPath`).

## 3. Runs

| Run | Setup | Checks | Result |
|---|---|---|---|
| `router_stable` | 2 shards, 3 slots, 3 messages, all 3 in flight at once. Commands: GET, MGET over both shards, KEYS (`all_shards`), `EVAL` with 0 keys (keyless), `XREAD STREAMS k1 k2 0 0` (cross-slot). No `all_nodes` command: with pipelining its `connect_replicas` misreads (`router_cluster_shards`). | `TypeOK`, `InboxAligned`, `ResultForOwnMessage`, `ResultMatchesKeys`, `KeysExtracted`, `AllAnswered` | pass, about 2.5k states |
| `router_resharding` | 2 shards, the first with 1 replica, 2 slots, 2 migrations and 1 slot move. One message in flight, 4 attempts, one failure (a reconnect, or opening the replica in `connect_replicas`). Commands: GET1, GET2, KEYS, SCRIPT KILL (`all_nodes` + `one_succeeded`), CONFIG SET (`all_nodes` + `all_succeeded`). | `InboxAligned`, `NeverExhausted`, `ResultMatchesKeys`, `AllAnswered` | pass, about 24k states |
| `router_ask_multishard` | MGET over two keys whose slots lie on different shards, with one migration | `InboxAligned` | violated (finding 1) |
| `router_pipelined` | GET1 and GET2 pipelined, with one slot move | `InboxAligned` | violated (finding 2) |
| `router_dup_keys` | `MGET 1 2 1` across two slots | `ResultMatchesKeys` | violated (finding 3) |
| `router_cluster_shards` | GET pipelined before SLOWLOG GET (`all_nodes`), replicas not yet connected | `ResultForOwnMessage` | violated (finding 5) |
| `framing_well_formed` | Replies of every kind plus a big number, in chunks of 1 to 8 bytes | `TypeOK`, `FramesAreReplies`, `ErrorOnlyAtUnsupported`, `AllRepliesFramed` | pass |
| `framing_crlf_payload` | A blob string containing CR LF | `FramesAreReplies` | violated (finding 4) |
| `response_policies` | Every policy over up to 3 sub-results | `ResultFollowsPolicy` | pass, about 122k states |
| `hashslot_rule` | Every key of up to 6 bytes | `SlotFollowsHashTagRule` | pass, 10922 states |
| `standalone_faults` | 4 commands, batches of up to 4 with either flag, database 1, up to 3 faults (closes, resets, handshake errors), 2 attempts, 1 caller timeout | `RanInConfiguredSession`, `AllCommandsComplete`, `RefinesMultiplexer` | pass, about 155k states |
| `batch_results` | Up to 3 queued or forgotten commands, every executor, every reply combination | `ResultsOfKeptCommands` | pass, 430 states |

Every property of a passing run has a mutant in `PROJECT.json`: a plausible bug in a mapped definition that TLC finds under that run's configuration. An example is `FindPolicyFirstTip`, which looks only at the first tip instead of doing `find_map`.

**Why the bounds are enough.**
- Two shards are the fewest for which multi-shard commands and redirection to another node exist.
- Two messages in flight are the fewest for which pipelining can misalign replies. `router_stable` puts all three in flight, so a connection can carry the sub-requests of three messages at once.
- The runs with an `all_nodes` command and replicas to connect keep one message in flight. With two, `connect_replicas` misreads a pipelined reply (finding 5), and the alignment properties fail in the code as in the model.
- In the resharding run, 3 attempts are too few: TLC finds a message exhausted by ASK, then MOVED, then ASK. 4 attempts suffice.
- One replica on the first shard is enough for `connect_replicas` to fail before `shards[0]` has a replica.
- Chunks of 1 to 8 bytes split every frame at every position.
- `XREAD STREAMS k1 k2 0 0` is the smallest call where the limit of a key specification matters: without it the ids become keys.
- Four commands, with three faults, two attempts and one timeout, give a flagged command that runs, loses its reply to a reset, runs again, and then is exhausted by a second loss. They also give a timed-out command with others queued behind it and around it, and a closure or handshake error between any two handshake steps.
- Keys of 6 bytes contain every arrangement of two braces around a one-byte tag, and two tags in a row (`{a}{b}`).

## 4. Findings

Each finding comes from a violation run.

1. **`asking()` reads someone else's reply** (`cluster_connection.rs:298`, `standalone_connection.rs:224`).
   - When an earlier sub-request is unread on the connection, `asking()` consumes its reply.
   - ASKING's `+OK` is then read as that sub-request's result.
   - If the consumed reply is an error, `write_batch` fails after some groups were written, and their replies are orphaned.
2. **`reconnect()` under pipelined requests** (`cluster_connection.rs:131`).
   - A MOVED retry replaces every connection while other commands' `RequestInfo`s still wait on the old ones.
   - `read` then pairs them with later replies, or waits.
3. **Duplicate keys in MGET** (`cluster_connection.rs:662`). The reorder sorts by the first `position()` of a key, so `MGET k1 k2 k1` across two slots returns `v1 v1 v2`.
4. **Blob strings containing CR LF** (`buffer_decoder.rs:63`). `sized_string` ends at the next CR LF, not at the declared length.
5. **`connect_replicas` reads a pipelined reply** (`cluster_connection.rs:690`).
   - `cluster_shards()` writes CLUSTER SHARDS on `shards[0]`'s master and reads that connection's next reply.
   - When a GET or MGET still waits there, that reply is taken. Its conversion to `Vec<ClusterShardResult>` fails, so `write_batch` returns `Err`.
   - The CLUSTER SHARDS reply stays queued, and `read` hands it to the GET as its result.

**Hazards reported without a run.** `PROJECT.json` lists each one with a note:
- **Blob strings containing a lone CR** (`buffer_decoder.rs:51`). `next_crlf` gives up at the first CR that is not followed by LF, so such a blob is never framed. It shares finding 4's cause, framing by line ends rather than by length, and its run gave way to finding 5 under the 12-run budget.
- **A retry re-sends the whole command** (`cluster_connection.rs:455`). When one sub-request answers ASK or MOVED, the sub-requests that already succeeded run again. For a multi_shard `DEL k1 k2` (agg_sum) this counts k1 as 0 on the retry. The model's server keeps no per-key data.
- **`client::Pipeline` with one command** (`client/pipeline.rs:118`). `execute` returns `results[0]` even when that command was forgotten, and an empty pipeline indexes an empty vector.
- **Partial failure of `connect_replicas`** (`:716`). It leaves some shards without replicas, and later calls push duplicates (`:235`).
- **`connect_to_cluster` takes the first node listed as the master** (`:818`). After a failover that node may be a replica.
- **`extract_keys` on shard 0's master connection** (`cluster_connection.rs:164`). `write_batch` hands `extract_keys` that connection. If `CommandInfoManager`, which is not in the tree, sends COMMAND GETKEYS on it, it reads that connection's next reply. That reply may belong to an unread sub-request, as with `asking()` (finding 1).
- **The debug-only kill hook of `StandaloneConnection::write_batch`** (`standalone_connection.rs:130`). It calls `client_id()` on a connection with replies in flight, and so takes another command's reply.

## 5. Not modelled

- **`request_policy_special` and `response_policy_special`.** Both are `todo!()`.
- **The ASK-to-unknown-node panic** (`cluster_connection.rs:733`). Addresses are abstracted to shard indices.
- **`CommandInfoManager`** (catalog building). It is not in the source tree, so the catalog is a constant. Its `extract_keys` is modelled from spec §4.2 in `CommandCatalog`.
- **The fields of `CommandInfo::from_value` the router never reads** (arity, flags, first/last key, step, ACL categories, sub-commands). These are reply conversions that no property tells apart; the reply's length, which selects the form, is modelled.
- **Command builders, and `GraphCache`** (`graph_commands.rs`). They handle argument formatting and reply conversion; spec §9 places the cache out of scope.
- **`Client::send`, `send_and_forget` and `send_batch`.** They delegate to `InnerClient`, which is not in the tree. The `retry_on_error` flag that `client::Pipeline` passes to `send_batch` is modelled, together with the retry it triggers, in `StandaloneConnection` (from spec §4.4/§5).
- **`ServerEndPoint`.** It is a four-way routing of pub/sub commands to connection types that are not in the tree.
- **TLS, sockets, connect timeouts and the tests.** A connection is a FIFO. Caller-side command timeouts are modelled (`CallerTimeout`); the timer itself is not.
- **`Value`'s `PartialEq` and `Hash`** (`value.rs:68-97`). Two `Value`s of the same variant without a case of their own compare equal through the `discriminant` fallback, so `Boolean(true) == Boolean(false)`. `Double` compares with `==`, so `NaN != NaN`, but hashes `to_string()`, so `0.0 == -0.0` hash differently. Hashing a `Boolean`, `Array`, `Map`, `Set` or `Push` key panics (`unimplemented!`). None of the modelled code compares or hashes `Value`s. The RESP3 map decoder that builds `HashMap<Value, Value>` is not in the tree. Showing the disagreement would need a violation run beyond the 12 the project keeps.
- **Failover and shard renumbering.** Shards keep their identities across `reconnect`.
- **Further violation runs.** The project keeps 12 runs, so the hazards in §4 that have notes are reported without runs of their own.
- **Hash-tag wording.** Spec §8.3 and the glossary describe the hash tag in words ("the next non-empty `}`"). These disagree with §6 and with the code for keys such as `{}{a}`. `HashSlot` checks the code's rule against §6.
