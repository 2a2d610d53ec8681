---------------------------- MODULE BatchResults ----------------------------
(***************************************************************************)
(* The batch executors: Pipeline (src/src/clients/pipeline.rs and the     *)
(* newer src/src/client/pipeline.rs) and Transaction                       *)
(* (src/src/clients/transaction.rs).  A caller queues commands with queue *)
(* or forget, then execute sends them in one send_batch and turns the     *)
(* server's replies into one result: the replies of the commands not      *)
(* forgotten, a single one unwrapped.  A transaction wraps the commands   *)
(* in MULTI ... EXEC and takes the results out of EXEC's array.           *)
(*                                                                         *)
(* The server's replies are chosen when the batch is sent: any command    *)
(* may fail; in a transaction a command may be rejected when queued (then *)
(* EXEC answers EXECABORT), fail when EXEC runs it, or EXEC may answer    *)
(* nil because a WATCHed key changed.  Values are tagged with the index   *)
(* of the command they answer.                                             *)
(***************************************************************************)
EXTENDS Integers, Sequences, SequencesExt, FiniteSets

CONSTANTS
  MaxQueued,   \* commands a caller queues or forgets
  Executors    \* executors checked: "pipeline", "batch_pipeline", "transaction"

\* Replies.  OkV(i) / ErrV(i) answer command i; MULTI, QUEUED, EXECABORT
\* and nil carry no index.
Val(k, i, v) == [k |-> k, c |-> i, v |-> v]
OkV(i)       == Val("ok", i, <<>>)
ErrV(i)      == Val("error", i, <<>>)
QueuedV      == Val("queued", 0, <<>>)
ExecAbort    == Val("error", 0, <<>>)
NilV         == Val("nil", 0, <<>>)
ArrayV(a)    == Val("array", 0, a)
IsError(v) == v.k = "error"

\* Results of execute.
Returned(v)   == [st |-> "ok", val |-> v]
RedisErr(v)   == [st |-> "redis", val |-> v]       \* Error::Redis
Aborted       == [st |-> "aborted", val |-> <<>>]  \* Error::Aborted
ClientErr     == [st |-> "client", val |-> <<>>]   \* Error::Client
SendFailed    == [st |-> "send", val |-> <<>>]     \* send_batch(..).await?
Panicked      == [st |-> "panic", val |-> <<>>]
NoOutcome     == [st |-> "none", val |-> <<>>]

VARIABLES
  exec,     \* the executor
  flags,    \* forget_flags, one per command in `commands`
  replies,  \* what send_batch returned, one reply per command
  outcome   \* what execute returned, NoOutcome before

vars == <<exec, flags, replies, outcome>>

\* user commands: a transaction's `commands` are MULTI, the user commands,
\* and EXEC once execute queued it
First == IF exec = "transaction" THEN 2 ELSE 1
UserCmds ==
  Len(flags) - (IF exec = "transaction" THEN (IF outcome = NoOutcome THEN 1 ELSE 2) ELSE 0)

-----------------------------------------------------------------------------
(* The result conversions.                                                 *)

\* Ok(value).into_result()? : an error reply becomes Err(Error::Redis)
IntoResult(v) == IF IsError(v) THEN RedisErr(v) ELSE Returned(v)

\* zip(results, forget_flags).filter_map(..): the replies of the commands
\* not forgotten, in order
Filtered(rs, fs) == LET n == Min({Len(rs), Len(fs)}) IN
  SelectSeq([i \in 1..n |-> <<rs[i], fs[i]>>], LAMBDA p : ~p[2])

Kept(rs, fs) == LET f == Filtered(rs, fs) IN [i \in DOMAIN f |-> f[i][1]]

\* filtered_results.len() == 1: the single value, else the array
\* (Value::Array(filtered_results).into())
Unwrap(rs) == IF Len(rs) = 1 THEN IntoResult(rs[1]) ELSE Returned(rs)

\* clients::Pipeline::execute
PipelineResult(rs) == Unwrap(Kept(rs, flags))

\* client::Pipeline::execute: one command goes straight to results[0]
BatchPipelineResult(rs) ==
  IF Len(flags) > 1 THEN Unwrap(Kept(rs, flags))
  ELSE IF rs = <<>> THEN Panicked
  ELSE IntoResult(rs[1])

\* Mutant: the forget flags aligned without skipping MULTI's.
ExecResultNoSkip(rs) ==
  CASE rs[Len(rs)].k = "array" -> Unwrap(Kept(rs[Len(rs)].v, flags))
    [] rs[Len(rs)].k = "nil"   -> Aborted
    [] OTHER                   -> ClientErr

\* the EXEC reply: zip(results, forget_flags.iter().skip(1))
ExecResult(rs) ==
  CASE rs[Len(rs)].k = "array" -> Unwrap(Kept(rs[Len(rs)].v, Tail(flags)))
    [] rs[Len(rs)].k = "nil"   -> Aborted
    [] OTHER                   -> ClientErr

\* clients::Transaction::execute: the num_commands - 1 replies of MULTI and
\* the queued commands are skipped unless one is an error
TransactionResult(rs) ==
  LET errs == {i \in 1..Len(rs) - 1 : IsError(rs[i])} IN
  IF errs # {} THEN RedisErr(rs[Min(errs)]) ELSE ExecResult(rs)

-----------------------------------------------------------------------------
(* What the server answers.                                                *)

\* every vector of replies to commands 1..m, each a value or an error
ReplyVecs(m) == {[i \in 1..m |-> Val(ks[i], i, <<>>)] : ks \in [1..m -> {"ok", "error"}]}

\* a transaction of m user commands: OK to MULTI, QUEUED or an error to
\* each command, then EXECABORT if one was rejected, else EXEC's array of
\* results or nil (a WATCHed key changed)
TransactionReplies(m) ==
  UNION {{<<OkV(0)>> \o [i \in 1..m |-> IF i \in rejected THEN ErrV(i) ELSE QueuedV] \o <<e>> :
            e \in IF rejected # {} THEN {ExecAbort}
                  ELSE {ArrayV(a) : a \in ReplyVecs(m)} \cup {NilV}}
         : rejected \in SUBSET (1..m)}

-----------------------------------------------------------------------------

\* Pipeline::new / Transaction::new: a transaction starts with MULTI queued
New(e) == IF e = "transaction" THEN <<FALSE>> ELSE <<>>

\* Client::create_pipeline / create_transaction
Init ==
  /\ exec \in Executors
  /\ flags = New(exec)
  /\ replies = <<>>
  /\ outcome = NoOutcome

\* queue(command): the command is pushed with forget flag false
Queue ==
  /\ outcome = NoOutcome /\ UserCmds < MaxQueued
  /\ flags' = Append(flags, FALSE)
  /\ UNCHANGED <<exec, replies, outcome>>

\* forget(command): the command is pushed with forget flag true
Forget ==
  /\ outcome = NoOutcome /\ UserCmds < MaxQueued
  /\ flags' = Append(flags, TRUE)
  /\ UNCHANGED <<exec, replies, outcome>>

\* execute(): send_batch answers every command, and the result is built
Execute ==
  /\ outcome = NoOutcome
  /\ CASE exec = "pipeline" ->
            \E rs \in ReplyVecs(Len(flags)) :
              replies' = rs /\ outcome' = PipelineResult(rs) /\ UNCHANGED flags
       [] exec = "batch_pipeline" ->
            \E rs \in ReplyVecs(Len(flags)) :
              replies' = rs /\ outcome' = BatchPipelineResult(rs) /\ UNCHANGED flags
       [] exec = "transaction" ->
            /\ flags' = Append(flags, FALSE)          \* queue(cmd("EXEC"))
            /\ \E rs \in TransactionReplies(UserCmds) :
                 replies' = rs /\ outcome' = TransactionResult(rs)
  /\ UNCHANGED exec

\* send_batch fails (the connection is lost): execute returns its error
ExecuteSendFailed ==
  /\ outcome = NoOutcome
  /\ flags' = IF exec = "transaction" THEN Append(flags, FALSE) ELSE flags
  /\ outcome' = SendFailed
  /\ UNCHANGED <<exec, replies>>

Done == outcome # NoOutcome /\ UNCHANGED vars

Next == Queue \/ Forget \/ Execute \/ ExecuteSendFailed \/ Done

Spec == Init /\ [][Next]_vars

-----------------------------------------------------------------------------
(* What a batch must return (spec S7, section 7 error propagation, and     *)
(* the MULTI / EXEC protocol), stated over the commands' indices.          *)

Forgotten(i) == flags[First + i - 1]

\* the replies that answer user commands, tagged with their command
Answers == IF exec = "transaction" THEN replies[Len(replies)].v ELSE replies
AnswerTo(i) == CHOOSE a \in ToSet(Answers) : a.c = i

Rejected == {i \in 1..UserCmds : exec = "transaction" /\ IsError(replies[i + 1])}

Expected ==
  LET ks == SetToSortSeq({i \in 1..UserCmds : ~Forgotten(i)}, <)
      vs == [j \in DOMAIN ks |-> AnswerTo(ks[j])]
  IN  IF Rejected # {} THEN RedisErr(ErrV(Min(Rejected)))
      ELSE IF exec = "transaction" /\ replies[Len(replies)] = NilV THEN Aborted
      ELSE IF Len(vs) = 1 THEN IntoResult(vs[1])
      ELSE Returned(vs)

\* client::Pipeline::execute's results[0] path for one command or none
SingleCommandPath == exec = "batch_pipeline" /\ UserCmds <= 1

\* What execute returns is, in order, the replies to the commands queued
\* and not forgotten (one reply returned alone, an error reply as
\* Error::Redis); a transaction with a command rejected at queue time
\* returns the first rejection, one aborted by WATCH returns Aborted.  The
\* forget flags must line up with the replies past MULTI, QUEUED and EXEC.
\* client::Pipeline's results[0] path for a single command is excluded.
ResultsOfKeptCommands ==
  outcome \notin {NoOutcome, SendFailed} /\ ~SingleCommandPath => outcome = Expected

=============================================================================
