------------------------- MODULE StandaloneConnection -------------------------
(***************************************************************************)
(* StandaloneConnection (src/src/network/standalone_connection.rs) under  *)
(* the connection's owner, the multiplexer of spec section 4.4: commands   *)
(* are written with write or write_every written command gets a     *)
(* completion sink in a FIFO, and read() delivers each reply to the head   *)
(* sink.  When the stream ends the sinks receive "disconnected" and the    *)
(* owner calls reconnect(), which opens a new stream and runs post_connect *)
(* (HELLO 3 with AUTH and SETNAME, then SELECT when the database is not 0). *)
(*                                                                         *)
(* The server runs one session per stream, executes the commands of the   *)
(* stream in order, and may close the stream or answer a handshake command *)
(* with an error, at most MaxFaults times.  A user command's reply records *)
(* the session it ran in (a ghost field, not on the wire).                 *)
(*                                                                         *)
(* Each batch carries a retry_on_error flag (client::Pipeline's override  *)
(* or the configured default).  When the stream is lost, a command with   *)
(* the flag and attempts left is re-submitted after reconnect instead of  *)
(* failing (spec sections 4.4 and 5); one at its last attempt fails as     *)
(* exhausted (max_command_attempts, spec section 7).  A caller may stop    *)
(* waiting (command_timeout, spec section 5): its command stays queued.   *)
(***************************************************************************)
EXTENDS Integers, Sequences, SequencesExt, FiniteSets, TLC

CONSTANTS
  NumCmds,      \* user commands the owner sends
  MaxBatch,     \* the most commands one write_batch sends
  Database,     \* config.database
  MaxFaults,    \* stream closures and handshake errors the server causes
  MaxAttempts,  \* config.max_command_attempts
  MaxTimeouts   \* callers that time out

Cmds == 1..NumCmds

\* What is written on a stream.
User(c)  == [k |-> "user", c |-> c]
Hello    == [k |-> "hello", c |-> 0]
Select   == [k |-> "select", c |-> 0]

\* A server session: protocol, AUTH and SETNAME done by HELLO, database.
Fresh      == [resp3 |-> FALSE, named |-> FALSE, db |-> 0]
Configured == [resp3 |-> TRUE, named |-> TRUE, db |-> Database]

Reply(cmd, ok, sess) == [cmd |-> cmd, ok |-> ok, sess |-> sess]

Disconnected == [status |-> "disconnected"]
Exhausted    == [status |-> "exhausted"]
TimedOut     == [status |-> "timeout"]
Pending      == [status |-> "pending"]

\* the retry_on_error a batch is sent with: Pipeline::retry_on_error sets
\* Some(flag), otherwise send_batch gets None and the configured default
RetryOnError == BOOLEAN

VARIABLES
  toServer,  \* commands written on the current stream, not yet executed
  toClient,  \* replies sent on the current stream, not yet read
  open,      \* the server has not closed the current stream
  session,   \* the server's session of the current stream
  pc,        \* the owner: "connect", "hello", "select" or "ready"
  sinks,     \* the owner's FIFO of commands awaiting a reply
  sent,      \* user commands handed to the connection so far
  results,   \* what each user command's sink received
  faults,    \* faults the server caused so far
  retry,     \* the retry_on_error of each command's batch
  attempts,  \* times each command was written
  retrying,  \* commands to re-submit after reconnect, in order
  timeouts   \* callers that timed out so far

vars == <<toServer, toClient, open, session, pc, sinks, sent, results, faults,
          retry, attempts, retrying, timeouts>>

Init ==
  /\ toServer = <<>> /\ toClient = <<>> /\ open = FALSE /\ session = Fresh
  /\ pc = "connect" /\ sinks = <<>> /\ sent = 0
  /\ results = [c \in Cmds |-> Pending] /\ faults = 0
  /\ retry = [c \in Cmds |-> FALSE] /\ attempts = [c \in Cmds |-> 0]
  /\ retrying = <<>> /\ timeouts = 0

-----------------------------------------------------------------------------
(* The owner: connect / reconnect and post_connect.                        *)

\* Mutant: reconnect replaces the streams without post_connect.
ConnectNoHandshake ==
  /\ pc = "connect"
  /\ toServer' = <<>> /\ toClient' = <<>> /\ open' = TRUE /\ session' = Fresh
  /\ pc' = "ready"
  /\ UNCHANGED <<sinks, sent, results, faults, retry, attempts, retrying, timeouts>>

\* Streams::connect opens a new stream (the old one is dropped with its
\* unread replies), then post_connect writes HELLO 3 AUTH .. SETNAME ..
Connect ==
  /\ pc = "connect"
  /\ toServer' = <<Hello>> /\ toClient' = <<>> /\ open' = TRUE /\ session' = Fresh
  /\ pc' = "hello"
  /\ UNCHANGED <<sinks, sent, results, faults, retry, attempts, retrying, timeouts>>

\* PreparedCommand::into_future's read(): the next reply, or None once the
\* stream ended and every reply was read ("Disconnected by peer")
NextReply == IF toClient # <<>> THEN Head(toClient) ELSE Disconnected
CanRead   == toClient # <<>> \/ ~open
Consume   == toClient' = IF toClient # <<>> THEN Tail(toClient) ELSE toClient
Succeeded == NextReply # Disconnected /\ NextReply.ok

\* bytes written on a stream the server closed are lost (the failure shows
\* up as the end of the stream on the next read)
Written(cmds) == IF open THEN toServer \o cmds ELSE toServer

\* the commands of the sinks re-submitted after reconnect: retry_on_error
\* set and attempts left
Again(cs) == SelectSeq(cs, LAMBDA c : retry[c] /\ attempts[c] < MaxAttempts)

\* a completion sent to a caller that timed out is dropped
Deliver(c, r) == IF results[c] = Pending THEN r ELSE results[c]

\* the owner fails every other sink, with "disconnected", or "exhausted"
\* when it ran out of attempts, and reconnects
FailSinks(cs) ==
  /\ results' = [c \in Cmds |->
                  IF c \in ToSet(cs) \ ToSet(Again(cs))
                  THEN Deliver(c, IF retry[c] THEN Exhausted ELSE Disconnected)
                  ELSE results[c]]
  /\ retrying' = retrying \o Again(cs)
  /\ sinks' = <<>> /\ pc' = "connect"

\* Mutant: the SELECT is written but its reply is left unread.
ReadHelloSelectUnread ==
  /\ pc = "hello" /\ CanRead /\ Consume
  /\ IF Succeeded
     THEN pc' = "ready" /\ toServer' = IF Database # 0 THEN Written(<<Select>>) ELSE toServer
     ELSE pc' = "connect" /\ UNCHANGED toServer
  /\ UNCHANGED <<open, session, sinks, sent, results, faults, retry, attempts, retrying, timeouts>>

\* Mutant: the HELLO reply is awaited even on an ended stream.
ReadHelloWaitForever ==
  /\ pc = "hello" /\ toClient # <<>> /\ Consume
  /\ IF Succeeded
     THEN IF Database # 0 THEN pc' = "select" /\ toServer' = Written(<<Select>>)
          ELSE pc' = "ready" /\ UNCHANGED toServer
     ELSE pc' = "connect" /\ UNCHANGED toServer
  /\ UNCHANGED <<open, session, sinks, sent, results, faults, retry, attempts, retrying, timeouts>>

\* self.hello(..).await?, then self.select(database) when config.database
\* != 0; an error reply or an ended stream makes connect / reconnect return
\* Err and the owner reconnects
ReadHello ==
  /\ pc = "hello" /\ CanRead /\ Consume
  /\ IF Succeeded
     THEN IF Database # 0 THEN pc' = "select" /\ toServer' = Written(<<Select>>)
          ELSE pc' = "ready" /\ UNCHANGED toServer
     ELSE pc' = "connect" /\ UNCHANGED toServer
  /\ UNCHANGED <<open, session, sinks, sent, results, faults, retry, attempts, retrying, timeouts>>

\* the reply of self.select(database).await?
ReadSelect ==
  /\ pc = "select" /\ CanRead /\ Consume
  /\ pc' = IF Succeeded THEN "ready" ELSE "connect"
  /\ UNCHANGED <<toServer, open, session, sinks, sent, results, faults, retry, attempts, retrying, timeouts>>

-----------------------------------------------------------------------------
(* The owner: write, write_read.                                    *)

\* the user commands sent + 1 .. sent + k, for every k a batch may hold
Batches == {[i \in 1..k |-> sent + i] : k \in 1..MaxBatch}
Encoded(b) == [i \in DOMAIN b |-> User(b[i])]

\* write(command): framed_write.send
Write ==
  /\ pc = "ready" /\ sent < NumCmds
  /\ toServer' = Written(<<User(sent + 1)>>)
  /\ sinks' = Append(sinks, sent + 1) /\ sent' = sent + 1
  /\ \E r \in RetryOnError : retry' = [retry EXCEPT ![sent + 1] = r]
  /\ attempts' = [attempts EXCEPT ![sent + 1] = 1]
  /\ UNCHANGED <<toClient, open, session, pc, results, faults, retrying, timeouts>>

\* write_batch(commands): encoded into self.buffer, sent with one write_all
WriteBatch ==
  /\ pc = "ready"
  /\ \E b \in Batches :
       /\ sent + Len(b) <= NumCmds
       /\ toServer' = Written(Encoded(b))
       /\ sinks' = sinks \o b /\ sent' = sent + Len(b)
       /\ \E r \in RetryOnError :
            retry' = [c \in Cmds |-> IF c \in ToSet(b) THEN r ELSE retry[c]]
       /\ attempts' = [c \in Cmds |-> IF c \in ToSet(b) THEN 1 ELSE attempts[c]]
  /\ UNCHANGED <<toClient, open, session, pc, results, faults, retrying, timeouts>>

\* after reconnect the commands kept for retry are written again, in
\* their order, as one batch
Resubmit ==
  /\ pc = "ready" /\ retrying # <<>>
  /\ toServer' = Written(Encoded(retrying))
  /\ sinks' = sinks \o retrying
  /\ attempts' = [c \in Cmds |-> IF c \in ToSet(retrying) THEN attempts[c] + 1 ELSE attempts[c]]
  /\ retrying' = <<>>
  /\ UNCHANGED <<toClient, open, session, pc, sent, results, faults, retry, timeouts>>

\* read(): the next reply goes to the head sink; None (the stream ended)
\* makes the owner fail every sink and reconnect
Read ==
  /\ pc = "ready" /\ sinks # <<>> /\ CanRead
  /\ IF toClient # <<>>
     THEN /\ results' = [results EXCEPT ![Head(sinks)] = Deliver(Head(sinks), Head(toClient))]
          /\ toClient' = Tail(toClient) /\ sinks' = Tail(sinks)
          /\ UNCHANGED <<pc, retrying>>
     ELSE FailSinks(sinks) /\ UNCHANGED toClient
  /\ UNCHANGED <<toServer, open, session, sent, faults, retry, attempts, timeouts>>

\* Mutant: the timed-out command's sink is removed from the FIFO.
CallerTimeoutDropsSink ==
  /\ timeouts < MaxTimeouts
  /\ \E c \in ToSet(sinks) :
       /\ results[c] = Pending /\ results' = [results EXCEPT ![c] = TimedOut]
       /\ sinks' = SelectSeq(sinks, LAMBDA d : d # c)
  /\ timeouts' = timeouts + 1
  /\ UNCHANGED <<toServer, toClient, open, session, pc, sent, faults,
                 retry, attempts, retrying>>

\* command_timeout: the caller of a command not yet answered stops waiting
\* and gets a timeout; the command stays queued (its sink, or its place
\* among the commands to re-submit), so read() still pops its sink
CallerTimeout ==
  /\ timeouts < MaxTimeouts
  /\ \E c \in ToSet(sinks) \cup ToSet(retrying) :
       results[c] = Pending /\ results' = [results EXCEPT ![c] = TimedOut]
  /\ timeouts' = timeouts + 1
  /\ UNCHANGED <<toServer, toClient, open, session, pc, sinks, sent, faults,
                 retry, attempts, retrying>>

-----------------------------------------------------------------------------
(* The server.                                                             *)

\* the session after executing cmd, and the reply
Exec(cmd, sess) ==
  CASE cmd.k = "hello"  -> [sess EXCEPT !.resp3 = TRUE, !.named = TRUE]
    [] cmd.k = "select" -> [sess EXCEPT !.db = Database]
    [] OTHER            -> sess

\* the server executes the next command of the stream
Execute ==
  /\ open /\ toServer # <<>>
  /\ LET cmd == Head(toServer) IN
     /\ session' = Exec(cmd, session)
     /\ toClient' = Append(toClient, Reply(cmd, TRUE, session))
  /\ toServer' = Tail(toServer)
  /\ UNCHANGED <<open, pc, sinks, sent, results, faults, retry, attempts, retrying, timeouts>>

\* the server answers HELLO or SELECT with an error (wrong password, LOADING,
\* database out of range)
RejectHandshake ==
  /\ open /\ toServer # <<>> /\ Head(toServer).k \in {"hello", "select"}
  /\ faults < MaxFaults
  /\ toClient' = Append(toClient, Reply(Head(toServer), FALSE, session))
  /\ toServer' = Tail(toServer) /\ faults' = faults + 1
  /\ UNCHANGED <<open, session, pc, sinks, sent, results, retry, attempts, retrying, timeouts>>

\* the server or the network closes the stream: unexecuted commands are lost;
\* replies already sent can still be read after a close, while a reset
\* loses the ones still in flight (a suffix of them)
Close ==
  /\ open /\ faults < MaxFaults
  /\ open' = FALSE /\ toServer' = <<>> /\ faults' = faults + 1
  /\ \E n \in 0..Len(toClient) : toClient' = SubSeq(toClient, 1, n)
  /\ UNCHANGED <<session, pc, sinks, sent, results, retry, attempts, retrying, timeouts>>

\* every command has its result
Done ==
  /\ pc = "ready" /\ sent = NumCmds /\ sinks = <<>> /\ retrying = <<>>
  /\ UNCHANGED vars

Next ==
  \/ Connect \/ ReadHello \/ ReadSelect
  \/ Write \/ WriteBatch \/ Resubmit \/ Read \/ CallerTimeout
  \/ Execute \/ RejectHandshake \/ Close \/ Done

\* The owner's task runs whenever it can; the server executes what it got;
\* callers need not time out.
Spec == Init /\ [][Next]_vars
          /\ WF_vars(Connect \/ ReadHello \/ ReadSelect \/ Write \/ WriteBatch \/ Resubmit \/ Read)
          /\ WF_vars(Execute)

-----------------------------------------------------------------------------
(* Properties.                                                             *)

\* Every user command the server executes runs in a session set up as the
\* configuration says (RESP3, AUTH, SETNAME, SELECT database), on the first
\* stream and on every stream reconnect() opened.
RanInConfiguredSession ==
  /\ \A i \in DOMAIN toClient :
       toClient[i].cmd.k = "user" => toClient[i].sess = Configured
  /\ \A c \in Cmds :
       results[c] \notin {Pending, Disconnected, Exhausted, TimedOut} => results[c].sess = Configured

\* Every user command is eventually sent and completes: its reply,
\* "disconnected", "exhausted" or a timeout; neither the handshake nor the
\* retries stall the callers' commands (the refinement below cannot say
\* this, callers may also never submit).
AllCommandsComplete == <>(\A c \in Cmds : results[c] # Pending)

-----------------------------------------------------------------------------
(* Refinement of the multiplexed connection (MultiplexedConnection): a    *)
(* command's outcome is "reply" when its sink got the reply to that very  *)
(* command, executed in a configured session, and "misrouted" otherwise.   *)

Outcome(c) ==
  CASE results[c] = Pending      -> "pending"
    [] results[c] = Disconnected -> "disconnected"
    [] results[c] = Exhausted    -> "exhausted"
    [] results[c] = TimedOut     -> "timeout"
    [] results[c].cmd = User(c) /\ results[c].sess = Configured -> "reply"
    [] OTHER                     -> "misrouted"

Multiplexer == INSTANCE MultiplexedConnection WITH
                 submitted <- sent,
                 outcome   <- [c \in Cmds |-> Outcome(c)],
                 queue     <- sinks,
                 held      <- retrying

\* The connection, with its handshake, reconnects and the server's faults,
\* behaves as the multiplexer promises: commands are sent in order, the
\* oldest pending one gets the next reply and it is its own reply (the
\* replies of HELLO and SELECT never reach a sink, no reply of a dropped
\* stream is read after reconnect), a lost stream fails every pending
\* command, and every command completes.
RefinesMultiplexer == Multiplexer!Spec

=============================================================================
