------------------------ MODULE MultiplexedConnection ------------------------
(***************************************************************************)
(* What a multiplexed connection promises its callers (spec sections 4.3, *)
(* 4.4, 5 and property 7), with no streams, sessions or handshakes:       *)
(* commands are submitted in order, alone or in batches, each batch with   *)
(* a retry_on_error flag; the connection answers the commands it sent in   *)
(* the order it sent them, each with its own reply run in a configured     *)
(* session.  A disconnection fails every command awaiting a reply, except *)
(* that one with the flag set may instead be held and sent again later,   *)
(* or fail as exhausted.  A caller may time out: its command keeps its    *)
(* place, and the reply later sent to it is dropped.  Every submitted      *)
(* command completes.                                                      *)
(***************************************************************************)
EXTENDS Naturals, Sequences, SequencesExt

CONSTANT NumCmds   \* commands the callers submit

Cmds == 1..NumCmds

\* The outcome of a command; "misrouted" (another command's reply, or a
\* reply from an unconfigured session) is never produced by this spec.
Outcomes == {"pending", "reply", "disconnected", "exhausted", "timeout", "misrouted"}

VARIABLES
  submitted,  \* commands submitted so far: 1..submitted
  outcome,    \* command -> its outcome
  queue,      \* commands sent and awaiting their reply, in sending order
  held,       \* commands kept for sending again after a disconnection
  retry       \* command -> the retry_on_error flag of its batch

vars == <<submitted, outcome, queue, held, retry>>


\* the outcome a command gets unless its caller already timed out
Complete(c, o) == IF outcome[c] = "pending" THEN o ELSE outcome[c]

Init ==
  /\ submitted = 0 /\ outcome = [c \in Cmds |-> "pending"]
  /\ queue = <<>> /\ held = <<>> /\ retry = [c \in Cmds |-> FALSE]

\* a caller submits the next commands, one or a batch of them, with a flag
Submit ==
  \E k \in 1..NumCmds - submitted, r \in BOOLEAN :
    /\ submitted' = submitted + k
    /\ queue' = queue \o [i \in 1..k |-> submitted + i]
    /\ retry' = [c \in Cmds |-> IF c \in submitted + 1..submitted + k THEN r ELSE retry[c]]
    /\ UNCHANGED <<outcome, held>>

\* the oldest command awaiting a reply receives its own reply
Reply ==
  /\ queue # <<>>
  /\ outcome' = [outcome EXCEPT ![Head(queue)] = Complete(Head(queue), "reply")]
  /\ queue' = Tail(queue)
  /\ UNCHANGED <<submitted, held, retry>>

\* the connection is lost: the commands awaiting a reply fail, but some of
\* those submitted with retry_on_error are held, in order, or exhausted
Disconnect ==
  /\ queue # <<>>
  /\ \E again \in SUBSET {c \in ToSet(queue) : retry[c]} :
       /\ held' = held \o SelectSeq(queue, LAMBDA c : c \in again)
       /\ outcome' = [c \in Cmds |->
                       IF c \in ToSet(queue) \ again
                       THEN Complete(c, IF retry[c] THEN "exhausted" ELSE "disconnected")
                       ELSE outcome[c]]
  /\ queue' = <<>>
  /\ UNCHANGED <<submitted, retry>>

\* the held commands are sent again, in their order
Resend ==
  /\ held # <<>>
  /\ queue' = queue \o held /\ held' = <<>>
  /\ UNCHANGED <<submitted, outcome, retry>>

\* the caller of a command not yet answered times out
Timeout ==
  /\ \E c \in ToSet(queue) \cup ToSet(held) :
       outcome[c] = "pending" /\ outcome' = [outcome EXCEPT ![c] = "timeout"]
  /\ UNCHANGED <<submitted, queue, held, retry>>

Next == Submit \/ Reply \/ Disconnect \/ Resend \/ Timeout

Spec == Init /\ [][Next]_vars /\ WF_vars(Reply \/ Disconnect \/ Resend)

TypeOK ==
  /\ submitted \in 0..NumCmds /\ outcome \in [Cmds -> Outcomes]
  /\ queue \in Seq(Cmds) /\ held \in Seq(Cmds) /\ retry \in [Cmds -> BOOLEAN]

=============================================================================
