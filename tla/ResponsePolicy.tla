--------------------------- MODULE ResponsePolicy ---------------------------
(***************************************************************************)
(* The response policies of ClusterConnection::read                        *)
(* (src/src/network/cluster_connection.rs): once every sub-reply of a      *)
(* request has been read and none is a redirection, the command's          *)
(* response_policy tip selects how the sub-results are combined.  The      *)
(* model runs the code's `for sub_result in sub_results` loop one          *)
(* sub-result at a time, with its early returns, over every vector of      *)
(* sub-results up to MaxSubs long drawn from a small set of values.        *)
(***************************************************************************)
EXTENDS Integers, Sequences, SequencesExt, FiniteSets, TLC

CONSTANTS
  Ints,      \* integer replies a shard may send
  ArrayLens, \* lengths of the integer arrays a shard may send
  ErrIds,    \* distinct error replies (Err(_) or Ok(Value::Error(_)))
  MaxSubs    \* sub-requests of one request

Policies == {"one_succeeded", "all_succeeded", "agg_logical_and", "agg_logical_or",
             "agg_min", "agg_max", "agg_sum"}
AggPolicies == Policies \ {"one_succeeded", "all_succeeded"}

\* Values, abstracted to what the policies tell apart.
IntV(n)    == [k |-> "int", v |-> <<n>>]
ArrV(s)    == [k |-> "array", v |-> s]
ErrV(e)  == [k |-> "error", v |-> <<e>>]
Nil       == [k |-> "nil", v |-> <<>>]
ClientErr == [k |-> "client", v |-> <<>>]   \* Error::Client("Unexpected value")

SubValues == {IntV(n) : n \in Ints} \cup {ErrV(e) : e \in ErrIds}
             \cup {ArrV(s) : s \in UNION {[1..l -> Ints] : l \in ArrayLens}}
IsError(x) == x.k \in {"error", "client"}

\* The closures given to response_policy_agg, f(v, r) with v the new value
Combine(p, v, r) ==
  CASE p = "agg_logical_and" -> IF v = 1 /\ r = 1 THEN 1 ELSE 0
    [] p = "agg_logical_or"  -> IF v = 0 /\ r = 0 THEN 0 ELSE 1
    [] p = "agg_min"         -> IF v <= r THEN v ELSE r
    [] p = "agg_max"         -> IF v >= r THEN v ELSE r
    [] p = "agg_sum"         -> v + r

-----------------------------------------------------------------------------
(* One iteration of each loop: the new accumulator, and whether the loop  *)
(* returns early with it.                                                  *)

Step(acc, ret) == [acc |-> acc, ret |-> ret]

\* Mutant: only the first error is kept.
OneSucceededKeepFirst(acc, x) ==
  IF IsError(x) THEN Step(IF IsError(acc) THEN acc ELSE x, FALSE) ELSE Step(x, TRUE)

\* response_policy_one_succeeded: an error is kept, the first success returns
OneSucceededStep(acc, x) == IF IsError(x) THEN Step(x, FALSE) ELSE Step(x, TRUE)

\* response_policy_all_succeeded: the first error returns, a success is kept
AllSucceededStep(acc, x) == IF IsError(x) THEN Step(x, TRUE) ELSE Step(x, FALSE)

\* response_policy_agg: integers combined, arrays combined element-wise
AggStep(p, acc, x) ==
  CASE IsError(x)                            -> Step(x, TRUE)
    [] x.k = "int" /\ acc.k = "int"          -> Step(IntV(Combine(p, x.v[1], acc.v[1])), FALSE)
    [] x.k = "int" /\ acc.k = "nil"          -> Step(x, FALSE)
    [] x.k = "array" /\ acc.k = "array" /\ Len(x.v) = Len(acc.v)
         -> Step(ArrV([i \in DOMAIN x.v |-> Combine(p, x.v[i], acc.v[i])]), FALSE)
    [] x.k = "array" /\ acc.k = "nil"        -> Step(x, FALSE)
    [] OTHER                                 -> Step(ClientErr, TRUE)

PolicyStep(p, acc, x) ==
  CASE p = "one_succeeded" -> OneSucceededStep(acc, x)
    [] p = "all_succeeded" -> AllSucceededStep(acc, x)
    [] OTHER               -> AggStep(p, acc, x)

-----------------------------------------------------------------------------

VARIABLES
  policy,  \* the command's response_policy tip
  subs,    \* sub_results, in sub-request order
  next,    \* index of the next sub_result of the loop
  acc,     \* the loop's `result`
  out      \* the value read() returns, or Nil while the loop runs

vars == <<policy, subs, next, acc, out>>

Init ==
  /\ policy \in Policies
  /\ subs \in UNION {[1..n -> SubValues] : n \in 1..MaxSubs}
  /\ next = 1
  /\ acc = Nil        \* Value::BulkString(BulkString::Nil)
  /\ out = Nil

\* One iteration of the loop; an early return ends it.
Iterate ==
  /\ out = Nil
  /\ next <= Len(subs)
  /\ LET s == PolicyStep(policy, acc, subs[next]) IN
     /\ acc' = s.acc
     /\ next' = next + 1
     /\ out' = IF s.ret THEN s.acc ELSE Nil
  /\ UNCHANGED <<policy, subs>>

\* The loop ran to its end: Some(result).
Finish ==
  /\ out = Nil
  /\ next = Len(subs) + 1
  /\ out' = acc
  /\ next' = next + 1
  /\ UNCHANGED <<policy, subs, acc>>

Done == out # Nil /\ UNCHANGED vars

Next == Iterate \/ Finish \/ Done

Spec == Init /\ [][Next]_vars /\ WF_vars(Iterate \/ Finish)

-----------------------------------------------------------------------------
(* The aggregation table of spec section 5, stated over the whole vector.  *)

\* element-wise reference of an aggregate over the values in column S
RefCombine(p, S) ==
  CASE p = "agg_logical_and" -> IF \A i \in DOMAIN S : S[i] = 1 THEN 1 ELSE 0
    [] p = "agg_logical_or"  -> IF \E i \in DOMAIN S : S[i] = 1 THEN 1 ELSE 0
    [] p = "agg_min"         -> Min(ToSet(S))
    [] p = "agg_max"         -> Max(ToSet(S))
    [] p = "agg_sum"         -> FoldSeq(+, 0, S)

\* the part of subs an aggregate reads before it meets an error
Prefix(n) == SubSeq(subs, 1, n)
WellTyped(s) ==
  \/ \A i \in DOMAIN s : s[i].k = "int"
  \/ /\ \A i \in DOMAIN s : s[i].k = "array"
     /\ \A i, j \in DOMAIN s : Len(s[i].v) = Len(s[j].v)

RefAgg(p) ==
  LET errs == {i \in DOMAIN subs : IsError(subs[i])}
      e    == Min(errs)
      ok   == IF errs = {} THEN subs ELSE Prefix(e - 1)
  IN  IF ~WellTyped(ok) THEN ClientErr
      ELSE IF errs # {} THEN subs[e]
      ELSE IF subs[1].k = "int"
      THEN IntV(RefCombine(p, [i \in DOMAIN subs |-> subs[i].v[1]]))
      ELSE ArrV([c \in DOMAIN subs[1].v |->
                  RefCombine(p, [i \in DOMAIN subs |-> subs[i].v[c]])])

\* the logical aggregates are defined over {0, 1} (spec section 5)
InSpecDomain ==
  policy \in {"agg_logical_and", "agg_logical_or"} =>
    \A i \in DOMAIN subs : subs[i].k \in {"int", "array"} =>
      \A c \in DOMAIN subs[i].v : subs[i].v[c] \in {0, 1}

Expected ==
  LET errs == {i \in DOMAIN subs : IsError(subs[i])}
      oks  == (DOMAIN subs) \ errs
  IN  CASE policy = "one_succeeded" ->
             IF oks # {} THEN subs[Min(oks)] ELSE subs[Len(subs)]
        [] policy = "all_succeeded" ->
             IF errs # {} THEN subs[Min(errs)] ELSE subs[Len(subs)]
        [] OTHER -> RefAgg(policy)

-----------------------------------------------------------------------------
(* Properties.                                                             *)

\* The value read() returns for a request is the one spec section 5 gives
\* for its response policy: the first success (one_succeeded), the first
\* error or last success (all_succeeded), the first error or the min, max,
\* sum, AND or OR of all integer replies, element-wise for arrays of equal
\* length (agg_*), whatever the order of successes and errors.  The
\* logical aggregates are checked on 0/1 replies, their spec's domain.
ResultFollowsPolicy == out # Nil /\ InSpecDomain => out = Expected

=============================================================================
