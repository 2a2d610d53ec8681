--------------------------- MODULE CommandCatalog ---------------------------
(***************************************************************************)
(* The key specifications of the command catalog.                          *)
(*                                                                         *)
(* KeySpecification::from_value, BeginSearch::from_value and               *)
(* FindKeys::from_value (src/src/commands/server_commands.rs) parse the    *)
(* key specifications of a COMMAND reply.  extract_keys (spec section 4.2, *)
(* CommandInfoManager, not under src/) applies them to the arguments of a  *)
(* command: the begin-search spec locates the first key, the find-keys     *)
(* spec the keys from there.                                               *)
(*                                                                         *)
(* A map reply (HashMap<String, Value>) is a TLA+ function from its field  *)
(* names; a missing field is a name outside its domain.  A command's       *)
(* argv is a sequence of tokens; argv[0] of the code, the command name, is *)
(* element 1.                                                              *)
(***************************************************************************)
EXTENDS Integers, Sequences, SequencesExt

\* A token of argv: a key (the router's key id), an integer argument or
\* any other word.
KeyArg(k)  == [kind |-> "key", val |-> k]
IntArg(n)  == [kind |-> "int", val |-> n]
WordArg(w) == [kind |-> "word", val |-> w]

\* the Result of a from_value: Ok(value) or Err(Error::Parse)
Ok(x)    == [ok |-> TRUE, val |-> x]
ParseErr == [ok |-> FALSE, val |-> "parse"]

\* values.remove_with_result(name)? is an error when the field is missing
Has(v, names) == \A n \in names : n \in DOMAIN v

-----------------------------------------------------------------------------
(* Key specifications as a COMMAND reply gives them (server data).         *)

IndexSearch(i)          == ("type" :> "index") @@ ("spec" :> ("index" :> i))
KeywordSearch(kw, from) == ("type" :> "keyword") @@ ("spec" :> (("keyword" :> kw) @@ ("startfrom" :> from)))
RangeKeys(last, step, limit) ==
  ("type" :> "range") @@ ("spec" :> (("lastkey" :> last) @@ ("keystep" :> step) @@ ("limit" :> limit)))
KeyNumKeys(idx, first, step) ==
  ("type" :> "keynum") @@ ("spec" :> (("keynumidx" :> idx) @@ ("firstkey" :> first) @@ ("keystep" :> step)))
KeySpec(bs, fk) == ("notes" :> "") @@ ("begin_search" :> bs) @@ ("find_keys" :> fk) @@ ("flags" :> <<"RO">>)

\* A COMMAND reply of one command: Redis 7 gives ten fields, the last
\* three being the tips (each as its ":"-separated parts), the key
\* specifications and the sub-commands; the other fields are placeholders.
CommandReply(name, tips, specs) == <<name, -1, <<>>, 1, 1, 1, <<>>, tips, specs, <<>>>>

\* the key specifications of GET and of MGET
GetSpecs  == <<KeySpec(IndexSearch(1), RangeKeys(0, 1, 0))>>
MGetSpecs == <<KeySpec(IndexSearch(1), RangeKeys(-1, 1, 0))>>

-----------------------------------------------------------------------------
(* Parsing (server_commands.rs).                                           *)

\* BeginSearch::from_value
BeginSearchFromValue(v) ==
  IF ~Has(v, {"type"}) THEN ParseErr
  ELSE CASE v["type"] = "index" ->
              IF Has(v, {"spec"}) /\ Has(v["spec"], {"index"})
              THEN Ok([type |-> "index", index |-> v["spec"]["index"]])
              ELSE ParseErr
         [] v["type"] = "keyword" ->
              IF Has(v, {"spec"}) /\ Has(v["spec"], {"keyword", "startfrom"})
              THEN Ok([type |-> "keyword", keyword |-> v["spec"]["keyword"],
                       start_from |-> v["spec"]["startfrom"]])
              ELSE ParseErr
         [] v["type"] = "unknown" -> Ok([type |-> "unknown"])
         [] OTHER -> ParseErr

\* the "keynum" arm of FindKeys::from_value
KeyNumFromValue(v) ==
  IF Has(v, {"spec"}) /\ Has(v["spec"], {"keynumidx", "firstkey", "keystep"})
  THEN Ok([type |-> "keynum", key_num_idx |-> v["spec"]["keynumidx"],
           first_key |-> v["spec"]["firstkey"], key_step |-> v["spec"]["keystep"]])
  ELSE ParseErr

\* Mutant: the limit of a range is not read (Range { limit: 0, .. }).
FindKeysFromValueNoLimit(v) ==
  IF ~Has(v, {"type"}) THEN ParseErr
  ELSE CASE v["type"] = "range" ->
              IF Has(v, {"spec"}) /\ Has(v["spec"], {"lastkey", "keystep"})
              THEN Ok([type |-> "range", last_key |-> v["spec"]["lastkey"],
                       key_step |-> v["spec"]["keystep"], limit |-> 0])
              ELSE ParseErr
         [] v["type"] = "keynum" -> KeyNumFromValue(v)
         [] v["type"] = "unknown" -> Ok([type |-> "unknown"])
         [] OTHER -> ParseErr

\* FindKeys::from_value
FindKeysFromValue(v) ==
  IF ~Has(v, {"type"}) THEN ParseErr
  ELSE CASE v["type"] = "range" ->
              IF Has(v, {"spec"}) /\ Has(v["spec"], {"lastkey", "keystep", "limit"})
              THEN Ok([type |-> "range", last_key |-> v["spec"]["lastkey"],
                       key_step |-> v["spec"]["keystep"], limit |-> v["spec"]["limit"]])
              ELSE ParseErr
         [] v["type"] = "keynum" -> KeyNumFromValue(v)
         [] v["type"] = "unknown" -> Ok([type |-> "unknown"])
         [] OTHER -> ParseErr

\* KeySpecification::from_value: notes is optional, the other three fields
\* are required and parsed in turn; the first error is the result.
KeySpecificationFromValue(v) ==
  IF ~Has(v, {"begin_search"}) THEN ParseErr
  ELSE LET bs == BeginSearchFromValue(v["begin_search"]) IN
  IF ~bs.ok \/ ~Has(v, {"find_keys"}) THEN ParseErr
  ELSE LET fk == FindKeysFromValue(v["find_keys"]) IN
  IF ~fk.ok \/ ~Has(v, {"flags"}) THEN ParseErr
  ELSE Ok([begin_search |-> bs.val, find_keys |-> fk.val, flags |-> v["flags"]])

\* key_specifications: Vec<KeySpecification>, an error when any one fails
KeySpecificationsFromValue(vs) ==
  LET specs == [i \in DOMAIN vs |-> KeySpecificationFromValue(vs[i])] IN
  IF \E i \in DOMAIN specs : ~specs[i].ok THEN ParseErr
  ELSE Ok([i \in DOMAIN specs |-> specs[i].val])

\* Mutant: the ten-field reply keeps no key specifications (the
\* key_specifications: Vec::new() of the shorter replies).
CommandInfoFromValueNoSpecs(r) ==
  IF Len(r) \notin {6, 7, 10} THEN ParseErr
  ELSE Ok([name |-> r[1], command_tips |-> IF Len(r) = 10 THEN r[8] ELSE <<>>,
           key_specifications |-> <<>>])

\* CommandInfo::from_value: a reply of ten fields (Redis 7), of seven (no
\* tips, key specifications or sub-commands) or of six (no ACL categories
\* either); any other length is a parse error, and so is a key
\* specification that does not parse.  Only the fields the router reads
\* are kept.
CommandInfoFromValue(r) ==
  IF Len(r) \notin {6, 7, 10} THEN ParseErr
  ELSE LET specs == IF Len(r) = 10 THEN KeySpecificationsFromValue(r[9]) ELSE Ok(<<>>) IN
       IF ~specs.ok THEN ParseErr
       ELSE Ok([name |-> r[1], command_tips |-> IF Len(r) = 10 THEN r[8] ELSE <<>>,
                key_specifications |-> specs.val])

-----------------------------------------------------------------------------
(* extract_keys (spec section 4.2; CommandInfoManager is not under src/).  *)
(* Positions are those of the code's argv: 0 is the command name.          *)

Argc(argv)   == Len(argv)
Arg(argv, p) == argv[p + 1]
IsWord(argv, p, w) == Arg(argv, p).kind = "word" /\ Arg(argv, p).val = w

\* the position of the first key the begin-search spec locates, or -1:
\* a fixed index, or the argument after a keyword searched from start_from
\* on (backwards from the end when start_from is negative)
FirstKeyPos(bs, argv) ==
  CASE bs.type = "index" -> IF bs.index < Argc(argv) THEN bs.index ELSE -1
    [] bs.type = "keyword" ->
         LET from == IF bs.start_from >= 0 THEN bs.start_from ELSE Argc(argv) + bs.start_from
             hits == {p \in 1..Argc(argv) - 1 : IsWord(argv, p, bs.keyword)
                                                /\ IF bs.start_from >= 0 THEN p >= from ELSE p <= from}
         IN  IF hits = {} THEN -1
             ELSE (IF bs.start_from >= 0 THEN Min(hits) ELSE Max(hits)) + 1
    [] OTHER -> -1

\* the key positions the find-keys spec names from the first key on: a
\* range up to last_key (counted from the end when negative, the remaining
\* arguments divided by limit when one is given), or key_num_idx naming
\* the argument that holds the number of keys
KeyPositions(fk, first, argv) ==
  CASE fk.type = "range" ->
         LET last == IF fk.last_key >= 0 THEN first + fk.last_key
                     ELSE IF fk.limit <= 1 THEN Argc(argv) + fk.last_key
                     ELSE first + (Argc(argv) - first) \div fk.limit + fk.last_key
         IN  {p \in first..Min({last, Argc(argv) - 1}) : (p - first) % fk.key_step = 0}
    [] fk.type = "keynum" ->
         LET n == Arg(argv, first + fk.key_num_idx).val IN
         {first + fk.first_key + i * fk.key_step : i \in 0..n - 1}
    [] OTHER -> {}

\* extract_keys(command): the keys every key specification names, in the
\* order of the argument list
ExtractKeys(specs, argv) ==
  LET ps == UNION {IF FirstKeyPos(specs[i].begin_search, argv) < 0 THEN {}
                   ELSE KeyPositions(specs[i].find_keys, FirstKeyPos(specs[i].begin_search, argv), argv)
                   : i \in DOMAIN specs}
  IN  [j \in 1..Cardinality(ps) |-> Arg(argv, SetToSortSeq(ps, <)[j]).val]

=============================================================================
