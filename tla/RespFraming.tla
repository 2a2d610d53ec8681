---------------------------- MODULE RespFraming ----------------------------
(***************************************************************************)
(* Framing of the RESP3 replies a connection receives, as done by          *)
(* BufferDecoder (src/src/resp/buffer_decoder.rs) inside tokio's FramedRead.*)
(*                                                                         *)
(* The server writes the replies Replies; the socket delivers their bytes  *)
(* in chunks of any size up to MaxChunk.  FramedRead calls decode while    *)
(* the buffer may hold a frame and reads more bytes once decode returns    *)
(* None.  Every frame decode returns is cut off the buffer.               *)
(*                                                                         *)
(* Bytes are abstracted to a small alphabet: the type markers, a few       *)
(* digits, the letters a and b, and CR and LF.  Positions are 0-based as   *)
(* in the code: byte p of buffer b is b[p + 1].                            *)
(***************************************************************************)
EXTENDS Integers, Sequences, SequencesExt, FiniteSets, TLC

CONSTANTS
  Replies,   \* the replies the server sends, in order (see Encode)
  MaxChunk   \* the most bytes one socket read delivers

Digits  == <<"0", "1", "2", "3">>
Markers == {"$", "*", "%", "~", ":", ",", "+", "-", "_", "#", "!", "=", ">", "("}
Bytes   == Markers \cup ToSet(Digits) \cup {"a", "b", "CR", "LF"}
CRLF    == <<"CR", "LF">>

-----------------------------------------------------------------------------
(* The reference: RESP3 encoding, aggregates and blob strings prefixed by  *)
(* their length.  A reply is [t, s, e]: its type, the bytes of a simple or *)
(* blob value, and the elements of an aggregate (a map's keys and values   *)
(* alternate).  nilblob and nilarray are the length -1 forms, nil by      *)
(* spec section 4.1; bignum is the RESP3 big number "(".                    *)

Num(n) == <<Digits[n + 1]>>

RECURSIVE Encode(_)
Encode(v) ==
  LET elems == FlattenSeq([i \in DOMAIN v.e |-> Encode(v.e[i])]) IN
  CASE v.t = "simple" -> <<"+">> \o v.s \o CRLF
    [] v.t = "error"  -> <<"-">> \o v.s \o CRLF
    [] v.t = "number" -> <<":">> \o v.s \o CRLF
    [] v.t = "bignum" -> <<"(">> \o v.s \o CRLF
    [] v.t = "null"   -> <<"_">> \o CRLF
    [] v.t = "nilblob"  -> <<"$", "-", "1">> \o CRLF
    [] v.t = "nilarray" -> <<"*", "-", "1">> \o CRLF
    [] v.t = "blob"   -> <<"$">> \o Num(Len(v.s)) \o CRLF \o v.s \o CRLF
    [] v.t = "array"  -> <<"*">> \o Num(Len(v.e)) \o CRLF \o elems
    [] v.t = "map"    -> <<"%">> \o Num(Len(v.e) \div 2) \o CRLF \o elems

Encoded == [i \in DOMAIN Replies |-> Encode(Replies[i])]
Wire    == FlattenSeq(Encoded)

-----------------------------------------------------------------------------
(* BufferDecoder.  A result is Ok(Some(pos)), Ok(None) or Err.             *)

Res(st, p, n) == [st |-> st, pos |-> p, n |-> n]
Incomplete    == Res("none", 0, 0)
Malformed     == Res("err", 0, 0)
Found(p)      == Res("ok", p, 0)

\* next_crlf: the first CR at or after p; a frame end only if LF follows it
NextCrlf(b, p) ==
  LET crs == {i \in p..Len(b) - 1 : b[i + 1] = "CR"}
      q   == Min(crs)
  IN  IF crs = {} THEN Incomplete
      ELSE IF Len(b) > q + 1 /\ b[q + 2] = "LF" THEN Found(q + 2)
      ELSE Incomplete

\* Mutant: the payload line is not scanned.
SizedStringOneLine(b, p) == NextCrlf(b, p)

\* sized_string: two line ends, the declared length is not used
SizedString(b, p) ==
  LET first == NextCrlf(b, p) IN
  IF first.st # "ok" THEN first ELSE NextCrlf(b, first.pos)

\* str.parse::<usize>(): an optional '+' and at least one digit
DigitValue(d) == CHOOSE i \in DOMAIN Digits : Digits[i] = d
ParseUsize(sl) ==
  LET ds == IF sl # <<>> /\ sl[1] = "+" THEN Tail(sl) ELSE sl IN
  IF ds # <<>> /\ \A i \in DOMAIN ds : ds[i] \in ToSet(Digits)
  THEN FoldLeft(LAMBDA acc, d : acc * 10 + DigitValue(d) - 1, 0, ds)
  ELSE -1

\* size: the count of an aggregate up to the line end
Size(b, p) ==
  LET c == NextCrlf(b, p)
      n == ParseUsize(SubSeq(b, p + 1, c.pos - 2))
  IN  IF c.st # "ok" THEN c
      ELSE IF n < 0 THEN Malformed
      ELSE Res("ok", c.pos, n)

RECURSIVE Decode(_, _), DecodeN(_, _, _)

\* Mutant: the loop reads one element more than the size.
DecodeNExtra(b, p, n) ==
  IF n < 0 THEN Found(p)
  ELSE LET d == Decode(b, p) IN
       IF d.st # "ok" THEN d ELSE DecodeN(b, d.pos, n - 1)

\* the loops of array and map: n frames one after the other
DecodeN(b, p, n) ==
  IF n = 0 THEN Found(p)
  ELSE LET d == Decode(b, p) IN
       IF d.st # "ok" THEN d ELSE DecodeN(b, d.pos, n - 1)

Array(b, p) ==
  LET sz == Size(b, p) IN IF sz.st # "ok" THEN sz ELSE DecodeN(b, sz.pos, sz.n)

Map(b, p) ==
  LET sz == Size(b, p) IN IF sz.st # "ok" THEN sz ELSE DecodeN(b, sz.pos, sz.n * 2)

\* Mutant: the map arm is missing.
DecodeNoMap(b, p) ==
  IF Len(b) <= p THEN Incomplete
  ELSE LET fb == b[p + 1] IN
       CASE fb \in {"$", "!", "="}                -> SizedString(b, p + 1)
         [] fb \in {"*", "~", ">"}                -> Array(b, p + 1)
         [] fb \in {":", ",", "+", "-", "_", "#"} -> NextCrlf(b, p + 1)
         [] OTHER                                 -> Malformed

\* decode: dispatch on the type byte; an unknown one is an error
Decode(b, p) ==
  IF Len(b) <= p THEN Incomplete
  ELSE LET fb == b[p + 1] IN
       CASE fb \in {"$", "!", "="}                -> SizedString(b, p + 1)
         [] fb \in {"*", "~", ">"}                -> Array(b, p + 1)
         [] fb = "%"                              -> Map(b, p + 1)
         [] fb \in {":", ",", "+", "-", "_", "#"} -> NextCrlf(b, p + 1)
         [] OTHER                                 -> Malformed

-----------------------------------------------------------------------------
(* The connection's read side.  The bytes read from the socket and not yet *)
(* split off as frames are always the segment consumed+1..received of the  *)
(* server's byte stream, so the buffer is kept as these two positions and  *)
(* decode's answer for every segment is computed once.                     *)

VARIABLES
  received,  \* bytes of Wire read from the socket so far
  consumed,  \* bytes of Wire split off the buffer as frames so far
  readable,  \* FramedRead's is_readable: decode may find a frame in buf
  frames,    \* frames returned by Decoder::decode, in order
  status     \* "open", or "error" once decode returned Err

vars == <<received, consumed, readable, frames, status>>

buf == SubSeq(Wire, consumed + 1, received)

DecodeAt == [c \in 0..Len(Wire), r \in 0..Len(Wire) |->
               IF c <= r THEN Decode(SubSeq(Wire, c + 1, r), 0) ELSE Incomplete]

Decoded == DecodeAt[consumed, received]

Init ==
  /\ received = 0
  /\ consumed = 0
  /\ readable = FALSE
  /\ frames = <<>>
  /\ status = "open"

\* A socket read appends a chunk of any size to the buffer.
Receive ==
  /\ status = "open"
  /\ ~readable
  /\ \E k \in 1..MaxChunk :
       /\ received + k <= Len(Wire)
       /\ received' = received + k
  /\ readable' = TRUE
  /\ UNCHANGED <<consumed, frames, status>>

\* Mutant: the buffer advanced one byte past the frame.
DecodeFrameAdvancePast ==
  /\ status = "open"
  /\ readable
  /\ Decoded.st = "ok"
  /\ frames' = Append(frames, SubSeq(buf, 1, Decoded.pos))
  /\ consumed' = consumed + Decoded.pos + 1
  /\ UNCHANGED <<received, readable, status>>

\* Decoder::decode returns Some(pos): the frame buf[..pos] is split off.
DecodeFrame ==
  /\ status = "open"
  /\ readable
  /\ Decoded.st = "ok"
  /\ frames' = Append(frames, SubSeq(buf, 1, Decoded.pos))
  /\ consumed' = consumed + Decoded.pos
  /\ UNCHANGED <<received, readable, status>>

\* Decoder::decode returns None: FramedRead reads more bytes.
DecodeIncomplete ==
  /\ status = "open"
  /\ readable
  /\ Decoded.st = "none"
  /\ readable' = FALSE
  /\ UNCHANGED <<received, consumed, frames, status>>

\* Decoder::decode returns Err: the stream yields the error and ends.
DecodeError ==
  /\ status = "open"
  /\ readable
  /\ Decoded.st = "err"
  /\ status' = "error"
  /\ UNCHANGED <<received, consumed, readable, frames>>

\* Nothing left to read: the connection waits for the server.
Idle ==
  /\ (status = "error" \/ (~readable /\ received = Len(Wire)))
  /\ UNCHANGED vars

Next == Receive \/ DecodeFrame \/ DecodeIncomplete \/ DecodeError \/ Idle

\* The socket delivers the server's bytes and FramedRead keeps polling.
Spec == Init /\ [][Next]_vars /\ WF_vars(Receive)
          /\ WF_vars(DecodeFrame \/ DecodeIncomplete \/ DecodeError)

-----------------------------------------------------------------------------
(* Properties.                                                             *)

TypeOK ==
  /\ consumed \in 0..Len(Wire) /\ received \in consumed..Len(Wire)
  /\ readable \in BOOLEAN
  /\ frames \in Seq(Seq(Bytes))
  /\ status \in {"open", "error"}

\* Every frame the decoder returns is exactly the encoding of the reply the
\* server sent at that position: decode's line-end scanning cuts the byte
\* stream where the length-prefixed RESP3 encoding ends, for every chunking.
FramesAreReplies ==
  /\ Len(frames) <= Len(Replies)
  /\ \A i \in DOMAIN frames : frames[i] = Encoded[i]

\* The RESP3 types decode has a match arm for; the replies sent before the
\* first reply of another type.
DecodedTypes == {"simple", "error", "number", "null", "nilblob", "nilarray",
                 "blob", "array", "map"}
RECURSIVE AllDecodable(_)
AllDecodable(v) == v.t \in DecodedTypes /\ \A i \in DOMAIN v.e : AllDecodable(v.e[i])
Supported ==
  LET bad == {i \in DOMAIN Replies : ~AllDecodable(Replies[i])}
  IN  IF bad = {} THEN Len(Replies) ELSE Min(bad) - 1

\* decode fails only once the stream reaches a reply of a type it has no
\* match arm for: every reply before it was framed, whatever the chunking.
ErrorOnlyAtUnsupported == status = "error" => Len(frames) = Supported

\* Every reply sent before the first unsupported one is eventually returned
\* as a frame: decode neither errors nor keeps answering None once all of a
\* reply's bytes arrived.
AllRepliesFramed == <>(Len(frames) = Supported)

=============================================================================
