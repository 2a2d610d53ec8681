----------------------- MODULE MC_FramingCrlfPayload ------------------------
EXTENDS RespFraming

V(t, s, e) == [t |-> t, s |-> s, e |-> e]

\* GET of a value holding a line break ($3 a CR LF), then +a
MCReplies ==
  << V("blob", <<"a", "CR", "LF">>, <<>>),
     V("simple", <<"a">>, <<>>) >>
=============================================================================
