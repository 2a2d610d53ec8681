------------------------ MODULE MC_FramingWellFormed ------------------------
EXTENDS RespFraming

V(t, s, e) == [t |-> t, s |-> s, e |-> e]

\* +a, $2 ab, *2 [$1 a, :1], %1 {+a: -b}, _, then the big number (1 that
\* decode has no arm for
MCReplies ==
  << V("simple", <<"a">>, <<>>),
     V("blob", <<"a", "b">>, <<>>),
     V("array", <<>>, << V("blob", <<"a">>, <<>>), V("number", <<"1">>, <<>>) >>),
     V("map", <<>>, << V("simple", <<"a">>, <<>>), V("error", <<"b">>, <<>>) >>),
     V("null", <<>>, <<>>),
     V("bignum", <<"1">>, <<>>) >>
=============================================================================
