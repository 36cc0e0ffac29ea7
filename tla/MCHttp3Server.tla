--------------------------- MODULE MCHttp3Server ---------------------------
EXTENDS Http3Server, TLC
CONSTANTS c1, c2, s1, s2
Both == [s \in {s1, s2} |-> c1]
Req(kind, frames) == [kind |-> kind, frames |-> frames]
Ordinary ==
  {Req("plain", <<"headers", "data", "data", "headers">>), Req("plain", <<"headers", "data", "data", "data">>), Req("plain", <<"headers", "bad">>),
   Req("streamed", <<"headers">>), Req("head", <<"headers">>),
   Req("socket", <<"headers", "data">>), Req("socket", <<"headers", "huge">>)}
=============================================================================
