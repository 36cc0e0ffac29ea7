------------------------------- MODULE MCProxyI -------------------------------
\* A default rule with one target and a weighted rule with two; the weighted
\* one is built while requests run.
EXTENDS ProxyI, TLC
CONSTANTS t1, t2, t3

MCPlanned == <<<<t1>>, <<t2, t3>>>>
MCWeight == (t1 :> 1) @@ (t2 :> 2) @@ (t3 :> 1)
MCMode == <<"round_robin", "weighted">>
MCDefault == <<TRUE, FALSE>>
Symmetry == Permutations(Requests)
=============================================================================
