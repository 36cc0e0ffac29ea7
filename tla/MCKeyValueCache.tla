--------------------------- MODULE MCKeyValueCache ---------------------------
\* Two namespaces that share a key; caches limited by entries or by bytes.
EXTENDS KeyValueCache, TLC

MCIds == {<<"a", "x">>, <<"b", "x">>}
MCLimits == {<<1, 0>>, <<0, 2>>}
MCNone == None
MCTtls == {None, 0, 1}
Symmetry == Permutations(Threads)
=============================================================================
