---------------------------- MODULE MCAppDispatch ----------------------------
\* A private view with a POST beside it, and a view with a worker pool that
\* shows a language and leaves its caching to the rules.
EXTENDS AppDispatch, TLC

Rt(path, methods, kind, cache, ttl, private, varies, pool) ==
    [path |-> path, methods |-> methods, kind |-> kind, cache |-> cache, ttl |-> ttl,
     private |-> private, varies |-> varies, pool |-> pool]

MCRoutes == << Rt("/p", {"GET"}, "plain", "on", TRUE, TRUE, FALSE, FALSE),
               Rt("/p", {"POST"}, "plain", "off", FALSE, FALSE, FALSE, FALSE),
               Rt("/q", {"GET"}, "plain", "unset", FALSE, FALSE, TRUE, TRUE) >>

Asks(method, path, user, lang, nocache) ==
    [method |-> method, path |-> path, user |-> user, lang |-> lang, nocache |-> nocache]

MCRequests == {Asks("GET", "/p", u, "en", FALSE) : u \in {"none", "ann"}}
         \cup {Asks("HEAD", "/p", "ann", "en", FALSE)}
         \cup {Asks("GET", "/q", "none", l, FALSE) : l \in {"en", "es"}}
         \cup {Asks("GET", "/q", "ann", "en", FALSE)}
         \cup {Asks("GET", "/q", "none", "en", TRUE), Asks("POST", "/p", "ann", "en", FALSE),
               Asks("OPTIONS", "/p", "none", "en", FALSE),
               Asks("GET", "/none", "none", "en", FALSE)}
Symmetry == Permutations(Slots)
=============================================================================
