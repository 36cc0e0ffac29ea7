----------------------------- MODULE AppDispatch -----------------------------
(***************************************************************************)
(* src/wsbuilder/app.py: the path of a request through App.dispatch (the   *)
(* security check, routing, the response cache, the handler, the store of  *)
(* its response), and src/wsbuilder/caches.py: ViewResponseCache.          *)
(*                                                                         *)
(* Connections run dispatch() in threads of their own, so between the miss *)
(* of fetch(), the handler and store_response() other requests, changes of *)
(* the data behind the views and invalidations run.  The store keeps the   *)
(* promise of CacheContract and no more: it may forget any entry, for its  *)
(* limits, for its age, or because it is closed.                           *)
(*                                                                         *)
(* A request is a method, a path, who sends it (Authorization or Cookie;   *)
(* "none" is neither), a language its handler may look at, and whether it  *)
(* says Cache-Control: no-cache.                                           *)
(***************************************************************************)
EXTENDS Naturals, Sequences, FiniteSets, FiniteSetsExt, Functions

CONSTANTS Slots,       \* threads that dispatch
          Requests,    \* the requests that may come: method, path, user, lang, nocache
          Routes,      \* the routing table, in the order of registration
          Paths,       \* paths that are asked for
          MaxVersion,  \* bound: changes of the data
          MaxRequests  \* bound: requests

ASSUME DispatchAssumption ==
    /\ MaxVersion \in Nat /\ MaxRequests \in Nat /\ Requests # {}
    /\ \A i \in DOMAIN Routes : Routes[i].path \in Paths
    /\ \A i \in DOMAIN Routes :
          /\ Routes[i].kind \in {"plain", "api"} /\ Routes[i].pool \in BOOLEAN
          /\ Routes[i].cache \in {"unset", "off", "on"}
          /\ {Routes[i].ttl, Routes[i].private, Routes[i].varies} \subseteq BOOLEAN

Anyone == "anyone"

VARIABLES
    rules,     \* there is a global rule that matches everything
    open,      \* the store of the responses is open
    content,   \* key -> response, partial: the store
    data,      \* [Paths -> version]: what the handlers of a path show
    pc,        \* [Slots -> step of dispatch]
    request,   \* [Slots -> request]
    evaluated, \* [Slots -> BOOLEAN]: request.security_evaluated
    response,  \* [Slots -> response]: what the handler or the cache gave
    asked,     \* history: times the policy was asked, per slot
    late,      \* history: the data was invalidated under this response
    promised,  \* history: [Paths -> version the last invalidation promises]
    served,    \* requests so far
    changes    \* changes of the data so far

vars == <<rules, open, content, data, pc, request, evaluated, response, asked, late, promised, served,
          changes>>
perSlot == <<request, evaluated, response, asked, late>>

Idle == CHOOSE q \in Requests : TRUE    \* a slot without a request
NoResponse == [user |-> Anyone, lang |-> Anyone, ver |-> 0, kind |-> "none", path |-> Anyone]

Init ==
    /\ rules \in BOOLEAN /\ open = TRUE
    /\ content = [k \in {} |-> NoResponse]
    /\ data = [p \in Paths |-> 0] /\ promised = data
    /\ pc = [s \in Slots |-> "free"]
    /\ request = [s \in Slots |-> Idle]
    /\ evaluated = [s \in Slots |-> FALSE]
    /\ response = [s \in Slots |-> NoResponse]
    /\ asked = [s \in Slots |-> 0]
    /\ late = [s \in Slots |-> FALSE]
    /\ served = 0 /\ changes = 0

-----------------------------------------------------------------------------
(* Router.                                                                 *)

With(path, method) ==
    {i \in DOMAIN Routes : Routes[i].path = path /\ method \in Routes[i].methods}

\* The first route of the path that has the method; a HEAD may use a GET.
Candidates(path, method) ==
    IF method = "HEAD" /\ With(path, "HEAD") = {} THEN With(path, "GET") ELSE With(path, method)

Resolve(q) == LET found == Candidates(q.path, q.method)
              IN  IF found = {} THEN <<>> ELSE <<Routes[Min(found)]>>

Known(path) == \E i \in DOMAIN Routes : Routes[i].path = path

-----------------------------------------------------------------------------
(* What may be cached, and under which key.                                *)

\* Fault: credentials do not keep a request out of the shared cache.
IgnoresCredentials(q, rt) == ~q.nocache

RequestAllowsCache(q, rt) ==
    /\ ~q.nocache
    /\ q.user = "none" \/ rt.private

AllowsLookup(q, rt) ==
    /\ rt.kind = "plain" /\ q.method \in {"GET", "HEAD"}
    /\ rt.cache # "off"
    /\ RequestAllowsCache(q, rt)
    /\ rt.cache = "on" \/ rules

HasTtl(rt) == rt.cache # "off" /\ (rt.ttl \/ rules)

CacheKey(q, rt) ==
    <<q.method, q.path, IF rt.varies THEN q.lang ELSE Anyone, IF rt.private THEN q.user ELSE Anyone>>

\* A Vary header names what the response depends on: the key must cover it.
CoversVary(rsp, rt) == rsp.lang = Anyone \/ rt.varies

MayStore(q, rt, rsp) ==
    /\ rt.kind = "plain" /\ q.method \in {"GET", "HEAD"}
    /\ rsp.kind = "page"         \* no stream, 200, no cookie, no Cache-Control
    /\ rt.cache # "off"
    /\ RequestAllowsCache(q, rt)
    /\ CoversVary(rsp, rt)
    /\ HasTtl(rt)

-----------------------------------------------------------------------------
(* A request.                                                              *)

Arrive(s) ==
    /\ pc[s] = "free" /\ served < MaxRequests
    /\ \E q \in Requests : request' = [request EXCEPT ![s] = q]
    /\ pc' = [pc EXCEPT ![s] = "arrived"]
    /\ served' = served + 1
    /\ UNCHANGED <<evaluated, asked, late, response, rules, open, content, data, promised, changes>>

Shared == <<rules, open, content, data, promised, served, changes>>

\* security_response(): the verdict of the policy is an input.
SecurityResponse(s, next) ==
    /\ evaluated' = [evaluated EXCEPT ![s] = TRUE]
    /\ asked' = [asked EXCEPT ![s] = @ + 1]
    /\ \E allowed \in BOOLEAN : pc' = [pc EXCEPT ![s] = IF allowed THEN next ELSE "denied"]
    /\ UNCHANGED <<request, response, late>> /\ UNCHANGED Shared

\* The server asks with the head alone, before it reads the body; an
\* embedding that calls dispatch() itself does not.
CheckHead(s) == pc[s] = "arrived" /\ ~evaluated[s] /\ SecurityResponse(s, "arrived")

CheckInDispatch(s) == pc[s] = "arrived" /\ ~evaluated[s] /\ SecurityResponse(s, "routing")

EnterDispatch(s) ==
    /\ pc[s] = "arrived" /\ evaluated[s]
    /\ pc' = [pc EXCEPT ![s] = "routing"]
    /\ UNCHANGED perSlot /\ UNCHANGED Shared

Answer(s, rsp) ==
    /\ response' = [response EXCEPT ![s] = rsp]
    /\ pc' = [pc EXCEPT ![s] = "answered"]

Plain(kind) == [NoResponse EXCEPT !.kind = kind]

\* OPTIONS of a known path, 405 and 404 need no route.
RouteOrAnswer(s) ==
    /\ pc[s] = "routing"
    /\ IF Resolve(request[s]) # <<>>
       THEN pc' = [pc EXCEPT ![s] = "lookup"] /\ UNCHANGED response
       ELSE Answer(s, Plain(IF ~Known(request[s].path) THEN "404"
                            ELSE IF request[s].method = "OPTIONS" THEN "options" ELSE "405"))
    /\ UNCHANGED <<request, evaluated, asked, late>> /\ UNCHANGED Shared

RouteOf(s) == Resolve(request[s])[1]

\* fetch(): a hit is the answer; a miss, or a closed store, goes on.
Fetch(s) ==
    /\ pc[s] = "lookup"
    /\ LET k == CacheKey(request[s], RouteOf(s))
       IN  IF AllowsLookup(request[s], RouteOf(s)) /\ open /\ k \in DOMAIN content
           THEN Answer(s, content[k].rsp)
           ELSE pc' = [pc EXCEPT ![s] = "handling"] /\ UNCHANGED response
    /\ UNCHANGED <<request, evaluated, asked, late>> /\ UNCHANGED Shared

\* The handler, in its own thread or in a worker of the route.  It shows the
\* data as it is now, and may look at who asks and at the language; it says
\* so in Vary.  A worker may be missing, be late or fail.
Handle(s) ==
    /\ pc[s] = "handling"
    /\ \/ \E kind \in {"page", "unfit"}, personal, speaks \in BOOLEAN :
             /\ kind = "unfit" => ~personal /\ ~speaks   \* it makes no difference then
             /\ response' = [response EXCEPT ![s] =
                   [user |-> IF personal THEN request[s].user ELSE Anyone,
                    lang |-> IF speaks THEN request[s].lang ELSE Anyone,
                    ver |-> data[request[s].path], kind |-> kind, path |-> request[s].path]]
             /\ pc' = [pc EXCEPT ![s] = "storing"]
       \/ Answer(s, Plain("500"))
       \/ RouteOf(s).pool /\ \E kind \in {"503", "504"} : Answer(s, Plain(kind))
    /\ UNCHANGED <<request, evaluated, asked, late>> /\ UNCHANGED Shared

\* store_response(), then the headers that are this client's alone: the
\* thread that served it and its affinity cookie.
StoreAndFinish(s) ==
    /\ pc[s] = "storing"
    /\ LET q   == request[s]
           rsp == response[s]
           row == [rsp |-> rsp, late |-> late[s]]
           k   == CacheKey(q, RouteOf(s))
       IN  content' = IF open /\ MayStore(q, RouteOf(s), rsp)
                      THEN [i \in DOMAIN content \cup {k} |-> IF i = k THEN row ELSE content[i]]
                      ELSE content
    /\ pc' = [pc EXCEPT ![s] = "answered"]
    /\ UNCHANGED perSlot /\ UNCHANGED <<rules, open, data, promised, served, changes>>

Leave(s) ==
    /\ pc[s] \in {"answered", "denied"}
    /\ pc' = [pc EXCEPT ![s] = "free"]
    /\ request' = [request EXCEPT ![s] = Idle]
    /\ evaluated' = [evaluated EXCEPT ![s] = FALSE]
    /\ response' = [response EXCEPT ![s] = NoResponse]
    /\ asked' = [asked EXCEPT ![s] = 0]
    /\ late' = [late EXCEPT ![s] = FALSE]
    /\ UNCHANGED Shared

-----------------------------------------------------------------------------
(* Around the requests.                                                    *)

\* The application changes what a view shows ...
ChangeData(p) ==
    /\ changes < MaxVersion /\ changes' = changes + 1
    /\ data' = [data EXCEPT ![p] = @ + 1]
    /\ UNCHANGED <<rules, open, content, pc, promised, served>> /\ UNCHANGED perSlot

\* The store drops what `gone' picks and promises the data of `paths'.
Invalidates(gone, paths) ==
    /\ open
    /\ content' = Restrict(content, DOMAIN content \ gone)
    /\ promised' = [p \in Paths |-> IF p \in paths THEN data[p] ELSE promised[p]]
    /\ late' = [s \in Slots |-> late[s] \/ (pc[s] = "storing" /\ request[s].path \in paths)]
    /\ UNCHANGED <<rules, open, data, pc, served, changes, request, evaluated, response, asked>>

\* Fault: only the entry of the GET goes.
TaggedGet(p) == {k \in DOMAIN content : k[1] = "GET" /\ k[2] = p}

Tagged(p) == {k \in DOMAIN content : k[2] = p}

\* ... and invalidates its path, or everything.
InvalidatePath(p) == Invalidates(Tagged(p), {p})
ClearCache == Invalidates(DOMAIN content, Paths)

\* CacheContract: an entry expires or is evicted.
ForgetEntry ==
    /\ \E k \in DOMAIN content : content' = Restrict(content, DOMAIN content \ {k})
    /\ UNCHANGED <<rules, open, data, pc, promised, served, changes>> /\ UNCHANGED perSlot

\* clear_global_rules() between a lookup and its store.
ClearRules ==
    /\ rules /\ rules' = FALSE
    /\ UNCHANGED <<open, content, data, pc, promised, served, changes>> /\ UNCHANGED perSlot

\* close() while requests run: the store raises from now on.
CloseApp ==
    /\ open /\ open' = FALSE
    /\ content' = Restrict(content, {})
    /\ UNCHANGED <<rules, data, pc, promised, served, changes>> /\ UNCHANGED perSlot

Step(s) == \/ Arrive(s) \/ CheckHead(s) \/ CheckInDispatch(s) \/ EnterDispatch(s)
           \/ RouteOrAnswer(s) \/ Fetch(s) \/ Handle(s) \/ StoreAndFinish(s) \/ Leave(s)

Next == \/ \E s \in Slots : Step(s)
        \/ \E p \in Paths : ChangeData(p) \/ InvalidatePath(p)
        \/ ClearCache \/ ForgetEntry \/ ClearRules \/ CloseApp

Spec == Init /\ [][Next]_vars

-----------------------------------------------------------------------------
(* Properties.                                                             *)

Places == {"free", "arrived", "denied", "routing", "lookup", "handling", "storing", "answered"}
Kinds == {"none", "page", "unfit", "options", "404", "405", "500", "503", "504"}
Responses == [user : {q.user : q \in Requests} \cup {Anyone},
              lang : {q.lang : q \in Requests} \cup {Anyone},
              ver : Nat, kind : Kinds, path : Paths \cup {Anyone}]

\* What is stored is a response fit for the cache, under its own path.
StoreTyped ==
    /\ content \in [DOMAIN content -> [rsp : Responses, late : BOOLEAN]]
    /\ \A k \in DOMAIN content :
          content[k].rsp.kind = "page" /\ content[k].rsp.path = k[2] /\ k[2] \in Paths

\* Every variable keeps its type.
TypeOK ==
    /\ StoreTyped
    /\ rules \in BOOLEAN /\ open \in BOOLEAN
    /\ request \in [Slots -> Requests] /\ pc \in [Slots -> Places]
    /\ response \in [Slots -> Responses] /\ asked \in [Slots -> Nat]
    /\ data \in [Paths -> Nat] /\ promised \in [Paths -> Nat]
    /\ evaluated \in [Slots -> BOOLEAN] /\ late \in [Slots -> BOOLEAN]
    /\ served \in Nat /\ changes \in Nat

\* Nobody is shown what was computed for someone else: an answer, from the
\* handler or from the cache, is for this path, and if it depends on who
\* asked or in which language, then on this request's.
AnswersAreOwn ==
    \A s \in Slots : pc[s] = "answered" =>
        /\ response[s].user \in {Anyone, request[s].user}
        /\ response[s].lang \in {Anyone, request[s].lang}
        /\ response[s].path \in {Anyone, request[s].path}

\* After invalidate_path() no entry of the path is older than the data it
\* was called with, except one that was already computed and on its way to
\* the store: that one is stored, and stays for its ttl.
InvalidationHolds ==
    \A k \in DOMAIN content :
        content[k].rsp.ver >= promised[content[k].rsp.path] \/ content[k].late

\* The policy is asked exactly once for a request that gets past it, whether
\* or not the server already asked with the head: nothing is counted twice
\* and nothing is routed unchecked.
CheckedOnce ==
    \A s \in Slots : pc[s] \notin {"free", "arrived"} => asked[s] = 1

\* A request is checked once and then answered with what is meant for it.
DispatchSound == TypeOK /\ CheckedOnce /\ AnswersAreOwn
=============================================================================
