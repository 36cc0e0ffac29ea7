--------------------------- MODULE AppAndDnsProofs ---------------------------
(***************************************************************************)
(* Theorems about AppDispatch, for every routing table, every set of       *)
(* requests and any number of threads that dispatch, and about DnsServer,  *)
(* for every set of records, datagrams and upstream servers, and a pool of *)
(* any size.  The two share no state.                                      *)
(***************************************************************************)
EXTENDS AppDispatch, DnsServer, FiniteSetTheorems, SequenceTheorems, WellFoundedInduction, TLAPS

\* A request that got past the router has a route, and what its handler gave
\* is about its path.
Routed == {"lookup", "handling", "storing"}
RoutedInv ==
    \A s \in Slots :
        /\ pc[s] \in Routed => Resolve(request[s]) # <<>>
        /\ pc[s] = "storing" => response[s].path = request[s].path

\* The policy was asked once it evaluated the request, and not before.
AskedInv ==
    \A s \in Slots :
        /\ pc[s] \in {"free", "arrived"} => asked[s] = IF evaluated[s] THEN 1 ELSE 0
        /\ pc[s] = "free" => ~evaluated[s]
        /\ pc[s] \notin {"free", "arrived"} => asked[s] = 1

\* What a response may depend on: only on what its request says.
Meant(rsp, q) ==
    /\ rsp.user \in {Anyone, q.user}
    /\ rsp.lang \in {Anyone, q.lang}
    /\ rsp.path \in {Anyone, q.path}

ResponseInv ==
    \A s \in Slots : pc[s] \in {"storing", "answered"} => Meant(response[s], request[s])

\* Every entry of the store was computed for a request that might be answered
\* from it: the key remembers what the response depends on.
StoredFor(k, q) ==
    LET rt == Resolve(q)[1]
    IN  /\ Resolve(q) # <<>>
        /\ k = CacheKey(q, rt)
        /\ RequestAllowsCache(q, rt)
        /\ Meant(content[k].rsp, q)
        /\ CoversVary(content[k].rsp, rt)
StoreInv == \A k \in DOMAIN content : \E q \in Requests : StoredFor(k, q)

SharingInv == AskedInv /\ ResponseInv /\ StoreInv

\* The data only grows, an invalidation promises what it is then, and a
\* response on its way to the store is as fresh as that or marked.
FreshInv ==
    /\ \A p \in Paths : promised[p] <= data[p]
    /\ \A s \in Slots : pc[s] = "storing" =>
          late[s] \/ response[s].ver >= promised[request[s].path]
    /\ InvalidationHolds

-----------------------------------------------------------------------------
\* Routes are found by method and path alone, and belong to known paths.
LEMMA RouteOfPath ==
    ASSUME NEW q \in Requests, Resolve(q) # <<>>
    PROVE  q.path \in Paths
  <1>1. PICK m : With(q.path, m) # {}
    BY DEF Resolve, Candidates
  <1>. QED
    BY <1>1, DispatchAssumption DEF With

\* A route is found by path and method alone.
LEMMA SameRoute ==
    ASSUME NEW q, NEW r, q.path = r.path, q.method = r.method
    PROVE  Resolve(q) = Resolve(r)
  BY DEF Resolve

\* A hit was computed for a request that says the same of all it depends on.
LEMMA HitIsMeant ==
    ASSUME NEW k \in DOMAIN content, NEW q \in Requests, NEW r \in Requests,
           StoredFor(k, r), RequestAllowsCache(q, Resolve(q)[1]),
           k = CacheKey(q, Resolve(q)[1])
    PROVE  Meant(content[k].rsp, q)
  <1> DEFINE rt == Resolve(q)[1]
  <1>1. q.path = r.path /\ q.method = r.method
    BY DEF StoredFor, CacheKey
  <1>2. Resolve(r)[1] = rt
    BY <1>1, SameRoute
  <1>3. rt.varies => q.lang = r.lang
    BY <1>2 DEF StoredFor, CacheKey
  <1>4. rt.private => q.user = r.user
    BY <1>2 DEF StoredFor, CacheKey
  <1>5. ~rt.private => q.user = "none" /\ r.user = "none"
    BY <1>2 DEF StoredFor, RequestAllowsCache
  <1>. QED
    BY <1>1, <1>2, <1>3, <1>4, <1>5 DEF StoredFor, CoversVary, Meant

-----------------------------------------------------------------------------
\* Every variable begins with its shape, and no request is routed yet.
LEMMA TypeInit == Init => TypeOK /\ RoutedInv
  <1> SUFFICES ASSUME Init PROVE TypeOK /\ RoutedInv
    OBVIOUS
  <1>1. Idle \in Requests
    BY DispatchAssumption DEF Idle
  <1>2. NoResponse \in Responses
    BY DispatchAssumption DEF NoResponse, Responses, Kinds
  <1>3. TypeOK
    BY <1>1, <1>2, DispatchAssumption DEF Init, TypeOK, StoreTyped, Places
  <1>. QED
    BY <1>3 DEF Init, RoutedInv, Routed

\* No step of a thread or of the cache breaks a shape, or handles a request
\* without a route.
LEMMA TypeStep == TypeOK /\ RoutedInv /\ [Next]_vars => TypeOK' /\ RoutedInv'
  <1> SUFFICES ASSUME TypeOK, RoutedInv, [Next]_vars PROVE TypeOK' /\ RoutedInv'
    OBVIOUS
  <1> USE DEF perSlot, Shared
  <1>0. /\ Idle \in Requests /\ NoResponse \in Responses
        /\ \A kind \in Kinds : Plain(kind) \in Responses
    BY DispatchAssumption DEF Idle, Plain, NoResponse, Responses, Kinds
  <1>a. ASSUME UNCHANGED content PROVE StoreTyped'
    BY <1>a DEF TypeOK, StoreTyped
  <1>1. ASSUME NEW s \in Slots, Arrive(s) PROVE TypeOK' /\ RoutedInv'
    <2>1. PICK q \in Requests : request' = [request EXCEPT ![s] = q]
      BY <1>1 DEF Arrive
    <2>. QED
      BY <1>a, <1>1, <2>1 DEF Arrive, TypeOK, Places, RoutedInv, Routed
  <1>2. ASSUME NEW s \in Slots, CheckHead(s) \/ CheckInDispatch(s) PROVE TypeOK' /\ RoutedInv'
    <2>1. PICK next \in {"arrived", "routing", "denied"} : pc' = [pc EXCEPT ![s] = next]
      BY <1>2 DEF CheckHead, CheckInDispatch, SecurityResponse
    <2>0. /\ evaluated' = [evaluated EXCEPT ![s] = TRUE] /\ asked' = [asked EXCEPT ![s] = @ + 1]
          /\ UNCHANGED <<request, response, late, rules, open, content, data, promised, served, changes>>
      BY <1>2 DEF CheckHead, CheckInDispatch, SecurityResponse
    <2>2. TypeOK'
      BY <1>a, <2>0, <2>1 DEF TypeOK, Places
    <2>3. RoutedInv'
      BY <1>2, <2>1 DEF CheckHead, CheckInDispatch, SecurityResponse, TypeOK, RoutedInv, Routed
    <2>. QED
      BY <2>2, <2>3
  <1>3. ASSUME NEW s \in Slots, EnterDispatch(s) PROVE TypeOK' /\ RoutedInv'
    BY <1>a, <1>3 DEF EnterDispatch, TypeOK, Places, RoutedInv, Routed
  <1>4. ASSUME NEW s \in Slots, RouteOrAnswer(s) PROVE TypeOK' /\ RoutedInv'
    <2>1. CASE Resolve(request[s]) # <<>>
      BY <1>a, <1>4, <2>1 DEF RouteOrAnswer, TypeOK, Places, RoutedInv, Routed
    <2>2. CASE Resolve(request[s]) = <<>>
      <3>1. PICK kind \in Kinds : Answer(s, Plain(kind))
        BY <1>4, <2>2 DEF RouteOrAnswer, Kinds
      <3>. QED
        BY <1>a, <1>0, <1>4, <2>2, <3>1 DEF RouteOrAnswer, Answer, TypeOK, Places, RoutedInv, Routed
    <2>. QED
      BY <2>1, <2>2
  <1>5. ASSUME NEW s \in Slots, Fetch(s) PROVE TypeOK' /\ RoutedInv'
    <2>1. CASE pc' = [pc EXCEPT ![s] = "handling"] /\ UNCHANGED response
      BY <1>a, <1>5, <2>1 DEF Fetch, TypeOK, Places, RoutedInv, Routed
    <2>2. ASSUME NEW k \in DOMAIN content, Answer(s, content[k].rsp)
          PROVE  TypeOK' /\ RoutedInv'
      <3>1. content[k].rsp \in Responses
        BY DEF TypeOK, StoreTyped
      <3>. QED
        BY <1>a, <1>5, <2>2, <3>1 DEF Fetch, Answer, TypeOK, Places, RoutedInv, Routed
    <2>. QED
      BY <1>5, <2>1, <2>2 DEF Fetch
  <1>6. ASSUME NEW s \in Slots, Handle(s) PROVE TypeOK' /\ RoutedInv'
    <2> DEFINE q == request[s]
               Shown(kind, user, lang) == [user |-> user, lang |-> lang, ver |-> data[q.path],
                                           kind |-> kind, path |-> q.path]
    <2>1. q \in Requests /\ pc[s] = "handling" /\ Resolve(q) # <<>> /\ q.path \in Paths
      BY <1>6, RouteOfPath DEF Handle, TypeOK, RoutedInv, Routed
    <2>2. ASSUME NEW kind \in {"page", "unfit"}, NEW personal \in BOOLEAN, NEW speaks \in BOOLEAN,
                 response' = [response EXCEPT ![s] =
                    Shown(kind, IF personal THEN q.user ELSE Anyone, IF speaks THEN q.lang ELSE Anyone)],
                 pc' = [pc EXCEPT ![s] = "storing"]
          PROVE  TypeOK' /\ RoutedInv'
      <3>1. Shown(kind, IF personal THEN q.user ELSE Anyone, IF speaks THEN q.lang ELSE Anyone)
              \in Responses
        BY <2>1 DEF TypeOK, Responses, Kinds
      <3>. QED
        BY <1>a, <1>6, <2>1, <2>2, <3>1 DEF Handle, TypeOK, Places, RoutedInv, Routed
    <2>3. ASSUME NEW kind \in Kinds, Answer(s, Plain(kind)) PROVE TypeOK' /\ RoutedInv'
      BY <1>a, <1>0, <1>6, <2>3 DEF Handle, Answer, TypeOK, Places, RoutedInv, Routed
    <2>. QED
      BY <1>6, <2>2, <2>3 DEF Handle, Kinds
  <1>7. ASSUME NEW s \in Slots, StoreAndFinish(s) PROVE TypeOK' /\ RoutedInv'
    <2> DEFINE row == [rsp |-> response[s], late |-> late[s]]
               k == CacheKey(request[s], RouteOf(s))
    <2>1. row \in [rsp : Responses, late : BOOLEAN]
      BY DEF TypeOK
    <2>2. pc[s] = "storing" /\ k[2] = row.rsp.path /\ k[2] \in Paths
      BY <1>7, RouteOfPath DEF StoreAndFinish, CacheKey, RoutedInv, Routed, TypeOK
    <2>3. \/ content' = content
          \/ /\ content' = [i \in DOMAIN content \cup {k} |-> IF i = k THEN row ELSE content[i]]
             /\ row.rsp.kind = "page"
      BY <1>7 DEF StoreAndFinish, MayStore
    <2>4. /\ content' \in [DOMAIN content' -> [rsp : Responses, late : BOOLEAN]]
          /\ \A i \in DOMAIN content' :
               content'[i].rsp.kind = "page" /\ content'[i].rsp.path = i[2] /\ i[2] \in Paths
      BY <2>1, <2>2, <2>3 DEF TypeOK, StoreTyped
    <2>5. /\ pc' = [pc EXCEPT ![s] = "answered"]
          /\ UNCHANGED perSlot /\ UNCHANGED <<rules, open, data, promised, served, changes>>
      BY <1>7 DEF StoreAndFinish
    <2>. QED
      BY <2>4, <2>5 DEF TypeOK, StoreTyped, Places, RoutedInv, Routed
  <1>8. ASSUME NEW s \in Slots, Leave(s) PROVE TypeOK' /\ RoutedInv'
    BY <1>a, <1>0, <1>8 DEF Leave, TypeOK, Places, RoutedInv, Routed
  <1>9. ASSUME NEW p \in Paths, ChangeData(p) PROVE TypeOK' /\ RoutedInv'
    BY <1>a, <1>9 DEF ChangeData, TypeOK, RoutedInv, Routed
  <1>10. ASSUME NEW gone, NEW paths, Invalidates(gone, paths) PROVE TypeOK' /\ RoutedInv'
    BY <1>10 DEF Invalidates, TypeOK, StoreTyped, Restrict, RoutedInv, Routed
  <1>11. ASSUME ForgetEntry \/ ClearRules \/ CloseApp PROVE TypeOK' /\ RoutedInv'
    BY <1>11 DEF ForgetEntry, ClearRules, CloseApp, TypeOK, StoreTyped, Restrict, RoutedInv, Routed
  <1>12. CASE UNCHANGED vars
    BY <1>a, <1>12 DEF vars, TypeOK, RoutedInv, Routed
  <1>. QED
    BY <1>1, <1>2, <1>3, <1>4, <1>5, <1>6, <1>7, <1>8, <1>9, <1>10, <1>11, <1>12
       DEF Next, Step, InvalidatePath, ClearCache

-----------------------------------------------------------------------------
\* Before the first request nothing is stored or answered.
LEMMA SharingInit == Init => SharingInv
  BY DEF Init, SharingInv, AskedInv, ResponseInv, StoreInv

\* dispatch() asks the policy on the way in and nowhere else.
LEMMA AskedStep == TypeOK /\ AskedInv /\ [Next]_vars => AskedInv'
  <1> SUFFICES ASSUME TypeOK, AskedInv, [Next]_vars PROVE AskedInv'
    OBVIOUS
  <1> USE DEF perSlot, Shared, AskedInv, TypeOK
  <1>1. ASSUME NEW s \in Slots, CheckHead(s) \/ CheckInDispatch(s) PROVE AskedInv'
    <2>1. PICK next \in {"arrived", "routing", "denied"} : pc' = [pc EXCEPT ![s] = next]
      BY <1>1 DEF CheckHead, CheckInDispatch, SecurityResponse
    <2>. QED
      BY <1>1, <2>1 DEF CheckHead, CheckInDispatch, SecurityResponse
  <1>2. ASSUME NEW s \in Slots, Arrive(s) \/ EnterDispatch(s) \/ Leave(s) PROVE AskedInv'
    BY <1>2 DEF Arrive, EnterDispatch, Leave
  <1>3. ASSUME NEW s \in Slots,
               RouteOrAnswer(s) \/ Fetch(s) \/ Handle(s) \/ StoreAndFinish(s)
        PROVE  AskedInv'
    <2>1. /\ pc[s] \notin {"free", "arrived"}
          /\ \E next \in Places \ {"free", "arrived"} : pc' = [pc EXCEPT ![s] = next]
          /\ UNCHANGED <<asked, evaluated>>
      BY <1>3 DEF RouteOrAnswer, Fetch, Handle, StoreAndFinish, Answer, Places
    <2>. QED
      BY <2>1
  <1>4. ASSUME UNCHANGED <<pc, asked, evaluated>> PROVE AskedInv'
    BY <1>4
  <1>. QED
    BY <1>1, <1>2, <1>3, <1>4
       DEF Next, Step, ChangeData, InvalidatePath, ClearCache, Invalidates, ForgetEntry,
           ClearRules, CloseApp, vars

\* Answers stay those of their request, and the store gains entries only from
\* requests that might be answered from them.
LEMMA ResponseStep ==
    TypeOK /\ RoutedInv /\ ResponseInv /\ StoreInv /\ [Next]_vars => ResponseInv' /\ StoreInv'
  <1> SUFFICES ASSUME TypeOK, RoutedInv, ResponseInv, StoreInv, [Next]_vars
               PROVE  ResponseInv' /\ StoreInv'
    OBVIOUS
  <1> USE DEF perSlot, Shared
  <1>a. ASSUME DOMAIN content' \subseteq DOMAIN content,
               \A k \in DOMAIN content' : content'[k] = content[k]
        PROVE  StoreInv'
    BY <1>a DEF StoreInv, StoredFor
  <1>b. ASSUME UNCHANGED <<pc, request, response>> PROVE ResponseInv'
    BY <1>b DEF ResponseInv
  <1>1. ASSUME NEW s \in Slots,
               Arrive(s) \/ CheckHead(s) \/ CheckInDispatch(s) \/ EnterDispatch(s)
        PROVE  ResponseInv' /\ StoreInv'
    <2>1. /\ pc' \in [Slots -> Places] /\ pc'[s] \notin {"storing", "answered"}
          /\ UNCHANGED <<content, response>>
          /\ \A i \in Slots \ {s} : pc'[i] = pc[i] /\ request'[i] = request[i]
      BY <1>1 DEF Arrive, CheckHead, CheckInDispatch, SecurityResponse, EnterDispatch, TypeOK, Places
    <2>. QED
      BY <1>a, <2>1 DEF ResponseInv
  <1>2. ASSUME NEW s \in Slots, RouteOrAnswer(s) PROVE ResponseInv' /\ StoreInv'
    <2>1. CASE pc' = [pc EXCEPT ![s] = "lookup"] /\ UNCHANGED response
      BY <1>2, <1>a, <2>1 DEF RouteOrAnswer, ResponseInv, TypeOK
    <2>2. ASSUME NEW kind, Answer(s, Plain(kind)) PROVE ResponseInv' /\ StoreInv'
      BY <1>2, <1>a, <2>2 DEF RouteOrAnswer, Answer, Plain, NoResponse, Meant, ResponseInv, TypeOK
    <2>. QED
      BY <1>2, <2>1, <2>2 DEF RouteOrAnswer
  <1>3. ASSUME NEW s \in Slots, Fetch(s) PROVE ResponseInv' /\ StoreInv'
    <2> DEFINE q == request[s]
               k == CacheKey(q, RouteOf(s))
    <2>1. CASE pc' = [pc EXCEPT ![s] = "handling"] /\ UNCHANGED response
      BY <1>3, <1>a, <2>1 DEF Fetch, ResponseInv, TypeOK
    <2>2. CASE AllowsLookup(q, RouteOf(s)) /\ k \in DOMAIN content /\ Answer(s, content[k].rsp)
      <3>1. PICK r \in Requests : StoredFor(k, r)
        BY <2>2 DEF StoreInv
      <3>2. Meant(content[k].rsp, q)
        BY <2>2, <3>1, HitIsMeant DEF AllowsLookup, RouteOf, TypeOK
      <3>. QED
        BY <1>3, <1>a, <2>2, <3>2 DEF Fetch, Answer, ResponseInv, TypeOK
    <2>. QED
      BY <1>3, <2>1, <2>2 DEF Fetch
  <1>4. ASSUME NEW s \in Slots, Handle(s) PROVE ResponseInv' /\ StoreInv'
    <2>1. \E rsp : /\ response' = [response EXCEPT ![s] = rsp] /\ Meant(rsp, request[s])
                   /\ \E next : pc' = [pc EXCEPT ![s] = next]
      BY <1>4 DEF Handle, Answer, Plain, NoResponse, Meant
    <2>. QED
      BY <1>4, <1>a, <2>1 DEF Handle, ResponseInv, TypeOK
  <1>5. ASSUME NEW s \in Slots, StoreAndFinish(s) PROVE ResponseInv' /\ StoreInv'
    <2> DEFINE q == request[s]
               rsp == response[s]
               k == CacheKey(q, RouteOf(s))
    <2>1. pc[s] = "storing" /\ Meant(rsp, q) /\ q \in Requests /\ Resolve(q) # <<>>
      BY <1>5 DEF StoreAndFinish, ResponseInv, RoutedInv, Routed, TypeOK
    <2>2. pc' = [pc EXCEPT ![s] = "answered"] /\ UNCHANGED <<request, response>>
      BY <1>5 DEF StoreAndFinish
    <2>3. ResponseInv'
      BY <2>1, <2>2 DEF ResponseInv, TypeOK
    <2>4. CASE UNCHANGED content
      BY <1>a, <2>3, <2>4
    <2>5. CASE content' # content
      <3>1. /\ content' = [i \in DOMAIN content \cup {k} |->
                             IF i = k THEN [rsp |-> rsp, late |-> late[s]] ELSE content[i]]
            /\ RequestAllowsCache(q, Resolve(q)[1]) /\ CoversVary(rsp, Resolve(q)[1])
        BY <1>5, <2>5 DEF StoreAndFinish, MayStore, RouteOf
      <3>2. StoredFor(k, q)'
        BY <2>1, <2>2, <3>1 DEF StoredFor, RouteOf
      <3>3. ASSUME NEW i \in DOMAIN content', i # k PROVE \E r \in Requests : StoredFor(i, r)'
        <4>1. i \in DOMAIN content /\ content'[i] = content[i]
          BY <3>1, <3>3
        <4>. QED
          BY <4>1 DEF StoreInv, StoredFor
      <3>4. k' = k /\ q' = q
        BY <2>2 DEF RouteOf
      <3>. QED
        BY <2>1, <2>3, <3>2, <3>3, <3>4 DEF StoreInv
    <2>. QED
      BY <2>4, <2>5
  <1>6. ASSUME NEW s \in Slots, Leave(s) PROVE ResponseInv' /\ StoreInv'
    BY <1>6, <1>a DEF Leave, ResponseInv, TypeOK
  <1>7. ASSUME NEW gone, NEW paths, Invalidates(gone, paths) PROVE ResponseInv' /\ StoreInv'
    BY <1>7, <1>a, <1>b DEF Invalidates, Restrict
  <1>8. ASSUME ForgetEntry \/ CloseApp PROVE ResponseInv' /\ StoreInv'
    BY <1>8, <1>a, <1>b DEF ForgetEntry, CloseApp, Restrict
  <1>9. ASSUME UNCHANGED <<content, pc, request, response>> PROVE ResponseInv' /\ StoreInv'
    BY <1>9, <1>a, <1>b
  <1>. QED
    BY <1>1, <1>2, <1>3, <1>4, <1>5, <1>6, <1>7, <1>8, <1>9
       DEF Next, Step, InvalidatePath, ClearCache, ChangeData, ClearRules, vars

\* Only a response that an invalidation overtook, and that is marked, is
\* stored older than it promised.
LEMMA FreshStep == TypeOK /\ RoutedInv /\ FreshInv /\ [Next]_vars => FreshInv'
  <1> SUFFICES ASSUME TypeOK, RoutedInv, FreshInv, [Next]_vars PROVE FreshInv'
    OBVIOUS
  <1> USE DEF perSlot, Shared
  <1>0. /\ \A p \in Paths : promised[p] \in Nat /\ data[p] \in Nat
        /\ \A k \in DOMAIN content : content[k].rsp.ver \in Nat /\ content[k].rsp.path \in Paths
    BY DEF TypeOK, StoreTyped, Responses
  <1>1. ASSUME NEW s \in Slots,
               Arrive(s) \/ CheckHead(s) \/ CheckInDispatch(s) \/ EnterDispatch(s)
                 \/ RouteOrAnswer(s) \/ Fetch(s) \/ Leave(s)
        PROVE  FreshInv'
    <2>1. /\ pc'[s] # "storing" /\ UNCHANGED <<content, data, promised>>
          /\ \A i \in Slots \ {s} : /\ pc'[i] = pc[i] /\ request'[i] = request[i]
                                    /\ response'[i] = response[i] /\ late'[i] = late[i]
      BY <1>1 DEF Arrive, CheckHead, CheckInDispatch, SecurityResponse, EnterDispatch,
                  RouteOrAnswer, Fetch, Leave, Answer, TypeOK
    <2>. QED
      BY <2>1 DEF FreshInv, InvalidationHolds
  <1>2. ASSUME NEW s \in Slots, Handle(s) PROVE FreshInv'
    <2>1. request[s].path \in Paths
      BY <1>2, RouteOfPath DEF Handle, TypeOK, RoutedInv, Routed
    <2>2. /\ pc'[s] = "storing" => response'[s].ver = data[request[s].path]
          /\ UNCHANGED <<content, data, promised, request, late>>
          /\ \A i \in Slots \ {s} : pc'[i] = pc[i] /\ response'[i] = response[i]
      BY <1>2 DEF Handle, Answer, TypeOK
    <2>. QED
      BY <1>0, <2>1, <2>2 DEF FreshInv, InvalidationHolds
  <1>3. ASSUME NEW s \in Slots, StoreAndFinish(s) PROVE FreshInv'
    <2>1. /\ pc[s] = "storing" /\ pc' = [pc EXCEPT ![s] = "answered"]
          /\ UNCHANGED <<request, response, late, data, promised>>
      BY <1>3 DEF StoreAndFinish
    <2>2. response[s].path = request[s].path
      BY <2>1 DEF RoutedInv
    <2>3. \A k \in DOMAIN content' :
             \/ content'[k].rsp = response[s] /\ content'[k].late = late[s]
             \/ k \in DOMAIN content /\ content'[k] = content[k]
      BY <1>3 DEF StoreAndFinish
    <2>. QED
      BY <2>1, <2>2, <2>3 DEF FreshInv, InvalidationHolds, TypeOK
  <1>4. ASSUME NEW p \in Paths, ChangeData(p) PROVE FreshInv'
    BY <1>0, <1>4 DEF ChangeData, FreshInv, InvalidationHolds, TypeOK
  <1>5. ASSUME NEW gone, NEW paths \in SUBSET Paths, Invalidates(gone, paths),
               \A k \in DOMAIN content : k[2] \in paths => k \in gone
        PROVE  FreshInv'
    <2>1. /\ \A k \in DOMAIN content' : /\ k \in DOMAIN content /\ content'[k] = content[k]
                                        /\ content[k].rsp.path \notin paths
          /\ \A p \in Paths : promised'[p] = IF p \in paths THEN data[p] ELSE promised[p]
          /\ UNCHANGED <<data, pc, request, response>>
          /\ \A s \in Slots : late'[s] = (late[s] \/ (pc[s] = "storing" /\ request[s].path \in paths))
      BY <1>5 DEF Invalidates, Restrict, TypeOK, StoreTyped
    <2>. QED
      <3>1. InvalidationHolds'
        BY <1>0, <2>1 DEF FreshInv, InvalidationHolds
      <3>2. ASSUME NEW s \in Slots, pc'[s] = "storing"
            PROVE  late'[s] \/ response'[s].ver >= promised'[request'[s].path]
        <4>1. request[s].path \in Paths
          BY <2>1, <3>2, RouteOfPath DEF RoutedInv, Routed, TypeOK
        <4>. QED
          BY <2>1, <3>2, <4>1 DEF FreshInv
      <3>. QED
        BY <1>0, <2>1, <3>1, <3>2 DEF FreshInv
  <1>6. ASSUME NEW p \in Paths, InvalidatePath(p) PROVE FreshInv'
    BY <1>5, <1>6 DEF InvalidatePath, Tagged
  <1>7. ASSUME ClearCache PROVE FreshInv'
    BY <1>5, <1>7 DEF ClearCache
  <1>8. ASSUME ForgetEntry \/ CloseApp PROVE FreshInv'
    BY <1>8 DEF ForgetEntry, CloseApp, Restrict, FreshInv, InvalidationHolds
  <1>9. ASSUME ClearRules \/ UNCHANGED vars PROVE FreshInv'
    BY <1>9 DEF ClearRules, vars, FreshInv, InvalidationHolds
  <1>. QED
    BY <1>1, <1>2, <1>3, <1>4, <1>6, <1>7, <1>8, <1>9 DEF Next, Step

-----------------------------------------------------------------------------
\* Shapes and routes are right in every reachable state.
LEMMA TypesInvariant == Spec => [](TypeOK /\ RoutedInv)
  BY TypeInit, TypeStep, PTL DEF Spec

\* What is stored and answered is meant for who gets it, in every reachable
\* state.
LEMMA SharingInvariant == Spec => []SharingInv
  <1>1. TypeOK /\ RoutedInv /\ SharingInv /\ [Next]_vars => SharingInv'
    BY AskedStep, ResponseStep DEF SharingInv
  <1>. QED
    BY <1>1, SharingInit, TypesInvariant, PTL DEF Spec

\* Every request is checked once, and answered, from the handler or from the
\* cache, with what was computed for someone who says the same of all that the
\* answer depends on (dispatch, ViewResponseCache).
THEOREM DispatchIsSound == Spec => []DispatchSound
  <1>1. TypeOK /\ SharingInv => DispatchSound
    BY DEF SharingInv, AskedInv, ResponseInv, Meant, DispatchSound, CheckedOnce, AnswersAreOwn
  <1>. QED
    BY <1>1, TypesInvariant, SharingInvariant, PTL

\* An invalidation leaves nothing older than the data it was called with,
\* except a response that was on its way to the store.
THEOREM InvalidationIsKept == Spec => []InvalidationHolds
  <1>1. Init => FreshInv
    BY DEF Init, FreshInv, InvalidationHolds
  <1>2. FreshInv => InvalidationHolds
    BY DEF FreshInv
  <1>. QED
    BY <1>1, <1>2, FreshStep, TypesInvariant, PTL DEF Spec

-----------------------------------------------------------------------------
(***************************************************************************)
(* DnsServer                                                               *)
(***************************************************************************)
\* What each part of the state may be, where the arguments below depend on it.
Stages == {"none", "admit", "reply", "take", "submit", "queued", "asking", "relay", "done",
           "ended", "gone"}
Bosses == {"down", "up", "stopping", "draining", "closing", "joining"}
Servers == {"none", "fresh", "opened", "top", "recv", "handling", "ended"}

DnsTypeInv ==
    /\ received \in Nat /\ pendingUpstream \in Nat /\ sock \in Nat /\ sockets \in Nat
    /\ stage \in [Ids -> Stages] /\ linked \in [Ids -> BOOLEAN] /\ home \in [Ids -> Nat]
    /\ DOMAIN reply = Ids /\ owed \subseteq Ids
    /\ boss \in Bosses /\ server \in Servers
    /\ pools \in Nat /\ executor \in 0..pools /\ leaving \in 0..pools /\ shut \subseteq 1..pools

\* A query the serving thread has in hand: it is the last one received, and it
\* is on its way to an answer, to the pool, or waits for its callback.
OnItsWay(i) ==
    \/ stage[i] \in {"admit", "reply", "take", "submit"}
    \/ stage[i] \in {"queued", "asking", "relay", "done"} /\ ~linked[i]
HandInv ==
    \A i \in Ids :
        /\ i > received => stage[i] = "none"
        /\ OnItsWay(i) => server = "handling" /\ i = received
        /\ stage[i] = "done" => ~linked[i]
        /\ stage[i] \in {"reply", "relay"} => reply[i].rcode # "none"

\* Whose executor a query waits in: the server's, the one close() has taken and
\* not yet shut, or, before it is submitted, one that was shut in between.
ExecutorInv ==
    /\ executor # 0 => executor \notin shut \cup {leaving}
    /\ leaving # 0 => boss = "draining"
    /\ \A i \in Ids :
          /\ stage[i] \in {"submit", "queued"} => home[i] # 0
          /\ stage[i] = "submit" => home[i] \in shut \cup {executor, leaving}
          /\ stage[i] = "queued" => home[i] \in {executor, leaving}

\* While an answer is owed the server has not been closed: its socket and its
\* executor are there, and the executor of a query that waits is not shut.
OwedInv ==
    /\ boss \notin {"draining", "closing"} /\ sock # 0 /\ server \in {"top", "recv", "handling"}
         => ~closed
    /\ server = "recv" => mine # 0
    /\ owed # {} => boss \in {"up", "down"} /\ ~closed /\ sock # 0
    /\ \A i \in owed :
          /\ stage[i] \notin {"none", "gone", "done", "ended"}
          /\ stage[i] = "submit" => home[i] \notin shut

\* What close() has given up by then, unless the thread had not reached its loop.
CloseInv ==
    ~hasty =>
        /\ boss # "up" => ~running /\ server \notin {"fresh", "opened"}
        /\ boss \in {"draining", "closing", "joining", "down"} =>
              executor = 0 /\ (closed \/ server = "none")
        /\ boss \in {"joining", "down"} => sock = 0

DnsInv == DnsTypeInv /\ HandInv /\ ExecutorInv /\ OwedInv /\ CloseInv /\ PendingExact

LEMMA IdsFinite == IsFiniteSet(Ids)
  <1>1. 1 \in Int /\ MaxQueries \in Int
    BY DnsConstants
  <1>. QED
    BY <1>1, FS_Interval DEF Ids

LEMMA NatMax ==
    ASSUME NEW a \in Int, NEW b \in Int
    PROVE  Max({a, b}) = IF a >= b THEN a ELSE b
  <1> DEFINE m == IF a >= b THEN a ELSE b
  <1>1. m \in {a, b} /\ \A y \in {a, b} : m >= y
    OBVIOUS
  <1>2. \A x : (x \in {a, b} /\ \A y \in {a, b} : x >= y) => x = m
    OBVIOUS
  <1>. QED
    BY <1>1, <1>2 DEF Max

\* How many places are taken, once one query is given a place or loses it, and
\* when none does.
LEMMA CountedSteps ==
    ASSUME DnsTypeInv, PendingExact, stage' \in [Ids -> Stages], NEW i \in Ids
    PROVE  /\ Counted' = Counted /\ pendingUpstream' = pendingUpstream => PendingExact'
           /\ Counted' = Counted \cup {i} /\ i \notin Counted
              /\ pendingUpstream < MaxPendingUpstream /\ pendingUpstream' = pendingUpstream + 1
                 => PendingExact'
           /\ Counted' = Counted \ {i} /\ i \in Counted
              /\ pendingUpstream' = Released(pendingUpstream) => PendingExact'
  <1>1. IsFiniteSet(Counted) /\ Cardinality(Counted) \in Nat
    BY IdsFinite, FS_Subset, FS_CardinalityType DEF Counted
  <1>2. i \in Counted => Cardinality(Counted) # 0
    BY <1>1, FS_EmptySet
  <1>3. i \notin Counted => Cardinality(Counted \cup {i}) = Cardinality(Counted) + 1
    BY <1>1, FS_AddElement
  <1>4. i \in Counted => Cardinality(Counted \ {i}) = Cardinality(Counted) - 1
    BY <1>1, FS_RemoveElement
  <1>5. pendingUpstream \in Nat /\ MaxPendingUpstream \in Nat
    BY DnsConstants DEF DnsTypeInv
  <1>6. pendingUpstream # 0 => Released(pendingUpstream) = pendingUpstream - 1
    BY <1>5, NatMax DEF Released
  <1>. QED
    BY <1>1, <1>2, <1>3, <1>4, <1>5, <1>6 DEF PendingExact

LEMMA CountedSame ==
    ASSUME DnsInv, UNCHANGED <<stage, pendingUpstream>>
    PROVE  PendingExact'
  BY DEF DnsInv, PendingExact, Counted

\* A response keeps its code when it is truncated; only what cannot be read gets
\* none.
LEMMA Coded ==
    /\ \A c, rows, aa, n : TruncateResponse(BuildResponse(c, rows, aa), n).rcode = c
    /\ \A n : TruncateResponse(ServFail, n).rcode = "SERVFAIL"
    /\ \A d : ~Unanswerable(d) => Prepared(d).rcode # "none"
  <1>1. ASSUME NEW c, NEW rows, NEW aa, NEW n
        PROVE  TruncateResponse(BuildResponse(c, rows, aa), n).rcode = c
    BY DEF BuildResponse, TruncateResponse
  <1>2. \A n : TruncateResponse(ServFail, n).rcode = "SERVFAIL"
    BY DEF ServFail, BuildResponse, TruncateResponse
  <1>3. ASSUME NEW d, ~Unanswerable(d) PROVE Prepared(d).rcode # "none"
    <2>1. BuildResponse("FORMERR", {}, FALSE).rcode = "FORMERR"
      BY DEF BuildResponse
    <2>2. TruncateResponse(LocalResponse(d), ResponseLimit(d)).rcode \in {"NOERROR", "NXDOMAIN"}
      BY DEF LocalResponse, BuildResponse, TruncateResponse
    <2>3. TruncateResponse(BuildResponse("NOTIMP", {}, FALSE), ResponseLimit(d)).rcode = "NOTIMP"
      BY DEF BuildResponse, TruncateResponse
    <2>. QED
      BY <1>3, <2>1, <2>2, <2>3 DEF Prepared
  <1>. QED
    BY <1>1, <1>2, <1>3

\* The server that was just made.
LEMMA DnsInitOK == DnsInit => DnsInv
  <1> SUFFICES ASSUME DnsInit PROVE DnsInv
    OBVIOUS
  <1> USE DEF DnsInit
  <1>1. DnsTypeInv
    BY DEF DnsTypeInv, Stages, Bosses, Servers
  <1>2. HandInv
    BY DEF HandInv, OnItsWay
  <1>3. ExecutorInv /\ OwedInv /\ CloseInv
    BY DEF ExecutorInv, OwedInv, CloseInv
  <1>4. Counted = {}
    BY DEF Counted
  <1>5. PendingExact
    BY <1>4, FS_EmptySet, DnsConstants DEF PendingExact
  <1>. QED
    BY <1>1, <1>2, <1>3, <1>5 DEF DnsInv

LEMMA EditInv == ASSUME DnsInv, EditStep PROVE DnsInv'
  <1>1. UNCHANGED <<owner, pendingUpstream, server, mine, handled>>
    BY DEF EditStep, AddRecord, RemoveCopies, RemovePutsBack, ClearEmpties, ClearAddsDefault
  <1>2. PendingExact'
    BY <1>1, CountedSame DEF handled
  <1>. QED
    BY <1>1, <1>2 DEF DnsInv, DnsTypeInv, HandInv, OnItsWay, ExecutorInv, OwedInv, CloseInv,
         owner, handled

LEMMA StutterInv == ASSUME DnsInv, UNCHANGED dnsVars PROVE DnsInv'
  <1>1. UNCHANGED <<owner, pendingUpstream, server, mine, handled>>
    BY DEF dnsVars
  <1>2. PendingExact'
    BY <1>1, CountedSame DEF handled
  <1>. QED
    BY <1>1, <1>2 DEF DnsInv, DnsTypeInv, HandInv, OnItsWay, ExecutorInv, OwedInv, CloseInv,
         owner, handled

LEMMA StartInv == ASSUME DnsInv, Start PROVE DnsInv'
  <1>1. sock \in Nat /\ sockets \in Nat
    BY DEF DnsInv, DnsTypeInv
  <1>2. /\ UNCHANGED <<handled, pendingUpstream, executor, shut, pools, mine, leaving, hasty>>
        /\ boss' = "up"
        /\ boss \in {"down", "up"}
    BY DEF Start
  <1>3. PendingExact'
    BY <1>2, CountedSame DEF handled
  <1>4. CASE Alive
    <2>1. UNCHANGED <<running, closed, sock, sockets, server>>
      BY <1>4 DEF Start
    <2>. QED
      BY <1>2, <1>3, <2>1 DEF DnsInv, DnsTypeInv, HandInv, OnItsWay, ExecutorInv, OwedInv,
         CloseInv, handled, Bosses
  <1>5. CASE ~Alive
    <2>1. /\ sock' = Reopened(sock) /\ sockets' = Max({sockets, sock'})
          /\ closed' = FALSE /\ running' = TRUE /\ server' = "fresh"
      BY <1>5 DEF Start
    <2>2. sock' \in Nat /\ sock' # 0 
      BY <1>1, <2>1 DEF Reopened
    <2>3. sockets' \in Nat
      BY <1>1, <2>1, <2>2, NatMax
    <2>4. server # "handling"
      BY <1>5 DEF Alive
    <2>. QED
      BY <1>2, <1>3, <2>1, <2>2, <2>3, <2>4 DEF DnsInv, DnsTypeInv, HandInv, OnItsWay,
         ExecutorInv, OwedInv, CloseInv, handled, Bosses, Servers
  <1>. QED
    BY <1>4, <1>5

LEMMA CloseStopsInv == ASSUME DnsInv, CloseStops PROVE DnsInv'
  <1>1. UNCHANGED <<stage, pendingUpstream>>
    BY DEF CloseStops
  <1>2. PendingExact'
    BY <1>1, CountedSame
  <1>. QED
    BY <1>2 DEF CloseStops, DnsInv, DnsTypeInv, HandInv, OnItsWay, ExecutorInv, OwedInv,
       CloseInv, Bosses

LEMMA CloseTakesExecutorInv == ASSUME DnsInv, CloseTakesExecutor PROVE DnsInv'
  <1>1. UNCHANGED <<handled, pendingUpstream>>
    BY DEF CloseTakesExecutor
  <1>2. PendingExact'
    BY <1>1, CountedSame DEF handled
  <1>. QED
    BY <1>1, <1>2 DEF CloseTakesExecutor, DnsInv, DnsTypeInv, HandInv, OnItsWay, ExecutorInv,
       OwedInv, CloseInv, Bosses, MarksClosed, handled

LEMMA CloseShutsDownInv == ASSUME DnsInv, CloseShutsDown PROVE DnsInv'
  <1>1. /\ stage' = [i \in Ids |-> IF stage[i] = "queued" /\ home[i] = leaving THEN Completed(i)
                                                                             ELSE stage[i]]
        /\ boss = "draining" /\ boss' = "closing" /\ leaving' = 0
        /\ shut' = shut \cup ({leaving} \ {0})
        /\ UNCHANGED <<running, closed, sock, executor, pendingUpstream, sockets, pools,
                 hasty, server, mine, received, reply, home, linked, owed>>
    BY DEF CloseShutsDown
  <1>2. DnsTypeInv'
    BY <1>1 DEF DnsInv, DnsTypeInv, Stages, Completed, Bosses
  <1>3. Counted' = Counted
    BY <1>1, <1>2 DEF Counted, Completed
  <1>4. PendingExact'
    BY <1>1, <1>3 DEF PendingExact, DnsInv
  <1>5. HandInv'
    BY <1>1 DEF DnsInv, HandInv, OnItsWay, Completed, DnsTypeInv
  <1>6. ExecutorInv' /\ OwedInv' /\ CloseInv'
    BY <1>1 DEF DnsInv, ExecutorInv, OwedInv, CloseInv, Completed, DnsTypeInv
  <1>. QED
    BY <1>2, <1>4, <1>5, <1>6 DEF DnsInv

LEMMA CloseClosesSocketInv == ASSUME DnsInv, CloseClosesSocket PROVE DnsInv'
  <1>1. UNCHANGED <<handled, pendingUpstream>>
    BY DEF CloseClosesSocket
  <1>2. PendingExact'
    BY <1>1, CountedSame DEF handled
  <1>. QED
    BY <1>1, <1>2 DEF CloseClosesSocket, DnsInv, DnsTypeInv, HandInv, OnItsWay, ExecutorInv,
       OwedInv, CloseInv, Bosses, handled

LEMMA CloseReturnsInv == ASSUME DnsInv, CloseReturns PROVE DnsInv'
  <1>1. UNCHANGED <<handled, pendingUpstream>>
    BY DEF CloseReturns
  <1>2. PendingExact'
    BY <1>1, CountedSame DEF handled
  <1>. QED
    BY <1>1, <1>2 DEF CloseReturns, DnsInv, DnsTypeInv, HandInv, OnItsWay, ExecutorInv, OwedInv,
         CloseInv, Bosses, handled

LEMMA ServeInv == ASSUME DnsInv, ServeStep PROVE DnsInv'
  <1>1. UNCHANGED <<handled, pendingUpstream, executor, shut, pools, boss, leaving, hasty>>
    BY DEF ServeStep, ServeOpens, ServeBegins, ServeLoops, ServeEnds, ReceiveNothing,
       ReceiveFails, owner
  <1>2. PendingExact'
    BY <1>1, CountedSame DEF handled
  <1>3. server # "handling" /\ server' # "handling"
    BY DEF ServeStep, ServeOpens, ServeBegins, ServeLoops, ServeEnds, ReceiveNothing, ReceiveFails
  <1>4. HandInv'
    BY <1>1, <1>3 DEF DnsInv, HandInv, OnItsWay, handled
  <1>5. ExecutorInv'
    BY <1>1 DEF DnsInv, ExecutorInv, handled
  <1>6. CASE ServeOpens
    <2>1. /\ sock' = Reopened(sock) /\ sockets' = Max({sockets, sock'})
          /\ server = "fresh" /\ server' = "opened"
          /\ UNCHANGED <<running, closed, mine>>
      BY <1>6 DEF ServeOpens
    <2>2. sock' \in Nat /\ sock' # 0
      BY <2>1 DEF Reopened, DnsInv, DnsTypeInv
    <2>3. sockets' \in Nat
      BY <2>1, <2>2, NatMax DEF DnsInv, DnsTypeInv
    <2>. QED
      BY <1>1, <1>2, <1>4, <1>5, <2>1, <2>2, <2>3 DEF DnsInv, DnsTypeInv, OwedInv, CloseInv,
         Servers, handled
  <1>7. CASE ~ServeOpens
    <2>1. UNCHANGED <<sock, sockets>>
      BY <1>7 DEF ServeStep, ServeBegins, ServeLoops, ServeEnds, ReceiveNothing, ReceiveFails, owner
    <2>2. DnsTypeInv' 
      BY <1>1, <1>7, <2>1 DEF ServeStep, ServeBegins, ServeLoops, ServeEnds, ReceiveNothing,
         ReceiveFails, owner, DnsInv, DnsTypeInv, Servers, handled
    <2>3. OwedInv'
      BY <1>1, <1>7, <2>1 DEF ServeStep, ServeBegins, ServeLoops, ServeEnds, ReceiveNothing,
         ReceiveFails, owner, DnsInv, OwedInv, handled
    <2>4. CloseInv'
      BY <1>1, <1>7, <2>1 DEF ServeStep, ServeBegins, ServeLoops, ServeEnds, ReceiveNothing,
         ReceiveFails, owner, DnsInv, CloseInv, handled
    <2>. QED
      BY <1>2, <1>4, <1>5, <2>2, <2>3, <2>4 DEF DnsInv
  <1>. QED
    BY <1>6, <1>7

LEMMA ReceiveInv == ASSUME DnsInv, NEW d \in Datagrams, Receive(d) PROVE DnsInv'
  <1> DEFINE i == received + 1
             went == GoesUpstream(d)
             not == Unanswerable(d)
             upshot == Prepared(d)
             sg == IF went THEN "admit" ELSE IF not THEN "gone" ELSE "reply"
             rp == IF went THEN NoReply ELSE upshot
  <1>1. /\ server = "recv" /\ mine = sock /\ i \in Ids /\ received' = i
        /\ owed' = IF boss \in {"up", "down"} /\ ~not THEN owed \cup {i} ELSE owed
        /\ reply' = [reply EXCEPT ![i] = rp]
        /\ stage' = [stage EXCEPT ![i] = CASE went -> "admit" [] not -> "gone" [] OTHER -> "reply"]
        /\ server' = IF not THEN "top" ELSE "handling"
        /\ UNCHANGED <<records, owner, pendingUpstream, mine, home, linked, tries>>
    BY DEF Receive
  <1>2. went => ~not
    BY DEF GoesUpstream, Unanswerable
  <1>0. (CASE went -> "admit" [] not -> "gone" [] OTHER -> "reply") = sg
    BY <1>2
  <1>3. sg = "reply" => rp.rcode # "none"
    BY Coded
  <1> HIDE DEF went, not, upshot, rp
  <1>4. received \in Nat /\ i \in Nat
    BY DEF DnsInv, DnsTypeInv
  <1>5. stage[i] = "none" /\ stage'[i] = sg
        /\ (\A j \in Ids : j # i => stage'[j] = stage[j] /\ reply'[j] = reply[j])
    BY <1>0, <1>1, <1>4 DEF DnsInv, HandInv, DnsTypeInv
  <1>6. DnsTypeInv'
    BY <1>0, <1>1, <1>4 DEF DnsInv, DnsTypeInv, Stages, Servers, owner
  <1>7. Counted' = Counted
    BY <1>5 DEF Counted
  <1>8. PendingExact'
    BY <1>1, <1>7 DEF PendingExact, DnsInv
  <1>9. \A j \in Ids : ~OnItsWay(j) \/ j = i
    BY <1>1 DEF DnsInv, HandInv
  <1>10. HandInv'
    <2> SUFFICES ASSUME NEW j \in Ids
                 PROVE  /\ j > received' => stage'[j] = "none"
                        /\ OnItsWay(j)' => server' = "handling" /\ j = received'
                        /\ stage'[j] = "done" => ~linked'[j]
                        /\ stage'[j] \in {"reply", "relay"} => reply'[j].rcode # "none"
      BY DEF HandInv
    <2>1. CASE j = i
      BY <1>1, <1>2, <1>3, <1>4, <1>5, <2>1 DEF OnItsWay, DnsInv, DnsTypeInv
    <2>2. CASE j # i
      <3>1. ~OnItsWay(j)' /\ stage'[j] = stage[j] /\ reply'[j] = reply[j] /\ linked'[j] = linked[j]
        BY <1>1, <1>5, <1>9, <2>2 DEF OnItsWay
      <3>2. j > received' => j > received
        <4>1. received' = received + 1 /\ j \in Int
          BY <1>1 DEF Ids
        <4>. QED
          BY <4>1, <1>4
      <3>. QED
        BY <3>1, <3>2 DEF DnsInv, HandInv
    <2>. QED
      BY <2>1, <2>2
  <1>11. ExecutorInv'
    BY <1>1, <1>5 DEF ExecutorInv, DnsInv, owner
  <1>12. OwedInv' /\ CloseInv'
    BY <1>1, <1>2, <1>5 DEF OwedInv, CloseInv, DnsInv, DnsTypeInv, owner
  <1>. QED
    BY <1>6, <1>8, <1>10, <1>11, <1>12 DEF DnsInv

\* A query that its thread forgets gives its place back, if it held one, and
\* leaves the others alone; the thread goes on, if it was its query.
Dropped(i) ==
    /\ Forgotten(i) /\ stage[i] # "none"
    /\ \/ i \in Counted /\ pendingUpstream' = Released(pendingUpstream)
       \/ i \notin Counted /\ pendingUpstream' = pendingUpstream
    /\ \/ server' = "top" /\ OnItsWay(i)
       \/ server' = server /\ ~OnItsWay(i)
    /\ owed' \in {owed, owed \ {i}} /\ i \notin owed'
    /\ UNCHANGED <<owner, mine, received>>

LEMMA DroppedInv ==
    ASSUME DnsInv, NEW i \in Ids, Dropped(i)
    PROVE  DnsInv'
  <1>1. /\ stage' = [stage EXCEPT ![i] = "gone"] /\ reply' = [reply EXCEPT ![i] = NoReply]
        /\ home' = [home EXCEPT ![i] = 0] /\ linked' = [linked EXCEPT ![i] = FALSE]
    BY DEF Dropped, Forgotten
  <1>2. DnsTypeInv'
    <2>1. server' \in Servers
      BY DEF DnsInv, DnsTypeInv, Dropped, Servers
    <2>2. pendingUpstream' \in Nat
      BY NatMax DEF DnsInv, DnsTypeInv, Dropped, Released
    <2>. QED
      BY <1>1, <2>1, <2>2 DEF DnsInv, DnsTypeInv, Dropped, Stages, owner
  <1>3. Counted' = Counted \ {i}
    BY <1>1 DEF Counted, DnsInv, DnsTypeInv
  <1>4. PendingExact'
    BY <1>2, <1>3, CountedSteps DEF Dropped, DnsInv, DnsTypeInv
  <1>5. \A j \in Ids : j # i => /\ stage'[j] = stage[j] /\ reply'[j] = reply[j]
                               /\ home'[j] = home[j] /\ linked'[j] = linked[j]
    BY <1>1 DEF DnsInv, DnsTypeInv
  <1>6. stage'[i] = "gone"
    BY <1>1 DEF DnsInv, DnsTypeInv
  <1>7. HandInv'
    <2>1. \A j \in Ids : OnItsWay(j)' => OnItsWay(j) /\ j # i
      BY <1>5, <1>6 DEF OnItsWay
    <2>2. stage[i] # "none"
      BY DEF Dropped
    <2>. QED
      BY <1>5, <1>6, <2>1, <2>2 DEF HandInv, DnsInv, Dropped
  <1>8. ExecutorInv'
    BY <1>5, <1>6 DEF ExecutorInv, DnsInv, Dropped, owner
  <1>9. OwedInv' /\ CloseInv'
    BY <1>5, <1>6 DEF OwedInv, CloseInv, DnsInv, DnsTypeInv, Dropped, owner, HandInv
  <1>. QED
    BY <1>2, <1>4, <1>7, <1>8, <1>9 DEF DnsInv

LEMMA SendReplyInv == ASSUME DnsInv, NEW i \in Ids, SendReply(i) PROVE DnsInv'
  <1>1. /\ stage[i] = "reply" /\ Forgotten(i) /\ server' = "top"
        /\ owed' = IF sock # 0 /\ reply[i] # NoReply THEN owed \ {i} ELSE owed
        /\ UNCHANGED <<owner, pendingUpstream, mine, received>>
    BY DEF SendReply, Send
  <1>2. reply[i] # NoReply
    BY <1>1 DEF DnsInv, HandInv, NoReply
  <1>3. i \in owed => sock # 0
    BY DEF DnsInv, OwedInv
  <1>4. Dropped(i)
    BY <1>1, <1>2, <1>3 DEF Dropped, OnItsWay, Counted
  <1>. QED
    BY <1>4, DroppedInv

\* An owed query is not refused by a server or an executor that was closed.
LEMMA RefusedInv ==
    ASSUME DnsInv, NEW i \in Ids, Refused(i),
           \/ stage[i] = "take" /\ closed
           \/ stage[i] = "submit" /\ home[i] \in shut
    PROVE  DnsInv'
  <1>1. i \notin owed
    BY DEF DnsInv, OwedInv
  <1>2. Dropped(i)
    BY <1>1 DEF Refused, Dropped, OnItsWay, Counted
  <1>. QED
    BY <1>2, DroppedInv

LEMMA ReleaseInv == ASSUME DnsInv, NEW i \in Ids, Release(i) PROVE DnsInv'
  <1>1. i \notin owed
    BY DEF DnsInv, OwedInv, Release
  <1>2. Dropped(i)
    BY <1>1 DEF Release, Dropped, OnItsWay, Counted
  <1>. QED
    BY <1>2, DroppedInv

LEMMA AdmitInv == ASSUME DnsInv, NEW i \in Ids, Admit(i) PROVE DnsInv'
  <1>1. /\ stage[i] = "admit"
        /\ UNCHANGED <<owner, server, mine, received, home, linked, owed>>
    BY DEF Admit
  <1>2. pendingUpstream \in Nat /\ MaxPendingUpstream \in Nat
    BY DnsConstants DEF DnsInv, DnsTypeInv
  <1>3. CASE Saturated
    <2>1. PICK n : reply' = [reply EXCEPT ![i] = TruncateResponse(ServFail, n)]
      BY <1>2, <1>3 DEF Admit, Saturated
    <2>2. stage' = [stage EXCEPT ![i] = "reply"] /\ pendingUpstream' = pendingUpstream
      BY <1>2, <1>3 DEF Admit, Saturated
    <2>3. reply'[i].rcode = "SERVFAIL"
      BY <2>1, Coded DEF DnsInv, DnsTypeInv
    <2>4. \A j \in Ids : j # i => stage'[j] = stage[j] /\ reply'[j] = reply[j]
      BY <2>1, <2>2 DEF DnsInv, DnsTypeInv
    <2>5. Counted' = Counted
      BY <1>1, <2>2 DEF Counted, DnsInv, DnsTypeInv
    <2>6. PendingExact'
      BY <2>2, <2>5 DEF PendingExact, DnsInv
    <2>7. DnsTypeInv'
      BY <1>1, <2>1, <2>2 DEF DnsInv, DnsTypeInv, Stages, owner
    <2>8. stage'[i] = "reply"
      BY <2>2 DEF DnsInv, DnsTypeInv
    <2>9. HandInv'
      BY <1>1, <2>3, <2>4, <2>8 DEF DnsInv, HandInv, OnItsWay
    <2>10. ExecutorInv' /\ OwedInv' /\ CloseInv'
      BY <1>1, <2>4, <2>8 DEF DnsInv, ExecutorInv, OwedInv, CloseInv, owner, DnsTypeInv
    <2>. QED
      BY <2>6, <2>7, <2>9, <2>10 DEF DnsInv
  <1>4. CASE ~Saturated
    <2>1. stage' = [stage EXCEPT ![i] = "take"] /\ pendingUpstream' = pendingUpstream + 1
          /\ reply' = reply
      BY <1>4 DEF Admit
    <2>2. stage'[i] = "take" /\ \A j \in Ids : j # i => stage'[j] = stage[j]
      BY <2>1 DEF DnsInv, DnsTypeInv
    <2>3. DnsTypeInv'
      BY <1>1, <1>2, <2>1 DEF DnsInv, DnsTypeInv, Stages, owner
    <2>4. Counted' = Counted \cup {i} /\ i \notin Counted
      BY <1>1, <2>2 DEF Counted
    <2>5. pendingUpstream < MaxPendingUpstream
      BY <1>2, <1>4 DEF Saturated
    <2>6. PendingExact'
      BY <2>1, <2>3, <2>4, <2>5, CountedSteps DEF DnsInv, DnsTypeInv
    <2>7. HandInv'
      BY <1>1, <2>1, <2>2 DEF DnsInv, HandInv, OnItsWay
    <2>8. ExecutorInv' /\ OwedInv' /\ CloseInv'
      BY <1>1, <2>2 DEF DnsInv, ExecutorInv, OwedInv, CloseInv, owner, DnsTypeInv
    <2>. QED
      BY <2>3, <2>6, <2>7, <2>8 DEF DnsInv
  <1>. QED
    BY <1>3, <1>4

\* A query that goes on to its next stage in the pool keeps its place.
LEMMA PlaceKept ==
    ASSUME DnsInv, NEW i \in Ids, NEW sg \in Stages \ {"none", "admit", "reply", "gone"},
           i \in Counted, stage' = [stage EXCEPT ![i] = sg], pendingUpstream' = pendingUpstream
    PROVE  PendingExact'
  <1>1. Counted' = Counted
    BY DEF Counted, DnsInv, DnsTypeInv, Stages
  <1>. QED
    BY <1>1 DEF PendingExact, DnsInv

LEMMA GetExecutorInv == ASSUME DnsInv, NEW i \in Ids, GetExecutor(i) PROVE DnsInv'
  <1>1. CASE closed
    <2>1. Refused(i) /\ stage[i] = "take"
      BY <1>1 DEF GetExecutor
    <2>. QED
      BY <1>1, <2>1, RefusedInv
  <1>2. CASE ~closed
    <2>1. /\ executor' = IF executor = 0 THEN pools + 1 ELSE executor
          /\ pools' = Max({pools, executor'})
          /\ home' = [home EXCEPT ![i] = executor']
          /\ stage' = [stage EXCEPT ![i] = "submit"] /\ stage[i] = "take"
          /\ UNCHANGED <<running, closed, sock, pendingUpstream, shut, sockets, boss,
                       leaving, hasty, server, mine, received, reply, linked, owed>>
      BY <1>2 DEF GetExecutor
    <2>2. pools \in Nat /\ executor \in 0..pools /\ leaving \in 0..pools /\ shut \subseteq 1..pools
      BY DEF DnsInv, DnsTypeInv
    <2>3. executor' \in Nat \ {0} /\ pools' \in Nat /\ executor' \in 0..pools' /\ pools' >= pools
      BY <2>1, <2>2, NatMax
    <2>4. executor' \notin shut \cup {leaving}
      BY <2>1, <2>2 DEF DnsInv, ExecutorInv
    <2>5. /\ stage'[i] = "submit" /\ home'[i] = executor'
          /\ \A j \in Ids : j # i => stage'[j] = stage[j] /\ home'[j] = home[j]
      BY <2>1 DEF DnsInv, DnsTypeInv
    <2>6. leaving' \in 0..pools' /\ shut' \subseteq 1..pools'
      BY <2>1, <2>2, <2>3
    <2>7. DnsTypeInv'
      BY <2>1, <2>3, <2>6 DEF DnsInv, DnsTypeInv, Stages
    <2>8. PendingExact'
      BY <2>1, PlaceKept DEF Counted, Stages
    <2>9. HandInv'
      BY <2>1, <2>5 DEF DnsInv, HandInv, OnItsWay
    <2>10. ExecutorInv'
      BY <2>1, <2>2, <2>3, <2>4, <2>5 DEF DnsInv, ExecutorInv
    <2>11. OwedInv'
      BY <2>1, <2>4, <2>5 DEF DnsInv, OwedInv, DnsTypeInv
    <2>12. CloseInv'
      BY <1>2, <2>1 DEF DnsInv, CloseInv, HandInv, OnItsWay
    <2>. QED
      BY <2>7, <2>8, <2>9, <2>10, <2>11, <2>12 DEF DnsInv
  <1>. QED
    BY <1>1, <1>2

LEMMA SubmitInv == ASSUME DnsInv, NEW i \in Ids, Submit(i) PROVE DnsInv'
  <1>1. CASE home[i] \in shut
    <2>1. Refused(i) /\ stage[i] = "submit"
      BY <1>1 DEF Submit
    <2>. QED
      BY <1>1, <2>1, RefusedInv
  <1>2. CASE home[i] \notin shut
    <2>1. /\ stage' = [stage EXCEPT ![i] = "queued"] /\ stage[i] = "submit"
          /\ UNCHANGED <<owner, pendingUpstream, server, mine, received, reply, home, linked, owed>>
      BY <1>2 DEF Submit
    <2>2. stage'[i] = "queued" /\ \A j \in Ids : j # i => stage'[j] = stage[j]
      BY <2>1 DEF DnsInv, DnsTypeInv
    <2>3. DnsTypeInv'
      BY <2>1 DEF DnsInv, DnsTypeInv, Stages, owner
    <2>4. PendingExact'
      BY <2>1, PlaceKept DEF Counted, Stages
    <2>5. HandInv'
      BY <2>1, <2>2 DEF DnsInv, HandInv, OnItsWay
    <2>6. ExecutorInv' /\ OwedInv' /\ CloseInv'
      BY <1>2, <2>1, <2>2 DEF DnsInv, ExecutorInv, OwedInv, CloseInv, owner, DnsTypeInv
    <2>. QED
      BY <2>3, <2>4, <2>5, <2>6 DEF DnsInv
  <1>. QED
    BY <1>1, <1>2

LEMMA AddDoneCallbackInv == ASSUME DnsInv, NEW i \in Ids, AddDoneCallback(i) PROVE DnsInv'
  <1>1. CASE DoneAlready(i)
    <2>1. stage[i] = "done" /\ pendingUpstream' = Released(pendingUpstream) /\ Forgotten(i)
          /\ ~linked[i] /\ server' = "top" /\ UNCHANGED <<owner, mine, received, owed>>
      BY <1>1 DEF AddDoneCallback, DoneAlready
    <2>2. i \notin owed
      BY <2>1 DEF DnsInv, OwedInv
    <2>3. Dropped(i)
      BY <2>1, <2>2 DEF Dropped, Counted, OnItsWay
    <2>. QED
      BY <2>3, DroppedInv
  <1>2. CASE ~DoneAlready(i)
    <2>1. /\ linked' = [linked EXCEPT ![i] = TRUE] /\ stage[i] \in {"queued", "asking", "relay"}
          /\ server = "handling" /\ server' = "top" /\ i = received
          /\ UNCHANGED <<owner, pendingUpstream, stage, reply, home, mine, received, owed>>
      BY <1>2 DEF AddDoneCallback, DoneAlready
    <2>2. linked'[i] /\ \A j \in Ids : j # i => linked'[j] = linked[j]
      BY <2>1 DEF DnsInv, DnsTypeInv
    <2>3. DnsTypeInv'
      BY <2>1 DEF DnsInv, DnsTypeInv, Servers, owner
    <2>4. PendingExact'
      BY <2>1, CountedSame
    <2>5. \A j \in Ids : ~OnItsWay(j)'
      BY <2>1, <2>2 DEF DnsInv, HandInv, OnItsWay
    <2>6. HandInv'
      BY <2>1, <2>2, <2>5 DEF DnsInv, HandInv
    <2>7. ExecutorInv' /\ OwedInv' /\ CloseInv'
      BY <2>1 DEF DnsInv, ExecutorInv, OwedInv, CloseInv, owner, DnsTypeInv
    <2>. QED
      BY <2>3, <2>4, <2>6, <2>7 DEF DnsInv
  <1>. QED
    BY <1>1, <1>2

\* The steps of the pool's workers: the query goes on, with what it got.
Worked(i, sg) ==
    /\ stage' = [stage EXCEPT ![i] = sg] 
    /\ stage[i] \in {"queued", "asking", "relay"} /\ sg \in {"asking", "relay", Completed(i)}
    /\ DOMAIN reply' = Ids /\ \A j \in Ids : j # i => reply'[j] = reply[j]
    /\ sg = "relay" => reply'[i].rcode # "none"
    /\ owed' \in {owed, owed \ {i}} /\ (sg \notin {"asking", "relay"} => i \notin owed')
    /\ UNCHANGED <<owner, pendingUpstream, server, mine, received, home, linked>>

LEMMA WorkedInv == ASSUME DnsInv, NEW i \in Ids, NEW sg, Worked(i, sg) PROVE DnsInv'
  <1>1. sg \in {"asking", "relay", "done", "ended"} /\ (sg \in {"asking", "relay"} \/ sg = Completed(i))
    BY DEF Worked, Completed
  <1>2. stage'[i] = sg /\ \A j \in Ids : j # i => stage'[j] = stage[j]
    BY DEF DnsInv, DnsTypeInv, Worked
  <1>3. DnsTypeInv'
    BY <1>1 DEF DnsInv, DnsTypeInv, Stages, owner, Worked
  <1>4. PendingExact'
    BY <1>1, PlaceKept DEF Worked, Counted, Stages
  <1>5. \A j \in Ids : OnItsWay(j)' => OnItsWay(j)
    BY <1>1, <1>2 DEF OnItsWay, Worked, Completed
  <1>6. HandInv'
    BY <1>1, <1>2, <1>5 DEF DnsInv, HandInv, Worked, Completed
  <1>7. ExecutorInv' /\ OwedInv' /\ CloseInv'
    BY <1>1, <1>2 DEF DnsInv, ExecutorInv, OwedInv, CloseInv, owner, DnsTypeInv, Worked
  <1>. QED
    BY <1>3, <1>4, <1>6, <1>7 DEF DnsInv

LEMMA WorkInv == ASSUME DnsInv, NEW i \in Ids, WorkStep(i) PROVE DnsInv'
  <1> USE DEF Worked, DnsInv, DnsTypeInv
  <1>1. CASE TakeUp(i)
    <2>1. Worked(i, "asking")
      BY <1>1 DEF TakeUp, HandInv
    <2>. QED
      BY <2>1, WorkedInv
  <1>2. ASSUME NEW c, NEW rows, NEW aa, Answered(i, BuildResponse(c, rows, aa)), c # "none",
               stage[i] = "asking",
               UNCHANGED <<owner, pendingUpstream, server, mine, received, home, linked, owed>>
        PROVE  DnsInv'
    <2>1. PICK n : reply' = [reply EXCEPT ![i] = TruncateResponse(BuildResponse(c, rows, aa), n)]
      BY <1>2 DEF Answered
    <2>2. reply'[i].rcode = c
      BY <2>1, Coded
    <2>3. Worked(i, "relay")
      BY <1>2, <2>1, <2>2 DEF Answered
    <2>. QED
      BY <2>3, WorkedInv
  <1>3. CASE AskUpstream(i)
    <2>1. PICK a \in UpstreamDatagrams :
            IF IsValidUpstreamResponse(a) THEN Answered(i, BuildResponse("NOERROR", a.rows, FALSE))
                                          ELSE UNCHANGED <<reply, stage>>
      BY <1>3 DEF AskUpstream
    <2>2. CASE IsValidUpstreamResponse(a)
      BY <1>2, <1>3, <2>1, <2>2 DEF AskUpstream
    <2>3. CASE ~IsValidUpstreamResponse(a)
      <3>1. stage' = [stage EXCEPT ![i] = "asking"]
        BY <1>3, <2>1, <2>3 DEF AskUpstream
      <3>2. Worked(i, "asking")
        BY <1>3, <2>1, <2>3, <3>1 DEF AskUpstream
      <3>. QED
        BY <3>2, WorkedInv
    <2>. QED
      BY <2>2, <2>3
  <1>4. CASE UpstreamSilent(i)
    <2>1. stage' = [stage EXCEPT ![i] = "asking"]
      BY <1>4 DEF UpstreamSilent
    <2>2. Worked(i, "asking")
      BY <1>4, <2>1 DEF UpstreamSilent
    <2>. QED
      BY <2>2, WorkedInv
  <1>5. CASE GiveUp(i)
    BY <1>2, <1>5 DEF GiveUp, ServFail
  <1>6. CASE Relay(i)
    <2>1. /\ stage[i] = "relay" /\ stage' = [stage EXCEPT ![i] = Completed(i)]
          /\ owed' = IF sock # 0 /\ reply[i] # NoReply THEN owed \ {i} ELSE owed
          /\ UNCHANGED <<owner, pendingUpstream, server, mine, received, reply, home, linked>>
      BY <1>6 DEF Relay, Send
    <2>2. reply[i] # NoReply
      BY <2>1 DEF HandInv, NoReply
    <2>3. i \notin owed'
      BY <2>1, <2>2 DEF OwedInv
    <2>4. Worked(i, Completed(i))
      BY <2>1, <2>3 DEF Completed
    <2>. QED
      BY <2>4, WorkedInv
  <1>7. CASE Release(i)
    BY <1>7, ReleaseInv
  <1>. QED
    BY <1>1, <1>3, <1>4, <1>5, <1>6, <1>7 DEF WorkStep

\* Every step keeps the invariant.
LEMMA DnsStep == DnsInv /\ [DnsNext]_dnsVars => DnsInv'
  <1> SUFFICES ASSUME DnsInv, [DnsNext]_dnsVars PROVE DnsInv'
    OBVIOUS
  <1>1. CASE EditStep
    BY <1>1, EditInv
  <1>2. CASE Start \/ CloseStops
    BY <1>2, StartInv, CloseStopsInv
  <1>3. CASE CloseStep
    BY <1>3, CloseTakesExecutorInv, CloseShutsDownInv, CloseClosesSocketInv, CloseReturnsInv
    DEF CloseStep
  <1>4. CASE ServeStep
    BY <1>4, ServeInv
  <1>5. ASSUME NEW d \in Datagrams, Receive(d) PROVE DnsInv'
    BY <1>5, ReceiveInv
  <1>6. ASSUME NEW i \in Ids, HandleStep(i) PROVE DnsInv'
    BY <1>6, SendReplyInv, AdmitInv, GetExecutorInv, SubmitInv, AddDoneCallbackInv DEF HandleStep
  <1>7. ASSUME NEW i \in Ids, WorkStep(i) PROVE DnsInv'
    BY <1>7, WorkInv
  <1>8. CASE UNCHANGED dnsVars
    BY <1>8, StutterInv
  <1>. QED
    BY <1>1, <1>2, <1>3, <1>4, <1>5, <1>6, <1>7, <1>8 DEF DnsNext

\* The inductive invariant of the name server: who has each query in hand, where
\* it waits, what close() has given up, and how many places are taken.
THEOREM DnsInvHolds == DnsSpec => []DnsInv
  BY DnsInitOK, DnsStep, PTL DEF DnsSpec

\* Every query is accounted for: its place with the pool comes back whatever
\* becomes of it, it is answered unless a close() ran, and it waits where
\* somebody will find it.
THEOREM QueriesAccounted == DnsSpec => []EveryQueryAccounted
  <1>1. DnsInv => EveryQueryAccounted
    <2> SUFFICES ASSUME DnsInv PROVE EveryQueryAccounted
      OBVIOUS
    <2>1. PendingExact
      BY DEF DnsInv
    <2>2. NoSilentDrop
      BY DEF DnsInv, OwedInv, NoSilentDrop
    <2>3. NothingLeftBehind
      BY DEF DnsInv, HandInv, OnItsWay, ExecutorInv, NothingLeftBehind, Counted
    <2>. QED
      BY <2>1, <2>2, <2>3 DEF EveryQueryAccounted
  <1>. QED
    BY <1>1, DnsInvHolds, PTL

\* A server whose close() has returned holds nothing, whatever its thread was
\* doing then.
THEOREM CloseIsComplete == DnsSpec => []CloseHolds
  <1>1. DnsInv => CloseHolds
    BY DEF DnsInv, CloseInv, ExecutorInv, CloseHolds
  <1>. QED
    BY <1>1, DnsInvHolds, PTL

LEMMA LeastOfHits ==
    ASSUME NEW T, T \subseteq Nat, T # {}
    PROVE  Min(T) \in T
  <1> DEFINE R == {ss \in Nat \X Nat : ss[1] < ss[2]}
  <1>1. IsWellFoundedOn(R, Nat)
    BY NatLessThanWellFounded DEF OpToRel
  <1>2. PICK x \in T : \A y \in T : <<y, x>> \notin R
    <2> HIDE DEF R
    <2>. QED
      BY <1>1, WFMin
  <1>3. ASSUME NEW y \in T PROVE x <= y
    <2>1. x \in Nat /\ y \in Nat /\ <<y, x>> \in Nat \X Nat
      OBVIOUS
    <2>. QED
      BY <1>2, <2>1
  <1>. QED
    BY <1>3 DEF Min

IsName(name) == name \in Seq(STRING)
IsWildcard(name) == name # <<>> /\ name[1] = "*"

\* A name is answered for by its own records or by those of a wildcard.
LEMMA FoundOrWildcard ==
    ASSUME NEW tb, NEW name \in Seq(STRING)
    PROVE  NameFound(tb, name) = name \/ IsWildcard(NameFound(tb, name))
  <1> DEFINE L == STRING \cup {"*"}
  <1>0. "*" \in L /\ name \in Seq(L)
    OBVIOUS
  <1> HIDE DEF L
  <1> DEFINE n == Len(name) - 1
             wild == [i \in 1..n |-> Wildcard(name, i)]
             hits == {i \in DOMAIN Tried(name) : RowsOf(tb, Tried(name)[i]) # {}}
  <1>1. Len(name) \in Nat /\ DOMAIN name = 1..Len(name) /\ \A i \in 1..Len(name) : name[i] \in L
    BY <1>0
  <1>2. ASSUME NEW i \in 1..n
        PROVE  Wildcard(name, i) \in Seq(L) /\ IsWildcard(Wildcard(name, i))
    <2>1. SubSeq(name, i + 1, Len(name)) \in Seq(L)
      BY <1>1, SubSeqProperties
    <2>2. <<"*">> \in Seq(L) /\ Len(<<"*">>) = 1 /\ <<"*">>[1] = "*"
      BY <1>0
    <2> DEFINE tail == SubSeq(name, i + 1, Len(name))
               star == <<"*">>
    <2>3. Wildcard(name, i) = star \o tail
      BY DEF Wildcard
    <2> HIDE DEF tail, star
    <2>4. tail \in Seq(L) /\ star \in Seq(L) /\ Len(star) = 1 /\ star[1] = "*"
      BY <2>1, <2>2 DEF tail, star
    <2>5. /\ Wildcard(name, i) \in Seq(L) /\ Len(Wildcard(name, i)) = 1 + Len(tail)
          /\ \A j \in 1..1 + Len(tail) : Wildcard(name, i)[j] = IF j <= 1 THEN star[j] ELSE tail[j - 1]
      <3>1. /\ star \o tail \in Seq(L) /\ Len(star \o tail) = Len(star) + Len(tail)
            /\ \A j \in 1..Len(star) + Len(tail) :
                 (star \o tail)[j] = IF j <= Len(star) THEN star[j] ELSE tail[j - Len(star)]
        BY <2>4, ConcatProperties
      <3>. QED
        BY <2>3, <2>4, <3>1
    <2>6. Len(tail) \in Nat
      BY <2>4
    <2>7. Wildcard(name, i)[1] = "*" /\ Len(Wildcard(name, i)) # 0
      BY <2>4, <2>5, <2>6
    <2>. QED
      BY <2>5, <2>7 DEF IsWildcard
  <1>3. wild \in Seq(Seq(L)) /\ Len(wild) = IF n >= 0 THEN n ELSE 0
    <2>1. CASE n \in Nat
      BY <1>2, <2>1
    <2>2. CASE n \notin Nat
      <3>1. n = -1
        BY <1>1, <2>2
      <3>2. 1..n = {} /\ 1..0 = {}
        BY <3>1
      <3> HIDE DEF n
      <3>3. wild \in [1..0 -> Seq(L)] /\ 0 \in Nat
        BY <3>2
      <3> HIDE DEF wild
      <3>4. wild \in Seq(Seq(L)) /\ Len(wild) = 0
        BY <3>3
      <3>. QED
        BY <3>1, <3>4
    <2>. QED
      BY <2>1, <2>2
  <1> HIDE DEF wild
  <1>4. Tried(name) = <<name>> \o wild
    BY DEF Tried, wild
  <1>5. <<name>> \in Seq(Seq(L)) /\ Len(<<name>>) = 1 /\ <<name>>[1] = name
    BY <1>0
  <1>6. /\ Tried(name) \in Seq(Seq(L)) /\ Len(Tried(name)) = 1 + Len(wild)
        /\ \A i \in 1..1 + Len(wild) : Tried(name)[i] = IF i <= 1 THEN name ELSE wild[i - 1]
    BY <1>3, <1>4, <1>5, ConcatProperties
  <1>7. ASSUME NEW i \in DOMAIN Tried(name)
        PROVE  i \in Nat /\ (Tried(name)[i] = name \/ IsWildcard(Tried(name)[i]))
    <2>1. Len(wild) \in Nat /\ i \in 1..1 + Len(wild)
      BY <1>3, <1>6
    <2>2. CASE i = 1
      BY <1>6, <2>1, <2>2
    <2>3. CASE i # 1
      <3>1. i - 1 \in 1..n /\ i \in 1..1 + Len(wild) /\ ~(i <= 1)
        <4>1. n \in Int /\ i \in Int /\ Len(wild) \in Nat
          BY <1>1, <2>1
        <4>2. Len(wild) = IF n >= 0 THEN n ELSE 0
          BY <1>3
        <4> HIDE DEF n
        <4>. QED
          BY <4>1, <4>2, <2>1, <2>3
      <3>2. Tried(name)[i] = wild[i - 1]
        BY <1>6, <3>1
      <3>3. wild[i - 1] = Wildcard(name, i - 1)
        BY <3>1 DEF wild
      <3>. QED
        BY <1>2, <2>1, <3>1, <3>2, <3>3
    <2>. QED
      BY <2>2, <2>3
  <1>8. hits \subseteq Nat /\ hits \subseteq DOMAIN Tried(name)
    BY <1>7
  <1>9. NameFound(tb, name) = IF hits = {} THEN name ELSE Tried(name)[Min(hits)]
    BY DEF NameFound
  <1> HIDE DEF hits
  <1>10. CASE hits = {}
    BY <1>9, <1>10
  <1>11. CASE hits # {}
    <2>1. Min(hits) \in hits
      BY <1>8, <1>11, LeastOfHits
    <2>. QED
      BY <1>7, <1>8, <1>9, <1>11, <2>1
  <1>. QED
    BY <1>10, <1>11

RowShape(r) ==
    /\ r = [name |-> r.name, type |-> r.type, class |-> r.class, data |-> r.data, ttl |-> r.ttl]
    /\ r.type = "CNAME" => r.data \in Seq(STRING)

Shaped(tb) == \A r \in tb : RowShape(r)

\* The rows one level of the resolution answers with, and those of them that
\* are there for the name itself.
RowsAt(tb, type, class, name, chain) ==
    {OwnedBy(r, NameFound(tb, name), name) : r \in Matches(tb, name, type, class) \cup chain}
OwnRows(tb, type, class, name) == {[r EXCEPT !.name = name] : r \in Matches(tb, name, type, class)}
NoWildcard(rows) == \A r \in rows : ~IsWildcard(r.name)

\* What one level of the resolution makes of the records that answer for a
\* name: it gives them that name and passes on those of the chain.
LEMMA LevelOf ==
    ASSUME NEW tb, Shaped(tb), NEW name, IsName(name), NEW type, NEW class,
           NEW chain, NoWildcard(chain)
    PROVE  RowsAt(tb, type, class, name, chain) = OwnRows(tb, type, class, name) \cup chain
  <1> DEFINE found == NameFound(tb, name)
  <1>1. found = name \/ IsWildcard(found)
    BY FoundOrWildcard DEF IsName
  <1>2. ASSUME NEW r \in Matches(tb, name, type, class)
        PROVE  OwnedBy(r, found, name) = [r EXCEPT !.name = name]
    <2>1. r \in tb /\ r.name = found
      BY DEF Matches, OfType, Aliases, RowsFor, InClass, RowsOf
    <2>2. r = [name |-> r.name, type |-> r.type, class |-> r.class, data |-> r.data, ttl |-> r.ttl]
      BY <2>1 DEF RowShape, Shaped
    <2> HIDE DEF found
    <2>3. CASE found = name
      <3>1. PICK a, b, c, d : r = [name |-> name, type |-> a, class |-> b, data |-> c, ttl |-> d]
        BY <2>1, <2>2, <2>3
      <3>2. [r EXCEPT !.name = name] = r
        BY <3>1
      <3>. QED
        BY <2>3, <3>2 DEF OwnedBy
    <2>4. CASE found # name
      BY <2>1, <2>4 DEF OwnedBy
    <2>. QED
      BY <2>3, <2>4
  <1>3. ASSUME NEW r \in chain PROVE OwnedBy(r, found, name) = r
    BY <1>1, <1>3 DEF OwnedBy, NoWildcard
  <1> HIDE DEF found
  <1>4. {OwnedBy(r, found, name) : r \in Matches(tb, name, type, class) \cup chain}
             = {[r EXCEPT !.name = name] : r \in Matches(tb, name, type, class)} \cup chain
    BY <1>2, <1>3
  <1>. QED
    BY <1>4 DEF found, RowsAt, OwnRows

\* Chains of aliases, as functions from the names of a table: where a chain is
\* one step wider, seen from its end, and one step deeper, seen from its start.
Wider(on, P) == [n \in DOMAIN on |-> P[n] \cup UNION {on[m] : m \in P[n]}]
Deeper(on, P) == [n \in DOMAIN on |-> {n} \cup UNION {P[m] : m \in on[n]}]
Here(on) == [n \in DOMAIN on |-> {n}]
Links(on, S) == on \in [S -> SUBSET S]

LEMMA WiderIsSets ==
    ASSUME NEW S, NEW on, Links(on, S), NEW P \in [S -> SUBSET S]
    PROVE  Wider(on, P) \in [S -> SUBSET S]
  BY DEF Wider, Links

LEMMA FirstStep ==
    ASSUME NEW S, NEW on, Links(on, S)
    PROVE  Deeper(on, Here(on)) = Wider(on, Here(on)) /\ Here(on) \in [S -> SUBSET S]
  <1>1. DOMAIN on = S /\ \A n \in S : on[n] \subseteq S
    BY DEF Links
  <1>2. \A n \in S : Here(on)[n] = {n}
    BY <1>1 DEF Here
  <1>3. ASSUME NEW n \in S
        PROVE  {n} \cup UNION {Here(on)[m] : m \in on[n]}
                 = Here(on)[n] \cup UNION {on[m] : m \in Here(on)[n]}
    BY <1>1, <1>2
  <1>. QED
    BY <1>1, <1>2, <1>3 DEF Deeper, Wider, Here

\* The two agree at every length.
LEMMA NextStep ==
    ASSUME NEW S, NEW on, Links(on, S), NEW P \in [S -> SUBSET S], Deeper(on, P) = Wider(on, P)
    PROVE  Deeper(on, Wider(on, P)) = Wider(on, Wider(on, P))
  <1> DEFINE Q == Wider(on, P)
  <1>1. DOMAIN on = S /\ \A n \in S : on[n] \subseteq S /\ P[n] \subseteq S
    BY DEF Links
  <1>2. \A n \in S : Q[n] = P[n] \cup UNION {on[m] : m \in P[n]}
    BY <1>1 DEF Wider
  <1>3. \A n \in S : Q[n] = {n} \cup UNION {P[m] : m \in on[n]}
    BY <1>1 DEF Deeper
  <1> HIDE DEF Q
  <1>4. ASSUME NEW n \in S
        PROVE  {n} \cup UNION {Q[m] : m \in on[n]} = Q[n] \cup UNION {on[m] : m \in Q[n]}
    <2>1. ASSUME NEW x, x \in {n} \cup UNION {Q[m] : m \in on[n]}
          PROVE  x \in Q[n] \cup UNION {on[m] : m \in Q[n]}
      <3>1. CASE x = n
        BY <1>3, <3>1
      <3>2. ASSUME NEW m \in on[n], x \in Q[m] PROVE x \in Q[n] \cup UNION {on[k] : k \in Q[n]}
        <4>1. m \in S /\ P[m] \subseteq Q[n]
          BY <1>1, <1>3
        <4>2. CASE x \in P[m]
          BY <4>1, <4>2
        <4>3. CASE x \notin P[m]
          <5>1. PICK k \in P[m] : x \in on[k]
            BY <1>2, <3>2, <4>1, <4>3
          <5>. QED
            BY <4>1, <5>1
        <4>. QED
          BY <4>2, <4>3
      <3>. QED
        BY <2>1, <3>1, <3>2
    <2>2. ASSUME NEW x, x \in Q[n] \cup UNION {on[m] : m \in Q[n]}
          PROVE  x \in {n} \cup UNION {Q[m] : m \in on[n]}
      <3>1. ASSUME NEW m \in on[n] PROVE m \in S /\ P[m] \subseteq Q[m] /\ m \in Q[m]
        BY <1>1, <1>2, <1>3
      <3>2. CASE x \in Q[n]
        BY <1>3, <3>1, <3>2
      <3>3. ASSUME NEW k \in Q[n], x \in on[k] PROVE x \in {n} \cup UNION {Q[m] : m \in on[n]}
        <4>1. CASE k = n
          <5>1. x \in on[n]
            BY <3>3, <4>1
          <5>. QED
            BY <3>1, <5>1
        <4>2. CASE k # n
          <5>1. PICK m \in on[n] : k \in P[m]
            BY <1>3, <4>2
          <5>2. m \in S
            BY <1>1
          <5>3. x \in Q[m]
            BY <1>2, <3>3, <5>1, <5>2
          <5>. QED
            BY <5>3
        <4>. QED
          BY <4>1, <4>2
      <3>. QED
        BY <2>2, <3>2, <3>3
    <2>. QED
      BY <2>1, <2>2
  <1>5. Deeper(on, Q) = [n \in S |-> {n} \cup UNION {Q[m] : m \in on[n]}]
        /\ Wider(on, Q) = [n \in S |-> Q[n] \cup UNION {on[m] : m \in Q[n]}]
    BY <1>1 DEF Deeper, Wider
  <1>6. Deeper(on, Q) = Wider(on, Q)
    BY <1>4, <1>5
  <1>. QED
    BY <1>6 DEF Q

\* What is given for the names of a set.
Given(give, P) == [n \in DOMAIN P |-> UNION {give[m] : m \in P[n]}]

\* A level that adds what a name gives to what the next level says of its
\* aliases gives all that a chain longer by one step reaches.
LEMMA NextLevel ==
    ASSUME NEW S, NEW on, Links(on, S), NEW P \in [S -> SUBSET S], Deeper(on, P) = Wider(on, P),
           NEW give, DOMAIN give = S, NEW n \in S
    PROVE  give[n] \cup UNION {Given(give, P)[m] : m \in on[n]} = Given(give, Wider(on, P))[n]
  <1> DEFINE Q == Wider(on, P)
  <1>1. DOMAIN on = S /\ DOMAIN P = S /\ DOMAIN Q = S /\ on[n] \subseteq S
    BY DEF Links, Wider
  <1>2. Q[n] = {n} \cup UNION {P[m] : m \in on[n]}
    BY <1>1 DEF Deeper
  <1> HIDE DEF Q
  <1>3. \A m \in S : Given(give, P)[m] = UNION {give[k] : k \in P[m]}
    BY <1>1 DEF Given
  <1>4. Given(give, Q)[n] = UNION {give[k] : k \in Q[n]}
    BY <1>1 DEF Given
  <1>5. ASSUME NEW x, x \in give[n] \cup UNION {Given(give, P)[m] : m \in on[n]}
        PROVE  x \in UNION {give[k] : k \in Q[n]}
    <2>1. CASE x \in give[n]
      BY <1>2, <2>1
    <2>2. ASSUME NEW m \in on[n], x \in Given(give, P)[m] PROVE x \in UNION {give[k] : k \in Q[n]}
      <3>1. PICK k \in P[m] : x \in give[k]
        BY <1>1, <1>3, <2>2
      <3>2. k \in Q[n]
        BY <1>2
      <3>. QED
        BY <3>1, <3>2
    <2>. QED
      BY <1>5, <2>1, <2>2
  <1>6. ASSUME NEW k \in Q[n], NEW x \in give[k]
        PROVE  x \in give[n] \cup UNION {Given(give, P)[m] : m \in on[n]}
    <2>1. CASE k = n
      BY <1>6, <2>1
    <2>2. CASE k # n
      <3>1. PICK m \in on[n] : k \in P[m]
        BY <1>2, <2>2
      <3>2. x \in Given(give, P)[m]
        BY <1>1, <1>3, <3>1
      <3>. QED
        BY <3>2
    <2>. QED
      BY <2>1, <2>2
  <1>7. give[n] \cup UNION {Given(give, P)[m] : m \in on[n]} = UNION {give[k] : k \in Q[n]}
    BY <1>5, <1>6
  <1>. QED
    BY <1>4, <1>7 DEF Q

\* Names that are reached in five levels, each by its own records.
Level1(on) == Wider(on, Here(on))
Level2(on) == Wider(on, Level1(on))
Level3(on) == Wider(on, Level2(on))
Level4(on) == Wider(on, Level3(on))

LEMMA Levels ==
    ASSUME NEW S, NEW on, Links(on, S)
    PROVE  /\ Here(on) \in [S -> SUBSET S] /\ Deeper(on, Here(on)) = Wider(on, Here(on))
           /\ Level1(on) \in [S -> SUBSET S] /\ Deeper(on, Level1(on)) = Wider(on, Level1(on))
           /\ Level2(on) \in [S -> SUBSET S] /\ Deeper(on, Level2(on)) = Wider(on, Level2(on))
           /\ Level3(on) \in [S -> SUBSET S] /\ Deeper(on, Level3(on)) = Wider(on, Level3(on))
           /\ Level4(on) \in [S -> SUBSET S]
  <1>1. Here(on) \in [S -> SUBSET S] /\ Deeper(on, Here(on)) = Wider(on, Here(on))
    BY FirstStep
  <1>2. Level1(on) \in [S -> SUBSET S] /\ Deeper(on, Level1(on)) = Wider(on, Level1(on))
    BY <1>1, WiderIsSets, NextStep DEF Level1
  <1>3. Level2(on) \in [S -> SUBSET S] /\ Deeper(on, Level2(on)) = Wider(on, Level2(on))
    BY <1>2, WiderIsSets, NextStep DEF Level2
  <1>4. Level3(on) \in [S -> SUBSET S] /\ Deeper(on, Level3(on)) = Wider(on, Level3(on))
    BY <1>3, WiderIsSets, NextStep DEF Level3
  <1>5. Level4(on) \in [S -> SUBSET S]
    BY <1>4, WiderIsSets DEF Level4
  <1>. QED
    BY <1>1, <1>2, <1>3, <1>4, <1>5

NamesOf(tb, qname) == {qname} \cup {r.data : r \in tb}
OnwardOf(tb, qname, type, class) == [n \in NamesOf(tb, qname) |-> Onward(tb, n, type, class)]

LEMMA OnwardLinks ==
    ASSUME NEW tb, NEW qname, NEW type, NEW class
    PROVE  Links(OnwardOf(tb, qname, type, class), NamesOf(tb, qname))
  <1>1. \A n : Onward(tb, n, type, class) \subseteq NamesOf(tb, qname)
    BY DEF Onward, NamesOf, Aliases, RowsFor, InClass, RowsOf
  <1>. QED
    BY <1>1 DEF Links, OnwardOf

LEMMA ReachedIsLevel ==
    ASSUME NEW tb, NEW qname, NEW type, NEW class
    PROVE  Reached(tb, qname, type, class) = Level4(OnwardOf(tb, qname, type, class))[qname]
  <1> DEFINE on == OnwardOf(tb, qname, type, class)
             S == NamesOf(tb, qname)
             on1(n) == Onward(tb, n, type, class)
             body(w) == [k \in 0..4 |-> IF k = 0 THEN {qname}
                                        ELSE w[k - 1] \cup UNION {on1(n) : n \in w[k - 1]}]
             wit == [k \in 0..4 |-> IF k = 0 THEN Here(on)[qname]
                                    ELSE IF k = 1 THEN Level1(on)[qname]
                                    ELSE IF k = 2 THEN Level2(on)[qname]
                                    ELSE IF k = 3 THEN Level3(on)[qname]
                                    ELSE Level4(on)[qname]]
             within == CHOOSE w : w = body(w)
  <1>1. Reached(tb, qname, type, class) = within[4]
    BY DEF Reached
  <1>2. Links(on, S) /\ DOMAIN on = S /\ qname \in S /\ \A n \in S : on[n] = on1(n)
    BY OnwardLinks DEF OnwardOf, NamesOf
  <1> HIDE DEF on, S, on1
  <1>3. ASSUME NEW P \in [S -> SUBSET S]
        PROVE  Wider(on, P)[qname] = P[qname] \cup UNION {on1(n) : n \in P[qname]}
    <2>1. Wider(on, P)[qname] = P[qname] \cup UNION {on[n] : n \in P[qname]}
      BY <1>2 DEF Wider
    <2>2. P[qname] \subseteq S
      BY <1>2
    <2>3. \A n \in P[qname] : on[n] = on1(n)
      BY <1>2, <2>2
    <2>4. {on[n] : n \in P[qname]} = {on1(n) : n \in P[qname]}
      BY <2>3
    <2>. QED
      BY <2>1, <2>4
  <1>4. /\ Here(on)[qname] = {qname}
        /\ Level1(on)[qname] = Here(on)[qname] \cup UNION {on1(n) : n \in Here(on)[qname]}
        /\ Level2(on)[qname] = Level1(on)[qname] \cup UNION {on1(n) : n \in Level1(on)[qname]}
        /\ Level3(on)[qname] = Level2(on)[qname] \cup UNION {on1(n) : n \in Level2(on)[qname]}
        /\ Level4(on)[qname] = Level3(on)[qname] \cup UNION {on1(n) : n \in Level3(on)[qname]}
    <2>1. Here(on)[qname] = {qname}
      BY <1>2 DEF Here
    <2>2. /\ Here(on) \in [S -> SUBSET S] /\ Level1(on) \in [S -> SUBSET S]
          /\ Level2(on) \in [S -> SUBSET S] /\ Level3(on) \in [S -> SUBSET S]
      BY <1>2, Levels
    <2>. QED
      BY <1>3, <2>1, <2>2 DEF Level1, Level2, Level3, Level4
  <1>5. wit = body(wit)
    <2>1. /\ wit[0] = Here(on)[qname] /\ wit[1] = Level1(on)[qname] /\ wit[2] = Level2(on)[qname]
          /\ wit[3] = Level3(on)[qname] /\ wit[4] = Level4(on)[qname]
          /\ DOMAIN wit = 0..4 /\ wit = [k \in 0..4 |-> wit[k]]
      OBVIOUS
    <2> HIDE DEF wit
    <2>2. ASSUME NEW k \in 0..4
          PROVE  wit[k] = IF k = 0 THEN {qname} ELSE wit[k - 1] \cup UNION {on1(n) : n \in wit[k - 1]}
      <3>1. k \in {0, 1, 2, 3, 4}
        OBVIOUS
      <3>2. CASE k = 0
        BY <1>4, <2>1, <3>2
      <3>3. CASE k = 1
        BY <1>4, <2>1, <3>3
      <3>4. CASE k = 2
        BY <1>4, <2>1, <3>4
      <3>5. CASE k = 3
        BY <1>4, <2>1, <3>5
      <3>6. CASE k = 4
        BY <1>4, <2>1, <3>6
      <3>. QED
        BY <3>1, <3>2, <3>3, <3>4, <3>5, <3>6
    <2>. QED
      BY <2>1, <2>2
  <1>6. within = body(within)
    <2> HIDE DEF wit, body
    <2>. QED
      BY <1>5
  <1> HIDE DEF within, wit
  <1>7. \A k \in 0..4 : within[k] = IF k = 0 THEN {qname}
                                    ELSE within[k - 1] \cup UNION {on1(n) : n \in within[k - 1]}
    BY <1>6
  <1>8. within[0] = Here(on)[qname]
    BY <1>4, <1>7
  <1>9. within[1] = Level1(on)[qname]
    <2>1. within[1] = within[0] \cup UNION {on1(n) : n \in within[0]}
      BY <1>7
    <2>. QED
      BY <1>4, <1>8, <2>1
  <1>10. within[2] = Level2(on)[qname]
    <2>1. within[2] = within[1] \cup UNION {on1(n) : n \in within[1]}
      BY <1>7
    <2>. QED
      BY <1>4, <1>9, <2>1
  <1>11. within[3] = Level3(on)[qname]
    <2>1. within[3] = within[2] \cup UNION {on1(n) : n \in within[2]}
      BY <1>7
    <2>. QED
      BY <1>4, <1>10, <2>1
  <1>12. within[4] = Level4(on)[qname]
    <2>1. within[4] = within[3] \cup UNION {on1(n) : n \in within[3]}
      BY <1>7
    <2>. QED
      BY <1>4, <1>11, <2>1
  <1>. QED
    BY <1>1, <1>12 DEF on

\* A table of records of which no alias stands for a wildcard.
PlainAliases(tb) ==
    \A r \in tb : RowShape(r) /\ (r.type = "CNAME" => ~IsWildcard(r.data))

Gives(tb, qname, type, class) ==
    [n \in NamesOf(tb, qname) |-> {[r EXCEPT !.name = n] : r \in Matches(tb, n, type, class)}]

\* Chains never pass a name that is a wildcard.
PlainChains(S, P) ==
    \A n \in S : n \in Seq(STRING) /\ ~IsWildcard(n) =>
        \A m \in P[n] : m \in Seq(STRING) /\ ~IsWildcard(m)

LEMMA WiderIsPlain ==
    ASSUME NEW S, NEW on, Links(on, S), NEW P \in [S -> SUBSET S], PlainChains(S, P),
           \A n \in S : \A m \in on[n] : m \in Seq(STRING) /\ ~IsWildcard(m)
    PROVE  PlainChains(S, Wider(on, P))
  <1>1. DOMAIN on = S /\ \A n \in S : P[n] \subseteq S
    BY DEF Links
  <1>2. ASSUME NEW n \in S, n \in Seq(STRING), ~IsWildcard(n), NEW m \in Wider(on, P)[n]
        PROVE  m \in Seq(STRING) /\ ~IsWildcard(m)
    <2>1. Wider(on, P)[n] = P[n] \cup UNION {on[k] : k \in P[n]}
      BY <1>1 DEF Wider
    <2>2. CASE m \in P[n]
      BY <1>2, <2>2 DEF PlainChains
    <2>3. ASSUME NEW k \in P[n], m \in on[k] PROVE m \in Seq(STRING) /\ ~IsWildcard(m)
      BY <1>1, <2>3
    <2>. QED
      BY <1>2, <2>1, <2>2, <2>3
  <1>. QED
    BY <1>2 DEF PlainChains

LEMMA LevelRows ==
    ASSUME NEW tb, PlainAliases(tb), NEW qname, NEW type, NEW class,
           NEW name, name \in NamesOf(tb, qname), IsName(name),
           NEW P \in [NamesOf(tb, qname) -> SUBSET NamesOf(tb, qname)],
           PlainChains(NamesOf(tb, qname), P),
           Deeper(OnwardOf(tb, qname, type, class), P) = Wider(OnwardOf(tb, qname, type, class), P),
           NEW chain,
           chain = UNION {Given(Gives(tb, qname, type, class), P)[m] :
                            m \in Onward(tb, name, type, class)}
    PROVE  RowsAt(tb, type, class, name, chain)
             = Given(Gives(tb, qname, type, class), Wider(OnwardOf(tb, qname, type, class), P))[name]
  <1> DEFINE on == OnwardOf(tb, qname, type, class)
             S == NamesOf(tb, qname)
             give == Gives(tb, qname, type, class)
  <1>1. Links(on, S) /\ on[name] = Onward(tb, name, type, class) /\ DOMAIN give = S
    BY OnwardLinks DEF OnwardOf, Gives
  <1>2. ASSUME NEW m \in Onward(tb, name, type, class)
        PROVE  m \in S /\ m \in Seq(STRING) /\ ~IsWildcard(m)
    BY DEF Onward, Aliases, RowsFor, InClass, RowsOf, PlainAliases, RowShape, NamesOf
  <1>3. ASSUME NEW r \in chain PROVE ~IsWildcard(r.name)
    <2>1. PICK m \in Onward(tb, name, type, class) : r \in Given(give, P)[m]
      BY <1>3
    <2>2. Given(give, P)[m] = UNION {give[k] : k \in P[m]}
      BY <1>2 DEF Given
    <2>3. PICK k \in P[m] : r \in give[k]
      BY <2>1, <2>2
    <2>4. k \in S /\ ~IsWildcard(k)
      BY <1>2, <2>3 DEF PlainChains
    <2>5. PICK s \in Matches(tb, k, type, class) : r = [s EXCEPT !.name = k]
      BY <2>3, <2>4 DEF Gives
    <2>6. s \in tb
      BY DEF Matches, OfType, Aliases, RowsFor, InClass, RowsOf
    <2>7. s = [name |-> s.name, type |-> s.type, class |-> s.class, data |-> s.data, ttl |-> s.ttl]
      BY <2>6 DEF PlainAliases, RowShape
    <2>8. PICK a, b, c, d, e : s = [name |-> e, type |-> a, class |-> b, data |-> c, ttl |-> d]
      BY <2>7
    <2>9. r.name = k
      BY <2>5, <2>8
    <2>. QED
      BY <2>4, <2>9
  <1>4. Shaped(tb)
    BY DEF PlainAliases, Shaped
  <1>5. RowsAt(tb, type, class, name, chain) = OwnRows(tb, type, class, name) \cup chain
    <2>1. NoWildcard(chain)
      BY <1>3 DEF NoWildcard
    <2>2. IsName(name)
      OBVIOUS
    <2> HIDE DEF on, S, give
    <2>. QED
      BY ONLY <1>4, <2>1, <2>2, LevelOf
  <1>6. give[name] = OwnRows(tb, type, class, name)
    BY DEF Gives, OwnRows
  <1>7. chain = UNION {Given(give, P)[m] : m \in on[name]}
    BY <1>1
  <1> HIDE DEF on, S, give
  <1>8. give[name] \cup UNION {Given(give, P)[m] : m \in on[name]} = Given(give, Wider(on, P))[name]
    BY <1>1, NextLevel DEF on, S, give
  <1>. QED
    BY <1>5, <1>6, <1>7, <1>8 DEF on, give

\* The five levels of the resolution, the deepest first: 4 - k is the depth.
AnswerAt(tb, type, class, name, chain) ==
    [exists |-> RowsOf(tb, NameFound(tb, name)) # {}, rows |-> RowsAt(tb, type, class, name, chain)]
ChainAt(tb, type, class, name, deeper) ==
    UNION {deeper[n].rows : n \in Onward(tb, name, type, class)}
Depth4(tb, qname, type, class) ==
    [n \in NamesOf(tb, qname) |-> AnswerAt(tb, type, class, n, {})]
Shallower(tb, qname, type, class, deeper) ==
    [n \in NamesOf(tb, qname) |-> AnswerAt(tb, type, class, n, ChainAt(tb, type, class, n, deeper))]
Depth3(tb, qname, type, class) == Shallower(tb, qname, type, class, Depth4(tb, qname, type, class))
Depth2(tb, qname, type, class) == Shallower(tb, qname, type, class, Depth3(tb, qname, type, class))
Depth1(tb, qname, type, class) == Shallower(tb, qname, type, class, Depth2(tb, qname, type, class))
Depth0(tb, qname, type, class) == Shallower(tb, qname, type, class, Depth1(tb, qname, type, class))

LEMMA ResolveIsDepth ==
    ASSUME NEW tb, NEW qname, NEW type, NEW class
    PROVE  ResolveQuestion(tb, qname, type, class) = Depth0(tb, qname, type, class)[qname]
  <1> DEFINE S == NamesOf(tb, qname)
             Ans(n, chain) == AnswerAt(tb, type, class, n, chain)
             Ch(n, deeper) == ChainAt(tb, type, class, n, deeper)
             body(w) == [depth \in 0..4 |->
                           [n \in S |-> Ans(n, IF depth < 4 THEN Ch(n, w[depth + 1]) ELSE {})]]
             resolve == CHOOSE w : w = body(w)
             d4 == Depth4(tb, qname, type, class)
             d3 == Depth3(tb, qname, type, class)
             d2 == Depth2(tb, qname, type, class)
             d1 == Depth1(tb, qname, type, class)
             d0 == Depth0(tb, qname, type, class)
             wit == [depth \in 0..4 |-> IF depth = 4 THEN d4 ELSE IF depth = 3 THEN d3
                                        ELSE IF depth = 2 THEN d2 ELSE IF depth = 1 THEN d1 ELSE d0]
  <1>1. ResolveQuestion(tb, qname, type, class) = resolve[0][qname]
    BY DEF ResolveQuestion, NamesOf, AnswerAt, RowsAt, ChainAt
  <1>2. /\ d4 = [n \in S |-> Ans(n, {})]
        /\ d3 = [n \in S |-> Ans(n, Ch(n, d4))]
        /\ d2 = [n \in S |-> Ans(n, Ch(n, d3))]
        /\ d1 = [n \in S |-> Ans(n, Ch(n, d2))]
        /\ d0 = [n \in S |-> Ans(n, Ch(n, d1))]
    BY DEF Depth4, Depth3, Depth2, Depth1, Depth0, Shallower
  <1> HIDE DEF S, Ans, Ch, d4, d3, d2, d1, d0
  <1>3. wit = body(wit)
    <2>1. /\ wit[0] = d0 /\ wit[1] = d1 /\ wit[2] = d2 /\ wit[3] = d3 /\ wit[4] = d4
          /\ wit = [depth \in 0..4 |-> wit[depth]]
      OBVIOUS
    <2> HIDE DEF wit
    <2>2. ASSUME NEW depth \in 0..4
          PROVE  wit[depth] = [n \in S |-> Ans(n, IF depth < 4 THEN Ch(n, wit[depth + 1]) ELSE {})]
      <3>1. depth \in {0, 1, 2, 3, 4}
        OBVIOUS
      <3>2. CASE depth = 4
        BY <1>2, <2>1, <3>2
      <3>3. CASE depth = 3
        BY <1>2, <2>1, <3>3
      <3>4. CASE depth = 2
        BY <1>2, <2>1, <3>4
      <3>5. CASE depth = 1
        BY <1>2, <2>1, <3>5
      <3>6. CASE depth = 0
        BY <1>2, <2>1, <3>6
      <3>. QED
        BY <3>1, <3>2, <3>3, <3>4, <3>5, <3>6
    <2>. QED
      BY <2>1, <2>2
  <1>4. resolve = body(resolve)
    <2> HIDE DEF wit, body
    <2>. QED
      BY <1>3
  <1> HIDE DEF resolve, wit
  <1>5. \A depth \in 0..4 :
          resolve[depth] = [n \in S |-> Ans(n, IF depth < 4 THEN Ch(n, resolve[depth + 1]) ELSE {})]
    BY <1>4
  <1>6. resolve[4] = d4
    BY <1>2, <1>5
  <1>7. resolve[3] = d3
    BY <1>2, <1>5, <1>6
  <1>8. resolve[2] = d2
    BY <1>2, <1>5, <1>7
  <1>9. resolve[1] = d1
    BY <1>2, <1>5, <1>8
  <1>10. resolve[0] = d0
    BY <1>2, <1>5, <1>9
  <1>. QED
    BY <1>1, <1>10 DEF d0

\* The rows of a level are those of the names reached from there.
RowsReached(tb, qname, type, class, R, P) ==
    \A n \in NamesOf(tb, qname) : IsName(n) =>
        R[n].rows = Given(Gives(tb, qname, type, class), P)[n]

LEMMA OneDepth ==
    ASSUME NEW tb, PlainAliases(tb), NEW qname, NEW type, NEW class,
           NEW P \in [NamesOf(tb, qname) -> SUBSET NamesOf(tb, qname)],
           PlainChains(NamesOf(tb, qname), P),
           Deeper(OnwardOf(tb, qname, type, class), P) = Wider(OnwardOf(tb, qname, type, class), P),
           NEW R, RowsReached(tb, qname, type, class, R, P)
    PROVE  /\ RowsReached(tb, qname, type, class, Shallower(tb, qname, type, class, R),
                          Wider(OnwardOf(tb, qname, type, class), P))
           /\ PlainChains(NamesOf(tb, qname), Wider(OnwardOf(tb, qname, type, class), P))
  <1> DEFINE S == NamesOf(tb, qname)
             on == OnwardOf(tb, qname, type, class)
             give == Gives(tb, qname, type, class)
  <1>1. ASSUME NEW n, NEW m \in Onward(tb, n, type, class)
        PROVE  m \in S /\ m \in Seq(STRING) /\ ~IsWildcard(m)
    BY DEF Onward, Aliases, RowsFor, InClass, RowsOf, PlainAliases, RowShape, NamesOf
  <1>2. ASSUME NEW n \in S, IsName(n)
        PROVE  Shallower(tb, qname, type, class, R)[n].rows = Given(give, Wider(on, P))[n]
    <2> DEFINE chain == ChainAt(tb, type, class, n, R)
    <2>1. Shallower(tb, qname, type, class, R)[n].rows = RowsAt(tb, type, class, n, chain)
      BY DEF Shallower, AnswerAt
    <2>2. \A m \in Onward(tb, n, type, class) : R[m].rows = Given(give, P)[m]
      BY <1>1 DEF RowsReached, IsName
    <2>3. chain = UNION {Given(give, P)[m] : m \in Onward(tb, n, type, class)}
      <3>1. {R[m].rows : m \in Onward(tb, n, type, class)}
               = {Given(give, P)[m] : m \in Onward(tb, n, type, class)}
        BY <2>2
      <3>. QED
        BY <3>1 DEF ChainAt
    <2> HIDE DEF chain
    <2>4. RowsAt(tb, type, class, n, chain) = Given(give, Wider(on, P))[n]
      BY <1>2, <2>3, LevelRows
    <2>. QED
      BY <2>1, <2>4
  <1>3. Links(on, S) /\ \A n \in S : \A m \in on[n] : m \in Seq(STRING) /\ ~IsWildcard(m)
    BY <1>1, OnwardLinks DEF OnwardOf
  <1>4. PlainChains(S, Wider(on, P))
    BY <1>3, WiderIsPlain
  <1>. QED
    BY <1>2, <1>4 DEF RowsReached

\* The records a question is answered with are those of the names its chain of
\* aliases reaches in four steps.
LEMMA ResolutionFollowsChain ==
    ASSUME NEW tb, PlainAliases(tb), NEW qname, IsName(qname), NEW type, NEW class
    PROVE  ResolveQuestion(tb, qname, type, class).rows =
             UNION {{[r EXCEPT !.name = n] : r \in Matches(tb, n, type, class)}
                    : n \in Reached(tb, qname, type, class)}
  <1> DEFINE S == NamesOf(tb, qname)
             on == OnwardOf(tb, qname, type, class)
             give == Gives(tb, qname, type, class)
  <1>1. Links(on, S) /\ qname \in S
    BY OnwardLinks DEF NamesOf
  <1>2. DOMAIN on = S
    BY <1>1 DEF Links
  <1>3. PlainChains(S, Here(on))
    BY <1>2 DEF PlainChains, Here
  <1>4. ASSUME NEW n \in S, IsName(n)
        PROVE  Depth4(tb, qname, type, class)[n].rows = Given(give, Here(on))[n]
    <2>1. Depth4(tb, qname, type, class)[n].rows = RowsAt(tb, type, class, n, {})
      BY DEF Depth4, AnswerAt
    <2>2. NoWildcard({}) /\ Shaped(tb)
      BY DEF NoWildcard, Shaped, PlainAliases
    <2>3. RowsAt(tb, type, class, n, {}) = OwnRows(tb, type, class, n) \cup {}
      BY ONLY <1>4, <2>2, LevelOf
    <2>4. Here(on)[n] = {n} /\ DOMAIN Here(on) = S /\ give[n] = OwnRows(tb, type, class, n)
      BY <1>2 DEF Here, Gives, OwnRows
    <2>5. Given(give, Here(on))[n] = UNION {give[m] : m \in {n}}
      BY <2>4 DEF Given
    <2>. QED
      BY <2>1, <2>3, <2>4, <2>5
  <1>5. RowsReached(tb, qname, type, class, Depth4(tb, qname, type, class), Here(on))
    BY <1>4 DEF RowsReached
  <1>6. /\ Here(on) \in [S -> SUBSET S] /\ Deeper(on, Here(on)) = Wider(on, Here(on))
        /\ Level1(on) \in [S -> SUBSET S] /\ Deeper(on, Level1(on)) = Wider(on, Level1(on))
        /\ Level2(on) \in [S -> SUBSET S] /\ Deeper(on, Level2(on)) = Wider(on, Level2(on))
        /\ Level3(on) \in [S -> SUBSET S] /\ Deeper(on, Level3(on)) = Wider(on, Level3(on))
        /\ Level4(on) \in [S -> SUBSET S]
    BY <1>1, Levels
  <1>7. /\ RowsReached(tb, qname, type, class, Depth3(tb, qname, type, class), Level1(on))
        /\ PlainChains(S, Level1(on))
    BY <1>3, <1>5, <1>6, OneDepth DEF Depth3, Level1
  <1>8. /\ RowsReached(tb, qname, type, class, Depth2(tb, qname, type, class), Level2(on))
        /\ PlainChains(S, Level2(on))
    BY <1>6, <1>7, OneDepth DEF Depth2, Level2
  <1>9. /\ RowsReached(tb, qname, type, class, Depth1(tb, qname, type, class), Level3(on))
        /\ PlainChains(S, Level3(on))
    BY <1>6, <1>8, OneDepth DEF Depth1, Level3
  <1>10. RowsReached(tb, qname, type, class, Depth0(tb, qname, type, class), Level4(on))
    BY <1>6, <1>9, OneDepth DEF Depth0, Level4
  <1>11. ResolveQuestion(tb, qname, type, class).rows = Given(give, Level4(on))[qname]
    BY <1>1, <1>10, ResolveIsDepth DEF RowsReached
  <1>12. Reached(tb, qname, type, class) = Level4(on)[qname]
    BY ReachedIsLevel
  <1>13. Given(give, Level4(on))[qname] = UNION {give[n] : n \in Reached(tb, qname, type, class)}
    BY <1>1, <1>6, <1>12 DEF Given
  <1>14. \A n \in Reached(tb, qname, type, class) : give[n] = OwnRows(tb, type, class, n)
    BY <1>1, <1>6, <1>12 DEF Gives, OwnRows
  <1> HIDE DEF give
  <1>15. UNION {give[n] : n \in Reached(tb, qname, type, class)}
           = UNION {OwnRows(tb, type, class, n) : n \in Reached(tb, qname, type, class)}
    BY <1>14
  <1>. QED
    BY <1>11, <1>13, <1>15 DEF OwnRows

\* The rows of the table are those it may have, whatever change is under way.
RowsInv == table \subseteq KnownRows /\ editing.keep \subseteq KnownRows

LEMMA RowsStep == RowsInv /\ [DnsNext]_dnsVars => RowsInv'
  <1> SUFFICES ASSUME RowsInv, [DnsNext]_dnsVars PROVE RowsInv'
    OBVIOUS
  <1> USE DEF RowsInv
  <1>1. DefaultRows \subseteq KnownRows /\ EditRows \subseteq KnownRows
    BY DEF KnownRows
  <1>2. \A n : RowsOf(table, n) \subseteq table
    BY DEF RowsOf
  <1>3. ASSUME UNCHANGED records PROVE RowsInv'
    BY <1>3 DEF records
  <1>4. ASSUME NEW r \in EditRows, AddRecord(r) PROVE RowsInv'
    BY <1>1, <1>4 DEF AddRecord
  <1>5. ASSUME NEW n, NEW t, RemoveCopies(n, t) PROVE RowsInv'
    BY <1>2, <1>5 DEF RemoveCopies
  <1>6. CASE RemovePutsBack
    BY <1>6 DEF RemovePutsBack, NotEditing
  <1>7. ASSUME NEW keepDefaults, ClearEmpties(keepDefaults) PROVE RowsInv'
    BY <1>1, <1>7 DEF ClearEmpties, NotEditing
  <1>8. ASSUME NEW r \in DefaultRows, ClearAddsDefault(r) PROVE RowsInv'
    <2>1. editing' = NotEditing \/ editing' = [editing EXCEPT !.keep = @ \ {r}]
      BY <1>8 DEF ClearAddsDefault
    <2>. QED
      BY <1>1, <1>8, <2>1 DEF ClearAddsDefault, NotEditing
  <1>9. CASE EditStep
    BY <1>4, <1>5, <1>6, <1>7, <1>8, <1>9 DEF EditStep
  <1>10. CASE Start \/ CloseStops \/ CloseStep \/ ServeStep
    BY <1>3, <1>10 DEF Start, CloseStops, CloseStep, CloseTakesExecutor, CloseShutsDown,
       CloseClosesSocket,
       CloseReturns, ServeStep, ServeOpens, ServeBegins, ServeLoops, ServeEnds, ReceiveNothing,
          ReceiveFails
  <1>11. ASSUME NEW d \in Datagrams, Receive(d) PROVE RowsInv'
    BY <1>3, <1>11 DEF Receive
  <1>12. ASSUME NEW i \in Ids, HandleStep(i) PROVE RowsInv'
    BY <1>3, <1>12 DEF HandleStep, SendReply, Admit, GetExecutor, Submit, AddDoneCallback, Refused
  <1>13. ASSUME NEW i \in Ids, WorkStep(i) PROVE RowsInv'
    BY <1>3, <1>13 DEF WorkStep, TakeUp, AskUpstream, UpstreamSilent, GiveUp, Relay, Release
  <1>14. CASE UNCHANGED dnsVars
    BY <1>3, <1>14 DEF dnsVars
  <1>. QED
    BY <1>9, <1>10, <1>11, <1>12, <1>13, <1>14 DEF DnsNext

\* No record the server may be given, or has added, is an alias of a wildcard.
NoAliasOfWildcard == \A r \in KnownRows : r.type = "CNAME" => ~IsWildcard(r.data)

\* The depth-first resolution of any question over any records returns what the
\* chain of aliases reaches in four steps, loops and wildcards included, as long
\* as no alias stands for a wildcard: the records of that name would be taken for
\* those of a wildcard that answers for another.
THEOREM AliasChainsFollowed ==
    ASSUME NoAliasOfWildcard
    PROVE  DnsSpec => []ChainFollowed
  <1>1. DnsInit => RowsInv
    BY DEF DnsInit, RowsInv, KnownRows, NotEditing
  <1>2. RowsInv => ChainFollowed
    <2> SUFFICES ASSUME RowsInv, NEW d \in Datagrams
                 PROVE  Resolved(d).rows =
                          UNION {{[r EXCEPT !.name = n] : r \in Matches(table, n, d.type, d.class)}
                                 : n \in Reached(table, d.name, d.type, d.class)}
      BY DEF ChainFollowed
    <2>1. PlainAliases(table)
      BY DnsNames DEF PlainAliases, RowShape, RowsInv, NoAliasOfWildcard
    <2>2. IsName(d.name)
      BY DnsNames DEF IsName
    <2>. QED
      BY <2>1, <2>2, ResolutionFollowsChain DEF Resolved
  <1>3. QED
    BY <1>1, <1>2, RowsStep, PTL DEF DnsSpec
=============================================================================
