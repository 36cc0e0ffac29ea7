---------------------------- MODULE KeyValueCache ----------------------------
(***************************************************************************)
(* src/wsbuilder/cache.py: SQLiteMemoryCache, the in-memory store shared   *)
(* by the threads of an application.  A row of its table has a value, the  *)
(* time of its last use, an expiry and a count of hits; tags hang on rows  *)
(* and go with them (ON DELETE CASCADE).                                   *)
(*                                                                         *)
(* Every call runs under one lock, but most read the clock before they     *)
(* take it: Begin takes the stamp, the call itself is a later step.  The   *)
(* periodic clean-up, pop, tag and the counting calls read the clock once  *)
(* inside.  Values are numbers; what matters of them is their size.        *)
(***************************************************************************)
EXTENDS Integers, FiniteSetsExt, Functions

CONSTANTS Threads,         \* callers
          Ids,             \* <<namespace, key>> pairs in use
          Tags,            \* tag names
          Values,          \* numbers that callers store
          MaxValue,        \* bound: incr stops at this value
          Ttls,            \* ttl arguments; None is the argument left out
          DefaultTtl,      \* default_ttl, or None
          CleanupInterval, \* cleanup_interval_seconds; 0 turns it off
          Limits,          \* <<max_entries, max_bytes>> pairs to try; 0 is no limit
          MaxTime,         \* bound: ticks of the clock
          MaxCalls         \* bound: calls made

None == -1

ASSUME CacheAssumption ==
    /\ MaxValue \in Nat /\ Values \subseteq 0 .. MaxValue
    /\ Ttls \subseteq Nat \cup {None} /\ DefaultTtl \in Nat \cup {None}
    /\ {CleanupInterval, MaxTime, MaxCalls} \subseteq Nat /\ Limits \subseteq Nat \X Nat
    /\ IsFiniteSet(Ids)

VARIABLES
    limits,   \* the limits of this cache; they never change
    clock,    \* time.time(), in seconds
    stamp,    \* [Threads -> time]: `now' of a call that waits for the lock, or None
    store,    \* the tables and the counters: see Init
    told,     \* <<>>, <<id>> or <<id, value>>: what the last call told of id
    closed,   \* _closed
    calls,    \* calls made
    inserted  \* history: rows created since the counters were reset

vars == <<limits, clock, stamp, store, told, closed, calls, inserted>>

Init ==
    /\ limits \in Limits
    /\ clock = CleanupInterval           \* _last_cleanup_at is long ago
    /\ stamp = [t \in Threads |-> None]
    /\ store = [rows |-> [id \in {} |-> 0], tags |-> {}, cleaned |-> 0,
                gets |-> 0, hits |-> 0, misses |-> 0,
                deletes |-> 0, expired |-> 0, evictions |-> 0]
    /\ told = <<>>
    /\ closed = FALSE
    /\ calls = 0
    /\ inserted = 0

-----------------------------------------------------------------------------
(* The tables.                                                             *)

Namespaces == {id[1] : id \in Ids}
SizeOf(v) == IF v < 10 THEN 1 ELSE IF v < 100 THEN 2 ELSE 3                \* digits of the number
Bytes(rows) == MapThenSumSet(LAMBDA id : SizeOf(rows[id].val), DOMAIN rows)
Expired(row, now) == row.exp # None /\ row.exp <= now
ExpiresAt(ttl, now) ==
    LET seconds == IF ttl = None THEN DefaultTtl ELSE ttl
    IN  IF seconds = None THEN None ELSE now + seconds

Drop(s, ids) ==
    [s EXCEPT !.rows = Restrict(@, DOMAIN @ \ ids),
              !.tags = {p \in @ : p[1] \notin ids},
              !.deletes = @ + Cardinality(ids \cap DOMAIN s.rows)]

\* Fault: a row that expired is counted as such and not as deleted.
ExpiredOnly(s, ids) ==
    [Drop(s, ids) EXCEPT !.expired = @ + Cardinality(ids), !.deletes = s.deletes]

DropExpired(s, ids) == [Drop(s, ids) EXCEPT !.expired = @ + Cardinality(ids)]

Cleanup(s, names, now) ==
    DropExpired(s, {id \in DOMAIN s.rows : id[1] \in names /\ Expired(s.rows[id], now)})

MaybeCleanup(s) ==
    IF CleanupInterval = 0 \/ clock - s.cleaned < CleanupInterval THEN s
    ELSE [Cleanup(s, Namespaces, clock) EXCEPT !.cleaned = clock]

Has(s, id) == id \in DOMAIN s.rows

Fits(rows) ==
    /\ limits[1] = 0 \/ Cardinality(DOMAIN rows) <= limits[1]
    /\ limits[2] = 0 \/ Bytes(rows) <= limits[2]

Older(r1, r2) == r1.at < r2.at \/ (r1.at = r2.at /\ r1.hits < r2.hits)

\* Victims go from the least recently used on, until the rest fits.
Victims(rows) ==
    {out \in SUBSET DOMAIN rows :
        /\ Fits(Restrict(rows, DOMAIN rows \ out))
        /\ \A i \in out : \A j \in DOMAIN rows \ out : ~Older(rows[j], rows[i])
        /\ out # {} => \E last \in out :
              /\ \A i \in out : ~Older(rows[last], rows[i])
              /\ ~Fits(Restrict(rows, DOMAIN rows \ (out \ {last})))}

Evict(s) ==
    {[Drop(s, out) EXCEPT !.evictions = @ + Cardinality(out)] : out \in Victims(s.rows)}

\* Fault: INSERT OR IGNORE.
IgnoresConflict(s, id, v, at, exp) ==
    IF id \in DOMAIN s.rows THEN s
    ELSE [s EXCEPT !.rows = [i \in DOMAIN @ \cup {id} |->
                                IF i = id THEN [val |-> v, at |-> at, exp |-> exp, hits |-> 0]
                                ELSE @[i]]]

\* INSERT ... ON CONFLICT DO UPDATE: hits survive an update.
Upsert(s, id, v, at, exp) ==
    LET row  == [val |-> v, at |-> at, exp |-> exp,
                 hits |-> IF Has(s, id) THEN s.rows[id].hits ELSE 0]
        rows == [i \in DOMAIN s.rows \cup {id} |-> IF i = id THEN row ELSE s.rows[i]]
    IN  [s EXCEPT !.rows = rows]

-----------------------------------------------------------------------------
(* Calls.                                                                  *)

Tick == /\ clock < CleanupInterval + MaxTime
        /\ clock' = clock + 1
        /\ UNCHANGED <<limits, stamp, store, told, closed, calls, inserted>>

Begin(t) ==
    /\ stamp[t] = None /\ calls < MaxCalls
    /\ stamp' = [stamp EXCEPT ![t] = clock]
    /\ calls' = calls + 1
    /\ UNCHANGED <<limits, clock, store, told, closed, inserted>>

\* The call of t ends; it leaves store `s', tells `a', creates `new' rows.
Return(t, s, a, new) ==
    /\ stamp' = [stamp EXCEPT ![t] = None]
    /\ store' = s
    /\ told' = a
    /\ inserted' = inserted + new
    /\ UNCHANGED <<limits, clock, closed, calls>>

Created(s, id) == IF Has(s, id) THEN 0 ELSE 1

\* The store once `id' has been looked up by a call stamped `now'.
Lookup(s, id, now) ==
    IF Has(s, id) /\ Expired(s.rows[id], now) THEN DropExpired(s, {id}) ELSE s

Told(s, id) == IF Has(s, id) THEN <<id, s.rows[id].val>> ELSE <<id>>

\* set(), add() (absent) and replace() (present).  tagging is <<>> when no
\* tags are given: those of the row then stay.
Store(t, id, v, ttl, tagging, mode) ==
    LET now == stamp[t]
        exp == ExpiresAt(ttl, now)
        s   == Lookup(MaybeCleanup(store), id, now)
        w   == [Upsert(s, id, v, now, exp) EXCEPT !.tags =
                   IF tagging = <<>> THEN @
                   ELSE {p \in @ : p[1] # id} \cup {<<id, g>> : g \in tagging[1]}]
    IN  IF exp # None /\ exp <= now THEN Return(t, Drop(store, {id}), <<id>>, 0)
        ELSE IF (mode = "absent" /\ Has(s, id)) \/ (mode = "present" /\ ~Has(s, id))
             THEN Return(t, s, <<>>, 0)
        ELSE \E left \in Evict(w) : Return(t, left, <<id, v>>, Created(s, id))

Set(t) == \E id \in Ids, v \in Values, ttl \in Ttls, mode \in {"any", "absent", "present"} :
            \E tagging \in {<<>>} \cup {<<g>> : g \in SUBSET Tags} :
                Store(t, id, v, ttl, tagging, mode)

\* get() and has(); with touch the expiry moves.
Fetch(t, id, touch, ttl) ==
    LET now == stamp[t]
        s   == [Lookup(MaybeCleanup(store), id, now) EXCEPT !.gets = @ + 1]
        exp == IF touch /\ (ttl # None \/ DefaultTtl # None) THEN ExpiresAt(ttl, now)
               ELSE s.rows[id].exp
    IN  IF ~Has(s, id) THEN Return(t, [s EXCEPT !.misses = @ + 1], <<id>>, 0)
        ELSE Return(t, [s EXCEPT !.hits = @ + 1,
                                 !.rows[id] = [@ EXCEPT !.hits = s.rows[id].hits + 1,
                                                         !.at = now, !.exp = exp]],
                    Told(s, id), 0)

Get(t) == \E id \in Ids : \/ Fetch(t, id, FALSE, None)
                          \/ \E ttl \in Ttls : Fetch(t, id, TRUE, ttl)

\* get_with_meta() and ttl() look, and count nothing but what they drop.
Peek(t) == \E id \in Ids : LET s == Lookup(store, id, stamp[t]) IN Return(t, s, Told(s, id), 0)

Pop(t) == \E id \in Ids : LET s == Lookup(store, id, clock)
                          IN  Return(t, Drop(s, {id}), Told(s, id), 0)

\* incr() and decr(): a live row keeps its expiry unless a ttl is given.
Incr(t) ==
    \E id \in Ids, ttl \in Ttls :
        LET now == stamp[t]
            s   == Lookup(MaybeCleanup(store), id, now)
            v   == IF Has(s, id) THEN s.rows[id].val + 1 ELSE 1
            exp == IF Has(s, id) /\ ttl = None THEN s.rows[id].exp ELSE ExpiresAt(ttl, now)
        IN  /\ v <= MaxValue
            /\ \E left \in Evict(Upsert(s, id, v, now, exp)) :
                  Return(t, left, <<id, v>>, Created(s, id))

\* expire() asks for the row and not whether it has expired.
Expire(t) ==
    \E id \in Ids, ttl \in Ttls :
        LET now == stamp[t]
        IN  Return(t, IF Has(store, id)
                      THEN [store EXCEPT !.rows[id] = [@ EXCEPT !.at = now,
                                                                !.exp = ExpiresAt(ttl, now)]]
                      ELSE store, <<>>, 0)

Touch(t) ==
    \E id \in Ids, ttl \in Ttls :
        LET now == stamp[t]
            s   == Lookup(store, id, now)
            exp == IF ttl # None \/ DefaultTtl # None THEN ExpiresAt(ttl, now) ELSE s.rows[id].exp
        IN  Return(t, IF Has(s, id)
                      THEN [s EXCEPT !.rows[id] = [@ EXCEPT !.at = now, !.exp = exp]] ELSE s, <<>>, 0)

Tag(t) ==
    \E id \in Ids, added \in SUBSET Tags \ {{}}, replace \in BOOLEAN :
        LET s == Lookup(store, id, clock)
        IN  Return(t, IF ~Has(s, id) THEN s
                      ELSE [s EXCEPT !.tags = {p \in @ : ~replace \/ p[1] # id}
                                              \cup {<<id, g>> : g \in added}], <<>>, 0)

Untag(t) ==
    \E id \in Ids, removed \in SUBSET Tags \ {{}} :
        Return(t, [store EXCEPT !.tags = @ \ {<<id, g>> : g \in removed}], <<>>, 0)

\* delete() and delete_many(); clear(); invalidate_tags(): one namespace or all.
Delete(t) == \E id \in Ids : Return(t, Drop(store, {id}), <<id>>, 0)
Clear(t) == \E names \in {Namespaces} \cup {{n} : n \in Namespaces} :
                Return(t, Drop(store, {id \in Ids : id[1] \in names}), <<>>, 0)
Invalidate(t) ==
    \E tags \in SUBSET Tags \ {{}}, names \in {Namespaces} \cup {{n} : n \in Namespaces} :
        Return(t, Drop(store, {p[1] : p \in {q \in store.tags : q[1][1] \in names /\ q[2] \in tags}}),
               <<>>, 0)

\* count(), size_bytes() and stats() clean up before they count; only
\* cleanup() itself puts off the next periodic one.
Count(t) ==
    \E names \in {Namespaces} \cup {{n} : n \in Namespaces}, periodic \in BOOLEAN :
        Return(t, [Cleanup(store, names, clock) EXCEPT !.cleaned = IF periodic THEN clock ELSE @],
               <<>>, 0)

ResetStats(t) ==
    /\ Return(t, [store EXCEPT !.gets = 0, !.hits = 0, !.misses = 0, !.deletes = 0,
                               !.expired = 0, !.evictions = 0], <<>>,
              Cardinality(DOMAIN store.rows) - inserted)

Close == /\ ~closed
         /\ closed' = TRUE
         /\ UNCHANGED <<limits, clock, stamp, store, told, calls, inserted>>

\* _require_open raises, in every call.
Refuse(t) == /\ closed /\ stamp[t] # None
             /\ stamp' = [stamp EXCEPT ![t] = None]
             /\ UNCHANGED <<limits, clock, store, told, closed, calls, inserted>>

Call(t) ==
    /\ stamp[t] # None /\ ~closed
    /\ \/ Set(t) \/ Get(t) \/ Peek(t) \/ Pop(t) \/ Incr(t) \/ Expire(t) \/ Touch(t)
       \/ Tag(t) \/ Untag(t) \/ Delete(t) \/ Clear(t) \/ Invalidate(t) \/ Count(t)
       \/ ResetStats(t)

Next == Tick \/ Close \/ \E t \in Threads : Begin(t) \/ Call(t) \/ Refuse(t)

Spec == Init /\ [][Next]_vars

-----------------------------------------------------------------------------
(* Properties.                                                             *)

\* Tags hang on rows that exist: a key that is stored again after it was
\* deleted, evicted or expired does not come back under its old tags.
TypeOK ==
    /\ DOMAIN store.rows \subseteq Ids
    /\ \A id \in DOMAIN store.rows :
          store.rows[id] \in [val : 0 .. MaxValue, at : Nat, exp : Nat \cup {None}, hits : Nat]
    /\ store.tags \subseteq (DOMAIN store.rows) \X Tags
    /\ stamp \in [Threads -> Nat \cup {None}]

\* _evict_if_needed_locked: no call leaves the store over either limit.
StoreBounded == Fits(store.rows)

\* Every row that was created is still there or counted as deleted, once;
\* every get is a hit or a miss.
CountersAgree ==
    /\ inserted = Cardinality(DOMAIN store.rows) + store.deletes
    /\ store.expired + store.evictions <= store.deletes
    /\ store.gets = store.hits + store.misses

\* The store, its limits and its counters tell the same story, whichever of the
\* calls removed a row.
BooksBalance == TypeOK /\ StoreBounded /\ CountersAgree

\* The cache is a map that may forget (CacheContract): whatever expiry,
\* eviction, tags and counters do, a caller is told the value last written, a
\* write leaves no older value behind, and what is said to be gone is gone.
Contract == INSTANCE CacheContract WITH
                Values <- 0 .. MaxValue,
                content <- [id \in DOMAIN store.rows |-> store.rows[id].val]
ImplementsContract == Contract!Spec
=============================================================================
