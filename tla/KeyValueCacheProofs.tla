------------------------- MODULE KeyValueCacheProofs -------------------------
(***************************************************************************)
(* Proofs about KeyValueCache: its books are balanced, and it is a map that*)
(* may forget (CacheContract), for any threads, keys, tags, limits, times  *)
(* to live and default, and any number of calls.                           *)
(*                                                                         *)
(* A limit on bytes is a sum over the rows, so the proof needs that a sum  *)
(* over part of the rows is no larger, for every table.  That is proved    *)
(* without an induction rule: of the finite sets that break a claim one    *)
(* has no smaller one in it that does, and that one contradicts itself.    *)
(*                                                                         *)
(* Every call is then one of two kinds.  It leaves part of the store, every*)
(* row that went counted as deleted (Kept), or it writes one row first     *)
(* (Wrote); the clean-ups, removals and evictions it is made of compose.   *)
(***************************************************************************)
EXTENDS KeyValueCache, FiniteSetTheorems, WellFoundedInduction, TLAPS

\* A nonempty set of numbers has a least one.
LEMMA LeastOfNats ==
  ASSUME NEW T, T \subseteq Nat, T # {}
  PROVE  \E x \in T : \A y \in T : x <= y
  <1> DEFINE R == {ss \in Nat \X Nat : ss[1] < ss[2]}
  <1>1. IsWellFoundedOn(R, Nat)
    BY NatLessThanWellFounded DEF OpToRel
  <1>2. PICK x \in T : \A y \in T : <<y, x>> \notin R
    <2> HIDE DEF R
    <2>. QED
      BY <1>1, WFMin
  <1>3. ASSUME NEW y \in T PROVE x <= y
    <2>1. x \in Nat /\ y \in Nat /\ <<y, x>> \in Nat \X Nat
      OBVIOUS
    <2>. QED
      BY <1>2, <2>1
  <1>. QED
    BY <1>3

\* Of finite sets of a kind one has no proper subset of that kind.
LEMMA LeastOfSets ==
  ASSUME NEW S, IsFiniteSet(S), NEW B, B \subseteq SUBSET S, B # {}
  PROVE  \E s \in B : \A u \in B : u \subseteq s => u = s
  <1>1. \A s \in SUBSET S : IsFiniteSet(s) /\ Cardinality(s) \in Nat
    BY FS_Subset, FS_CardinalityType
  <1> DEFINE T == {n \in Nat : \E s \in B : n = Cardinality(s)}
  <1>2. T # {} /\ T \subseteq Nat
    BY <1>1
  <1>3. PICK n \in T : \A m \in T : n <= m
    <2> HIDE DEF T
    <2>. QED
      BY <1>2, LeastOfNats
  <1>4. PICK s \in B : n = Cardinality(s)
    OBVIOUS
  <1>5. ASSUME NEW u \in B, u \subseteq s, u # s PROVE FALSE
    <2>1. Cardinality(u) < Cardinality(s)
      BY <1>1, <1>5, FS_Subset
    <2>2. Cardinality(u) \in T
      BY <1>1
    <2>. QED
      BY <1>1, <1>3, <1>4, <2>1, <2>2
  <1>. QED
    BY <1>5

\* An element of a nonempty set, and the sums of w over the subsets of S, taken
\* one such element at a time, as the library's folds over sets do.
Some(s) == CHOOSE x \in s : TRUE
Sums(w, S) ==
  CHOOSE f : f = [s \in SUBSET S |-> IF s = {} THEN 0 ELSE w[Some(s)] + f[s \ {Some(s)}]]

\* Sums exists as a function: its definition by itself is consistent.
LEMMA SumsAre ==
  ASSUME NEW w, NEW S, IsFiniteSet(S)
  PROVE  \A s \in SUBSET S :
           Sums(w, S)[s] = IF s = {} THEN 0 ELSE w[Some(s)] + Sums(w, S)[s \ {Some(s)}]
  <1> DEFINE UpTo(n) == {s \in SUBSET S : Cardinality(s) <= n}
             Step(f, s) == IF s = {} THEN 0 ELSE w[Some(s)] + f[s \ {Some(s)}]
             T == {n \in Nat : ~ \E f : f = [s \in UpTo(n) |-> Step(f, s)]}
  <1>1. \A s \in SUBSET S : IsFiniteSet(s) /\ Cardinality(s) \in Nat /\ Cardinality(s) <= Cardinality(S)
    BY FS_Subset, FS_CardinalityType
  <1>2. \A s \in SUBSET S : s # {} => /\ Some(s) \in s /\ s \ {Some(s)} \in SUBSET S
                                      /\ Cardinality(s \ {Some(s)}) = Cardinality(s) - 1
    <2> SUFFICES ASSUME NEW s \in SUBSET S, s # {}
                 PROVE  /\ Some(s) \in s /\ s \ {Some(s)} \in SUBSET S
                        /\ Cardinality(s \ {Some(s)}) = Cardinality(s) - 1
      OBVIOUS
    <2>1. Some(s) \in s
      BY DEF Some
    <2>. QED
      BY <1>1, <2>1, FS_RemoveElement
  <1>3. T = {}
    <2> SUFFICES ASSUME T # {} PROVE FALSE
      OBVIOUS
    <2>1. PICK n \in T : \A m \in T : n <= m
      <3>1. T \subseteq Nat
        OBVIOUS
      <3> HIDE DEF T
      <3>. QED
        BY <3>1, LeastOfNats
    <2>2. n \in Nat /\ ~ \E f : f = [s \in UpTo(n) |-> Step(f, s)]
      OBVIOUS
    <2>3. CASE n = 0
      <3>1. \A s \in UpTo(0) : s = {}
        BY <1>1, FS_EmptySet
      <3>2. [s \in UpTo(0) |-> 0] = [s \in UpTo(0) |-> Step([u \in UpTo(0) |-> 0], s)]
        BY <3>1
      <3>. QED
        BY <2>2, <2>3, <3>2
    <2>4. CASE n # 0
      <3>1. n - 1 \in Nat /\ n - 1 \notin T
        <4> HIDE DEF T
        <4>. QED
          BY <2>1, <2>2, <2>4
      <3>2. PICK f : f = [s \in UpTo(n - 1) |-> Step(f, s)]
        BY <3>1
      <3>3. PICK g : g = [s \in UpTo(n) |-> Step(f, s)]
        OBVIOUS
      <3>4. \A u \in UpTo(n - 1) : u \in UpTo(n) /\ g[u] = f[u]
        <4> SUFFICES ASSUME NEW u \in UpTo(n - 1) PROVE u \in UpTo(n) /\ g[u] = f[u]
          OBVIOUS
        <4>1. u \in UpTo(n)
          BY <1>1, <2>2
        <4>2. f[u] = Step(f, u)
          <5> HIDE DEF UpTo, Step
          <5>. QED
            BY <3>2
        <4>3. g[u] = Step(f, u)
          <5> HIDE DEF UpTo, Step
          <5>. QED
            BY <3>3, <4>1
        <4>. QED
          BY <4>1, <4>2, <4>3
      <3>5. \A s \in UpTo(n) : s # {} => s \ {Some(s)} \in UpTo(n - 1)
        BY <1>1, <1>2, <2>2
      <3>6. \A s \in UpTo(n) : Step(f, s) = Step(g, s)
        <4> SUFFICES ASSUME NEW s \in UpTo(n) PROVE Step(f, s) = Step(g, s)
          OBVIOUS
        <4> HIDE DEF UpTo
        <4>. QED
          BY <3>4, <3>5
      <3>7. g = [s \in UpTo(n) |-> Step(g, s)]
        <4> HIDE DEF UpTo, Step
        <4>. QED
          BY <3>3, <3>6
      <3>. QED
        BY <2>2, <3>7
    <2>. QED
      BY <2>3, <2>4
  <1>4. Cardinality(S) \in Nat /\ UpTo(Cardinality(S)) = SUBSET S
    BY <1>1
  <1>5. \E f : f = [s \in UpTo(Cardinality(S)) |-> Step(f, s)]
    BY <1>3, <1>4
  <1>6. \E f : f = [s \in SUBSET S |-> Step(f, s)]
    <2> HIDE DEF UpTo
    <2>. QED
      BY <1>4, <1>5
  <1>7. PICK f : f = Sums(w, S)
    OBVIOUS
  <1>8. f = [s \in SUBSET S |-> Step(f, s)]
    BY <1>6, <1>7 DEF Sums
  <1>9. \A s \in SUBSET S : f[s] = Step(f, s)
    <2> HIDE DEF Step
    <2>. QED
      BY <1>8
  <1>. QED
    BY <1>7, <1>9

\* The same for one set, with the two cases apart.
LEMMA SumOf ==
  ASSUME NEW w, NEW S, IsFiniteSet(S), NEW s \in SUBSET S
  PROVE  /\ s = {} => Sums(w, S)[s] = 0
         /\ s # {} => /\ Some(s) \in s /\ s \ {Some(s)} \in SUBSET S
                      /\ Sums(w, S)[s] = w[Some(s)] + Sums(w, S)[s \ {Some(s)}]
  <1>1. Sums(w, S)[s] = IF s = {} THEN 0 ELSE w[Some(s)] + Sums(w, S)[s \ {Some(s)}]
    <2>1. \A u \in SUBSET S :
            Sums(w, S)[u] = IF u = {} THEN 0 ELSE w[Some(u)] + Sums(w, S)[u \ {Some(u)}]
      BY SumsAre, Zenon
    <2>. QED
      BY <2>1, Zenon
  <1>2. s # {} => Some(s) \in s
    BY DEF Some
  <1>. QED
    BY <1>1, <1>2

\* Sums of numbers are numbers.
LEMMA SumIsNat ==
  ASSUME NEW w, NEW S, IsFiniteSet(S), \A x \in S : w[x] \in Nat
  PROVE  \A s \in SUBSET S : Sums(w, S)[s] \in Nat
  <1> DEFINE B == {s \in SUBSET S : Sums(w, S)[s] \notin Nat}
  <1> SUFFICES ASSUME B # {} PROVE FALSE
    OBVIOUS
  <1>1. PICK s \in B : \A u \in B : u \subseteq s => u = s
    <2>1. B \subseteq SUBSET S
      OBVIOUS
    <2> HIDE DEF B
    <2>. QED
      BY <2>1, LeastOfSets
  <1>2. s # {} /\ Some(s) \in s /\ s \ {Some(s)} \in SUBSET S
        /\ Sums(w, S)[s] = w[Some(s)] + Sums(w, S)[s \ {Some(s)}]
    BY SumOf
  <1>3. Sums(w, S)[s \ {Some(s)}] \in Nat
    BY <1>1, <1>2
  <1>4. w[Some(s)] \in Nat
    BY <1>2
  <1>. QED
    BY <1>2, <1>3, <1>4

\* A sum does not depend on the order in which it is taken.
LEMMA SumWithout ==
  ASSUME NEW w, NEW S, IsFiniteSet(S), \A x \in S : w[x] \in Nat
  PROVE  \A s \in SUBSET S : \A x \in s : Sums(w, S)[s] = w[x] + Sums(w, S)[s \ {x}]
  <1> DEFINE B == {s \in SUBSET S : ~ \A x \in s : Sums(w, S)[s] = w[x] + Sums(w, S)[s \ {x}]}
  <1> SUFFICES ASSUME B # {} PROVE FALSE
    OBVIOUS
  <1>1. PICK s \in B : \A u \in B : u \subseteq s => u = s
    <2>1. B \subseteq SUBSET S
      OBVIOUS
    <2> HIDE DEF B
    <2>. QED
      BY <2>1, LeastOfSets
  <1>2. PICK x \in s : Sums(w, S)[s] # w[x] + Sums(w, S)[s \ {x}]
    OBVIOUS
  <1>3. PICK p : p = Some(s)
    OBVIOUS
  <1>4. p \in s /\ Sums(w, S)[s] = w[p] + Sums(w, S)[s \ {p}]
    BY <1>2, <1>3, SumOf
  <1>5. p # x
    BY <1>2, <1>4
  <1>6. Sums(w, S)[s \ {p}] = w[x] + Sums(w, S)[(s \ {p}) \ {x}]
    <2>1. s \ {p} \notin B /\ s \ {p} \in SUBSET S /\ x \in s \ {p}
      BY <1>1, <1>4, <1>5
    <2>. QED
      BY <2>1
  <1>7. Sums(w, S)[s \ {x}] = w[p] + Sums(w, S)[(s \ {x}) \ {p}]
    <2>1. s \ {x} \notin B /\ s \ {x} \in SUBSET S /\ p \in s \ {x}
      BY <1>1, <1>4, <1>5
    <2>. QED
      BY <2>1
  <1>8. (s \ {p}) \ {x} = (s \ {x}) \ {p} /\ (s \ {x}) \ {p} \in SUBSET S
    OBVIOUS
  <1>9. w[p] \in Nat /\ w[x] \in Nat /\ Sums(w, S)[(s \ {x}) \ {p}] \in Nat
    BY <1>4, <1>8, SumIsNat
  <1>10. PICK rest : rest = Sums(w, S)[(s \ {x}) \ {p}]
    OBVIOUS
  <1>11. Sums(w, S)[s] = w[p] + (w[x] + rest) /\ Sums(w, S)[s \ {x}] = w[p] + rest
    BY <1>4, <1>6, <1>7, <1>8, <1>10
  <1>12. w[p] + (w[x] + rest) = w[x] + (w[p] + rest)
    BY <1>9, <1>10
  <1> HIDE DEF B
  <1>. QED
    BY <1>2, <1>11, <1>12

\* The sum over part of a set is no larger.
LEMMA SumGrows ==
  ASSUME NEW w, NEW S, IsFiniteSet(S), \A x \in S : w[x] \in Nat, NEW v \in SUBSET S
  PROVE  Sums(w, S)[v] <= Sums(w, S)[S]
  <1> DEFINE B == {s \in SUBSET S : v \subseteq s /\ ~(Sums(w, S)[v] <= Sums(w, S)[s])}
  <1> SUFFICES ASSUME B # {} PROVE FALSE
    OBVIOUS
  <1>1. PICK s \in B : \A u \in B : u \subseteq s => u = s
    <2>1. B \subseteq SUBSET S
      OBVIOUS
    <2> HIDE DEF B
    <2>. QED
      BY <2>1, LeastOfSets
  <1>2. s # v
    BY SumIsNat
  <1>3. PICK x \in s : x \notin v
    BY <1>2
  <1>4. s \ {x} \notin B /\ v \subseteq s \ {x} /\ s \ {x} \in SUBSET S
    BY <1>1, <1>3
  <1>5. Sums(w, S)[v] <= Sums(w, S)[s \ {x}]
    BY <1>4
  <1>6. Sums(w, S)[s] = w[x] + Sums(w, S)[s \ {x}]
    BY SumWithout
  <1>7. w[x] \in Nat /\ Sums(w, S)[s \ {x}] \in Nat /\ Sums(w, S)[v] \in Nat
    BY <1>4, SumIsNat
  <1>. QED
    BY <1>5, <1>6, <1>7

\* Two weights that agree on a set have the same sums within it.
LEMMA SumAgrees ==
  ASSUME NEW w, NEW v, NEW S, NEW R \in SUBSET S, IsFiniteSet(S), \A x \in R : w[x] = v[x]
  PROVE  \A s \in SUBSET R : Sums(w, R)[s] = Sums(v, S)[s]
  <1>1. IsFiniteSet(R)
    BY FS_Subset
  <1> DEFINE B == {s \in SUBSET R : Sums(w, R)[s] # Sums(v, S)[s]}
  <1> SUFFICES ASSUME B # {} PROVE FALSE
    OBVIOUS
  <1>2. PICK s \in B : \A u \in B : u \subseteq s => u = s
    <2>1. B \subseteq SUBSET R
      OBVIOUS
    <2> HIDE DEF B
    <2>. QED
      BY <1>1, <2>1, LeastOfSets
  <1>3. s \in SUBSET R /\ s \in SUBSET S
    OBVIOUS
  <1>4. s # {} /\ Some(s) \in s /\ s \ {Some(s)} \in SUBSET R
    <2>1. s = {} => Sums(w, R)[s] = 0
      BY <1>1, <1>3, SumOf
    <2>2. s = {} => Sums(v, S)[s] = 0
      BY <1>3, SumOf
    <2>3. Sums(w, R)[s] # Sums(v, S)[s]
      OBVIOUS
    <2>. QED
      BY <1>3, <2>1, <2>2, <2>3 DEF Some
  <1>5. Sums(w, R)[s] = w[Some(s)] + Sums(w, R)[s \ {Some(s)}]
    BY <1>1, <1>3, <1>4, SumOf
  <1>6. Sums(v, S)[s] = v[Some(s)] + Sums(v, S)[s \ {Some(s)}]
    BY <1>3, <1>4, SumOf
  <1>7. Sums(w, R)[s \ {Some(s)}] = Sums(v, S)[s \ {Some(s)}]
    BY <1>2, <1>4
  <1>8. w[Some(s)] = v[Some(s)]
    BY <1>4
  <1>. QED
    BY <1>5, <1>6, <1>7, <1>8

\* What each row takes up.
Sizes(rows) == [id \in DOMAIN rows |-> SizeOf(rows[id].val)]

\* Bytes is such a sum.
LEMMA BytesAreSums == ASSUME NEW rows PROVE Bytes(rows) = Sums(Sizes(rows), DOMAIN rows)[DOMAIN rows]
  BY DEF Bytes, MapThenSumSet, MapThenFoldSet, Sums, Sizes, Some

\* Rows that go, or that keep their values, take up no more bytes.
LEMMA BytesShrink ==
  ASSUME NEW rows, NEW left, IsFiniteSet(DOMAIN rows), DOMAIN left \subseteq DOMAIN rows,
         \A id \in DOMAIN left : left[id].val = rows[id].val
  PROVE  Bytes(left) \in Nat /\ Bytes(rows) \in Nat /\ Bytes(left) <= Bytes(rows)
  <1>1. /\ \A id \in DOMAIN rows : Sizes(rows)[id] \in Nat
        /\ \A id \in DOMAIN left : Sizes(left)[id] = Sizes(rows)[id]
    BY DEF Sizes, SizeOf
  <1>2. Bytes(left) = Sums(Sizes(rows), DOMAIN rows)[DOMAIN left]
    BY <1>1, SumAgrees, BytesAreSums
  <1>. QED
    BY <1>1, <1>2, BytesAreSums, SumGrows, SumIsNat

-----------------------------------------------------------------------------
(* The tables: what a call leaves of a store. *)

\* Times, rows, and the records that a store is.
Time == Nat \cup {None}
Row == [val : 0 .. MaxValue, at : Nat, exp : Time, hits : Nat]
Rows == UNION {[ids -> Row] : ids \in SUBSET Ids}
Tables == [rows : Rows, tags : SUBSET (Ids \X Tags), cleaned : Nat, gets : Nat, hits : Nat,
           misses : Nat, deletes : Nat, expired : Nat, evictions : Nat]

\* Rows that were created: those that are there and those counted as deleted.
Made(s) == Cardinality(DOMAIN s.rows) + s.deletes

\* Tags hang on rows, what expired or was evicted was deleted, and a get is a
\* hit or a miss.
Sound(s) ==
  /\ s \in Tables
  /\ s.tags \subseteq (DOMAIN s.rows) \X Tags
  /\ s.expired + s.evictions <= s.deletes
  /\ s.gets = s.hits + s.misses

\* What is left of a store is part of it, with the values it had, and every row
\* that is missing is counted as deleted.
Kept(s, left) ==
  /\ Sound(left)
  /\ DOMAIN left.rows \subseteq DOMAIN s.rows
  /\ \A id \in DOMAIN left.rows : left.rows[id].val = s.rows[id].val
  /\ Made(left) = Made(s)

\* Rows are the functions from ids to rows.
LEMMA RowsAre ==
  ASSUME NEW r
  PROVE  r \in Rows <=> DOMAIN r \subseteq Ids /\ r \in [DOMAIN r -> Row]
  BY DEF Rows

\* The rows of a sound store are finitely many.
LEMMA SoundRows ==
  ASSUME NEW s, Sound(s)
  PROVE  /\ DOMAIN s.rows \subseteq Ids /\ s.rows \in [DOMAIN s.rows -> Row]
         /\ IsFiniteSet(DOMAIN s.rows) /\ Cardinality(DOMAIN s.rows) \in Nat /\ Made(s) \in Nat
  <1>1. s.rows \in Rows /\ s.deletes \in Nat
    BY DEF Sound, Tables
  <1>2. DOMAIN s.rows \subseteq Ids /\ s.rows \in [DOMAIN s.rows -> Row]
    BY <1>1, RowsAre
  <1>3. IsFiniteSet(DOMAIN s.rows) /\ Cardinality(DOMAIN s.rows) \in Nat
    BY <1>2, CacheAssumption, FS_Subset, FS_CardinalityType
  <1>. QED
    BY <1>1, <1>2, <1>3 DEF Made

\* Kept is reflexive on sound stores, and transitive.
LEMMA KeptSame == ASSUME NEW s, Sound(s) PROVE Kept(s, s)
  BY DEF Kept

\* Part of what is left is part of the store.
LEMMA KeptTwice == ASSUME NEW s, NEW r, NEW q, Kept(s, r), Kept(r, q) PROVE Kept(s, q)
  BY DEF Kept

\* The rows that Drop removes are counted as deleted, with their tags gone.
LEMMA DropKeeps ==
  ASSUME NEW s, Sound(s), NEW ids
  PROVE  /\ Kept(s, Drop(s, ids))
         /\ DOMAIN Drop(s, ids).rows = DOMAIN s.rows \ ids
         /\ Drop(s, ids).deletes = s.deletes + Cardinality(ids \cap DOMAIN s.rows)
         /\ Drop(s, ids).expired = s.expired /\ Drop(s, ids).evictions = s.evictions
         /\ Drop(s, ids).rows = Restrict(s.rows, DOMAIN s.rows \ ids)
  <1>1. s \in Tables /\ s.tags \subseteq (DOMAIN s.rows) \X Tags /\ s.expired + s.evictions <= s.deletes
        /\ s.gets = s.hits + s.misses
    BY DEF Sound
  <1>2. DOMAIN s.rows \subseteq Ids /\ s.rows \in [DOMAIN s.rows -> Row] /\ IsFiniteSet(DOMAIN s.rows)
    BY SoundRows
  <1>3. PICK r : r = Restrict(s.rows, DOMAIN s.rows \ ids)
    OBVIOUS
  <1>4. DOMAIN r = DOMAIN s.rows \ ids /\ \A id \in DOMAIN r : r[id] = s.rows[id]
    BY <1>3 DEF Restrict
  <1>5. r \in Rows
    <2>1. r \in [DOMAIN r -> Row]
      BY <1>2, <1>3, <1>4 DEF Restrict
    <2>. QED
      BY <1>2, <1>4, <2>1, RowsAre
  <1>6. PICK gone : gone = Cardinality(ids \cap DOMAIN s.rows)
    OBVIOUS
  <1>7. gone \in Nat /\ Cardinality(DOMAIN r) = Cardinality(DOMAIN s.rows) - gone
        /\ Cardinality(DOMAIN s.rows) \in Nat
    <2>1. DOMAIN s.rows \cap ids = ids \cap DOMAIN s.rows
      OBVIOUS
    <2>2. Cardinality(DOMAIN s.rows \ ids) = Cardinality(DOMAIN s.rows) - Cardinality(DOMAIN s.rows \cap ids)
      BY <1>2, FS_Difference
    <2>3. Cardinality(DOMAIN s.rows) \in Nat
      BY <1>2, FS_CardinalityType
    <2>4. gone \in Nat
      <3>1. IsFiniteSet(ids \cap DOMAIN s.rows)
        BY <1>2, FS_Intersection
      <3>. QED
        BY <1>6, <3>1, FS_CardinalityType
    <2>. QED
      BY <1>4, <1>6, <2>1, <2>2, <2>3, <2>4
  <1>8. PICK hung : hung = {p \in s.tags : p[1] \notin ids}
    OBVIOUS
  <1>9. hung \in SUBSET (Ids \X Tags) /\ hung \subseteq (DOMAIN r) \X Tags
    BY <1>1, <1>2, <1>4, <1>8
  <1>10. Drop(s, ids) = [s EXCEPT !.rows = r, !.tags = hung, !.deletes = @ + gone]
    BY <1>3, <1>6, <1>8 DEF Drop
  <1>11. PICK d : d = Drop(s, ids)
    OBVIOUS
  <1>12. /\ d \in Tables /\ d.rows = r /\ d.tags = hung /\ d.deletes = s.deletes + gone
         /\ d.expired = s.expired /\ d.evictions = s.evictions /\ d.gets = s.gets /\ d.hits = s.hits
         /\ d.misses = s.misses /\ s.deletes \in Nat /\ s.expired \in Nat /\ s.evictions \in Nat
    <2>1. s.deletes + gone \in Nat /\ s \in Tables
      BY <1>1, <1>7 DEF Tables
    <2>2. PICK a : a = [s EXCEPT !.rows = r]
      OBVIOUS
    <2>3. a \in Tables /\ a.rows = r /\ \A f \in DOMAIN s \ {"rows"} : a[f] = s[f]
      BY <1>5, <2>1, <2>2 DEF Tables
    <2>4. PICK b : b = [a EXCEPT !.tags = hung]
      OBVIOUS
    <2>5. /\ b \in Tables /\ b.rows = r /\ b.tags = hung /\ b.deletes = s.deletes
          /\ b.expired = s.expired /\ b.evictions = s.evictions /\ b.gets = s.gets /\ b.hits = s.hits
          /\ b.misses = s.misses
      BY <1>9, <2>1, <2>3, <2>4 DEF Tables
    <2>6. d = [b EXCEPT !.deletes = s.deletes + gone]
      BY <1>10, <1>11, <2>2, <2>4
    <2>. QED
      BY <2>1, <2>5, <2>6 DEF Tables
  <1>13. Sound(d)
    BY <1>1, <1>7, <1>9, <1>12 DEF Sound
  <1>14. Made(d) = Made(s)
    BY <1>7, <1>12 DEF Made
  <1>. QED
    BY <1>3, <1>4, <1>6, <1>11, <1>12, <1>13, <1>14 DEF Kept

\* A removal that counts its rows once more, as expired or as evicted.
LEMMA DropExpiredKeeps ==
  ASSUME NEW s, Sound(s), NEW ids \in SUBSET DOMAIN s.rows
  PROVE  Kept(s, DropExpired(s, ids)) /\ DOMAIN DropExpired(s, ids).rows = DOMAIN s.rows \ ids
  <1>1. PICK d : d = Drop(s, ids)
    OBVIOUS
  <1>2. PICK n : n = Cardinality(ids)
    OBVIOUS
  <1>3. /\ Kept(s, d) /\ DOMAIN d.rows = DOMAIN s.rows \ ids
        /\ d.deletes = s.deletes + n /\ d.expired = s.expired /\ d.evictions = s.evictions
        /\ n \in Nat
    <2>1. ids \cap DOMAIN s.rows = ids /\ n \in Nat
      BY <1>1, <1>2, SoundRows, FS_Subset, FS_CardinalityType
    <2>2. Cardinality(ids \cap DOMAIN s.rows) = n
      BY <1>1, <1>2, <2>1
    <2>3. Drop(s, ids).deletes = s.deletes + Cardinality(ids \cap DOMAIN s.rows)
      BY DropKeeps
    <2>4. /\ Kept(s, Drop(s, ids)) /\ DOMAIN Drop(s, ids).rows = DOMAIN s.rows \ ids
          /\ Drop(s, ids).rows = Restrict(s.rows, DOMAIN s.rows \ ids)
          /\ Drop(s, ids).expired = s.expired /\ Drop(s, ids).evictions = s.evictions
      BY DropKeeps
    <2>. QED
      BY <1>1, <1>2, <2>1, <2>2, <2>3, <2>4
  <1>4. PICK e : e = DropExpired(s, ids)
    OBVIOUS
  <1>5. e = [d EXCEPT !.expired = @ + n]
    BY <1>1, <1>2, <1>4 DEF DropExpired
  <1>6. d \in Tables /\ s.expired + s.evictions <= s.deletes /\ s \in Tables
    BY <1>3 DEF Kept, Sound
  <1>7. /\ e \in Tables /\ e.rows = d.rows /\ e.tags = d.tags /\ e.deletes = d.deletes
        /\ e.expired = d.expired + n /\ e.evictions = d.evictions /\ e.gets = d.gets
        /\ e.hits = d.hits /\ e.misses = d.misses
        /\ s.expired \in Nat /\ s.evictions \in Nat /\ s.deletes \in Nat
    BY <1>3, <1>5, <1>6 DEF Tables
  <1>8. Sound(e) /\ Made(e) = Made(d)
    <2>1. e.expired + e.evictions <= e.deletes
      BY <1>3, <1>6, <1>7
    <2>2. e.tags \subseteq (DOMAIN e.rows) \X Tags /\ e.gets = e.hits + e.misses
      BY <1>3, <1>7 DEF Kept, Sound
    <2>. QED
      BY <1>7, <2>1, <2>2 DEF Sound, Made
  <1>. QED
    BY <1>3, <1>4, <1>7, <1>8 DEF Kept

\* Eviction leaves part of a store, within the limits.
LEMMA EvictKeeps ==
  ASSUME NEW s, Sound(s), NEW left \in Evict(s)
  PROVE  Kept(s, left) /\ Fits(left.rows)
  <1>1. PICK out \in Victims(s.rows) : left = [Drop(s, out) EXCEPT !.evictions = @ + Cardinality(out)]
    BY DEF Evict
  <1>2. out \in SUBSET DOMAIN s.rows /\ Fits(Restrict(s.rows, DOMAIN s.rows \ out))
    BY DEF Victims
  <1>3. PICK d : d = Drop(s, out)
    OBVIOUS
  <1>4. PICK n : n = Cardinality(out)
    OBVIOUS
  <1>5. /\ Kept(s, d) /\ d.rows = Restrict(s.rows, DOMAIN s.rows \ out)
        /\ d.deletes = s.deletes + n /\ d.expired = s.expired /\ d.evictions = s.evictions
        /\ n \in Nat
    <2>1. out \cap DOMAIN s.rows = out /\ n \in Nat
      BY <1>2, <1>3, <1>4, SoundRows, FS_Subset, FS_CardinalityType
    <2>2. Cardinality(out \cap DOMAIN s.rows) = n
      BY <1>3, <1>4, <2>1
    <2>3. Drop(s, out).deletes = s.deletes + Cardinality(out \cap DOMAIN s.rows)
      BY DropKeeps
    <2>4. /\ Kept(s, Drop(s, out)) /\ DOMAIN Drop(s, out).rows = DOMAIN s.rows \ out
          /\ Drop(s, out).rows = Restrict(s.rows, DOMAIN s.rows \ out)
          /\ Drop(s, out).expired = s.expired /\ Drop(s, out).evictions = s.evictions
      BY DropKeeps
    <2>. QED
      BY <1>3, <1>4, <2>1, <2>2, <2>3, <2>4
  <1>6. d \in Tables /\ s.expired + s.evictions <= s.deletes /\ s \in Tables
    BY <1>5 DEF Kept, Sound
  <1>7. left = [d EXCEPT !.evictions = @ + n]
    BY <1>1, <1>3, <1>4
  <1>8. /\ left \in Tables /\ left.rows = d.rows /\ left.tags = d.tags /\ left.deletes = d.deletes
        /\ left.expired = d.expired /\ left.evictions = d.evictions + n /\ left.gets = d.gets
        /\ left.hits = d.hits /\ left.misses = d.misses
        /\ s.expired \in Nat /\ s.evictions \in Nat /\ s.deletes \in Nat
    BY <1>5, <1>6, <1>7 DEF Tables
  <1>9. Sound(left) /\ Made(left) = Made(d)
    <2>1. left.expired + left.evictions <= left.deletes
      BY <1>5, <1>6, <1>8
    <2>2. left.tags \subseteq (DOMAIN left.rows) \X Tags /\ left.gets = left.hits + left.misses
      BY <1>5, <1>8 DEF Kept, Sound
    <2>. QED
      BY <1>8, <2>1, <2>2 DEF Sound, Made
  <1>. QED
    BY <1>2, <1>5, <1>8, <1>9 DEF Kept

\* A clean-up removes what has expired, and the periodic one notes its time.
LEMMA CleanupKeeps ==
  ASSUME NEW s, Sound(s), NEW names, NEW now
  PROVE  Kept(s, Cleanup(s, names, now))
  BY DropExpiredKeeps DEF Cleanup

\* The time of the last periodic clean-up is no part of the books.
LEMMA CleanedKeeps ==
  ASSUME NEW s, Sound(s), NEW at \in Nat
  PROVE  Kept(s, [s EXCEPT !.cleaned = at])
  <1>1. PICK c : c = [s EXCEPT !.cleaned = at]
    OBVIOUS
  <1>2. /\ c \in Tables /\ c.rows = s.rows /\ c.tags = s.tags /\ c.deletes = s.deletes
        /\ c.expired = s.expired /\ c.evictions = s.evictions /\ c.gets = s.gets
        /\ c.hits = s.hits /\ c.misses = s.misses
    BY <1>1 DEF Sound, Tables
  <1>. QED
    BY <1>1, <1>2 DEF Kept, Sound, Made

\* A lookup removes at most the row it finds expired.
LEMMA LookupKeeps ==
  ASSUME NEW s, Sound(s), NEW id, NEW now
  PROVE  Kept(s, Lookup(s, id, now))
  BY DropExpiredKeeps, KeptSame DEF Lookup, Has

\* The periodic clean-up, when it is due and when it is not.
LEMMA MaybeCleanupKeeps ==
  ASSUME NEW s, Sound(s), clock \in Nat
  PROVE  Kept(s, MaybeCleanup(s))
  <1>1. PICK c : c = Cleanup(s, Namespaces, clock)
    OBVIOUS
  <1>2. Kept(s, c) /\ Sound(c)
    BY <1>1, CleanupKeeps DEF Kept
  <1>3. Kept(s, [c EXCEPT !.cleaned = clock])
    BY <1>2, CleanedKeeps, KeptTwice
  <1>. QED
    BY <1>1, <1>3, KeptSame DEF MaybeCleanup

\* A call that looks up a row, after the periodic clean-up or without it.
LEMMA FoundKeeps ==
  ASSUME NEW s, Sound(s), clock \in Nat, NEW id, NEW now
  PROVE  Kept(s, Lookup(MaybeCleanup(s), id, now))
  <1>1. PICK c : c = MaybeCleanup(s)
    OBVIOUS
  <1>2. Kept(s, c) /\ Sound(c)
    BY <1>1, MaybeCleanupKeeps DEF Kept
  <1>. QED
    BY <1>1, <1>2, LookupKeeps, KeptTwice

\* Part of a store that fits fits.
LEMMA KeptFits ==
  ASSUME NEW s, NEW left, Sound(s), Kept(s, left), Fits(s.rows), limits \in Nat \X Nat
  PROVE  Fits(left.rows)
  <1>1. IsFiniteSet(DOMAIN s.rows)
    BY SoundRows
  <1>2. /\ Cardinality(DOMAIN left.rows) <= Cardinality(DOMAIN s.rows)
        /\ Cardinality(DOMAIN left.rows) \in Nat /\ Cardinality(DOMAIN s.rows) \in Nat
    BY <1>1, FS_Subset, FS_CardinalityType DEF Kept
  <1>3. Bytes(left.rows) <= Bytes(s.rows) /\ Bytes(left.rows) \in Nat /\ Bytes(s.rows) \in Nat
    BY <1>1, BytesShrink DEF Kept
  <1>4. limits[1] \in Nat /\ limits[2] \in Nat
    OBVIOUS
  <1>. QED
    BY <1>2, <1>3, <1>4 DEF Fits

\* Tags of rows that are there may come and go.
LEMMA RetagKeeps ==
  ASSUME NEW s, Sound(s), NEW T, T \subseteq (DOMAIN s.rows) \X Tags
  PROVE  Kept(s, [s EXCEPT !.tags = T])
  <1>1. PICK r : r = [s EXCEPT !.tags = T]
    OBVIOUS
  <1>2. s \in Tables /\ T \in SUBSET (Ids \X Tags)
    BY SoundRows DEF Sound
  <1>3. /\ r \in Tables /\ r.rows = s.rows /\ r.tags = T /\ r.deletes = s.deletes
        /\ r.expired = s.expired /\ r.evictions = s.evictions /\ r.gets = s.gets
        /\ r.hits = s.hits /\ r.misses = s.misses
    BY <1>1, <1>2 DEF Tables
  <1>. QED
    BY <1>1, <1>3 DEF Kept, Sound, Made

\* Rows that keep their names and values may change in all else.
LEMMA RowsKeep ==
  ASSUME NEW s, Sound(s), NEW r \in [DOMAIN s.rows -> Row],
         \A id \in DOMAIN s.rows : r[id].val = s.rows[id].val
  PROVE  Kept(s, [s EXCEPT !.rows = r])
  <1>1. PICK q : q = [s EXCEPT !.rows = r]
    OBVIOUS
  <1>2. s \in Tables /\ DOMAIN r = DOMAIN s.rows /\ r \in Rows
    <2>1. DOMAIN r = DOMAIN s.rows /\ DOMAIN s.rows \subseteq Ids
      BY SoundRows
    <2>. QED
      BY <2>1, RowsAre DEF Sound
  <1>3. /\ q \in Tables /\ q.rows = r /\ q.tags = s.tags /\ q.deletes = s.deletes
        /\ q.expired = s.expired /\ q.evictions = s.evictions /\ q.gets = s.gets
        /\ q.hits = s.hits /\ q.misses = s.misses
    BY <1>1, <1>2 DEF Tables
  <1>. QED
    BY <1>1, <1>2, <1>3 DEF Kept, Sound, Made

\* One row changes in all but its value.
LEMMA RowKeeps ==
  ASSUME NEW s, Sound(s), NEW id \in DOMAIN s.rows, NEW row \in Row, row.val = s.rows[id].val
  PROVE  Kept(s, [s EXCEPT !.rows[id] = row])
  <1>1. PICK r : r = [s.rows EXCEPT ![id] = row]
    OBVIOUS
  <1>2. s.rows \in [DOMAIN s.rows -> Row]
    BY SoundRows
  <1>3. r \in [DOMAIN s.rows -> Row] /\ \A i \in DOMAIN s.rows : r[i].val = s.rows[i].val
    BY <1>1, <1>2
  <1>4. [s EXCEPT !.rows[id] = row] = [s EXCEPT !.rows = r]
    BY <1>1
  <1>. QED
    BY <1>3, <1>4, RowsKeep

\* A get counts as a hit or as a miss.
LEMMA MissKeeps ==
  ASSUME NEW s, Sound(s)
  PROVE  Kept(s, [[s EXCEPT !.gets = @ + 1] EXCEPT !.misses = @ + 1])
  <1>1. PICK q : q = [[s EXCEPT !.gets = @ + 1] EXCEPT !.misses = @ + 1]
    OBVIOUS
  <1>2. /\ q \in Tables /\ q.rows = s.rows /\ q.tags = s.tags /\ q.deletes = s.deletes
        /\ q.expired = s.expired /\ q.evictions = s.evictions /\ q.gets = s.gets + 1
        /\ q.hits = s.hits /\ q.misses = s.misses + 1
        /\ s.gets \in Nat /\ s.hits \in Nat /\ s.misses \in Nat
    <2>1. s \in Tables /\ s.gets + 1 \in Nat /\ s.misses + 1 \in Nat
      BY DEF Sound, Tables
    <2>2. PICK g : g = [s EXCEPT !.gets = s.gets + 1]
      OBVIOUS
    <2>3. /\ g \in Tables /\ g.rows = s.rows /\ g.tags = s.tags /\ g.deletes = s.deletes
          /\ g.expired = s.expired /\ g.evictions = s.evictions /\ g.gets = s.gets + 1
          /\ g.hits = s.hits /\ g.misses = s.misses
      BY <2>1, <2>2 DEF Tables
    <2>4. q = [g EXCEPT !.misses = s.misses + 1]
      BY <1>1, <2>1, <2>2, <2>3
    <2>. QED
      BY <2>1, <2>3, <2>4 DEF Tables
  <1>3. Sound(q)
    BY <1>2 DEF Sound
  <1>. QED
    BY <1>1, <1>2, <1>3 DEF Kept, Made

\* The row that is hit may change in all but its value.
LEMMA HitKeeps ==
  ASSUME NEW s, Sound(s), NEW id \in DOMAIN s.rows, NEW row \in Row, row.val = s.rows[id].val
  PROVE  Kept(s, [[s EXCEPT !.gets = @ + 1] EXCEPT !.hits = @ + 1, !.rows[id] = row])
  <1>1. PICK q : q = [[s EXCEPT !.gets = @ + 1] EXCEPT !.hits = @ + 1]
    OBVIOUS
  <1>2. /\ q \in Tables /\ q.rows = s.rows /\ q.tags = s.tags /\ q.deletes = s.deletes
        /\ q.expired = s.expired /\ q.evictions = s.evictions /\ q.gets = s.gets + 1
        /\ q.hits = s.hits + 1 /\ q.misses = s.misses
        /\ s.gets \in Nat /\ s.hits \in Nat /\ s.misses \in Nat
    <2>1. s \in Tables /\ s.gets + 1 \in Nat /\ s.hits + 1 \in Nat
      BY DEF Sound, Tables
    <2>2. PICK g : g = [s EXCEPT !.gets = s.gets + 1]
      OBVIOUS
    <2>3. /\ g \in Tables /\ g.rows = s.rows /\ g.tags = s.tags /\ g.deletes = s.deletes
          /\ g.expired = s.expired /\ g.evictions = s.evictions /\ g.gets = s.gets + 1
          /\ g.hits = s.hits /\ g.misses = s.misses
      BY <2>1, <2>2 DEF Tables
    <2>4. q = [g EXCEPT !.hits = s.hits + 1]
      BY <1>1, <2>1, <2>2, <2>3
    <2>. QED
      BY <2>1, <2>3, <2>4 DEF Tables
  <1>3. Sound(q)
    BY <1>2 DEF Sound
  <1>4. Kept(s, q)
    BY <1>2, <1>3 DEF Kept, Made
  <1>5. Kept(q, [q EXCEPT !.rows[id] = row])
    BY <1>2, <1>3, RowKeeps
  <1>6. [[s EXCEPT !.gets = @ + 1] EXCEPT !.hits = @ + 1, !.rows[id] = row] = [q EXCEPT !.rows[id] = row]
    BY <1>1
  <1>. QED
    BY <1>4, <1>5, <1>6, KeptTwice

\* What a write of v under id leaves of a store in which n rows were created.
Wrote(s, left, id, v, n) ==
  /\ Sound(left)
  /\ DOMAIN left.rows \subseteq DOMAIN s.rows \cup {id}
  /\ \A i \in DOMAIN left.rows : left.rows[i].val = IF i = id THEN v ELSE s.rows[i].val
  /\ Made(left) = Made(s) + n

\* A write keeps its result when rows go before it and after it.
LEMMA WroteBetween ==
  ASSUME NEW s, NEW s1, NEW s2, NEW s3, NEW id, NEW v, NEW n,
         Kept(s, s1), Wrote(s1, s2, id, v, n), Kept(s2, s3)
  PROVE  Wrote(s, s3, id, v, n)
  <1>1. /\ Sound(s3) /\ Made(s3) = Made(s) + n
        /\ DOMAIN s3.rows \subseteq DOMAIN s2.rows /\ DOMAIN s2.rows \subseteq DOMAIN s1.rows \cup {id}
        /\ DOMAIN s1.rows \subseteq DOMAIN s.rows
    BY DEF Kept, Wrote
  <1>2. ASSUME NEW i \in DOMAIN s3.rows
        PROVE  s3.rows[i].val = IF i = id THEN v ELSE s.rows[i].val
    <2>1. s3.rows[i].val = s2.rows[i].val /\ i \in DOMAIN s2.rows
      BY <1>1 DEF Kept
    <2>2. s2.rows[i].val = IF i = id THEN v ELSE s1.rows[i].val
      BY <2>1 DEF Wrote
    <2>3. i # id => s1.rows[i].val = s.rows[i].val
      BY <1>1, <2>1 DEF Kept
    <2>. QED
      BY <2>1, <2>2, <2>3
  <1>. QED
    BY <1>1, <1>2 DEF Wrote

\* Upsert writes its row and creates it when it was not there.
LEMMA UpsertWrites ==
  ASSUME NEW s, Sound(s), NEW id \in Ids, NEW v \in 0 .. MaxValue, NEW at \in Nat, NEW exp \in Time
  PROVE  /\ Wrote(s, Upsert(s, id, v, at, exp), id, v, Created(s, id))
         /\ DOMAIN Upsert(s, id, v, at, exp).rows = DOMAIN s.rows \cup {id}
         /\ Upsert(s, id, v, at, exp).tags = s.tags
  <1>1. PICK row : row = [val |-> v, at |-> at, exp |-> exp,
                          hits |-> IF Has(s, id) THEN s.rows[id].hits ELSE 0]
    OBVIOUS
  <1>2. DOMAIN s.rows \subseteq Ids /\ s.rows \in [DOMAIN s.rows -> Row] /\ IsFiniteSet(DOMAIN s.rows)
        /\ Cardinality(DOMAIN s.rows) \in Nat
    BY SoundRows
  <1>3. row \in Row /\ row.val = v
    <2>1. Has(s, id) => s.rows[id].hits \in Nat
      BY <1>2 DEF Has, Row
    <2>. QED
      BY <1>1, <2>1 DEF Row
  <1>4. PICK r : r = [i \in DOMAIN s.rows \cup {id} |-> IF i = id THEN row ELSE s.rows[i]]
    OBVIOUS
  <1>5. DOMAIN r = DOMAIN s.rows \cup {id} /\ r \in Rows
        /\ \A i \in DOMAIN r : r[i].val = IF i = id THEN v ELSE s.rows[i].val
    <2>1. DOMAIN r = DOMAIN s.rows \cup {id} /\ r \in [DOMAIN r -> Row]
      BY <1>2, <1>3, <1>4
    <2>2. r \in Rows
      BY <1>2, <2>1, RowsAre
    <2>. QED
      BY <1>3, <1>4, <2>1, <2>2
  <1>6. PICK u : u = Upsert(s, id, v, at, exp)
    OBVIOUS
  <1>7. u = [s EXCEPT !.rows = r]
    BY <1>1, <1>4, <1>6 DEF Upsert
  <1>8. /\ u \in Tables /\ u.rows = r /\ u.tags = s.tags /\ u.deletes = s.deletes
        /\ u.expired = s.expired /\ u.evictions = s.evictions /\ u.gets = s.gets
        /\ u.hits = s.hits /\ u.misses = s.misses /\ s.deletes \in Nat
    BY <1>5, <1>7 DEF Sound, Tables
  <1>9. Sound(u)
    BY <1>5, <1>8 DEF Sound
  <1>10. Cardinality(DOMAIN r) = Cardinality(DOMAIN s.rows) + Created(s, id)
    <2>1. CASE id \in DOMAIN s.rows
      <3>1. DOMAIN r = DOMAIN s.rows
        BY <1>5, <2>1
      <3>. QED
        BY <1>2, <2>1, <3>1 DEF Created, Has
    <2>2. CASE id \notin DOMAIN s.rows
      <3>1. Cardinality(DOMAIN s.rows \cup {id}) = Cardinality(DOMAIN s.rows) + 1
        BY <1>2, <2>2, FS_AddElement
      <3>. QED
        BY <1>5, <2>2, <3>1 DEF Created, Has
    <2>. QED
      BY <2>1, <2>2
  <1>11. Made(u) = Made(s) + Created(s, id)
    <2>1. Created(s, id) \in Nat
      BY DEF Created
    <2>. QED
      BY <1>2, <1>8, <1>10, <2>1 DEF Made
  <1>. QED
    BY <1>5, <1>6, <1>8, <1>9, <1>11 DEF Wrote

-----------------------------------------------------------------------------
(* The inductive invariant, and what a call leaves and tells.              *)

\* The store is sound and fits, and the rows ever created are accounted for.
IInv ==
  /\ Sound(store) /\ Fits(store.rows) /\ inserted = Made(store)
  /\ limits \in Limits /\ clock \in Nat /\ stamp \in [Threads -> Time]

\* Nothing, that id is gone, or the value that the store had for id.
Tells(left, a) ==
  \/ a = <<>>
  \/ \E id \in Ids : a = <<id>> /\ id \notin DOMAIN left.rows
  \/ \E id \in DOMAIN store.rows : a = <<id, store.rows[id].val>>

\* What a call may leave, answer and create.
Result(left, a, n) ==
  /\ Sound(left) /\ Fits(left.rows) /\ Made(left) = inserted + n
  /\ \/ /\ DOMAIN left.rows \subseteq DOMAIN store.rows
        /\ \A i \in DOMAIN left.rows : left.rows[i].val = store.rows[i].val
        /\ Tells(left, a)
     \/ \E id \in Ids, v \in 0 .. MaxValue :
          /\ a = <<id, v>>
          /\ DOMAIN left.rows \subseteq DOMAIN store.rows \cup {id}
          /\ \A i \in DOMAIN left.rows : left.rows[i].val = IF i = id THEN v ELSE store.rows[i].val

\* A call ends with such a result.
Returns(t) == \E left, a, n : Result(left, a, n) /\ Return(t, left, a, n)

\* The limits are numbers.
LEMMA LimitsAre == ASSUME IInv PROVE limits \in Nat \X Nat
  BY CacheAssumption DEF IInv

\* A call that leaves part of the store and tells the truth of it.
LEMMA KeptResult ==
  ASSUME IInv, NEW left, Kept(store, left), NEW a, Tells(left, a)
  PROVE  Result(left, a, 0)
  <1>1. Sound(store) /\ Fits(store.rows) /\ inserted = Made(store)
    BY DEF IInv
  <1>2. Fits(left.rows)
    BY <1>1, LimitsAre, KeptFits
  <1>3. Made(left) = inserted + 0
    BY <1>1, SoundRows DEF Kept
  <1>. QED
    BY <1>2, <1>3 DEF Result, Kept

\* A call that writes, and leaves a store that fits.
LEMMA WroteResult ==
  ASSUME IInv, NEW left, NEW id \in Ids, NEW v \in 0 .. MaxValue, NEW n,
         Wrote(store, left, id, v, n), Fits(left.rows)
  PROVE  Result(left, <<id, v>>, n)
  BY DEF IInv, Wrote, Result

\* What eviction leaves of a store in which a value was written.
LEMMA EvictedResult ==
  ASSUME IInv, NEW s, NEW w, NEW left, NEW id \in Ids, NEW v \in 0 .. MaxValue, NEW n,
         Kept(store, s), Wrote(s, w, id, v, n), left \in Evict(w)
  PROVE  Result(left, <<id, v>>, n)
  <1>1. Sound(w)
    BY DEF Wrote
  <1>2. Kept(w, left) /\ Fits(left.rows)
    BY <1>1, EvictKeeps
  <1>3. Wrote(store, left, id, v, n)
    BY <1>2, WroteBetween
  <1>. QED
    BY <1>2, <1>3, WroteResult

\* A row that is dropped is gone.
LEMMA DroppedKeeps ==
  ASSUME NEW s, Sound(s), NEW id
  PROVE  Kept(s, Drop(s, {id})) /\ id \notin DOMAIN Drop(s, {id}).rows
  <1>1. Kept(s, Drop(s, {id})) /\ DOMAIN Drop(s, {id}).rows = DOMAIN s.rows \ {id}
    BY DropKeeps
  <1>. QED
    BY <1>1

\* A call that has begun has the time of its beginning.
LEMMA StampIs ==
  ASSUME IInv, NEW t \in Threads, stamp[t] # None
  PROVE  stamp[t] \in Nat /\ clock \in Nat /\ Sound(store)
  BY DEF IInv, Time

\* An expiry is a time or none.
LEMMA ExpiryIs ==
  ASSUME NEW ttl \in Ttls \cup {None}, NEW now \in Nat
  PROVE  ExpiresAt(ttl, now) \in Time
  <1>1. PICK seconds : seconds = IF ttl = None THEN DefaultTtl ELSE ttl
    OBVIOUS
  <1>2. seconds \in Nat \cup {None}
    BY <1>1, CacheAssumption
  <1>3. ExpiresAt(ttl, now) = IF seconds = None THEN None ELSE now + seconds
    BY <1>1 DEF ExpiresAt
  <1>. QED
    BY <1>2, <1>3 DEF Time

\* What set, get and incr find.
LEMMA FoundIs ==
  ASSUME IInv, NEW t \in Threads, stamp[t] # None, NEW id, NEW s,
         s = Lookup(MaybeCleanup(store), id, stamp[t])
  PROVE  Kept(store, s) /\ Sound(s)
  <1>1. Sound(store) /\ clock \in Nat
    BY StampIs
  <1>2. Kept(store, Lookup(MaybeCleanup(store), id, stamp[t]))
    BY <1>1, FoundKeeps
  <1>. QED
    BY <1>2 DEF Kept

\* set, add and replace: past expiry, refused, or written with its tags.
LEMMA SetReturns ==
  ASSUME IInv, NEW t \in Threads, stamp[t] # None, Set(t)
  PROVE  Returns(t)
  <1>1. PICK id \in Ids, v \in Values, ttl \in Ttls, mode \in {"any", "absent", "present"},
             tagging \in {<<>>} \cup {<<g>> : g \in SUBSET Tags} : Store(t, id, v, ttl, tagging, mode)
    BY DEF Set
  <1>2. PICK now : now = stamp[t]
    OBVIOUS
  <1>3. PICK exp : exp = ExpiresAt(ttl, now)
    OBVIOUS
  <1>4. PICK s : s = Lookup(MaybeCleanup(store), id, now)
    OBVIOUS
  <1>5. PICK u : u = Upsert(s, id, v, now, exp)
    OBVIOUS
  <1>6. PICK T : T = IF tagging = <<>> THEN u.tags
                     ELSE {p \in u.tags : p[1] # id} \cup {<<id, g>> : g \in tagging[1]}
    OBVIOUS
  <1>7. PICK w : w = [u EXCEPT !.tags = T]
    OBVIOUS
  <1>8. \/ Return(t, Drop(store, {id}), <<id>>, 0)
        \/ Return(t, s, <<>>, 0)
        \/ \E left \in Evict(w) : Return(t, left, <<id, v>>, Created(s, id))
    BY <1>1, <1>2, <1>3, <1>4, <1>5, <1>6, <1>7 DEF Store
  <1>9. now \in Nat /\ exp \in Time /\ v \in 0 .. MaxValue /\ Sound(store)
    BY <1>2, <1>3, StampIs, ExpiryIs, CacheAssumption
  <1>10. Kept(store, s) /\ Sound(s)
    BY <1>2, <1>4, FoundIs
  <1>11. CASE Return(t, Drop(store, {id}), <<id>>, 0)
    <2>1. Kept(store, Drop(store, {id})) /\ id \notin DOMAIN Drop(store, {id}).rows
      BY <1>9, DroppedKeeps
    <2>2. Result(Drop(store, {id}), <<id>>, 0)
      BY <2>1, KeptResult DEF Tells
    <2>. QED
      BY <1>11, <2>2 DEF Returns
  <1>12. CASE Return(t, s, <<>>, 0)
    <2>1. Result(s, <<>>, 0)
      BY <1>10, KeptResult DEF Tells
    <2>. QED
      BY <1>12, <2>1 DEF Returns
  <1>13. CASE \E left \in Evict(w) : Return(t, left, <<id, v>>, Created(s, id))
    <2>1. PICK left \in Evict(w) : Return(t, left, <<id, v>>, Created(s, id))
      BY <1>13
    <2>2. Wrote(s, u, id, v, Created(s, id)) /\ DOMAIN u.rows = DOMAIN s.rows \cup {id} /\ u.tags = s.tags
      BY <1>5, <1>9, <1>10, UpsertWrites
    <2>3. T \subseteq (DOMAIN u.rows) \X Tags
      <3>1. u.tags \subseteq (DOMAIN u.rows) \X Tags /\ id \in DOMAIN u.rows
        BY <2>2 DEF Wrote, Sound
      <3>2. tagging # <<>> => tagging[1] \in SUBSET Tags
        OBVIOUS
      <3>. QED
        BY <1>6, <3>1, <3>2
    <2>4. Kept(u, w)
      BY <1>7, <2>2, <2>3, RetagKeeps DEF Wrote
    <2>5. Kept(s, s)
      BY <1>10, KeptSame
    <2>6. Wrote(s, w, id, v, Created(s, id))
      BY <2>2, <2>4, <2>5, WroteBetween
    <2>7. Result(left, <<id, v>>, Created(s, id))
      BY <1>9, <1>10, <2>1, <2>6, EvictedResult
    <2>. QED
      BY <2>1, <2>7 DEF Returns
  <1>. QED
    BY <1>8, <1>11, <1>12, <1>13

\* incr and decr write the next value.
LEMMA IncrReturns ==
  ASSUME IInv, NEW t \in Threads, stamp[t] # None, Incr(t)
  PROVE  Returns(t)
  <1>1. PICK now : now = stamp[t]
    OBVIOUS
  <1>2. PICK id \in Ids, ttl \in Ttls :
          LET s   == Lookup(MaybeCleanup(store), id, now)
              v   == IF Has(s, id) THEN s.rows[id].val + 1 ELSE 1
              exp == IF Has(s, id) /\ ttl = None THEN s.rows[id].exp ELSE ExpiresAt(ttl, now)
          IN  /\ v <= MaxValue
              /\ \E left \in Evict(Upsert(s, id, v, now, exp)) :
                   Return(t, left, <<id, v>>, Created(s, id))
    BY <1>1 DEF Incr
  <1>3. PICK s : s = Lookup(MaybeCleanup(store), id, now)
    OBVIOUS
  <1>4. PICK v : v = IF Has(s, id) THEN s.rows[id].val + 1 ELSE 1
    OBVIOUS
  <1>5. PICK exp : exp = IF Has(s, id) /\ ttl = None THEN s.rows[id].exp ELSE ExpiresAt(ttl, now)
    OBVIOUS
  <1>6. PICK left \in Evict(Upsert(s, id, v, now, exp)) : Return(t, left, <<id, v>>, Created(s, id))
    BY <1>2, <1>3, <1>4, <1>5
  <1>7. v <= MaxValue
    BY <1>2, <1>3, <1>4
  <1>8. Kept(store, s) /\ Sound(s) /\ now \in Nat
    BY <1>1, <1>3, FoundIs, StampIs
  <1>9. Has(s, id) => s.rows[id] \in Row
    BY <1>8, SoundRows DEF Has
  <1>10. v \in 0 .. MaxValue
    BY <1>4, <1>7, <1>9, CacheAssumption DEF Row
  <1>11. exp \in Time
    BY <1>5, <1>8, <1>9, ExpiryIs DEF Row
  <1>12. Wrote(s, Upsert(s, id, v, now, exp), id, v, Created(s, id))
    BY <1>8, <1>10, <1>11, UpsertWrites
  <1>13. Result(left, <<id, v>>, Created(s, id))
    BY <1>6, <1>8, <1>10, <1>12, EvictedResult
  <1>. QED
    BY <1>6, <1>13 DEF Returns

\* Told is true of what a call found, and of what it leaves of it.
LEMMA ToldTells ==
  ASSUME NEW s, NEW left, NEW id \in Ids, Kept(store, s), Kept(s, left)
  PROVE  Tells(left, Told(s, id))
  <1>1. CASE Has(s, id)
    <2>1. id \in DOMAIN store.rows /\ s.rows[id].val = store.rows[id].val
      BY <1>1 DEF Has, Kept
    <2>. QED
      BY <1>1, <2>1 DEF Told, Tells
  <1>2. CASE ~Has(s, id)
    <2>1. id \notin DOMAIN left.rows
      BY <1>2 DEF Has, Kept
    <2>. QED
      BY <1>2, <2>1 DEF Told, Tells
  <1>. QED
    BY <1>1, <1>2

\* Calls that write nothing leave part of the store.
LEMMA KeptReturns ==
  ASSUME IInv, NEW t, NEW s, NEW left, NEW a, Kept(store, s), Kept(s, left), Tells(left, a),
         Return(t, left, a, 0)
  PROVE  Returns(t)
  <1>1. Kept(store, left)
    BY KeptTwice
  <1>2. Result(left, a, 0)
    BY <1>1, KeptResult
  <1>. QED
    BY <1>2 DEF Returns

\* get and has miss, or hit and move the row's times.
LEMMA FetchReturns ==
  ASSUME IInv, NEW t \in Threads, stamp[t] # None, NEW id \in Ids, NEW touch \in BOOLEAN,
         NEW ttl \in Ttls \cup {None}, Fetch(t, id, touch, ttl)
  PROVE  Returns(t)
  <1>1. PICK now : now = stamp[t]
    OBVIOUS
  <1>2. PICK f : f = Lookup(MaybeCleanup(store), id, now)
    OBVIOUS
  <1>3. PICK s : s = [f EXCEPT !.gets = @ + 1]
    OBVIOUS
  <1>4. PICK exp : exp = IF touch /\ (ttl # None \/ DefaultTtl # None) THEN ExpiresAt(ttl, now)
                         ELSE s.rows[id].exp
    OBVIOUS
  <1>5. Kept(store, f) /\ Sound(f) /\ now \in Nat
    BY <1>1, <1>2, FoundIs, StampIs
  <1>6. s.rows = f.rows
    BY <1>3, <1>5 DEF Sound, Tables
  <1>7. CASE ~Has(s, id)
    <2>1. Return(t, [s EXCEPT !.misses = @ + 1], <<id>>, 0)
      BY <1>1, <1>2, <1>3, <1>4, <1>7 DEF Fetch
    <2>2. Kept(f, [s EXCEPT !.misses = @ + 1])
      BY <1>3, <1>5, MissKeeps
    <2>3. Tells([s EXCEPT !.misses = @ + 1], <<id>>)
      BY <1>6, <1>7, <2>2 DEF Tells, Kept, Has
    <2>. QED
      BY <1>5, <2>1, <2>2, <2>3, KeptReturns
  <1>8. CASE Has(s, id)
    <2>1. PICK row : row = [s.rows[id] EXCEPT !.hits = s.rows[id].hits + 1, !.at = now, !.exp = exp]
      OBVIOUS
    <2>2. PICK left : left = [s EXCEPT !.hits = @ + 1,
                                       !.rows[id] = [@ EXCEPT !.hits = s.rows[id].hits + 1,
                                                              !.at = now, !.exp = exp]]
      OBVIOUS
    <2>3. Return(t, left, Told(s, id), 0)
      BY <1>1, <1>2, <1>3, <1>4, <1>8, <2>2 DEF Fetch
    <2>4. id \in DOMAIN f.rows /\ f.rows[id] \in Row
      BY <1>5, <1>6, <1>8, SoundRows DEF Has
    <2>5. exp \in Time
      BY <1>4, <1>5, <1>6, <2>4, ExpiryIs DEF Row
    <2>6. row \in Row /\ row.val = f.rows[id].val
      <3>1. f.rows[id].hits + 1 \in Nat /\ s.rows[id] = f.rows[id]
        BY <1>6, <2>4 DEF Row
      <3>2. row = [f.rows[id] EXCEPT !.hits = f.rows[id].hits + 1, !.at = now, !.exp = exp]
        BY <2>1, <3>1
      <3>. QED
        BY <1>5, <2>4, <2>5, <3>1, <3>2 DEF Row
    <2>7. Kept(f, left)
      <3>1. left = [s EXCEPT !.hits = @ + 1, !.rows[id] = row]
        <4>1. [s EXCEPT !.hits = @ + 1].rows = s.rows
          BY <1>3, <1>5 DEF Sound, Tables
        <4>. QED
          BY <2>1, <2>2, <4>1
      <3>. QED
        BY <1>3, <1>5, <2>4, <2>6, <3>1, HitKeeps
    <2>8. Told(s, id) = Told(f, id)
      BY <1>6 DEF Told, Has
    <2>9. Tells(left, Told(s, id))
      BY <1>5, <2>7, <2>8, ToldTells
    <2>. QED
      BY <1>5, <2>3, <2>7, <2>9, KeptReturns
  <1>. QED
    BY <1>7, <1>8

\* Calls that answer: get, get_with_meta, ttl, pop.
LEMMA ReadingReturns ==
  ASSUME IInv, NEW t \in Threads, stamp[t] # None, Get(t) \/ Peek(t) \/ Pop(t)
  PROVE  Returns(t)
  <1>1. CASE Get(t)
    <2>1. PICK id \in Ids : Fetch(t, id, FALSE, None) \/ \E ttl \in Ttls : Fetch(t, id, TRUE, ttl)
      BY <1>1 DEF Get
    <2>2. CASE Fetch(t, id, FALSE, None)
      BY <2>2, FetchReturns
    <2>3. CASE \E ttl \in Ttls : Fetch(t, id, TRUE, ttl)
      BY <2>3, FetchReturns
    <2>. QED
      BY <2>1, <2>2, <2>3
  <1>2. CASE Peek(t)
    <2>1. PICK id \in Ids : Return(t, Lookup(store, id, stamp[t]), Told(Lookup(store, id, stamp[t]), id), 0)
      BY <1>2 DEF Peek
    <2>2. PICK s : s = Lookup(store, id, stamp[t])
      OBVIOUS
    <2>3. Kept(store, s) /\ Kept(s, s)
      BY <2>2, StampIs, LookupKeeps, KeptSame DEF Kept
    <2>. QED
      BY <2>1, <2>2, <2>3, ToldTells, KeptReturns
  <1>3. CASE Pop(t)
    <2>1. PICK id \in Ids : Return(t, Drop(Lookup(store, id, clock), {id}),
                                   Told(Lookup(store, id, clock), id), 0)
      BY <1>3 DEF Pop
    <2>2. PICK s : s = Lookup(store, id, clock)
      OBVIOUS
    <2>3. Kept(store, s) /\ Sound(s)
      BY <2>2, StampIs, LookupKeeps DEF Kept
    <2>4. Kept(s, Drop(s, {id}))
      BY <2>3, DroppedKeeps
    <2>. QED
      BY <2>1, <2>2, <2>3, <2>4, ToldTells, KeptReturns
  <1>. QED
    BY <1>1, <1>2, <1>3

\* A row that is asked to expire at another time keeps its value.
LEMMA RetimedKeeps ==
  ASSUME NEW s, Sound(s), NEW id \in DOMAIN s.rows, NEW now \in Nat, NEW exp \in Time
  PROVE  Kept(s, [s EXCEPT !.rows[id] = [@ EXCEPT !.at = now, !.exp = exp]])
  <1>1. PICK row : row = [s.rows[id] EXCEPT !.at = now, !.exp = exp]
    OBVIOUS
  <1>2. s.rows[id] \in Row
    BY SoundRows
  <1>3. row \in Row /\ row.val = s.rows[id].val
    BY <1>1, <1>2 DEF Row
  <1>4. [s EXCEPT !.rows[id] = [@ EXCEPT !.at = now, !.exp = exp]] = [s EXCEPT !.rows[id] = row]
    BY <1>1
  <1>. QED
    BY <1>3, <1>4, RowKeeps

\* Such calls that tell nothing.
LEMMA SilentReturns ==
  ASSUME IInv, NEW t, NEW s, NEW left, Kept(store, s), Kept(s, left), Return(t, left, <<>>, 0)
  PROVE  Returns(t)
  BY KeptReturns DEF Tells

\* expire and touch.
LEMMA RetimingReturns ==
  ASSUME IInv, NEW t \in Threads, stamp[t] # None, Expire(t) \/ Touch(t)
  PROVE  Returns(t)
  <1>1. PICK now : now = stamp[t]
    OBVIOUS
  <1>2. now \in Nat /\ Sound(store)
    BY <1>1, StampIs
  <1>3. CASE Expire(t)
    <2>1. PICK id \in Ids, ttl \in Ttls :
            Return(t, IF Has(store, id)
                      THEN [store EXCEPT !.rows[id] = [@ EXCEPT !.at = now, !.exp = ExpiresAt(ttl, now)]]
                      ELSE store, <<>>, 0)
      BY <1>1, <1>3 DEF Expire
    <2>2. Kept(store, store) /\ ExpiresAt(ttl, now) \in Time
      BY <1>2, KeptSame, ExpiryIs
    <2>3. CASE Has(store, id)
      <3>1. Kept(store, [store EXCEPT !.rows[id] = [@ EXCEPT !.at = now, !.exp = ExpiresAt(ttl, now)]])
        BY <1>2, <2>2, <2>3, RetimedKeeps DEF Has
      <3>. QED
        BY <2>1, <2>2, <2>3, <3>1, SilentReturns
    <2>4. CASE ~Has(store, id)
      BY <2>1, <2>2, <2>4, SilentReturns
    <2>. QED
      BY <2>3, <2>4
  <1>4. CASE Touch(t)
    <2>1. PICK id \in Ids, ttl \in Ttls :
            LET s   == Lookup(store, id, now)
                exp == IF ttl # None \/ DefaultTtl # None THEN ExpiresAt(ttl, now) ELSE s.rows[id].exp
            IN  Return(t, IF Has(s, id)
                          THEN [s EXCEPT !.rows[id] = [@ EXCEPT !.at = now, !.exp = exp]] ELSE s, <<>>, 0)
      BY <1>1, <1>4 DEF Touch
    <2>2. PICK s : s = Lookup(store, id, now)
      OBVIOUS
    <2>3. PICK exp : exp = IF ttl # None \/ DefaultTtl # None THEN ExpiresAt(ttl, now)
                           ELSE s.rows[id].exp
      OBVIOUS
    <2>4. Kept(store, s) /\ Sound(s)
      BY <1>2, <2>2, LookupKeeps DEF Kept
    <2>5. Kept(s, s)
      BY <2>4, KeptSame
    <2>6. CASE Has(s, id)
      <3>1. s.rows[id] \in Row
        BY <2>4, <2>6, SoundRows DEF Has
      <3>2. exp \in Time
        BY <1>2, <2>3, <3>1, ExpiryIs DEF Row
      <3>3. Kept(s, [s EXCEPT !.rows[id] = [@ EXCEPT !.at = now, !.exp = exp]])
        BY <1>2, <2>4, <2>6, <3>2, RetimedKeeps DEF Has
      <3>. QED
        BY <2>1, <2>2, <2>3, <2>4, <2>6, <3>3, SilentReturns
    <2>7. CASE ~Has(s, id)
      BY <2>1, <2>2, <2>4, <2>5, <2>7, SilentReturns
    <2>. QED
      BY <2>6, <2>7
  <1>. QED
    BY <1>3, <1>4

\* tag hangs tags on a row that is there only; untag takes them off.
LEMMA TaggingReturns ==
  ASSUME IInv, NEW t \in Threads, stamp[t] # None, Tag(t) \/ Untag(t)
  PROVE  Returns(t)
  <1>1. Sound(store)
    BY StampIs
  <1>2. CASE Tag(t)
    <2>1. PICK id \in Ids, added \in SUBSET Tags \ {{}}, replace \in BOOLEAN :
            LET s == Lookup(store, id, clock)
            IN  Return(t, IF ~Has(s, id) THEN s
                          ELSE [s EXCEPT !.tags = {p \in @ : ~replace \/ p[1] # id}
                                                  \cup {<<id, g>> : g \in added}], <<>>, 0)
      BY <1>2 DEF Tag
    <2>2. PICK s : s = Lookup(store, id, clock)
      OBVIOUS
    <2>3. PICK T : T = {p \in s.tags : ~replace \/ p[1] # id} \cup {<<id, g>> : g \in added}
      OBVIOUS
    <2>4. Kept(store, s) /\ Sound(s)
      BY <1>1, <2>2, LookupKeeps DEF Kept
    <2>5. CASE ~Has(s, id)
      BY <2>1, <2>2, <2>4, <2>5, KeptSame, SilentReturns
    <2>6. CASE Has(s, id)
      <3>1. T \subseteq (DOMAIN s.rows) \X Tags
        BY <2>3, <2>4, <2>6 DEF Has, Sound
      <3>2. Kept(s, [s EXCEPT !.tags = T])
        BY <2>4, <3>1, RetagKeeps
      <3>3. Return(t, [s EXCEPT !.tags = T], <<>>, 0)
        BY <2>1, <2>2, <2>3, <2>6
      <3>. QED
        BY <2>4, <3>2, <3>3, SilentReturns
    <2>. QED
      BY <2>5, <2>6
  <1>3. CASE Untag(t)
    <2>1. PICK removed \in SUBSET Tags \ {{}}, id \in Ids :
            Return(t, [store EXCEPT !.tags = @ \ {<<id, g>> : g \in removed}], <<>>, 0)
      BY <1>3 DEF Untag
    <2>2. PICK T : T = store.tags \ {<<id, g>> : g \in removed}
      OBVIOUS
    <2>3. T \subseteq (DOMAIN store.rows) \X Tags
      BY <1>1, <2>2 DEF Sound
    <2>4. Kept(store, [store EXCEPT !.tags = T])
      BY <1>1, <2>3, RetagKeeps
    <2>5. Return(t, [store EXCEPT !.tags = T], <<>>, 0)
      BY <2>1, <2>2
    <2>. QED
      BY <1>1, <2>4, <2>5, KeptSame, SilentReturns
  <1>. QED
    BY <1>2, <1>3

\* Deletions, and the clean-up of a call that counts.
LEMMA RemovingReturns ==
  ASSUME IInv, NEW t \in Threads, stamp[t] # None,
         Delete(t) \/ Clear(t) \/ Invalidate(t) \/ Count(t)
  PROVE  Returns(t)
  <1>1. Sound(store) /\ clock \in Nat /\ Kept(store, store)
    BY StampIs, KeptSame
  <1>2. CASE Delete(t)
    <2>1. PICK id \in Ids : Return(t, Drop(store, {id}), <<id>>, 0)
      BY <1>2 DEF Delete
    <2>2. Kept(store, Drop(store, {id})) /\ id \notin DOMAIN Drop(store, {id}).rows
      BY <1>1, DroppedKeeps
    <2>3. Tells(Drop(store, {id}), <<id>>)
      BY <2>2 DEF Tells
    <2>. QED
      BY <1>1, <2>1, <2>2, <2>3, KeptReturns
  <1>3. CASE Clear(t) \/ Invalidate(t)
    <2>1. PICK ids : Return(t, Drop(store, ids), <<>>, 0)
      BY <1>3 DEF Clear, Invalidate
    <2>2. Kept(store, Drop(store, ids))
      BY <1>1, DropKeeps
    <2>. QED
      BY <1>1, <2>1, <2>2, SilentReturns
  <1>4. CASE Count(t)
    <2>1. PICK names \in {Namespaces} \cup {{n} : n \in Namespaces}, periodic \in BOOLEAN :
            Return(t, [Cleanup(store, names, clock) EXCEPT !.cleaned = IF periodic THEN clock ELSE @],
                   <<>>, 0)
      BY <1>4 DEF Count
    <2>2. PICK c : c = Cleanup(store, names, clock)
      OBVIOUS
    <2>3. Kept(store, c) /\ Sound(c)
      BY <1>1, <2>2, CleanupKeeps DEF Kept
    <2>4. PICK at : at = IF periodic THEN clock ELSE c.cleaned
      OBVIOUS
    <2>5. at \in Nat
      BY <1>1, <2>3, <2>4 DEF Sound, Tables
    <2>6. Kept(c, [c EXCEPT !.cleaned = at])
      BY <2>3, <2>5, CleanedKeeps
    <2>7. Return(t, [c EXCEPT !.cleaned = at], <<>>, 0)
      BY <2>1, <2>2, <2>4
    <2>. QED
      BY <2>3, <2>6, <2>7, SilentReturns
  <1>. QED
    BY <1>2, <1>3, <1>4

\* reset_stats starts the books anew from the rows there are.
LEMMA ResetStatsReturns ==
  ASSUME IInv, NEW t \in Threads, stamp[t] # None, ResetStats(t)
  PROVE  Returns(t)
  <1>1. PICK r : r = [store EXCEPT !.gets = 0, !.hits = 0, !.misses = 0, !.deletes = 0,
                                   !.expired = 0, !.evictions = 0]
    OBVIOUS
  <1>2. PICK n : n = Cardinality(DOMAIN store.rows) - inserted
    OBVIOUS
  <1>3. Return(t, r, <<>>, n)
    BY <1>1, <1>2 DEF ResetStats
  <1>4. Sound(store) /\ Fits(store.rows) /\ inserted = Made(store)
    BY DEF IInv
  <1>5. /\ r \in [rows : Rows, tags : SUBSET (Ids \X Tags), cleaned : Nat, gets : {0}, hits : {0},
                  misses : {0}, deletes : {0}, expired : {0}, evictions : {0}]
        /\ r.rows = store.rows /\ r.tags = store.tags
    BY <1>1, <1>4 DEF Sound, Tables
  <1>6. /\ r \in Tables /\ r.gets = 0 /\ r.hits = 0 /\ r.misses = 0 /\ r.deletes = 0
        /\ r.expired = 0 /\ r.evictions = 0
    BY <1>5 DEF Tables
  <1>7. Sound(r)
    BY <1>4, <1>5, <1>6 DEF Sound
  <1>8. Made(r) = inserted + n
    BY <1>2, <1>4, <1>5, <1>6, SoundRows DEF Made
  <1>9. Result(r, <<>>, n)
    BY <1>4, <1>5, <1>7, <1>8 DEF Result, Tells
  <1>. QED
    BY <1>3, <1>9 DEF Returns

\* Every call.
LEMMA CallReturns ==
  ASSUME IInv, NEW t \in Threads, Call(t)
  PROVE  Returns(t)
  <1>1. stamp[t] # None
    BY DEF Call
  <1>2. CASE Set(t) \/ Incr(t)
    BY <1>1, <1>2, SetReturns, IncrReturns
  <1>3. CASE Get(t) \/ Peek(t) \/ Pop(t)
    BY <1>1, <1>3, ReadingReturns
  <1>4. CASE Expire(t) \/ Touch(t)
    BY <1>1, <1>4, RetimingReturns
  <1>5. CASE Tag(t) \/ Untag(t)
    BY <1>1, <1>5, TaggingReturns
  <1>6. CASE Delete(t) \/ Clear(t) \/ Invalidate(t) \/ Count(t)
    BY <1>1, <1>6, RemovingReturns
  <1>7. CASE ResetStats(t)
    BY <1>1, <1>7, ResetStatsReturns
  <1>. QED
    BY <1>2, <1>3, <1>4, <1>5, <1>6, <1>7 DEF Call

-----------------------------------------------------------------------------
(* The theorems.                                                           *)

\* An empty store is sound.
LEMMA InitIInv == Init => IInv
  <1> SUFFICES ASSUME Init PROVE IInv
    OBVIOUS
  <1>1. PICK rows : rows = [id \in {} |-> 0]
    OBVIOUS
  <1>2. DOMAIN rows = {} /\ rows \in Rows
    <2>1. DOMAIN rows = {} /\ rows \in [DOMAIN rows -> Row] /\ DOMAIN rows \subseteq Ids
      BY <1>1
    <2>. QED
      BY <2>1, RowsAre
  <1>3. store = [rows |-> rows, tags |-> {}, cleaned |-> 0, gets |-> 0, hits |-> 0, misses |-> 0,
                 deletes |-> 0, expired |-> 0, evictions |-> 0]
    BY <1>1 DEF Init
  <1>4. store \in Tables /\ store.rows = rows /\ store.tags = {} /\ store.gets = 0 /\ store.hits = 0
        /\ store.misses = 0 /\ store.deletes = 0 /\ store.expired = 0 /\ store.evictions = 0
    BY <1>2, <1>3 DEF Tables
  <1>5. Sound(store)
    BY <1>2, <1>4 DEF Sound
  <1>6. Cardinality(DOMAIN rows) = 0
    BY <1>2, FS_EmptySet
  <1>7. limits \in Limits /\ limits[1] \in Nat /\ limits[2] \in Nat
    BY CacheAssumption DEF Init
  <1>8. Bytes(rows) = 0
    <2>1. IsFiniteSet(DOMAIN rows)
      BY <1>2, FS_EmptySet
    <2>2. Sums(Sizes(rows), DOMAIN rows)[DOMAIN rows] = 0
      BY <1>2, <2>1, SumOf
    <2>. QED
      BY <2>2, BytesAreSums
  <1>9. Fits(store.rows) /\ inserted = Made(store)
    BY <1>4, <1>6, <1>7, <1>8 DEF Fits, Made, Init
  <1>10. clock \in Nat /\ stamp \in [Threads -> Time]
    BY CacheAssumption DEF Init, Time
  <1>. QED
    BY <1>5, <1>7, <1>9, <1>10 DEF IInv

\* Steps that leave the store alone: the clock, a call's beginning, a refusal.
LEMMA SameIInv ==
  ASSUME IInv, UNCHANGED <<limits, store, inserted>>, clock' \in Nat, stamp' \in [Threads -> Time]
  PROVE  IInv'
  BY DEF IInv, Sound, Fits, Made

\* Every step keeps the invariant; a call does by its result.
LEMMA StepIInv ==
  ASSUME IInv, [Next]_vars
  PROVE  IInv'
  <1>0. clock \in Nat /\ stamp \in [Threads -> Time] /\ None \in Time
    BY DEF IInv, Time
  <1>1. CASE Tick
    BY <1>0, <1>1, SameIInv DEF Tick
  <1>2. CASE Close
    BY <1>0, <1>2, SameIInv DEF Close
  <1>3. ASSUME NEW t \in Threads, Begin(t) PROVE IInv'
    <2>1. clock \in Time
      BY <1>0 DEF Time
    <2>. QED
      BY <1>0, <1>3, <2>1, SameIInv DEF Begin
  <1>4. ASSUME NEW t \in Threads, Refuse(t) PROVE IInv'
    BY <1>0, <1>4, SameIInv DEF Refuse
  <1>5. ASSUME NEW t \in Threads, Call(t) PROVE IInv'
    <2>1. PICK left, a, n : Result(left, a, n) /\ Return(t, left, a, n)
      BY <1>5, CallReturns DEF Returns
    <2>2. store' = left /\ inserted' = inserted + n /\ limits' = limits /\ clock' = clock
          /\ stamp' = [stamp EXCEPT ![t] = None]
      BY <2>1 DEF Return
    <2>3. Sound(store') /\ inserted' = Made(store') /\ Fits(store.rows)'
      BY <2>1, <2>2 DEF Result, Fits
    <2>4. Sound(store)' /\ Made(store)' = Made(store')
      BY <2>3 DEF Sound, Made
    <2>. QED
      BY <1>0, <2>2, <2>3, <2>4 DEF IInv
  <1>6. CASE UNCHANGED vars
    BY <1>0, <1>6, SameIInv DEF vars
  <1>. QED
    BY <1>1, <1>2, <1>3, <1>4, <1>5, <1>6 DEF Next

\* The invariant balances the books.
LEMMA IInvBalances == IInv => BooksBalance
  <1> SUFFICES ASSUME IInv PROVE BooksBalance
    OBVIOUS
  <1>1. Sound(store) /\ Fits(store.rows) /\ inserted = Made(store) /\ stamp \in [Threads -> Time]
    BY DEF IInv
  <1>2. TypeOK
    BY <1>1, SoundRows DEF TypeOK, Sound, Row, Time
  <1>3. CountersAgree
    BY <1>1 DEF CountersAgree, Sound, Made
  <1>. QED
    BY <1>1, <1>2, <1>3 DEF BooksBalance, StoreBounded

\* cache.py, every call: the tables stay within the limits, tags hang on rows,
\* and the counters account for every row created and every get, whatever the
\* calls and the order in which they reach the lock.
THEOREM BooksAreBalanced == Spec => []BooksBalance
  <1>1. Init => IInv
    BY InitIInv
  <1>2. IInv /\ [Next]_vars => IInv'
    BY StepIInv
  <1>3. IInv => BooksBalance
    BY IInvBalances
  <1>. QED
    BY <1>1, <1>2, <1>3, PTL DEF Spec

\* The abstract map: what the rows hold.
Content == [id \in DOMAIN store.rows |-> store.rows[id].val]

\* A call's result is a step of the contract.
LEMMA CallImplements ==
  ASSUME IInv, NEW t \in Threads, Call(t)
  PROVE  Contract!Next
  <1>1. PICK left, a, n : Result(left, a, n) /\ Return(t, left, a, n)
    BY CallReturns DEF Returns
  <1>2. store' = left /\ told' = a
    BY <1>1 DEF Return
  <1>3. PICK c, d : c = Content /\ d = Content'
    OBVIOUS
  <1>4. DOMAIN c = DOMAIN store.rows /\ DOMAIN d = DOMAIN left.rows
        /\ c = [id \in DOMAIN c |-> store.rows[id].val] /\ d = [id \in DOMAIN d |-> left.rows[id].val]
    BY <1>2, <1>3 DEF Content
  <1>5. CASE /\ DOMAIN left.rows \subseteq DOMAIN store.rows
             /\ \A i \in DOMAIN left.rows : left.rows[i].val = store.rows[i].val
             /\ Tells(left, a)
    <2>1. Contract!Keeps(Content)
      <3>1. d = [i \in DOMAIN d |-> c[i]]
        BY <1>4, <1>5
      <3>. QED
        BY <1>3, <1>4, <1>5, <3>1 DEF Contract!Keeps, Contract!Restrict, Content
    <2>2. CASE a = <<>>
      BY <1>2, <2>1, <2>2 DEF Contract!Next, Contract!Forget, Content
    <2>3. ASSUME NEW id \in Ids, a = <<id>>, id \notin DOMAIN left.rows PROVE Contract!Next
      <3>1. Contract!Absent(id)
        BY <1>2, <1>3, <1>4, <2>1, <2>3 DEF Contract!Absent, Content
      <3>. QED
        BY <3>1 DEF Contract!Next
    <2>4. ASSUME NEW id \in DOMAIN store.rows, a = <<id, store.rows[id].val>> PROVE Contract!Next
      <3>1. id \in Ids
        BY SoundRows DEF IInv
      <3>2. Contract!Answer(id)
        BY <1>2, <2>1, <2>4 DEF Contract!Answer, Content
      <3>. QED
        BY <3>1, <3>2 DEF Contract!Next
    <2>. QED
      BY <1>5, <2>2, <2>3, <2>4 DEF Tells
  <1>6. ASSUME NEW id \in Ids, NEW v \in 0 .. MaxValue, a = <<id, v>>,
               DOMAIN left.rows \subseteq DOMAIN store.rows \cup {id},
               \A i \in DOMAIN left.rows : left.rows[i].val = IF i = id THEN v ELSE store.rows[i].val
        PROVE  Contract!Next
    <2>1. PICK h : h = [i \in DOMAIN Content \cup {id} |-> IF i = id THEN v ELSE Content[i]]
      OBVIOUS
    <2>2. DOMAIN h = DOMAIN c \cup {id} /\ \A i \in DOMAIN h : h[i] = IF i = id THEN v ELSE store.rows[i].val
      BY <1>3, <1>4, <2>1
    <2>3. DOMAIN d \subseteq DOMAIN h /\ d = [i \in DOMAIN d |-> h[i]]
      BY <1>4, <1>6, <2>2
    <2>4. DOMAIN Content' \subseteq DOMAIN h /\ Content' = [i \in DOMAIN Content' |-> h[i]]
      BY <1>3, <2>3
    <2>5. Contract!Put(id, v)
      BY <1>2, <1>6, <2>1, <2>4 DEF Contract!Put, Contract!Keeps, Contract!Restrict, Content
    <2>. QED
      BY <2>5 DEF Contract!Next
  <1>. QED
    BY <1>1, <1>5, <1>6 DEF Result

\* Every step is a step of the contract, or leaves what it speaks of alone.
LEMMA StepImplements ==
  ASSUME IInv, [Next]_vars
  PROVE  [Contract!Next]_Contract!vars
  <1>1. CASE Tick \/ Close \/ (\E t \in Threads : Begin(t) \/ Refuse(t)) \/ UNCHANGED vars
    <2>1. UNCHANGED <<store, told>>
      BY <1>1 DEF Tick, Close, Begin, Refuse, vars
    <2>. QED
      BY <2>1 DEF Contract!vars
  <1>2. ASSUME NEW t \in Threads, Call(t) PROVE [Contract!Next]_Contract!vars
    BY <1>2, CallImplements
  <1>. QED
    BY <1>1, <1>2 DEF Next

\* cache.py, every call: its callers see a map that may forget.  No answer is
\* older than the last write, and what is said to be gone is gone.
THEOREM CacheImplementsContract == Spec => ImplementsContract
  <1>1. Init => Contract!Init
    <2> SUFFICES ASSUME Init PROVE Contract!Init
      OBVIOUS
    <2>1. DOMAIN store.rows = {} /\ told = <<>>
      BY DEF Init
    <2>. QED
      BY <2>1 DEF Contract!Init
  <1>2. Init => IInv
    BY InitIInv
  <1>3. IInv /\ [Next]_vars => IInv'
    BY StepIInv
  <1>4. IInv /\ [Next]_vars => [Contract!Next]_Contract!vars
    BY StepImplements
  <1>. QED
    BY <1>1, <1>2, <1>3, <1>4, PTL DEF Spec, ImplementsContract, Contract!Spec
=============================================================================
