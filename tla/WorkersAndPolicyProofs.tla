------------------------ MODULE WorkersAndPolicyProofs -----------------------
(***************************************************************************)
(* Theorems about RouteWorkers, for any requests and every configuration   *)
(* of a route, and about SecurityPolicy, for any clients, threads, limits  *)
(* and windows.                                                            *)
(***************************************************************************)
EXTENDS RouteWorkers, SecurityPolicy, FiniteSetTheorems, SequenceTheorems, WellFoundedInduction, TLAPS

\* A worker below count is open unless close() has come to it, and resolve()
\* returns one of them.
SelectInv ==
  /\ closing <= count
  /\ \A w \in 1..count : ~open[w] => w <= closing
  /\ \A w \in Workers : w > count => wpc[w] = "none"
  /\ \A r \in Requests :
       /\ spc[r] \in {"submit", "waiting", "expired"} => target[r] \in 1..count
       /\ spc[r] = "rescan" => count = shape.max
       /\ answer[r] = "shut" => closing > 0

\* What a worker has in hand.
Hand(w) ==
  /\ active[w] = (IF wpc[w] = "handling" THEN 1 ELSE 0)
  /\ Len(started[w]) = served[w] + active[w]
  /\ wpc[w] \in {"handling", "finishing"} =>
       /\ started[w] # <<>> /\ current[w] = started[w][Len(started[w])]
       /\ current[w] \notin done
  /\ wpc[w] \notin {"handling", "finishing"} => current[w] = NoOne
HandInv == \A w \in Workers : Hand(w)

\* Where a request is: in the queue of its worker, once, or among those its
\* worker took, once, or withdrawn.
Accepted(r) ==
  spc[r] \in {"waiting", "expired"} \/ answer[r] \in {"ok", "error", "empty", "late"}
Distinct(s) == \A i, j \in DOMAIN s : s[i] = s[j] => i = j
SoundPlace(w, r) ==
  /\ Contains(jobs[w], r) =>
       /\ target[r] = w /\ spc[r] \in {"waiting", "expired"}
       /\ r \notin withdrawn /\ r \notin done /\ ~Contains(started[w], r)
  /\ Contains(started[w], r) => target[r] = w /\ Accepted(r) /\ r \notin withdrawn
Placed(r) ==
  /\ r \in withdrawn => answer[r] = "late"
  /\ spc[r] # "answered" => answer[r] = "none"
  /\ Accepted(r) /\ r \notin withdrawn =>
       \E w \in Workers : target[r] = w /\ (Contains(jobs[w], r) \/ Contains(started[w], r))
PlaceInv ==
  /\ \A w \in Workers : Distinct(jobs[w]) /\ Distinct(started[w])
  /\ \A w \in Workers, r \in Requests : SoundPlace(w, r)
  /\ \A r \in Requests : Placed(r)

\* A request that is done has been handled or was withdrawn.
DoneInv ==
  \A r \in Requests :
    /\ answer[r] \in {"ok", "error"} => r \in done /\ r \notin withdrawn
    /\ answer[r] = "ok" => outcome[r] = "ok"
    /\ answer[r] = "error" => outcome[r] = "error"
    /\ r \in done => Accepted(r)
    /\ r \in done /\ spc[r] \in {"waiting", "expired"} => r \notin withdrawn

IInv == TypeOK /\ SelectInv /\ HandInv /\ LoadBound /\ PlaceInv /\ DoneInv

-----------------------------------------------------------------------------
(* Sequences and choices the pool is built from. *)

\* A set of numbers that is not empty has a least one: resolve() always finds
\* a worker.
LEMMA LeastOfNats ==
  ASSUME NEW T, T \subseteq Nat, T # {}
  PROVE  \E x \in T : \A y \in T : x <= y
  <1> DEFINE R == {ss \in Nat \X Nat : ss[1] < ss[2]}
  <1>1. IsWellFoundedOn(R, Nat)
    BY NatLessThanWellFounded DEF OpToRel
  <1>2. PICK x \in T : \A y \in T : <<y, x>> \notin R
    <2> HIDE DEF R
    <2>. QED
      BY <1>1, WFMin
  <1>3. ASSUME NEW y \in T PROVE x <= y
    <2>1. x \in Nat /\ y \in Nat /\ <<y, x>> \in Nat \X Nat
      OBVIOUS
    <2>. QED
      BY <1>2, <2>1
  <1>. QED
    BY <1>3

\* resolve() always finds one among its candidates.
LEMMA LeastBusyIsCandidate ==
  ASSUME NEW candidates, candidates \subseteq 1..count, candidates # {},
         count \in Nat, seen \in Seq(Nat), Len(seen) = count
  PROVE  LeastBusy(candidates) \in candidates
  <1> DEFINE loads == {seen[w] : w \in candidates}
  <1>1. \A w \in candidates : w \in Nat /\ seen[w] \in Nat
    OBVIOUS
  <1>2. PICK m \in loads : \A l \in loads : m <= l
    <2>1. loads \subseteq Nat /\ loads # {}
      BY <1>1
    <2> HIDE DEF loads
    <2>. QED
      BY <2>1, LeastOfNats
  <1> DEFINE idlest == {w \in candidates : seen[w] = m}
  <1>3. PICK w \in idlest : \A v \in idlest : w <= v
    <2>1. idlest \subseteq Nat /\ idlest # {}
      BY <1>1, <1>2
    <2> HIDE DEF idlest
    <2>. QED
      BY <2>1, LeastOfNats
  <1>4. ASSUME NEW v \in candidates
        PROVE  seen[w] < seen[v] \/ (seen[w] = seen[v] /\ w <= v)
    <2>1. seen[w] = m /\ m <= seen[v] /\ seen[v] \in Nat /\ m \in Nat
      BY <1>1, <1>2, <1>3
    <2>2. CASE seen[v] = m
      BY <1>3, <2>1, <2>2
    <2>3. CASE seen[v] # m
      BY <2>1, <2>3
    <2>. QED
      BY <2>2, <2>3
  <1>5. w \in candidates
    BY <1>3
  <1>. QED
    BY <1>4, <1>5 DEF LeastBusy

\* jobs.remove(job) takes that job out and leaves the others in their order.
LEMMA RemovedFrom ==
  ASSUME NEW R, NEW s \in Seq(R), NEW r, Contains(s, r), Distinct(s)
  PROVE  LET t == RemoveAt(s, CHOOSE i \in DOMAIN s : s[i] = r)
         IN  /\ t \in Seq(R) /\ Len(t) = Len(s) - 1 /\ Distinct(t)
             /\ \A q : Contains(t, q) <=> Contains(s, q) /\ q # r
  <1>1. PICK k \in 1..Len(s) : k = CHOOSE i \in DOMAIN s : s[i] = r
    BY DEF Contains
  <1>2. s[k] = r
    BY <1>1 DEF Contains
  <1> DEFINE front == SubSeq(s, 1, k - 1)
             back == SubSeq(s, k + 1, Len(s))
             t == front \o back
  <1>3. /\ front \in Seq(R) /\ Len(front) = k - 1 /\ \A j \in 1..(k - 1) : front[j] = s[j]
    OBVIOUS
  <1>4. /\ back \in Seq(R) /\ Len(back) = Len(s) - k
        /\ \A j \in 1..(Len(s) - k) : back[j] = s[j + k]
    OBVIOUS
  <1> HIDE DEF front, back
  <1>5. t \in Seq(R) /\ Len(t) = Len(s) - 1
    BY <1>3, <1>4
  <1>6. ASSUME NEW j \in 1..(Len(s) - 1) PROVE t[j] = IF j < k THEN s[j] ELSE s[j + 1]
    <2>1. CASE j < k
      BY <1>3, <1>4, <2>1
    <2>2. CASE ~(j < k)
      <3>1. j - (k - 1) \in 1..(Len(s) - k) /\ j = (k - 1) + (j - (k - 1))
        BY <2>2
      <3>2. t[j] = back[j - (k - 1)]
        BY <1>3, <1>4, <3>1
      <3>3. back[j - (k - 1)] = s[j + 1]
        BY <1>4, <3>1
      <3>. QED
        BY <2>2, <3>2, <3>3
    <2>. QED
      BY <2>1, <2>2
  <1> HIDE DEF t
  <1>7. ASSUME NEW j \in DOMAIN t PROVE t[j] # r /\ \E i \in DOMAIN s : t[j] = s[i]
    <2>1. j \in 1..(Len(s) - 1)
      BY <1>5
    <2>2. PICK i \in 1..Len(s) : i = (IF j < k THEN j ELSE j + 1)
      BY <2>1
    <2>3. t[j] = s[i] /\ i # k
      BY <1>6, <2>1, <2>2
    <2>. QED
      BY <1>2, <2>3 DEF Distinct
  <1>8. ASSUME NEW i \in 1..Len(t), NEW j \in 1..Len(t), t[i] = t[j]
        PROVE  i = j
    <2> DEFINE at(m) == IF m < k THEN m ELSE m + 1
    <2>1. \A m \in 1..Len(t) : at(m) \in 1..Len(s) /\ t[m] = s[at(m)]
      BY <1>5, <1>6
    <2>2. at(i) = at(j)
      <3> HIDE DEF at
      <3>. QED
        BY <1>8, <2>1 DEF Distinct
    <2>. QED
      BY <2>2
  <1>9. ASSUME NEW q, Contains(s, q), q # r PROVE Contains(t, q)
    <2>1. PICK i \in 1..Len(s) : s[i] = q
      BY <1>9 DEF Contains
    <2>2. CASE i < k
      BY <1>5, <1>6, <2>1, <2>2 DEF Contains
    <2>3. CASE i > k
      <3>1. i - 1 \in 1..Len(t) /\ t[i - 1] = q
        BY <1>5, <1>6, <2>1, <2>3
      <3>. QED
        BY <3>1 DEF Contains
    <2>. QED
      BY <1>2, <1>9, <2>1, <2>2, <2>3
  <1>10. Distinct(t)
    BY <1>5, <1>8 DEF Distinct
  <1>11. ASSUME NEW q, Contains(t, q) PROVE Contains(s, q) /\ q # r
    BY <1>7, <1>11 DEF Contains
  <1>12. t = RemoveAt(s, CHOOSE i \in DOMAIN s : s[i] = r)
    BY <1>1 DEF RemoveAt, t, front, back
  <1>. QED
    BY <1>5, <1>9, <1>10, <1>11, <1>12

\* A job put at the end of a queue.
LEMMA Appended ==
  ASSUME NEW R, NEW s \in Seq(R), NEW r \in R
  PROVE  LET t == Append(s, r)
         IN  /\ t \in Seq(R) /\ t # <<>> /\ Len(t) = Len(s) + 1 /\ t[Len(t)] = r
             /\ \A q : Contains(t, q) <=> Contains(s, q) \/ q = r
             /\ Distinct(s) /\ ~Contains(s, r) => Distinct(t)
  <1> DEFINE t == Append(s, r)
  <1>1. /\ t \in Seq(R) /\ t # <<>> /\ Len(t) = Len(s) + 1 /\ t[Len(t)] = r
        /\ \A i \in 1..Len(s) : t[i] = s[i]
    OBVIOUS
  <1> HIDE DEF t
  <1>2. ASSUME NEW q PROVE Contains(t, q) <=> Contains(s, q) \/ q = r
    BY <1>1 DEF Contains
  <1>3. ASSUME Distinct(s), ~Contains(s, r) PROVE Distinct(t)
    <2>1. ASSUME NEW i \in 1..Len(t), NEW j \in 1..Len(t), t[i] = t[j] PROVE i = j
      BY <1>1, <1>3, <2>1 DEF Distinct, Contains
    <2>. QED
      BY <1>1, <2>1 DEF Distinct
  <1>. QED
    BY <1>1, <1>2, <1>3 DEF t

\* A job taken from the front of a queue.
LEMMA HeadTaken ==
  ASSUME NEW R, NEW s \in Seq(R), s # <<>>
  PROVE  /\ Head(s) \in R /\ Tail(s) \in Seq(R) /\ Len(Tail(s)) = Len(s) - 1
         /\ Contains(s, Head(s))
         /\ \A q : Contains(s, q) <=> Contains(Tail(s), q) \/ q = Head(s)
         /\ Distinct(s) => Distinct(Tail(s)) /\ ~Contains(Tail(s), Head(s))
  <1> DEFINE t == Tail(s)
  <1>1. /\ t \in Seq(R) /\ Len(t) = Len(s) - 1 /\ Head(s) \in R /\ Head(s) = s[1]
        /\ \A i \in 1..Len(t) : t[i] = s[i + 1]
        /\ 1 \in 1..Len(s)
    OBVIOUS
  <1> HIDE DEF t
  <1>2. Contains(s, Head(s))
    BY <1>1 DEF Contains
  <1>3. ASSUME NEW q PROVE Contains(s, q) <=> Contains(t, q) \/ q = Head(s)
    <2>1. ASSUME NEW i \in 1..Len(s), s[i] = q, i # 1 PROVE Contains(t, q)
      <3>1. i - 1 \in 1..Len(t) /\ t[i - 1] = q
        BY <1>1, <2>1
      <3>. QED
        BY <3>1 DEF Contains
    <2>2. ASSUME NEW i \in 1..Len(t), t[i] = q PROVE Contains(s, q)
      <3>1. i + 1 \in 1..Len(s) /\ s[i + 1] = q
        BY <1>1, <2>2
      <3>. QED
        BY <3>1 DEF Contains
    <2>3. Contains(s, q) => Contains(t, q) \/ q = Head(s)
      BY <1>1, <2>1 DEF Contains
    <2>4. Contains(t, q) => Contains(s, q)
      BY <2>2 DEF Contains
    <2>. QED
      BY <1>2, <2>3, <2>4
  <1>4. ASSUME Distinct(s) PROVE Distinct(t) /\ ~Contains(t, Head(s))
    <2>1. ASSUME NEW i \in 1..Len(t), NEW j \in 1..Len(t), t[i] = t[j] PROVE i = j
      <3>1. i + 1 \in 1..Len(s) /\ j + 1 \in 1..Len(s) /\ s[i + 1] = s[j + 1]
        BY <1>1, <2>1
      <3>2. i + 1 = j + 1
        BY <1>4, <3>1 DEF Distinct
      <3>. QED
        BY <3>2
    <2>2. ASSUME NEW i \in 1..Len(t) PROVE t[i] # Head(s)
      <3>1. i + 1 \in 1..Len(s) /\ s[i + 1] = t[i] /\ i + 1 # 1
        BY <1>1
      <3>. QED
        BY <1>1, <1>4, <3>1 DEF Distinct
    <2>3. ~Contains(t, Head(s))
      BY <2>2 DEF Contains
    <2>. QED
      BY <1>1, <2>1, <2>3 DEF Distinct
  <1>. QED
    BY <1>1, <1>2, <1>3, <1>4 DEF t
-----------------------------------------------------------------------------
(* What the steps of resolve() and a withdrawal may change. *)

\* The places for workers are enough for the configuration in use.
LEMMA WorkersSuffice ==
  ASSUME TypeOK
  PROVE  /\ shape.max \in Nat \ {0} /\ shape.min \in Nat /\ shape.perThread \in Nat
         /\ 1..shape.max \subseteq Workers /\ count \in Nat /\ 1..count \subseteq Workers
         /\ \A w \in Workers : w \in Nat
  <1>1. \A sh \in Shapes : sh.max \in Nat \ {0} /\ sh.min \in Nat /\ sh.perThread \in Nat
    BY PoolConstants
  <1>2. shape \in Shapes /\ count \in 0..shape.max
    BY DEF TypeOK
  <1>3. 1..shape.max \subseteq Workers
    BY <1>2 DEF Workers
  <1>4. \A w \in Workers : w \in Nat
    BY <1>1 DEF Workers
  <1>. QED
    BY <1>1, <1>2, <1>3, <1>4

Selecting(r) ==
  \/ \E cookie \in 0..count : Resolve(r, cookie)
  \/ ReadLoad(r) \/ Pick(r) \/ PickAny(r)

WorkerAdded ==
  /\ count < shape.max /\ count' = count + 1
  /\ open' = [open EXCEPT ![count + 1] = TRUE]
  /\ wpc' = [wpc EXCEPT ![count + 1] = "idle"]

\* Selecting moves one request towards submit() and may add a worker; no job,
\* answer or counter is touched.
SelectionOf(r) ==
  /\ UNCHANGED <<shape, jobs, active, served, current, started, outcome, done, answer,
                 withdrawn, closing, closed>>
  /\ WorkerAdded \/ UNCHANGED <<count, open, wpc>>
  /\ seen' \in Seq(Nat) /\ lock' \in Requests \cup {NoOne}
  /\ spc[r] \in {"new", "scan", "rescan"}
  /\ \E place \in {"scan", "rescan", "submit"} : \E w \in 0..shape.max :
       /\ spc' = [spc EXCEPT ![r] = place] /\ target' = [target EXCEPT ![r] = w]
       /\ place = "submit" => w \in 1..count'
       /\ place = "rescan" => count = shape.max /\ count' = shape.max

\* A step of resolve() moves only its own request, and adds at most one worker
\* to the pool.
LEMMA SelectionEffect ==
  ASSUME TypeOK, SelectInv, NEW r \in Requests, Selecting(r)
  PROVE  SelectionOf(r)
  <1>1. /\ shape.max \in Nat \ {0} /\ count \in 0..shape.max
        /\ target[r] \in 0..shape.max /\ lock \in Requests \cup {NoOne} /\ seen \in Seq(Nat)
    <2>1. shape.max \in Nat \ {0}
      BY WorkersSuffice
    <2>. QED
      BY <2>1 DEF TypeOK
  <1>2. target = [target EXCEPT ![r] = target[r]] /\ spc = [spc EXCEPT ![r] = spc[r]]
    BY DEF TypeOK
  <1> DEFINE Rest ==
        /\ UNCHANGED <<shape, jobs, active, served, current, started, outcome, done, answer,
                       withdrawn, closing, closed>>
        /\ WorkerAdded \/ UNCHANGED <<count, open, wpc>>
        /\ seen' \in Seq(Nat) /\ lock' \in Requests \cup {NoOne}
        /\ spc[r] \in {"new", "scan", "rescan"}
  <1> DEFINE Moved ==
        \E place \in {"scan", "rescan", "submit"} : \E w \in 0..shape.max :
           /\ spc' = [spc EXCEPT ![r] = place] /\ target' = [target EXCEPT ![r] = w]
           /\ place = "submit" => w \in 1..count'
           /\ place = "rescan" => count = shape.max /\ count' = shape.max
  <1>s. ASSUME NEW w \in 0..shape.max, Select(r, w), w \in 1..count' PROVE Moved
    BY <1>s, "submit" \in {"scan", "rescan", "submit"}, "submit" # "rescan" DEF Select
  <1>3. ASSUME NEW cookie \in 0..count, Resolve(r, cookie) PROVE SelectionOf(r)
    <2>1. CASE cookie \in 1..count /\ HasRoom(Load(cookie))
      <3>1. cookie \in 0..shape.max /\ cookie \in 1..count
        BY <1>1, <2>1
      <3>. QED
        BY <1>1, <1>3, <2>1, <3>1
        DEF Resolve, Select, SelectionOf, worker
    <2>2. CASE ~(cookie \in 1..count /\ HasRoom(Load(cookie)))
      BY <1>1, <1>2, <1>3, <2>2 DEF Resolve, SelectionOf, worker
    <2>. QED
      BY <2>1, <2>2
  <1>4. ASSUME ReadLoad(r) PROVE SelectionOf(r)
    <2>1. Len(seen) + 1 \in Workers
      BY <1>1, <1>4, WorkersSuffice DEF ReadLoad
    <2>2. active[Len(seen) + 1] \in Nat /\ jobs[Len(seen) + 1] \in Seq(Requests)
      <3>1. active[Len(seen) + 1] \in 0..1
        BY <2>1 DEF TypeOK
      <3>2. jobs[Len(seen) + 1] \in Seq(Requests)
        BY <2>1 DEF TypeOK
      <3>. QED
        BY <3>1, <3>2
    <2>3. seen' \in Seq(Nat)
      BY <1>1, <1>4, <2>2 DEF ReadLoad, Load
    <2>4. /\ spc[r] = "rescan" => count = shape.max
          /\ spc[r] \in {"scan", "rescan"}
      BY <1>4 DEF ReadLoad, SelectInv
    <2>. QED
      BY <1>1, <1>2, <1>4, <2>3, <2>4 DEF ReadLoad, SelectionOf, worker, request
  <1>5. ASSUME Pick(r) PROVE SelectionOf(r)
    <2> DEFINE roomy == {w \in 1..count : HasRoom(seen[w])}
    <2>1. CASE roomy # {} /\ Select(r, LeastBusy(roomy)) /\ UNCHANGED <<worker, count>>
      <3>1. roomy \subseteq 1..count /\ count \in Nat /\ Len(seen) = count
        BY <1>1, <1>5 DEF Pick
      <3> HIDE DEF roomy
      <3>2. LeastBusy(roomy) \in roomy
        BY <1>1, <2>1, <3>1, LeastBusyIsCandidate
      <3>3. PICK w \in 1..count : Select(r, w) /\ UNCHANGED <<worker, count>>
        BY <2>1, <3>1, <3>2
      <3>4. w \in 0..shape.max
        BY <1>1, <3>3
      <3>5. Moved
        BY <1>s, <3>3, <3>4
      <3>6. Rest
        BY <1>1, <1>5, <3>3 DEF Pick, Select, worker
      <3>. QED
        BY <3>5, <3>6 DEF SelectionOf
    <2>2. CASE CanGrow /\ SpawnWorker(r)
      <3>1. count + 1 \in 0..shape.max /\ count + 1 \in 1..(count + 1)
        BY <1>1, <2>2 DEF CanGrow
      <3>2. /\ WorkerAdded
            /\ UNCHANGED <<shape, jobs, active, served, current, started, outcome, done,
                           answer, withdrawn, closing, closed>>
            /\ seen' = <<>> /\ lock' = NoOne /\ spc[r] = "scan"
            /\ spc' = [spc EXCEPT ![r] = "submit"] /\ target' = [target EXCEPT ![r] = count + 1]
            /\ count' = count + 1
        BY <1>5, <2>2 DEF Pick, SpawnWorker, Select, CanGrow, WorkerAdded
      <3>3. Moved
        BY <1>s, <2>2, <3>1, <3>2 DEF SpawnWorker
      <3>4. Rest
        BY <3>2
      <3>. QED
        BY <3>3, <3>4 DEF SelectionOf
    <2>3. CASE /\ ~CanGrow
               /\ spc' = [spc EXCEPT ![r] = "rescan"]
               /\ seen' = <<>>
               /\ UNCHANGED <<worker, target, count, lock>>
      <3>1. count = shape.max
        BY <1>1, <2>3 DEF CanGrow
      <3>. QED
        BY <1>1, <1>2, <1>5, <2>3, <3>1 DEF Pick, SelectionOf, worker
    <2>. QED
      BY <1>5, <2>1, <2>2, <2>3 DEF Pick
  <1>6. ASSUME PickAny(r) PROVE SelectionOf(r)
    <2>1. count = shape.max /\ 1..count # {} /\ 1..count \subseteq 1..count
      BY <1>1, <1>6 DEF PickAny, SelectInv
    <2>2. LeastBusy(1..count) \in 1..count
      BY <1>1, <1>6, <2>1, LeastBusyIsCandidate DEF PickAny
    <2>3. LeastBusy(1..count) \in 0..shape.max
      BY <1>1, <2>2
    <2>4. PICK w \in 1..count : w \in 0..shape.max /\ Select(r, w)
      BY <1>6, <2>2, <2>3 DEF PickAny
    <2>5. Moved
      BY <1>s, <1>6, <2>4 DEF PickAny
    <2>6. Rest
      BY <1>1, <1>6, <2>4 DEF PickAny, Select, worker
    <2>. QED
      BY <2>5, <2>6 DEF SelectionOf
  <1>. QED
    BY <1>3, <1>4, <1>5, <1>6 DEF Selecting
\* A request whose wait ended leaves its queue, if it is still there.
LEMMA WithdrawEffect ==
  ASSUME TypeOK, SelectInv, PlaceInv, NEW r \in Requests, Withdraw(r)
  PROVE  /\ target[r] \in Workers
         /\ \/ /\ Contains(jobs[target[r]], r)
               /\ \E q \in Seq(Requests) :
                    /\ jobs' = [jobs EXCEPT ![target[r]] = q]
                    /\ Len(q) = Len(jobs[target[r]]) - 1 /\ Distinct(q)
                    /\ \A p : Contains(q, p) <=> Contains(jobs[target[r]], p) /\ p # r
               /\ done' = done \cup {r} /\ withdrawn' = withdrawn \cup {r}
            \/ /\ ~Contains(jobs[target[r]], r)
               /\ UNCHANGED <<jobs, done, withdrawn>>
  <1>1. target[r] \in 1..count /\ 1..count \subseteq Workers
    BY WorkersSuffice DEF SelectInv, Withdraw
  <1>2. PICK w \in Workers : w = target[r]
    BY <1>1
  <1>3. jobs[w] \in Seq(Requests) /\ jobs = [jobs EXCEPT ![w] = jobs[w]]
    BY <1>2 DEF TypeOK
  <1>4. CASE Contains(jobs[w], r)
    <2>1. PICK q : q = QueueWithout(w, r)
      OBVIOUS
    <2>2. /\ q \in Seq(Requests) /\ Len(q) = Len(jobs[w]) - 1 /\ Distinct(q)
          /\ \A p : Contains(q, p) <=> Contains(jobs[w], p) /\ p # r
      BY <1>3, <1>4, <2>1, RemovedFrom DEF QueueWithout, PlaceInv
    <2>3. /\ jobs' = [jobs EXCEPT ![w] = q]
          /\ done' = done \cup {r} /\ withdrawn' = withdrawn \cup {r}
      BY <1>2, <1>4, <2>1 DEF Withdraw
    <2>. QED
      BY <1>2, <1>4, <2>2, <2>3
  <1>5. CASE ~Contains(jobs[w], r)
    BY <1>2, <1>3, <1>5 DEF Withdraw
  <1>. QED
    BY <1>2, <1>4, <1>5

-----------------------------------------------------------------------------
(* Types. *)

\* An empty pool keeps the invariant.
LEMMA InitInv ==
  ASSUME Init PROVE IInv
  <1>1. shape \in Shapes /\ shape.max \in Nat \ {0} /\ shape.min \in Nat
        /\ shape.min <= shape.max /\ shape.perThread \in Nat
    BY PoolConstants DEF Init
  <1>2. TypeOK
    <2>1. \A w \in Workers : open[w] \in BOOLEAN
      BY DEF Init
    <2>2. open \in [Workers -> BOOLEAN]
      BY <2>1 DEF Init
    <2>3. wpc \in [Workers -> {"none", "idle", "handling", "finishing", "exited"}]
      BY DEF Init
    <2>4. count \in 0..shape.max /\ 0 \in 0..shape.max
      BY <1>1 DEF Init
    <2>5. /\ jobs \in [Workers -> Seq(Requests)] /\ active \in [Workers -> 0..1]
          /\ served \in [Workers -> Nat] /\ current \in [Workers -> Requests \cup {NoOne}]
          /\ started \in [Workers -> Seq(Requests)]
      BY DEF Init
    <2>6. /\ spc \in [Requests -> {"new", "scan", "rescan", "submit", "waiting", "expired",
                                   "answered"}]
          /\ target \in [Requests -> 0..shape.max] /\ outcome \in [Requests -> Outcomes]
          /\ answer \in [Requests -> Answers]
      BY <2>4 DEF Init, Outcomes, Answers
    <2>7. lock \in Requests \cup {NoOne}
      BY DEF Init
    <2>8. seen \in Seq(Nat)
      BY DEF Init
    <2>9. /\ done \subseteq Requests
          /\ withdrawn \subseteq Requests /\ closing \in 0..shape.max /\ closed \in BOOLEAN
      BY <2>4 DEF Init
    <2>. QED
      BY <1>1, <2>2, <2>3, <2>4, <2>5, <2>6, <2>7, <2>8, <2>9 DEF TypeOK
  <1>3. \A w \in Workers : w \in Nat
    BY <1>2, WorkersSuffice
  <1>4. SelectInv
    <2>1. \A w \in Workers : w > count => wpc[w] = "none"
      BY <1>1, <1>3 DEF Init
    <2>2. \A w \in 1..count : open[w]
      <3>1. 1..count \subseteq Workers /\ count = shape.min
        BY <1>2, WorkersSuffice DEF Init
      <3>2. \A w \in 1..count : open[w] = (w <= shape.min)
        BY <3>1 DEF Init
      <3>3. \A w \in 1..count : w <= shape.min
        BY <1>1, <3>1
      <3>. QED
        BY <3>2, <3>3
    <2>. QED
      BY <1>1, <2>1, <2>2 DEF Init, SelectInv
  <1>5. HandInv
    BY DEF Init, HandInv, Hand
  <1>6. LoadBound
    BY <1>1 DEF Init, LoadBound, Load
  <1>7. PlaceInv
    BY DEF Init, PlaceInv, SoundPlace, Placed, Distinct, Contains, Accepted
  <1>8. DoneInv
    BY DEF Init, DoneInv
  <1>. QED
    BY <1>2, <1>4, <1>5, <1>6, <1>7, <1>8 DEF IInv

\* No step breaks the shape of a variable.
LEMMA TypeStep ==
  ASSUME IInv, [Next]_vars PROVE TypeOK'
  <1>. USE DEF IInv
  <1>1. ASSUME NEW r \in Requests, Selecting(r) PROVE TypeOK'
    <2>1. SelectionOf(r)
      BY <1>1, SelectionEffect
    <2>2. /\ spc' \in [Requests -> {"new", "scan", "rescan", "submit", "waiting", "expired",
                                    "answered"}]
          /\ target' \in [Requests -> 0..shape.max]
      BY <2>1 DEF SelectionOf, TypeOK
    <2>3. /\ count' \in 0..shape.max /\ open' \in [Workers -> BOOLEAN]
          /\ wpc' \in [Workers -> {"none", "idle", "handling", "finishing", "exited"}]
      <3>1. CASE WorkerAdded
        <4>1. count + 1 \in 0..shape.max
          BY <3>1, WorkersSuffice DEF WorkerAdded
        <4>. QED
          BY <3>1, <4>1 DEF WorkerAdded, TypeOK
      <3>2. CASE UNCHANGED <<count, open, wpc>>
        BY <3>2 DEF TypeOK
      <3>. QED
        BY <2>1, <3>1, <3>2 DEF SelectionOf
    <2>. QED
      BY <2>1, <2>2, <2>3 DEF SelectionOf, TypeOK
  <1>2. ASSUME NEW r \in Requests, Submit(r) PROVE TypeOK'
    <2>1. target[r] \in Workers
      BY <1>2, WorkersSuffice DEF Submit, SelectInv
    <2>2. jobs' \in [Workers -> Seq(Requests)]
      <3>1. jobs[target[r]] \in Seq(Requests)
        BY <2>1 DEF TypeOK
      <3>2. Append(jobs[target[r]], r) \in Seq(Requests)
        BY <3>1
      <3>. QED
        BY <1>2, <3>2, ZenonT(30) DEF Submit, TypeOK
    <2>3. /\ spc' \in [Requests -> {"new", "scan", "rescan", "submit", "waiting", "expired",
                                    "answered"}]
          /\ answer' \in [Requests -> Answers]
      BY <1>2 DEF Submit, Answer, Answers, TypeOK
    <2>. QED
      BY <1>2, <2>2, <2>3 DEF Submit, TypeOK, pool
  <1>3. ASSUME NEW r \in Requests, Receive(r) \/ TimesOut(r) PROVE TypeOK'
    <2>1. AnswerOf(outcome[r]) \in Answers
      BY DEF AnswerOf, Answers
    <2>2. /\ spc' \in [Requests -> {"new", "scan", "rescan", "submit", "waiting", "expired",
                                    "answered"}]
          /\ answer' \in [Requests -> Answers]
      BY <1>3, <2>1, ZenonT(30) DEF Receive, TimesOut, Answer, TypeOK
    <2>. QED
      BY <1>3, <2>2 DEF Receive, TimesOut, TypeOK, pool, worker
  <1>4. ASSUME NEW r \in Requests, Withdraw(r) PROVE TypeOK'
    <2>1. /\ jobs' \in [Workers -> Seq(Requests)]
          /\ done' \subseteq Requests /\ withdrawn' \subseteq Requests
      <3>1. PICK w \in Workers : w = target[r]
        BY <1>4, WithdrawEffect
      <3>2. CASE /\ \E q \in Seq(Requests) : jobs' = [jobs EXCEPT ![w] = q]
                 /\ done' = done \cup {r} /\ withdrawn' = withdrawn \cup {r}
        BY <3>2 DEF TypeOK
      <3>3. CASE UNCHANGED <<jobs, done, withdrawn>>
        BY <3>3 DEF TypeOK
      <3>. QED
        BY <1>4, <3>1, <3>2, <3>3, WithdrawEffect
    <2>2. /\ spc' \in [Requests -> {"new", "scan", "rescan", "submit", "waiting", "expired",
                                    "answered"}]
          /\ answer' \in [Requests -> Answers]
      BY <1>4 DEF Withdraw, Answer, Answers, TypeOK
    <2>. QED
      BY <1>4, <2>1, <2>2 DEF Withdraw, TypeOK, pool
  <1>5. ASSUME NEW w \in Workers, Take(w) PROVE TypeOK'
    <2>1. jobs[w] \in Seq(Requests) /\ jobs[w] # <<>> /\ started[w] \in Seq(Requests)
      BY <1>5 DEF Take, TypeOK
    <2>2. Head(jobs[w]) \in Requests /\ Tail(jobs[w]) \in Seq(Requests)
      BY <2>1
    <2>3. active[w] = 0
      BY <1>5 DEF Take, HandInv, Hand
    <2>4. current' \in [Workers -> Requests \cup {NoOne}]
      BY <1>5, <2>2 DEF Take, TypeOK
    <2>5. jobs' \in [Workers -> Seq(Requests)]
      BY <1>5, <2>2 DEF Take, TypeOK
    <2>6. active' \in [Workers -> 0..1]
      BY <1>5, <2>3 DEF Take, TypeOK
    <2>7. wpc' \in [Workers -> {"none", "idle", "handling", "finishing", "exited"}]
      BY <1>5 DEF Take, TypeOK
    <2>8. started' \in [Workers -> Seq(Requests)]
      <3>1. Append(started[w], Head(jobs[w])) \in Seq(Requests)
        BY <2>1, <2>2
      <3>. QED
        BY <1>5, <3>1 DEF Take, TypeOK
    <2>. QED
      BY <1>5, <2>4, <2>5, <2>6, <2>7, <2>8 DEF Take, TypeOK, pool, request
  <1>6. ASSUME NEW w \in Workers, Notify(w) PROVE TypeOK'
    <2>1. started[w] # <<>> /\ current[w] = started[w][Len(started[w])]
      BY <1>6 DEF Notify, HandInv, Hand
    <2>2. current[w] \in Requests
      BY <2>1 DEF TypeOK
    <2>3. done' \subseteq Requests
      BY <1>6, <2>2 DEF Notify, TypeOK
    <2>4. current' \in [Workers -> Requests \cup {NoOne}]
      BY <1>6 DEF Notify, TypeOK
    <2>5. wpc' \in [Workers -> {"none", "idle", "handling", "finishing", "exited"}]
      BY <1>6 DEF Notify, TypeOK
    <2>. QED
      BY <1>6, <2>3, <2>4, <2>5 DEF Notify, TypeOK, pool
  <1>7. ASSUME NEW w \in Workers, Exit(w) PROVE TypeOK'
    <2>1. wpc' \in [Workers -> {"none", "idle", "handling", "finishing", "exited"}]
      BY <1>7 DEF Exit, TypeOK
    <2>. QED
      BY <1>7, <2>1 DEF Exit, TypeOK, pool, request
  <1>8. ASSUME NEW w \in Workers, HandlerEnds(w) PROVE TypeOK'
    <2>1. active[w] = 1 /\ served[w] \in Nat
      BY <1>8 DEF HandlerEnds, HandInv, Hand, TypeOK
    <2>2. /\ active' \in [Workers -> 0..1] /\ served' \in [Workers -> Nat]
          /\ wpc' \in [Workers -> {"none", "idle", "handling", "finishing", "exited"}]
      BY <1>8, <2>1 DEF HandlerEnds, TypeOK
    <2>3. PICK o \in Outcomes : outcome' = [outcome EXCEPT ![current[w]] = o]
      BY <1>8 DEF HandlerEnds, Outcomes
    <2>4. outcome' \in [Requests -> Outcomes]
      BY <2>3 DEF TypeOK
    <2>. QED
      BY <1>8, <2>2, <2>4 DEF HandlerEnds, TypeOK, pool
  <1>9. ASSUME CloseWorker PROVE TypeOK'
    <2>1. closing' \in 0..shape.max /\ open' \in [Workers -> BOOLEAN]
      BY <1>9, WorkersSuffice, SMTT(30) DEF CloseWorker, TypeOK
    <2>. QED
      BY <1>9, <2>1 DEF CloseWorker, TypeOK, request
  <1>10. ASSUME CloseEnds \/ UNCHANGED vars PROVE TypeOK'
    BY <1>10 DEF CloseEnds, TypeOK, request, worker, pool, vars
  <1>. QED
    BY <1>1, <1>2, <1>3, <1>4, <1>5, <1>6, <1>7, <1>8, <1>9, <1>10
    DEF Next, RequestStep, WorkerStep, Selecting
-----------------------------------------------------------------------------
(* The other parts of the invariant, one lemma each. *)

\* resolve() never names a worker that does not exist, and only close() shuts one.
LEMMA SelectStep ==
  ASSUME IInv, [Next]_vars PROVE SelectInv'
  <1>. USE DEF IInv
  <1>. /\ count \in Nat /\ closing \in Nat /\ shape.max \in Nat /\ count <= shape.max
       /\ 1..count \subseteq Workers /\ \A w \in Workers : w \in Nat
    BY WorkersSuffice DEF TypeOK
  <1>1. ASSUME NEW r \in Requests, Selecting(r) PROVE SelectInv'
    <2>1. SelectionOf(r)
      BY <1>1, SelectionEffect
    <2>2. count' \in Nat /\ count <= count' /\ closing' = closing /\ answer' = answer
          /\ shape' = shape
      BY <2>1 DEF SelectionOf, WorkerAdded
    <2>3. \A w \in 1..count' : ~open'[w] => w <= closing'
      <3>1. CASE WorkerAdded
        <4>1. ASSUME NEW w \in 1..count PROVE open'[w] = open[w]
          <5>1. w \in Workers /\ w # count + 1
            OBVIOUS
          <5>. QED
            BY <3>1, <5>1 DEF WorkerAdded, TypeOK
        <4>2. count + 1 \in Workers
          BY <3>1, WorkersSuffice DEF WorkerAdded
        <4>3. open'[count + 1]
          BY <3>1, <4>2 DEF WorkerAdded, TypeOK
        <4>4. \A w \in 1..count' : w \in 1..count \/ w = count + 1
          BY <3>1 DEF WorkerAdded
        <4>. QED
          BY <2>2, <4>1, <4>3, <4>4 DEF SelectInv
      <3>. QED
        BY <2>1, <3>1 DEF SelectionOf, SelectInv
    <2>4. \A w \in Workers : w > count' => wpc'[w] = "none"
      <3>1. CASE WorkerAdded
        <4>1. \A w \in Workers : w > count' => w > count /\ w # count + 1
          BY <3>1 DEF WorkerAdded
        <4>2. \A w \in Workers : w # count + 1 => wpc'[w] = wpc[w]
          BY <3>1 DEF WorkerAdded, TypeOK
        <4>. QED
          BY <4>1, <4>2 DEF SelectInv
      <3>2. CASE UNCHANGED <<count, open, wpc>>
        BY <3>2 DEF SelectInv
      <3>. QED
        BY <2>1, <3>1, <3>2 DEF SelectionOf
    <2>5. ASSUME NEW q \in Requests
          PROVE  /\ spc'[q] \in {"submit", "waiting", "expired"} => target'[q] \in 1..count'
                 /\ spc'[q] = "rescan" => count' = shape'.max
      <3>1. PICK place \in {"scan", "rescan", "submit"}, w \in 0..shape.max :
              /\ spc' = [spc EXCEPT ![r] = place] /\ target' = [target EXCEPT ![r] = w]
              /\ place = "submit" => w \in 1..count'
              /\ place = "rescan" => count = shape.max /\ count' = shape.max
        BY <2>1 DEF SelectionOf
      <3>2. CASE q = r
        BY <2>2, <3>1, <3>2 DEF TypeOK
      <3>3. CASE q # r
        <4>1. spc'[q] = spc[q] /\ target'[q] = target[q]
          BY <3>1, <3>3 DEF TypeOK
        <4>2. spc[q] = "rescan" => count' = count
          BY <2>1 DEF SelectionOf, WorkerAdded, SelectInv
        <4>. QED
          BY <2>2, <4>1, <4>2 DEF SelectInv
      <3>. QED
        BY <3>2, <3>3
    <2>. QED
      BY <2>2, <2>3, <2>4, <2>5 DEF SelectInv
  <1>2. ASSUME NEW r \in Requests, Submit(r) PROVE SelectInv'
    <2>1. target[r] \in 1..count
      BY <1>2 DEF Submit, SelectInv
    <2>2. UNCHANGED <<shape, count, closing, open, wpc, target>>
      BY <1>2 DEF Submit, pool
    <2>3. \A q \in Requests : q # r => spc'[q] = spc[q] /\ answer'[q] = answer[q]
      BY <1>2 DEF Submit, Answer, TypeOK
    <2>4. spc'[r] \in {"waiting", "answered"}
      BY <1>2 DEF Submit, Answer, TypeOK
    <2>5. answer'[r] = "shut" => closing > 0
      <3>1. answer'[r] = "shut" => answer[r] = "shut" \/ ~open[target[r]]
        BY <1>2 DEF Submit, Answer, TypeOK
      <3>. QED
        BY <2>1, <3>1 DEF SelectInv
    <2>. QED
      BY <2>1, <2>2, <2>3, <2>4, <2>5 DEF SelectInv
  <1>3. ASSUME NEW r \in Requests, Receive(r) \/ TimesOut(r) \/ Withdraw(r) PROVE SelectInv'
    <2>1. UNCHANGED <<shape, count, closing, open, wpc, target>>
      BY <1>3 DEF Receive, TimesOut, Withdraw, pool, worker
    <2>2. \A q \in Requests : q # r => spc'[q] = spc[q] /\ answer'[q] = answer[q]
      BY <1>3 DEF Receive, TimesOut, Withdraw, Answer, TypeOK
    <2>3. spc[r] \in {"waiting", "expired"} /\ spc'[r] \in {"expired", "answered"}
      BY <1>3 DEF Receive, TimesOut, Withdraw, Answer, TypeOK
    <2>4. answer'[r] = "shut" => answer[r] = "shut"
      BY <1>3 DEF Receive, TimesOut, Withdraw, Answer, AnswerOf, TypeOK
    <2>. QED
      BY <2>1, <2>2, <2>3, <2>4 DEF SelectInv
  <1>4. ASSUME NEW w \in Workers, WorkerStep(w) \/ HandlerEnds(w) PROVE SelectInv'
    <2>1. UNCHANGED <<shape, count, closing, open, spc, target, answer>>
      BY <1>4 DEF WorkerStep, Take, Notify, Exit, HandlerEnds, pool, request
    <2>2. wpc[w] # "none" /\ \A v \in Workers : v # w => wpc'[v] = wpc[v]
      BY <1>4 DEF WorkerStep, Take, Notify, Exit, HandlerEnds, TypeOK
    <2>. QED
      BY <2>1, <2>2 DEF SelectInv
  <1>5. ASSUME CloseWorker PROVE SelectInv'
    <2>1. /\ UNCHANGED <<shape, count, wpc, spc, target, answer>>
          /\ closing < count /\ closing' = closing + 1
      BY <1>5 DEF CloseWorker, request
    <2>2. \A v \in 1..count : v # closing + 1 => open'[v] = open[v]
      BY <1>5 DEF CloseWorker, TypeOK
    <2>. QED
      BY <2>1, <2>2 DEF SelectInv
  <1>6. ASSUME CloseEnds \/ UNCHANGED vars PROVE SelectInv'
    BY <1>6 DEF CloseEnds, SelectInv, request, worker, pool, vars
  <1>. QED
    BY <1>1, <1>2, <1>3, <1>4, <1>5, <1>6 DEF Next, RequestStep, Selecting

\* requests_per_thread holds for what is queued and in hand together.
LEMMA LoadStep ==
  ASSUME IInv, [Next]_vars PROVE LoadBound'
  <1>. USE DEF IInv
  <1>. shape.perThread \in Nat
    BY WorkersSuffice
  <1>1. \A w \in Workers : active[w] \in Nat /\ Len(jobs[w]) \in Nat
    BY DEF TypeOK
  <1>2. shape' = shape
    BY DEF Next, RequestStep, WorkerStep, Resolve, ReadLoad, Pick, PickAny, Submit, Receive,
       TimesOut, Withdraw, Take, Notify, Exit, HandlerEnds, CloseWorker, CloseEnds, vars
  <1>3. ASSUME UNCHANGED <<jobs, active>> PROVE LoadBound'
    BY <1>2, <1>3 DEF LoadBound, Load
  <1>4. ASSUME NEW r \in Requests, Submit(r) PROVE LoadBound'
    <2>1. CASE /\ Takes(target[r]) /\ active' = active
               /\ jobs' = [jobs EXCEPT ![target[r]] = Append(@, r)]
      <3>1. ASSUME NEW w \in Workers, shape.perThread > 0
            PROVE  active[w] + Len(jobs'[w]) <= shape.perThread
        <4>1. CASE w = target[r]
          <5>1. Len(jobs'[w]) = Len(jobs[w]) + 1
            BY <2>1, <4>1 DEF TypeOK
          <5>2. active[w] + Len(jobs[w]) < shape.perThread
            BY <2>1, <3>1, <4>1 DEF Takes, HasRoom, Load
          <5>. QED
            BY <1>1, <5>1, <5>2
        <4>2. CASE w # target[r]
          BY <2>1, <3>1, <4>2 DEF LoadBound, Load, TypeOK
        <4>. QED
          BY <4>1, <4>2
      <3>. QED
        BY <1>2, <2>1, <3>1 DEF LoadBound, Load
    <2>. QED
      BY <1>3, <1>4, <2>1 DEF Submit
  <1>5. ASSUME NEW r \in Requests, Withdraw(r) PROVE LoadBound'
    <2>1. PICK w \in Workers, q \in Seq(Requests) :
            /\ jobs' = [jobs EXCEPT ![w] = q]
            /\ Len(q) <= Len(jobs[w])
      <3>1. \A w \in Workers : jobs[w] \in Seq(Requests) /\ jobs = [jobs EXCEPT ![w] = jobs[w]]
        BY DEF TypeOK
      <3>2. PICK w \in Workers : w = target[r]
        BY <1>5, WithdrawEffect
      <3>3. CASE \E q \in Seq(Requests) : /\ jobs' = [jobs EXCEPT ![w] = q]
                                          /\ Len(q) = Len(jobs[w]) - 1
        <4>1. PICK q \in Seq(Requests) : /\ jobs' = [jobs EXCEPT ![w] = q]
                                        /\ Len(q) = Len(jobs[w]) - 1
          BY <3>3
        <4>2. Len(q) <= Len(jobs[w])
          BY <1>1, <4>1
        <4>. QED
          BY <4>1, <4>2
      <3>4. CASE jobs' = jobs
        BY <1>1, <3>1, <3>4
      <3>. QED
        BY <1>5, <3>2, <3>3, <3>4, WithdrawEffect
    <2>2. active' = active
      BY <1>5 DEF Withdraw
    <2>3. \A v \in Workers : Len(jobs'[v]) <= Len(jobs[v]) /\ Len(jobs'[v]) \in Nat
      BY <1>1, <2>1 DEF TypeOK
    <2>. QED
      BY <1>1, <1>2, <2>2, <2>3, SMTT(30) DEF LoadBound, Load
  <1>6. ASSUME NEW w \in Workers, Take(w) PROVE LoadBound'
    <2>1. jobs[w] \in Seq(Requests) /\ jobs[w] # <<>>
      BY <1>6 DEF Take, TypeOK
    <2>2. Len(Tail(jobs[w])) = Len(jobs[w]) - 1
      BY <2>1
    <2>3. active'[w] + Len(jobs'[w]) = active[w] + Len(jobs[w])
      BY <1>1, <1>6, <2>2 DEF Take, TypeOK
    <2>4. \A v \in Workers : v # w => active'[v] = active[v] /\ jobs'[v] = jobs[v]
      BY <1>6 DEF Take, TypeOK
    <2>. QED
      BY <1>2, <2>3, <2>4 DEF LoadBound, Load
  <1>7. ASSUME NEW w \in Workers, HandlerEnds(w) PROVE LoadBound'
    <2>1. active'[w] = active[w] - 1 /\ jobs' = jobs
      BY <1>7 DEF HandlerEnds, TypeOK
    <2>2. \A v \in Workers : v # w => active'[v] = active[v]
      BY <1>7 DEF HandlerEnds, TypeOK
    <2>3. \A v \in Workers : active'[v] + Len(jobs[v]) <= active[v] + Len(jobs[v])
      BY <1>1, <2>1, <2>2
    <2>4. \A v \in Workers : active'[v] \in 0..1
      BY TypeStep DEF TypeOK
    <2>. QED
      BY <1>1, <1>2, <2>1, <2>3, <2>4, SMTT(30) DEF LoadBound, Load
  <1>8. ASSUME NEW r \in Requests, Selecting(r) \/ Receive(r) \/ TimesOut(r) PROVE LoadBound'
    <2>1. UNCHANGED <<jobs, active>>
      BY <1>8, SelectionEffect DEF SelectionOf, Receive, TimesOut, worker
    <2>. QED
      BY <1>3, <2>1
  <1>9. ASSUME NEW w \in Workers, Notify(w) \/ Exit(w) PROVE LoadBound'
    BY <1>3, <1>9 DEF Notify, Exit
  <1>10. ASSUME CloseWorker \/ CloseEnds \/ UNCHANGED vars PROVE LoadBound'
    <2>1. UNCHANGED <<jobs, active>>
      BY <1>10 DEF CloseWorker, CloseEnds, worker, vars
    <2>. QED
      BY <1>3, <2>1
  <1>. QED
    BY <1>4, <1>5, <1>6, <1>7, <1>8, <1>9, <1>10
    DEF Next, RequestStep, WorkerStep, Selecting
\* A worker's thread has in hand the last job it took, and no other, until
\* the job is done; it is counted active only while the handler runs.
LEMMA HandStep ==
  ASSUME IInv, [Next]_vars PROVE HandInv'
  <1>. USE DEF IInv
  <1>. /\ active \in [Workers -> 0..1] /\ served \in [Workers -> Nat]
       /\ started \in [Workers -> Seq(Requests)] /\ jobs \in [Workers -> Seq(Requests)]
    BY DEF TypeOK
  <1>1. \A w \in Workers : wpc[w] \in {"handling", "finishing"} =>
          /\ current[w] \in Requests /\ Contains(started[w], current[w])
          /\ target[current[w]] = w /\ current[w] \notin done
    <2>1. ASSUME NEW w \in Workers, wpc[w] \in {"handling", "finishing"}
          PROVE  /\ current[w] \in Requests /\ Contains(started[w], current[w])
                 /\ current[w] \notin done
      <3>1. started[w] # <<>> /\ current[w] = started[w][Len(started[w])] /\ current[w] \notin done
        BY <2>1 DEF HandInv, Hand
      <3>2. Len(started[w]) \in 1..Len(started[w])
        BY <3>1
      <3>. QED
        BY <3>1, <3>2 DEF Contains
    <2>. QED
      BY <2>1 DEF PlaceInv, SoundPlace
  <1>2. ASSUME UNCHANGED <<active, served, started, wpc, current, done>> PROVE HandInv'
    BY <1>2 DEF HandInv, Hand
  <1>3. ASSUME NEW r \in Requests, Selecting(r) PROVE HandInv'
    <2>1. SelectionOf(r)
      BY <1>3, SelectionEffect
    <2>2. CASE WorkerAdded
      <3>1. count + 1 \in Workers /\ wpc[count + 1] = "none"
        <4>1. count \in Nat /\ shape.max \in Nat /\ count < shape.max
          BY <2>2, WorkersSuffice DEF WorkerAdded
        <4>2. count + 1 \in 1..shape.max /\ count + 1 > count
          BY <4>1
        <4>. QED
          BY <4>2, WorkersSuffice DEF SelectInv
      <3>2. /\ wpc'[count + 1] = "idle"
            /\ \A w \in Workers : w # count + 1 => wpc'[w] = wpc[w]
        BY <2>2, <3>1 DEF WorkerAdded, TypeOK
      <3>3. UNCHANGED <<active, served, started, current, done>>
        BY <2>1 DEF SelectionOf
      <3>. QED
        BY <3>1, <3>2, <3>3 DEF HandInv, Hand
    <2>3. CASE UNCHANGED wpc
      BY <1>2, <2>1, <2>3 DEF SelectionOf
    <2>. QED
      BY <2>1, <2>2, <2>3 DEF SelectionOf
  <1>4. ASSUME NEW r \in Requests, Withdraw(r) PROVE HandInv'
    <2>1. UNCHANGED <<active, served, started, wpc, current>>
      BY <1>4 DEF Withdraw
    <2>2. ASSUME NEW w \in Workers, wpc[w] \in {"handling", "finishing"}
          PROVE  current[w] \notin done'
      <3>1. Contains(jobs[target[r]], r) => current[w] # r
        BY <1>1, <1>4, <2>2, WithdrawEffect DEF PlaceInv, SoundPlace
      <3>. QED
        BY <1>1, <1>4, <2>2, <3>1, WithdrawEffect
    <2>. QED
      BY <2>1, <2>2 DEF HandInv, Hand
  <1>5. ASSUME NEW w \in Workers, Take(w) PROVE HandInv'
    <2>1. PICK r : r = Head(jobs[w])
      OBVIOUS
    <2>2. r \in Requests /\ Contains(jobs[w], r) /\ r \notin done
      <3>1. r \in Requests /\ Contains(jobs[w], r)
        BY <1>5, <2>1, HeadTaken DEF Take
      <3>. QED
        BY <3>1 DEF PlaceInv, SoundPlace
    <2>3. /\ active'[w] = 1 /\ served'[w] = served[w] /\ wpc'[w] = "handling"
          /\ current'[w] = r /\ started'[w] = Append(started[w], r) /\ done' = done
      <3>1. active[w] = 0
        BY <1>5 DEF Take, HandInv, Hand
      <3>2. active'[w] = active[w] + 1
        BY <1>5 DEF Take
      <3>3. active'[w] = 1
        BY <3>1, <3>2
      <3>. QED
        BY <1>5, <2>1, <3>3 DEF Take, TypeOK, request
    <2>4. Len(started[w]) = served[w]
      <3>1. Len(started[w]) = served[w] + active[w] /\ active[w] = 0 /\ served[w] \in Nat
        BY <1>5 DEF Take, HandInv, Hand
      <3>. QED
        BY <3>1
    <2>5. /\ started'[w] # <<>> /\ Len(started'[w]) = Len(started[w]) + 1
          /\ started'[w][Len(started'[w])] = r
      <3>1. started[w] \in Seq(Requests)
        OBVIOUS
      <3>. QED
        BY <2>2, <2>3, <3>1, Appended
    <2>6. Len(started'[w]) = served'[w] + active'[w]
      BY <2>3, <2>4, <2>5
    <2>7. Hand(w)'
      BY <2>2, <2>3, <2>5, <2>6 DEF Hand
    <2>8. ASSUME NEW v \in Workers, v # w PROVE Hand(v)'
      <3>1. /\ active'[v] = active[v] /\ served'[v] = served[v] /\ wpc'[v] = wpc[v]
            /\ current'[v] = current[v] /\ started'[v] = started[v]
        BY <1>5, <2>8 DEF Take, TypeOK
      <3>. QED
        BY <2>3, <3>1 DEF HandInv, Hand
    <2>. QED
      BY <2>7, <2>8 DEF HandInv
  <1>6. ASSUME NEW w \in Workers, HandlerEnds(w) PROVE HandInv'
    <2>1. /\ active'[w] = active[w] - 1 /\ served'[w] = served[w] + 1 /\ wpc'[w] = "finishing"
          /\ UNCHANGED <<current, started, done>>
      BY <1>6 DEF HandlerEnds, TypeOK
    <2>2. active[w] = 1 /\ wpc[w] = "handling" /\ Len(started[w]) = served[w] + active[w]
      BY <1>6 DEF HandlerEnds, HandInv, Hand
    <2>3. served[w] \in Nat
      OBVIOUS
    <2>4. active'[w] = 0 /\ Len(started[w]) = served'[w] + active'[w]
      BY <2>1, <2>2, <2>3
    <2>5. Hand(w)'
      BY <2>1, <2>2, <2>4 DEF HandInv, Hand
    <2>6. ASSUME NEW v \in Workers, v # w PROVE Hand(v)'
      <3>1. active'[v] = active[v] /\ served'[v] = served[v] /\ wpc'[v] = wpc[v]
        BY <1>6, <2>6 DEF HandlerEnds, TypeOK
      <3>. QED
        BY <2>1, <3>1 DEF HandInv, Hand
    <2>. QED
      BY <2>5, <2>6 DEF HandInv
  <1>7. ASSUME NEW w \in Workers, Notify(w) PROVE HandInv'
    <2>1. /\ wpc[w] = "finishing" /\ wpc'[w] \in {"exited", "idle"} /\ current'[w] = NoOne
          /\ UNCHANGED <<active, served, started>> /\ done' = done \cup {current[w]}
      BY <1>7 DEF Notify, TypeOK
    <2>2. \A v \in Workers : v # w => wpc'[v] = wpc[v] /\ current'[v] = current[v]
      BY <1>7 DEF Notify, TypeOK
    <2>3. \A v \in Workers : v # w /\ wpc[v] \in {"handling", "finishing"} =>
            current[v] # current[w]
      BY <1>1, <2>1
    <2>. QED
      BY <2>1, <2>2, <2>3, ZenonT(30) DEF HandInv, Hand
  <1>8. ASSUME NEW w \in Workers, Exit(w) PROVE HandInv'
    <2>1. /\ wpc[w] = "idle" /\ wpc'[w] = "exited"
          /\ UNCHANGED <<active, served, started, current, done>>
      BY <1>8 DEF Exit, TypeOK, request
    <2>2. \A v \in Workers : v # w => wpc'[v] = wpc[v]
      BY <1>8 DEF Exit, TypeOK
    <2>. QED
      BY <2>1, <2>2 DEF HandInv, Hand
  <1>9. ASSUME NEW r \in Requests, Submit(r) \/ Receive(r) \/ TimesOut(r) PROVE HandInv'
    <2>1. UNCHANGED <<active, served, started, wpc, current, done>>
      BY <1>9 DEF Submit, Receive, TimesOut, worker
    <2>. QED
      BY <1>2, <2>1
  <1>10. ASSUME CloseWorker \/ CloseEnds \/ UNCHANGED vars PROVE HandInv'
    <2>1. UNCHANGED <<active, served, started, wpc, current, done>>
      BY <1>10 DEF CloseWorker, CloseEnds, worker, request, vars
    <2>. QED
      BY <1>2, <2>1
  <1>. QED
    BY <1>3, <1>4, <1>5, <1>6, <1>7, <1>8, <1>9, <1>10
    DEF Next, RequestStep, WorkerStep, Selecting

\* A job is in one place only: a queue, a worker's history, or withdrawn.
LEMMA PlaceStep ==
  ASSUME IInv, [Next]_vars PROVE PlaceInv'
  <1>. USE DEF IInv
  <1>. /\ jobs \in [Workers -> Seq(Requests)] /\ started \in [Workers -> Seq(Requests)]
       /\ done \subseteq Requests /\ withdrawn \subseteq Requests
    BY DEF TypeOK
  <1>1. ASSUME UNCHANGED <<jobs, started, target, spc, answer, withdrawn, done>>
        PROVE  PlaceInv'
    BY <1>1 DEF PlaceInv, SoundPlace, Placed, Accepted
  \* Requests that a step leaves where they are.
  <1>s. ASSUME NEW r \in Requests, NEW w \in Workers,
               Contains(jobs'[w], r) <=> Contains(jobs[w], r),
               Contains(started'[w], r) <=> Contains(started[w], r),
               target'[r] = target[r], spc'[r] = spc[r], answer'[r] = answer[r],
               r \in withdrawn' <=> r \in withdrawn, r \in done' <=> r \in done
        PROVE  SoundPlace(w, r)'
    BY <1>s DEF PlaceInv, SoundPlace, Accepted
  <1>p. ASSUME NEW r \in Requests,
               \A v \in Workers : /\ Contains(jobs'[v], r) <=> Contains(jobs[v], r)
                                  /\ Contains(started'[v], r) <=> Contains(started[v], r),
               target'[r] = target[r], spc'[r] = spc[r], answer'[r] = answer[r],
               r \in withdrawn' <=> r \in withdrawn
        PROVE  Placed(r)'
    <2>1. Placed(r) /\ (Accepted(r)' <=> Accepted(r))
      BY <1>p DEF PlaceInv, Accepted
    <2>2. CASE Accepted(r) /\ r \notin withdrawn
      <3>1. PICK w \in Workers :
              target[r] = w /\ (Contains(jobs[w], r) \/ Contains(started[w], r))
        BY <2>1, <2>2 DEF Placed
      <3>2. target'[r] = w /\ (Contains(jobs'[w], r) \/ Contains(started'[w], r))
        BY <1>p, <3>1
      <3>. QED
        BY <1>p, <2>1, <3>2 DEF Placed
    <2>. QED
      BY <1>p, <2>1, <2>2 DEF Placed
  <1>2. ASSUME NEW r \in Requests, Selecting(r) PROVE PlaceInv'
    <2>1. SelectionOf(r)
      BY <1>2, SelectionEffect
    <2>2. UNCHANGED <<jobs, started, answer, withdrawn, done>> /\ spc[r] \in {"new", "scan", "rescan"}
      BY <2>1 DEF SelectionOf
    <2>3. /\ spc'[r] \in {"scan", "rescan", "submit"}
          /\ \A q \in Requests : q # r => spc'[q] = spc[q] /\ target'[q] = target[q]
      BY <2>1 DEF SelectionOf, TypeOK
    <2>4. answer[r] = "none" /\ ~Accepted(r) /\ ~Accepted(r)' /\ r \notin withdrawn
      BY <2>2, <2>3 DEF PlaceInv, Placed, Accepted
    <2>5. ASSUME NEW w \in Workers, NEW q \in Requests PROVE SoundPlace(w, q)'
      <3>1. CASE q = r
        BY <2>2, <2>4, <3>1 DEF PlaceInv, SoundPlace
      <3>2. CASE q # r
        BY <1>s, <2>2, <2>3, <3>2
      <3>. QED
        BY <3>1, <3>2
    <2>6. ASSUME NEW q \in Requests PROVE Placed(q)'
      <3>1. CASE q = r
        BY <2>2, <2>3, <2>4, <3>1 DEF Placed
      <3>2. CASE q # r
        BY <1>p, <2>2, <2>3, <3>2
      <3>. QED
        BY <3>1, <3>2
    <2>. QED
      BY <2>2, <2>5, <2>6 DEF PlaceInv
  <1>3. ASSUME NEW r \in Requests, Submit(r) PROVE PlaceInv'
    <2>1. /\ UNCHANGED <<started, target, withdrawn, done>> /\ spc[r] = "submit"
          /\ answer[r] = "none" /\ ~Accepted(r)
      BY <1>3 DEF Submit, PlaceInv, Placed, Accepted
    <2>2. \A w \in Workers : ~Contains(jobs[w], r) /\ ~Contains(started[w], r)
      BY <2>1 DEF PlaceInv, SoundPlace
    <2>3. r \notin withdrawn /\ r \notin done
      BY <2>1 DEF PlaceInv, Placed, DoneInv
    <2>4. \A q \in Requests : q # r => spc'[q] = spc[q] /\ answer'[q] = answer[q]
      BY <1>3 DEF Submit, Answer, TypeOK
    <2>5. CASE jobs' = jobs /\ spc'[r] = "answered" /\ answer'[r] \in {"shut", "busy"}
      <3>1. ~Accepted(r)'
        BY <2>5 DEF Accepted
      <3>2. ASSUME NEW w \in Workers, NEW q \in Requests PROVE SoundPlace(w, q)'
        <4>1. CASE q = r
          BY <2>1, <2>2, <2>5, <4>1 DEF SoundPlace
        <4>2. CASE q # r
          BY <1>s, <2>1, <2>4, <2>5, <4>2
        <4>. QED
          BY <4>1, <4>2
      <3>3. ASSUME NEW q \in Requests PROVE Placed(q)'
        <4>1. CASE q = r
          BY <2>1, <2>3, <2>5, <3>1, <4>1 DEF Placed
        <4>2. CASE q # r
          BY <1>p, <2>1, <2>4, <2>5, <4>2
        <4>. QED
          BY <4>1, <4>2
      <3>. QED
        BY <2>1, <2>5, <3>2, <3>3 DEF PlaceInv
    <2>6. CASE /\ jobs' = [jobs EXCEPT ![target[r]] = Append(@, r)]
               /\ spc'[r] = "waiting" /\ answer' = answer
      <3>1. PICK w \in Workers : w = target[r]
        BY <2>1, WorkersSuffice DEF SelectInv
      <3>2. /\ jobs'[w] = Append(jobs[w], r)
            /\ \A v \in Workers : v # w => jobs'[v] = jobs[v]
        BY <2>6, <3>1
      <3>3. /\ \A q : Contains(jobs'[w], q) <=> Contains(jobs[w], q) \/ q = r
            /\ Distinct(jobs'[w])
        <4>1. Distinct(jobs[w]) /\ jobs[w] \in Seq(Requests) /\ ~Contains(jobs[w], r)
          BY <2>2 DEF PlaceInv
        <4>. QED
          BY <3>2, <4>1, Appended
      <3>4. \A v \in Workers : Distinct(jobs'[v]) /\ Distinct(started'[v])
        BY <2>1, <3>2, <3>3 DEF PlaceInv
      <3>5. ASSUME NEW v \in Workers, NEW q \in Requests PROVE SoundPlace(v, q)'
        <4>1. CASE q = r
          BY <2>1, <2>2, <2>3, <2>6, <3>1, <3>2, <4>1 DEF SoundPlace
        <4>2. CASE q # r
          <5>1. Contains(jobs'[v], q) <=> Contains(jobs[v], q)
            BY <3>2, <3>3, <4>2
          <5>. QED
            BY <1>s, <2>1, <2>4, <4>2, <5>1
        <4>. QED
          BY <4>1, <4>2
      <3>6. ASSUME NEW q \in Requests PROVE Placed(q)'
        <4>1. CASE q = r
          BY <2>1, <2>3, <2>6, <3>1, <3>3, <4>1 DEF Placed
        <4>2. CASE q # r
          <5>1. \A v \in Workers : Contains(jobs'[v], q) <=> Contains(jobs[v], q)
            BY <3>2, <3>3, <4>2
          <5>. QED
            BY <1>p, <2>1, <2>4, <4>2, <5>1
        <4>. QED
          BY <4>1, <4>2
      <3>. QED
        BY <3>4, <3>5, <3>6 DEF PlaceInv
    <2>. QED
      BY <1>3, <2>5, <2>6 DEF Submit, Answer, TypeOK
  <1>4. ASSUME NEW r \in Requests, Receive(r) \/ TimesOut(r) PROVE PlaceInv'
    <2>1. /\ UNCHANGED <<jobs, started, target, withdrawn, done>> /\ spc[r] = "waiting"
          /\ \A q \in Requests : q # r => spc'[q] = spc[q] /\ answer'[q] = answer[q]
      BY <1>4 DEF Receive, TimesOut, Answer, TypeOK, worker
    <2>2. \/ r \in done /\ spc'[r] = "answered" /\ answer'[r] \in {"ok", "error", "empty"}
          \/ spc'[r] = "expired" /\ answer'[r] = answer[r]
      BY <1>4 DEF Receive, TimesOut, Answer, AnswerOf, TypeOK
    <2>3. r \notin withdrawn /\ Accepted(r) /\ Accepted(r)'
      BY <2>1, <2>2 DEF PlaceInv, Placed, Accepted
    <2>4. ASSUME NEW w \in Workers, NEW q \in Requests PROVE SoundPlace(w, q)'
      <3>1. CASE q = r
        BY <2>1, <2>2, <2>3, <3>1 DEF PlaceInv, SoundPlace
      <3>2. CASE q # r
        BY <1>s, <2>1, <3>2
      <3>. QED
        BY <3>1, <3>2
    <2>5. ASSUME NEW q \in Requests PROVE Placed(q)'
      <3>1. CASE q = r
        BY <2>1, <2>2, <2>3, <3>1 DEF PlaceInv, Placed
      <3>2. CASE q # r
        BY <1>p, <2>1, <3>2
      <3>. QED
        BY <3>1, <3>2
    <2>. QED
      BY <2>1, <2>4, <2>5 DEF PlaceInv
  <1>5. ASSUME NEW r \in Requests, Withdraw(r) PROVE PlaceInv'
    <2>1. /\ UNCHANGED <<started, target>> /\ spc[r] = "expired"
          /\ spc'[r] = "answered" /\ answer'[r] = "late"
          /\ \A q \in Requests : q # r => spc'[q] = spc[q] /\ answer'[q] = answer[q]
      BY <1>5 DEF Withdraw, Answer, TypeOK
    <2>2. Accepted(r) /\ Accepted(r)'
      BY <2>1 DEF Accepted
    <2>3. PICK w \in Workers : w = target[r]
      BY <1>5, WithdrawEffect
    <2>4. CASE ~Contains(jobs[w], r) /\ UNCHANGED <<jobs, done, withdrawn>>
      <3>1. ASSUME NEW v \in Workers, NEW q \in Requests PROVE SoundPlace(v, q)'
        <4>1. CASE q = r
          BY <2>1, <2>2, <2>3, <2>4, <4>1 DEF PlaceInv, SoundPlace
        <4>2. CASE q # r
          BY <1>s, <2>1, <2>4, <4>2
        <4>. QED
          BY <4>1, <4>2
      <3>2. ASSUME NEW q \in Requests PROVE Placed(q)'
        <4>1. CASE q = r
          BY <2>1, <2>2, <2>4, <4>1 DEF PlaceInv, Placed
        <4>2. CASE q # r
          BY <1>p, <2>1, <2>4, <4>2
        <4>. QED
          BY <4>1, <4>2
      <3>. QED
        BY <2>1, <2>4, <3>1, <3>2 DEF PlaceInv
    <2>5. CASE /\ Contains(jobs[w], r)
               /\ done' = done \cup {r} /\ withdrawn' = withdrawn \cup {r}
               /\ \E s \in Seq(Requests) :
                    /\ jobs' = [jobs EXCEPT ![w] = s] /\ Distinct(s)
                    /\ \A p : Contains(s, p) <=> Contains(jobs[w], p) /\ p # r
      <3>1. /\ \A p : Contains(jobs'[w], p) <=> Contains(jobs[w], p) /\ p # r
            /\ Distinct(jobs'[w])
            /\ \A v \in Workers : v # w => jobs'[v] = jobs[v]
        BY <2>5
      <3>2. \A v \in Workers : ~Contains(jobs'[v], r) /\ ~Contains(started[v], r)
        BY <2>3, <2>5, <3>1 DEF PlaceInv, SoundPlace
      <3>3. \A v \in Workers, q \in Requests : q # r =>
              (Contains(jobs'[v], q) <=> Contains(jobs[v], q))
        BY <3>1
      <3>4. \A v \in Workers : Distinct(jobs'[v]) /\ Distinct(started'[v])
        BY <2>1, <3>1 DEF PlaceInv
      <3>5. \A q \in Requests : q # r =>
              (q \in done' <=> q \in done) /\ (q \in withdrawn' <=> q \in withdrawn)
        BY <2>5
      <3>6. ASSUME NEW v \in Workers, NEW q \in Requests PROVE SoundPlace(v, q)'
        <4>1. CASE q = r
          BY <2>1, <3>2, <4>1 DEF SoundPlace
        <4>2. CASE q # r
          BY <1>s, <2>1, <3>3, <3>5, <4>2
        <4>. QED
          BY <4>1, <4>2
      <3>7. ASSUME NEW q \in Requests PROVE Placed(q)'
        <4>1. CASE q = r
          BY <2>1, <2>5, <4>1 DEF Placed
        <4>2. CASE q # r
          BY <1>p, <2>1, <3>3, <3>5, <4>2
        <4>. QED
          BY <4>1, <4>2
      <3>. QED
        BY <3>4, <3>6, <3>7 DEF PlaceInv
    <2>. QED
      BY <1>5, <2>3, <2>4, <2>5, WithdrawEffect
  <1>6. ASSUME NEW w \in Workers, Take(w) PROVE PlaceInv'
    <2>1. PICK r : r = Head(jobs[w])
      OBVIOUS
    <2>2. /\ r \in Requests /\ Contains(jobs[w], r)
          /\ \A q : Contains(jobs[w], q) <=> Contains(Tail(jobs[w]), q) \/ q = r
          /\ Distinct(Tail(jobs[w])) /\ ~Contains(Tail(jobs[w]), r)
      <3>1. Distinct(jobs[w]) /\ jobs[w] \in Seq(Requests) /\ jobs[w] # <<>>
        BY <1>6 DEF PlaceInv, Take
      <3>. QED
        BY <2>1, <3>1, HeadTaken
    <2>3. /\ jobs'[w] = Tail(jobs[w]) /\ started'[w] = Append(started[w], r)
          /\ \A v \in Workers : v # w => jobs'[v] = jobs[v] /\ started'[v] = started[v]
          /\ UNCHANGED <<target, spc, answer, withdrawn, done>>
      BY <1>6, <2>1 DEF Take, request
    <2>4. target[r] = w /\ r \notin withdrawn /\ ~Contains(started[w], r)
      BY <2>2 DEF PlaceInv, SoundPlace
    <2>5. Accepted(r) /\ Accepted(r)'
      BY <2>2, <2>3 DEF PlaceInv, SoundPlace, Accepted
    <2>6. /\ \A q : Contains(started'[w], q) <=> Contains(started[w], q) \/ q = r
          /\ Distinct(started'[w])
      <3>1. Distinct(started[w]) /\ started[w] \in Seq(Requests)
        BY DEF PlaceInv
      <3>. QED
        BY <2>2, <2>3, <2>4, <3>1, Appended
    <2>7. \A q : Contains(jobs'[w], q) <=> Contains(jobs[w], q) /\ q # r
      BY <2>2, <2>3
    <2>8. \A v \in Workers : Distinct(jobs'[v]) /\ Distinct(started'[v])
      BY <2>2, <2>3, <2>6 DEF PlaceInv
    <2>9. \A v \in Workers : v # w => ~Contains(jobs[v], r) /\ ~Contains(started[v], r)
      BY <2>2, <2>4 DEF PlaceInv, SoundPlace
    <2>10. \A v \in Workers, q \in Requests : q # r =>
             /\ Contains(jobs'[v], q) <=> Contains(jobs[v], q)
             /\ Contains(started'[v], q) <=> Contains(started[v], q)
      BY <2>3, <2>6, <2>7
    <2>11. ASSUME NEW v \in Workers, NEW q \in Requests PROVE SoundPlace(v, q)'
      <3>1. CASE q = r /\ v = w
        BY <2>3, <2>4, <2>5, <2>7, <3>1 DEF SoundPlace
      <3>2. CASE q = r /\ v # w
        BY <2>3, <2>9, <3>2 DEF SoundPlace
      <3>3. CASE q # r
        BY <1>s, <2>3, <2>10, <3>3
      <3>. QED
        BY <3>1, <3>2, <3>3
    <2>12. ASSUME NEW q \in Requests PROVE Placed(q)'
      <3>1. CASE q = r
        <4>1. Contains(started'[w], r) /\ target'[r] = w /\ r \notin withdrawn'
          BY <2>3, <2>4, <2>6
        <4>2. spc'[r] # "answered" => answer'[r] = "none"
          BY <2>2, <2>3 DEF PlaceInv, Placed
        <4>. QED
          BY <3>1, <4>1, <4>2 DEF Placed
      <3>2. CASE q # r
        BY <1>p, <2>3, <2>10, <3>2
      <3>. QED
        BY <3>1, <3>2
    <2>. QED
      BY <2>8, <2>11, <2>12 DEF PlaceInv
  <1>7. ASSUME NEW w \in Workers, Notify(w) PROVE PlaceInv'
    <2>1. /\ UNCHANGED <<jobs, started, target, spc, answer, withdrawn>>
          /\ done' = done \cup {current[w]}
      BY <1>7 DEF Notify
    <2>2. Contains(started[w], current[w]) /\ current[w] \in Requests
      <3>1. started[w] # <<>> /\ current[w] = started[w][Len(started[w])]
        BY <1>7 DEF Notify, HandInv, Hand
      <3>2. Len(started[w]) \in 1..Len(started[w])
        BY <3>1
      <3>. QED
        BY <3>1, <3>2 DEF Contains
    <2>3. \A v \in Workers : ~Contains(jobs[v], current[w])
      BY <2>2 DEF PlaceInv, SoundPlace
    <2>4. ASSUME NEW v \in Workers, NEW q \in Requests PROVE SoundPlace(v, q)'
      BY <2>1, <2>3 DEF PlaceInv, SoundPlace, Accepted
    <2>5. ASSUME NEW q \in Requests PROVE Placed(q)'
      BY <1>p, <2>1
    <2>. QED
      BY <2>1, <2>4, <2>5 DEF PlaceInv
  <1>8. ASSUME NEW w \in Workers, Exit(w) \/ HandlerEnds(w) PROVE PlaceInv'
    <2>1. UNCHANGED <<jobs, started, target, spc, answer, withdrawn, done>>
      BY <1>8 DEF Exit, HandlerEnds, request
    <2>. QED
      BY <1>1, <2>1
  <1>9. ASSUME CloseWorker \/ CloseEnds \/ UNCHANGED vars PROVE PlaceInv'
    <2>1. UNCHANGED <<jobs, started, target, spc, answer, withdrawn, done>>
      BY <1>9 DEF CloseWorker, CloseEnds, worker, request, vars
    <2>. QED
      BY <1>1, <2>1
  <1>. QED
    BY <1>2, <1>3, <1>4, <1>5, <1>6, <1>7, <1>8, <1>9
    DEF Next, RequestStep, WorkerStep, Selecting
\* What is answered was produced, and what is done was handled or withdrawn.
LEMMA DoneStep ==
  ASSUME IInv, [Next]_vars PROVE DoneInv'
  <1>. USE DEF IInv
  <1>. /\ outcome \in [Requests -> Outcomes] /\ spc \in [Requests -> {"new", "scan", "rescan",
            "submit", "waiting", "expired", "answered"}]
       /\ answer \in [Requests -> Answers]
    BY DEF TypeOK
  <1>1. ASSUME UNCHANGED <<answer, outcome, spc, done, withdrawn>> PROVE DoneInv'
    BY <1>1 DEF DoneInv, Accepted
  <1>2. ASSUME NEW r \in Requests, Selecting(r) \/ Submit(r) PROVE DoneInv'
    <2>1. UNCHANGED <<outcome, done, withdrawn>> /\ spc[r] \in {"new", "scan", "rescan", "submit"}
      BY <1>2, SelectionEffect DEF SelectionOf, Submit
    <2>2. answer[r] = "none" /\ r \notin done
      BY <2>1 DEF PlaceInv, Placed, DoneInv, Accepted
    <2>3. \A q \in Requests : q # r => spc'[q] = spc[q] /\ answer'[q] = answer[q]
      BY <1>2, SelectionEffect DEF SelectionOf, Submit, Answer
    <2>4. answer'[r] \notin {"ok", "error"}
      BY <1>2, <2>2, SelectionEffect DEF SelectionOf, Submit, Answer
    <2>. QED
      BY <2>1, <2>2, <2>3, <2>4 DEF DoneInv, Accepted
  <1>3. ASSUME NEW r \in Requests, Receive(r) PROVE DoneInv'
    <2>1. /\ UNCHANGED <<outcome, done, withdrawn>> /\ spc[r] = "waiting" /\ r \in done
          /\ spc'[r] = "answered" /\ answer'[r] = AnswerOf(outcome[r])
          /\ \A q \in Requests : q # r => spc'[q] = spc[q] /\ answer'[q] = answer[q]
      BY <1>3 DEF Receive, Answer
    <2>2. /\ answer'[r] \in {"ok", "error", "empty"}
          /\ answer'[r] = "ok" => outcome[r] = "ok"
          /\ answer'[r] = "error" => outcome[r] = "error"
      BY <2>1 DEF AnswerOf
    <2>3. r \notin withdrawn
      BY <2>1 DEF DoneInv
    <2>. QED
      BY <2>1, <2>2, <2>3 DEF DoneInv, Accepted
  <1>4. ASSUME NEW r \in Requests, TimesOut(r) PROVE DoneInv'
    <2>1. /\ UNCHANGED <<outcome, done, withdrawn, answer>> /\ spc[r] = "waiting"
          /\ r \notin done /\ spc'[r] = "expired"
          /\ \A q \in Requests : q # r => spc'[q] = spc[q]
      BY <1>4 DEF TimesOut
    <2>. QED
      BY <2>1 DEF DoneInv, Accepted
  <1>5. ASSUME NEW r \in Requests, Withdraw(r) PROVE DoneInv'
    <2>1. /\ outcome' = outcome /\ spc'[r] = "answered" /\ answer'[r] = "late"
          /\ \A q \in Requests : q # r => spc'[q] = spc[q] /\ answer'[q] = answer[q]
      BY <1>5 DEF Withdraw, Answer
    <2>2. \A q \in Requests : q # r =>
            (q \in done' <=> q \in done) /\ (q \in withdrawn' <=> q \in withdrawn)
      BY <1>5, WithdrawEffect
    <2>. QED
      BY <2>1, <2>2 DEF DoneInv, Accepted
  <1>6. ASSUME NEW w \in Workers, HandlerEnds(w) PROVE DoneInv'
    <2>1. /\ UNCHANGED <<answer, spc, done, withdrawn>> /\ current[w] \notin done
          /\ \A q \in Requests : q # current[w] => outcome'[q] = outcome[q]
      BY <1>6 DEF HandlerEnds, HandInv, Hand
    <2>. QED
      BY <2>1 DEF DoneInv, Accepted
  <1>7. ASSUME NEW w \in Workers, Notify(w) PROVE DoneInv'
    <2>1. UNCHANGED <<answer, spc, outcome, withdrawn>> /\ done' = done \cup {current[w]}
      BY <1>7 DEF Notify
    <2>2. Contains(started[w], current[w]) /\ current[w] \in Requests
      <3>1. /\ started[w] # <<>> /\ current[w] = started[w][Len(started[w])]
            /\ started[w] \in Seq(Requests)
        BY <1>7 DEF Notify, HandInv, Hand, TypeOK
      <3>2. Len(started[w]) \in 1..Len(started[w])
        BY <3>1
      <3>. QED
        BY <3>1, <3>2 DEF Contains
    <2>3. Accepted(current[w]) /\ current[w] \notin withdrawn
      BY <2>2 DEF PlaceInv, SoundPlace
    <2>. QED
      BY <2>1, <2>3 DEF DoneInv, Accepted
  <1>8. ASSUME NEW w \in Workers, Take(w) \/ Exit(w) PROVE DoneInv'
    <2>1. UNCHANGED <<answer, outcome, spc, done, withdrawn>>
      BY <1>8 DEF Take, Exit, request
    <2>. QED
      BY <1>1, <2>1
  <1>9. ASSUME CloseWorker \/ CloseEnds \/ UNCHANGED vars PROVE DoneInv'
    <2>1. UNCHANGED <<answer, outcome, spc, done, withdrawn>>
      BY <1>9 DEF CloseWorker, CloseEnds, request, vars
    <2>. QED
      BY <1>1, <2>1
  <1>. QED
    BY <1>2, <1>3, <1>4, <1>5, <1>6, <1>7, <1>8, <1>9
    DEF Next, RequestStep, WorkerStep, Selecting

-----------------------------------------------------------------------------
\* The inductive invariant holds in every reachable state.
LEMMA PoolInvariant == Spec => []IInv
  <1>1. IInv /\ [Next]_vars => IInv'
    BY TypeStep, SelectStep, HandStep, LoadStep, PlaceStep, DoneStep DEF IInv
  <1>. QED
    BY <1>1, InitInv, PTL DEF Spec

\* In every configuration and for any number of requests: a worker's queue
\* and hands never exceed requests_per_thread, although the load is read
\* outside the worker's lock; a job accepted is in exactly one place; and a
\* job withdrawn by a timeout is never run.
THEOREM PoolConservesWork == Spec => []WorkConserved
  <1>1. ASSUME IInv PROVE WorkConserved
    <2>. USE <1>1 DEF IInv
    <2>1. ASSUME NEW r \in Requests
          PROVE  /\ Cardinality(Queued(r)) + Cardinality(Ran(r))
                      + (IF r \in withdrawn THEN 1 ELSE 0)
                      = IF Accepted(r) THEN 1 ELSE 0
                 /\ Queued(r) \cup Ran(r) \subseteq {target[r]}
      <3>1. /\ Queued(r) \subseteq {target[r]} /\ Ran(r) \subseteq {target[r]}
            /\ ~(Queued(r) # {} /\ Ran(r) # {})
            /\ r \in withdrawn \/ ~Accepted(r) => Queued(r) = {} /\ Ran(r) = {}
        BY DEF Queued, Ran, PlaceInv, SoundPlace, Accepted
      <3>2. Accepted(r) /\ r \notin withdrawn => Queued(r) # {} \/ Ran(r) # {}
        BY DEF Queued, Ran, PlaceInv, Placed
      <3>3. r \in withdrawn => Accepted(r)
        BY DEF PlaceInv, Placed, Accepted
      <3>4. /\ Queued(r) \in {{}, {target[r]}} /\ Ran(r) \in {{}, {target[r]}}
        BY <3>1
      <3>5. Cardinality({}) = 0 /\ Cardinality({target[r]}) = 1
        BY FS_EmptySet, FS_Singleton
      <3>6. CASE r \in withdrawn \/ ~Accepted(r)
        BY <3>1, <3>3, <3>5, <3>6
      <3>7. CASE Accepted(r) /\ r \notin withdrawn /\ Queued(r) = {}
        BY <3>1, <3>2, <3>4, <3>5, <3>7
      <3>8. CASE Accepted(r) /\ r \notin withdrawn /\ Queued(r) # {}
        BY <3>1, <3>4, <3>5, <3>8
      <3>. QED
        BY <3>1, <3>6, <3>7, <3>8
    <2>2. JobConservation
      BY <2>1 DEF JobConservation, HandInv, Hand, Accepted
    <2>3. WithdrawnNeverRuns
      BY DEF WithdrawnNeverRuns, Ran, PlaceInv, SoundPlace, TypeOK
    <2>. QED
      BY <2>2, <2>3 DEF WorkConserved
  <1>. QED
    BY <1>1, PoolInvariant, PTL

\* A result or an error is returned only for a request whose own handler
\* produced it, once its worker has let go of the job; and a worker answers
\* that it is shut only if close() has begun.
THEOREM PoolAnswersHonestly == Spec => []AnswersAreHonest
  <1>1. ASSUME IInv PROVE AnswersAreHonest
    <2>. USE <1>1 DEF IInv
    <2>1. ASSUME NEW r \in Requests, answer[r] \in {"ok", "error"}
          PROVE  \E w \in Ran(r) : current[w] # r
      <3>1. Accepted(r) /\ r \in done /\ r \notin withdrawn
        BY <2>1 DEF DoneInv, Accepted
      <3>2. PICK w \in Workers : Contains(started[w], r)
        BY <3>1 DEF PlaceInv, Placed, SoundPlace
      <3>3. current[w] # r
        BY <3>1, PoolConstants DEF HandInv, Hand, NoOne
      <3>. QED
        BY <3>2, <3>3 DEF Ran
    <2>. QED
      BY <2>1 DEF AnswersAreHonest, DoneInv, SelectInv
  <1>. QED
    BY <1>1, PoolInvariant, PTL

-----------------------------------------------------------------------------
(* SecurityPolicy: what a fold over a sequence gives. *)

\* A set that has 0 and with each number the next has all of them.
LEMMA UpwardTo ==
  ASSUME NEW n \in Nat, NEW Good, 0 \in Good, \A k \in 0..n - 1 : k \in Good => k + 1 \in Good
  PROVE  \A k \in 0..n : k \in Good
  <1> SUFFICES ASSUME NEW b \in 0..n, b \notin Good PROVE FALSE
    OBVIOUS
  <1>1. PICK bad : bad = {k \in 0..n : k \notin Good}
    OBVIOUS
  <1>2. bad \subseteq Nat /\ bad # {}
    BY <1>1
  <1>3. PICK k \in bad : \A j \in bad : k <= j
    BY <1>2, LeastOfNats
  <1>4. k \in 0..n /\ k # 0
    BY <1>1
  <1>5. k - 1 \in 0..n - 1 /\ k - 1 \in 0..n /\ (k - 1) + 1 = k /\ ~(k <= k - 1)
    BY <1>4
  <1>6. k - 1 \in Good
    BY <1>1, <1>3, <1>5
  <1>7. k \in Good
    BY <1>5, <1>6
  <1>. QED
    BY <1>1, <1>7

\* A nonempty set of positions of a sequence has a greatest one.
LEMMA GreatestOf ==
  ASSUME NEW n \in Nat, NEW T, T \subseteq 0..n, T # {}
  PROVE  \E x \in T : \A y \in T : y <= x
  <1>1. PICK d : d = {n - y : y \in T}
    OBVIOUS
  <1>2. d \subseteq Nat /\ d # {}
    <2>1. \A y \in T : n - y \in Nat
      OBVIOUS
    <2>2. d \subseteq Nat
      BY <1>1, <2>1
    <2>3. d # {}
      BY <1>1
    <2>. QED
      BY <2>2, <2>3
  <1>3. PICK z \in d : \A y \in d : z <= y
    BY <1>2, LeastOfNats
  <1>4. PICK x \in T : z = n - x
    BY <1>1
  <1>5. ASSUME NEW y \in T PROVE y <= x
    <2>1. n - y \in d /\ z <= n - y /\ x \in Nat /\ y \in Nat
      BY <1>1, <1>3
    <2>. QED
      BY <1>4, <2>1
  <1>. QED
    BY <1>5

\* Max is the greatest.
LEMMA MaxIs ==
  ASSUME NEW n \in Nat, NEW T, T \subseteq 1..n, T # {}
  PROVE  Max(T) \in T /\ \A y \in T : y <= Max(T)
  <1>1. \E x \in T : \A y \in T : x >= y
    <2>1. T \subseteq 0..n /\ \A x \in T : x \in Int
      OBVIOUS
    <2>2. \E x \in T : \A y \in T : y <= x
      BY <2>1, GreatestOf
    <2>. QED
      BY <2>1, <2>2
  <1>. QED
    BY <1>1 DEF Max

\* The functions that the models fold over sequences.
Op(of, sofar, x) == CASE of[1] = "keep" -> KeepIn(of[2], sofar, x)

\* A fold over n positions is a function.
IsFold(of, base, seq, n, f) ==
  f = [s \in SUBSET (1..n) |-> IF s = {} THEN base ELSE Op(of, f[s \ {Max(s)}], seq[Max(s)])]

\* It exists: over the sets of one position, of two, and so on up to all.
LEMMA FoldExists ==
  ASSUME NEW of, NEW base, NEW seq, NEW n \in Nat
  PROVE  \E f : IsFold(of, base, seq, n, f)
  <1> DEFINE S == 1..n
             UpTo(m) == {s \in SUBSET S : Cardinality(s) <= m}
             Step(f, s) == IF s = {} THEN base ELSE Op(of, f[s \ {Max(s)}], seq[Max(s)])
             T == {m \in Nat : ~ \E f : f = [s \in UpTo(m) |-> Step(f, s)]}
  <1>0. IsFiniteSet(S)
    BY FS_Interval
  <1>1. \A s \in SUBSET S : IsFiniteSet(s) /\ Cardinality(s) \in Nat /\ Cardinality(s) <= Cardinality(S)
    <2> HIDE DEF S
    <2>. QED
      BY <1>0, FS_Subset, FS_CardinalityType
  <1>2. \A s \in SUBSET S : s # {} => /\ Max(s) \in s /\ s \ {Max(s)} \in SUBSET S
                                      /\ Cardinality(s \ {Max(s)}) = Cardinality(s) - 1
    <2> SUFFICES ASSUME NEW s \in SUBSET S, s # {}
                 PROVE  /\ Max(s) \in s /\ s \ {Max(s)} \in SUBSET S
                        /\ Cardinality(s \ {Max(s)}) = Cardinality(s) - 1
      OBVIOUS
    <2>1. Max(s) \in s
      BY MaxIs
    <2> HIDE DEF S
    <2>. QED
      BY <1>1, <2>1, FS_RemoveElement
  <1> HIDE DEF S
  <1>3. T = {}
    <2> SUFFICES ASSUME T # {} PROVE FALSE
      OBVIOUS
    <2>1. PICK m \in T : \A k \in T : m <= k
      <3>1. T \subseteq Nat
        OBVIOUS
      <3> HIDE DEF T
      <3>. QED
        BY <3>1, LeastOfNats
    <2>2. m \in Nat /\ ~ \E f : f = [s \in UpTo(m) |-> Step(f, s)]
      OBVIOUS
    <2>3. CASE m = 0
      <3>1. \A s \in UpTo(0) : s = {}
        BY <1>1, FS_EmptySet
      <3>2. [s \in UpTo(0) |-> base] = [s \in UpTo(0) |-> Step([u \in UpTo(0) |-> base], s)]
        BY <3>1
      <3>. QED
        BY <2>2, <2>3, <3>2
    <2>4. CASE m # 0
      <3>1. m - 1 \in Nat /\ m - 1 \notin T
        <4> HIDE DEF T
        <4>. QED
          BY <2>1, <2>2, <2>4
      <3>2. PICK f : f = [s \in UpTo(m - 1) |-> Step(f, s)]
        BY <3>1
      <3>3. PICK g : g = [s \in UpTo(m) |-> Step(f, s)]
        OBVIOUS
      <3>4. \A u \in UpTo(m - 1) : u \in UpTo(m) /\ g[u] = f[u]
        <4> SUFFICES ASSUME NEW u \in UpTo(m - 1) PROVE u \in UpTo(m) /\ g[u] = f[u]
          OBVIOUS
        <4>1. u \in UpTo(m)
          BY <1>1, <2>2
        <4>2. f[u] = Step(f, u)
          <5> HIDE DEF UpTo, Step
          <5>. QED
            BY <3>2
        <4>3. g[u] = Step(f, u)
          <5> HIDE DEF UpTo, Step
          <5>. QED
            BY <3>3, <4>1
        <4>. QED
          BY <4>1, <4>2, <4>3
      <3>5. \A s \in UpTo(m) : s # {} => s \ {Max(s)} \in UpTo(m - 1)
        BY <1>1, <1>2, <2>2
      <3>6. \A s \in UpTo(m) : Step(f, s) = Step(g, s)
        <4> SUFFICES ASSUME NEW s \in UpTo(m) PROVE Step(f, s) = Step(g, s)
          OBVIOUS
        <4> HIDE DEF UpTo
        <4>. QED
          BY <3>4, <3>5
      <3>7. g = [s \in UpTo(m) |-> Step(g, s)]
        <4> HIDE DEF UpTo, Step
        <4>. QED
          BY <3>3, <3>6
      <3>. QED
        BY <2>2, <3>7
    <2>. QED
      BY <2>3, <2>4
  <1>4. Cardinality(S) \in Nat /\ UpTo(Cardinality(S)) = SUBSET S
    BY <1>1
  <1>5. \E f : f = [s \in UpTo(Cardinality(S)) |-> Step(f, s)]
    BY <1>3, <1>4
  <1>6. \E f : f = [s \in SUBSET S |-> Step(f, s)]
    <2> HIDE DEF UpTo
    <2>. QED
      BY <1>4, <1>5
  <1>. QED
    BY <1>6 DEF S, IsFold

\* What a fold gives after each position.
Runs(of, base, seq, g) ==
  /\ g[0] = base
  /\ \A k \in 1..Len(seq) : g[k] = Op(of, g[k - 1], seq[k])

\* What a fold over the first positions gives, one position after the other.
LEMMA FoldRuns ==
  ASSUME NEW of, NEW base, NEW seq, NEW n \in Nat, n = Len(seq),
         NEW f, IsFold(of, base, seq, n, f)
  PROVE  \E g : Runs(of, base, seq, g) /\ g[n] = f[1..n]
  <1>1. PICK g : g = [k \in 0..n |-> f[1..k]]
    OBVIOUS
  <1>2. \A s \in SUBSET (1..n) : f[s] = IF s = {} THEN base ELSE Op(of, f[s \ {Max(s)}], seq[Max(s)])
    <2> DEFINE Step(s) == IF s = {} THEN base ELSE Op(of, f[s \ {Max(s)}], seq[Max(s)])
    <2>1. f = [s \in SUBSET (1..n) |-> Step(s)]
      BY DEF IsFold
    <2>2. \A s \in SUBSET (1..n) : f[s] = Step(s)
      <3> HIDE DEF Step
      <3>. QED
        BY <2>1
    <2>. QED
      BY <2>2
  <1>3. g[0] = base
    <2>1. 1..0 = {} /\ 1..0 \in SUBSET (1..n)
      OBVIOUS
    <2>2. f[1..0] = base
      BY <1>2, <2>1
    <2>3. 0 \in 0..n
      OBVIOUS
    <2>4. g[0] = f[1..0]
      BY <1>1, <2>3
    <2>. QED
      BY <2>2, <2>4
  <1>4. ASSUME NEW k \in 1..n PROVE g[k] = Op(of, g[k - 1], seq[k])
    <2>1. 1..k \in SUBSET (1..n) /\ 1..k # {}
      OBVIOUS
    <2>2. Max(1..k) = k
      <3>1. Max(1..k) \in 1..k /\ \A y \in 1..k : y <= Max(1..k)
        BY <2>1, MaxIs
      <3>. QED
        BY <3>1
    <2>3. (1..k) \ {k} = 1..k - 1
      OBVIOUS
    <2>4. f[1..k] = Op(of, f[1..k - 1], seq[k])
      BY <1>2, <2>1, <2>2, <2>3
    <2>5. k \in 0..n /\ k - 1 \in 0..n
      OBVIOUS
    <2>6. g[k] = f[1..k] /\ g[k - 1] = f[1..k - 1]
      BY <1>1, <2>5
    <2>. QED
      BY <2>4, <2>6
  <1>5. g[n] = f[1..n]
    <2>1. n \in 0..n
      OBVIOUS
    <2>. QED
      BY <1>1, <2>1
  <1>6. Runs(of, base, seq, g)
    BY <1>3, <1>4 DEF Runs
  <1>. QED
    BY <1>5, <1>6

\* What is kept of a sequence is such a fold.
LEMMA KeptRuns ==
  ASSUME NEW K, NEW S, NEW seq \in Seq(S)
  PROVE  \E g : Runs(<<"keep", K>>, <<>>, seq, g) /\ Kept(seq, K) = g[Len(seq)]
  <1>1. PICK n \in Nat : n = Len(seq) /\ DOMAIN seq = 1..n
    OBVIOUS
  <1> DEFINE It == CHOOSE f : f = [s \in SUBSET (1..n) |->
                     IF s = {} THEN <<>> ELSE KeepIn(K, f[s \ {Max(s)}], seq[Max(s)])]
  <1>2. \E f : f = [s \in SUBSET (1..n) |->
                     IF s = {} THEN <<>> ELSE KeepIn(K, f[s \ {Max(s)}], seq[Max(s)])]
    <2>1. \E f : IsFold(<<"keep", K>>, <<>>, seq, n, f)
      BY FoldExists
    <2>. QED
      BY <2>1 DEF IsFold, Op
  <1>3. It = [s \in SUBSET (1..n) |->
                IF s = {} THEN <<>> ELSE KeepIn(K, It[s \ {Max(s)}], seq[Max(s)])]
    BY <1>2
  <1>4. Kept(seq, K) = It[1..n]
    BY <1>1 DEF Kept, FoldLeft, MapThenFoldSet
  <1>5. PICK f : f = It
    OBVIOUS
  <1> HIDE DEF It
  <1>6. IsFold(<<"keep", K>>, <<>>, seq, n, f)
    BY <1>3, <1>5 DEF IsFold, Op
  <1>7. \E g : Runs(<<"keep", K>>, <<>>, seq, g) /\ g[n] = f[1..n]
    BY <1>1, <1>6, FoldRuns
  <1>. QED
    BY <1>1, <1>4, <1>5, <1>7

-----------------------------------------------------------------------------
(* The elements of one sequence found in another. *)

\* An element of the one sequence for each of the other, not the same twice.
Places(e, d, g) ==
  /\ g \in [1..Len(e) -> 1..Len(d)]
  /\ \A i, j \in 1..Len(e) : g[i] = g[j] => i = j
  /\ \A i \in 1..Len(e) : e[i] = d[g[i]]
Embeds(e, d) == \E g : Places(e, d, g)

LEMMA EmbedsLen ==
  ASSUME NEW S, NEW e \in Seq(S), NEW d \in Seq(S), Embeds(e, d)
  PROVE  Len(e) <= Len(d)
  <1>1. PICK m \in Nat : m = Len(e)
    OBVIOUS
  <1>2. PICK n \in Nat : n = Len(d)
    OBVIOUS
  <1>3. PICK g : Places(e, d, g)
    BY DEF Embeds
  <1>4. g \in Injection(1..m, 1..n)
    BY <1>1, <1>2, <1>3 DEF Places, Injection, IsInjective
  <1>5. IsFiniteSet(1..n) /\ Cardinality(1..n) = n /\ Cardinality(1..m) = m
    BY FS_Interval
  <1>6. Cardinality(1..m) <= Cardinality(1..n)
    BY <1>4, <1>5, FS_Injection
  <1>. QED
    BY <1>1, <1>2, <1>5, <1>6

LEMMA EmbedsSame ==
  ASSUME NEW S, NEW d \in Seq(S)
  PROVE  Embeds(d, d) /\ Embeds(<<>>, d)
  <1>1. PICK n \in Nat : n = Len(d)
    OBVIOUS
  <1>2. Places(d, d, [i \in 1..n |-> i])
    BY <1>1 DEF Places
  <1>3. Places(<<>>, d, [i \in 1..0 |-> i])
    BY <1>1 DEF Places
  <1>. QED
    BY <1>2, <1>3 DEF Embeds

LEMMA EmbedsOn ==
  ASSUME NEW S, NEW e \in Seq(S), NEW d \in Seq(S), NEW c \in Seq(S), Embeds(e, d), Embeds(d, c)
  PROVE  Embeds(e, c)
  <1>1. PICK m \in Nat : m = Len(e)
    OBVIOUS
  <1>2. PICK n \in Nat : n = Len(d)
    OBVIOUS
  <1>3. PICK k \in Nat : k = Len(c)
    OBVIOUS
  <1>4. PICK g : Places(e, d, g)
    BY DEF Embeds
  <1>5. PICK h : Places(d, c, h)
    BY DEF Embeds
  <1>6. PICK f : f = [i \in 1..m |-> h[g[i]]]
    OBVIOUS
  <1>7. \A i \in 1..m : g[i] \in 1..n /\ h[g[i]] \in 1..k
    BY <1>1, <1>2, <1>3, <1>4, <1>5 DEF Places
  <1>8. f \in [1..m -> 1..k] /\ \A i \in 1..m : f[i] = h[g[i]]
    BY <1>6, <1>7
  <1>9. \A i, j \in 1..m : f[i] = f[j] => i = j
    BY <1>1, <1>2, <1>4, <1>5, <1>7, <1>8 DEF Places
  <1>10. \A i \in 1..m : e[i] = c[f[i]]
    BY <1>1, <1>2, <1>4, <1>5, <1>7, <1>8 DEF Places
  <1>11. Places(e, c, f)
    BY <1>1, <1>3, <1>8, <1>9, <1>10 DEF Places
  <1>. QED
    BY <1>11 DEF Embeds

\* The same event put at the end of both.
LEMMA EmbedsAppend ==
  ASSUME NEW S, NEW e \in Seq(S), NEW d \in Seq(S), NEW x \in S, Embeds(e, d)
  PROVE  Embeds(Append(e, x), Append(d, x)) /\ Embeds(e, Append(d, x))
  <1>1. PICK m \in Nat : m = Len(e)
    OBVIOUS
  <1>2. PICK n \in Nat : n = Len(d)
    OBVIOUS
  <1>3. PICK g : Places(e, d, g)
    BY DEF Embeds
  <1>4. PICK f : f = [i \in 1..m + 1 |-> IF i = m + 1 THEN n + 1 ELSE g[i]]
    OBVIOUS
  <1>5. g \in [1..m -> 1..n]
    BY <1>1, <1>2, <1>3 DEF Places
  <1>6. f \in [1..m + 1 -> 1..n + 1] /\ f[m + 1] = n + 1 /\ \A i \in 1..m : f[i] = g[i] /\ f[i] \in 1..n
    BY <1>4, <1>5
  <1>7. PICK a : a = Append(e, x)
    OBVIOUS
  <1>8. PICK b : b = Append(d, x)
    OBVIOUS
  <1>9. Len(a) = m + 1 /\ a[m + 1] = x /\ \A i \in 1..m : a[i] = e[i]
    BY <1>1, <1>7
  <1>10. Len(b) = n + 1 /\ b[n + 1] = x /\ \A i \in 1..n : b[i] = d[i]
    BY <1>2, <1>8
  <1>11. \A i, j \in 1..m : f[i] = f[j] => i = j
    BY <1>1, <1>3, <1>6 DEF Places
  <1>12. \A i, j \in 1..m + 1 : f[i] = f[j] => i = j
    BY <1>6, <1>11
  <1>13. \A i \in 1..m : a[i] = b[f[i]] /\ e[i] = b[g[i]]
    BY <1>1, <1>3, <1>5, <1>6, <1>9, <1>10 DEF Places
  <1>14. Places(a, b, f)
    BY <1>6, <1>9, <1>10, <1>12, <1>13 DEF Places
  <1>15. g \in [1..m -> 1..n + 1]
    BY <1>5
  <1>16. Places(e, b, g)
    BY <1>1, <1>3, <1>10, <1>13, <1>15 DEF Places
  <1>. QED
    BY <1>7, <1>8, <1>14, <1>16 DEF Embeds

\* The end of a sequence.
LEMMA EndEmbeds ==
  ASSUME NEW S, NEW d \in Seq(S), NEW m \in 1..Len(d) + 1
  PROVE  /\ SubSeq(d, m, Len(d)) \in Seq(S) /\ Len(SubSeq(d, m, Len(d))) = Len(d) - m + 1
         /\ \A i \in 1..Len(d) - m + 1 : SubSeq(d, m, Len(d))[i] = d[m + i - 1]
         /\ Embeds(SubSeq(d, m, Len(d)), d)
  <1>1. PICK n \in Nat : n = Len(d)
    OBVIOUS
  <1>2. PICK t : t = SubSeq(d, m, n)
    OBVIOUS
  <1>3. m \in Nat /\ t \in Seq(S) /\ Len(t) = n - m + 1 /\ \A i \in 1..n - m + 1 : t[i] = d[m + i - 1]
    BY <1>1, <1>2
  <1>4. PICK f : f = [i \in 1..n - m + 1 |-> m + i - 1]
    OBVIOUS
  <1>5. f \in [1..n - m + 1 -> 1..n] /\ \A i \in 1..n - m + 1 : f[i] = m + i - 1
    BY <1>1, <1>3, <1>4
  <1>6. Places(t, d, f)
    BY <1>1, <1>3, <1>5 DEF Places
  <1>. QED
    BY <1>1, <1>2, <1>3, <1>6 DEF Embeds

\* What is kept of a sequence: those in the set, all of them.
LEMMA KeptIs ==
  ASSUME NEW S, NEW K, NEW s \in Seq(S)
  PROVE  /\ Kept(s, K) \in Seq(S) /\ Embeds(Kept(s, K), s)
         /\ \A x : x \in Range(Kept(s, K)) <=> x \in Range(s) /\ x \in K
  <1>1. PICK n \in Nat : n = Len(s) /\ DOMAIN s = 1..n
    OBVIOUS
  <1>2. PICK g : Runs(<<"keep", K>>, <<>>, s, g) /\ Kept(s, K) = g[Len(s)]
    BY KeptRuns
  <1>3. g[0] = <<>> /\ \A k \in 1..n : g[k] = KeepIn(K, g[k - 1], s[k])
    BY <1>1, <1>2 DEF Runs, Op
  <1> DEFINE Fits(k, f) == /\ g[k] \in Seq(S) /\ f \in [1..Len(g[k]) -> 1..k]
                           /\ \A i, j \in 1..Len(g[k]) : f[i] = f[j] => i = j
                           /\ \A i \in 1..Len(g[k]) : g[k][i] = s[f[i]] /\ s[f[i]] \in K
                           /\ \A i \in 1..k : s[i] \in K => \E j \in 1..Len(g[k]) : f[j] = i
             Good == {k \in 0..n : \E f : Fits(k, f)}
  <1>4. 0 \in Good
    <2>1. PICK f : f = [i \in 1..0 |-> i]
      OBVIOUS
    <2>2. Fits(0, f)
      BY <1>3, <2>1
    <2>. QED
      BY <2>2
  <1>5. ASSUME NEW k \in 0..n - 1, k \in Good PROVE k + 1 \in Good
    <2>1. PICK f : Fits(k, f)
      BY <1>5
    <2>2. PICK m \in Nat : m = Len(g[k]) /\ g[k] \in Seq(S)
      BY <2>1
    <2>3. k + 1 \in 1..n /\ (k + 1) - 1 = k /\ k \in Nat
      BY <1>5
    <2>4. g[k + 1] = KeepIn(K, g[k], s[k + 1]) /\ s[k + 1] \in S
      BY <1>1, <1>3, <2>3
    <2>5. CASE s[k + 1] \in K
      <3>1. g[k + 1] = Append(g[k], s[k + 1])
        BY <2>4, <2>5 DEF KeepIn
      <3>2. PICK a : a = g[k + 1]
        OBVIOUS
      <3>3. a \in Seq(S) /\ Len(a) = m + 1 /\ a[m + 1] = s[k + 1] /\ \A i \in 1..m : a[i] = g[k][i]
        BY <2>2, <2>4, <3>1, <3>2
      <3>4. PICK h : h = [i \in 1..m + 1 |-> IF i = m + 1 THEN k + 1 ELSE f[i]]
        OBVIOUS
      <3>5. f \in [1..m -> 1..k]
        BY <2>1, <2>2
      <3>6. h \in [1..m + 1 -> 1..k + 1] /\ h[m + 1] = k + 1 /\ \A i \in 1..m : h[i] = f[i]
              /\ f[i] \in 1..k
        BY <2>3, <3>4, <3>5
      <3>7. \A i, j \in 1..m : h[i] = h[j] => i = j
        BY <2>1, <2>2, <3>6
      <3>8. \A i, j \in 1..m + 1 : h[i] = h[j] => i = j
        BY <2>3, <3>6, <3>7
      <3>9. \A i \in 1..m : a[i] = s[h[i]] /\ s[h[i]] \in K
        BY <2>1, <2>2, <3>3, <3>6
      <3>10. \A i \in 1..m + 1 : a[i] = s[h[i]] /\ s[h[i]] \in K
        BY <2>5, <3>3, <3>6, <3>9
      <3>11. ASSUME NEW i \in 1..k + 1, s[i] \in K PROVE \E j \in 1..m + 1 : h[j] = i
        <4>1. CASE i = k + 1
          BY <3>6, <4>1
        <4>2. CASE i \in 1..k
          <5>1. PICK j \in 1..m : f[j] = i
            BY <2>1, <2>2, <3>11, <4>2
          <5>. QED
            BY <3>6, <5>1
        <4>. QED
          BY <2>3, <4>1, <4>2
      <3>12. Fits(k + 1, h)
        BY <3>2, <3>3, <3>6, <3>8, <3>10, <3>11
      <3> HIDE DEF Fits
      <3>. QED
        BY <2>3, <3>12
    <2>6. CASE s[k + 1] \notin K
      <3>1. g[k + 1] = g[k]
        BY <2>4, <2>6 DEF KeepIn
      <3>2. f \in [1..m -> 1..k]
        BY <2>1, <2>2
      <3>3. f \in [1..m -> 1..k + 1]
        BY <2>3, <3>2
      <3>4. \A i \in 1..k + 1 : s[i] \in K => i \in 1..k
        BY <2>3, <2>6
      <3>5. Fits(k + 1, f)
        BY <2>1, <2>2, <3>1, <3>3, <3>4
      <3> HIDE DEF Fits
      <3>. QED
        BY <2>3, <3>5
    <2>. QED
      BY <2>5, <2>6
  <1>6. n \in Good
    <2> HIDE DEF Good
    <2>1. \A k \in 0..n : k \in Good
      BY <1>4, <1>5, UpwardTo
    <2>. QED
      BY <2>1
  <1>7. PICK f : Fits(n, f)
    BY <1>6
  <1>8. PICK t : t = Kept(s, K) /\ t = g[n]
    BY <1>1, <1>2
  <1>9. t \in Seq(S) /\ f \in [1..Len(t) -> 1..n]
    BY <1>7, <1>8
  <1>10. Places(t, s, f)
    BY <1>1, <1>7, <1>8 DEF Places
  <1>11. PICK m \in Nat : m = Len(t) /\ DOMAIN t = 1..m
    BY <1>9
  <1>12. ASSUME NEW x PROVE x \in Range(t) <=> x \in Range(s) /\ x \in K
    <2>1. ASSUME x \in Range(t) PROVE x \in Range(s) /\ x \in K
      <3>1. PICK i \in 1..m : t[i] = x
        BY <1>11, <2>1 DEF Range
      <3>2. f[i] \in 1..n /\ s[f[i]] = x /\ x \in K
        BY <1>7, <1>8, <1>9, <1>11, <3>1
      <3>. QED
        BY <1>1, <3>2 DEF Range
    <2>2. ASSUME x \in Range(s), x \in K PROVE x \in Range(t)
      <3>1. PICK i \in 1..n : s[i] = x
        BY <1>1, <2>2 DEF Range
      <3>2. PICK j \in 1..m : f[j] = i
        BY <1>7, <1>8, <1>11, <2>2, <3>1
      <3>3. t[j] = x
        BY <1>7, <1>8, <1>11, <3>1, <3>2
      <3>. QED
        BY <1>11, <3>3 DEF Range
    <2>. QED
      BY <2>1, <2>2
  <1>. QED
    BY <1>8, <1>9, <1>10, <1>12 DEF Embeds

\* The elements of a sequence that fit another, taken out of both alike.
LEMMA EmbedsEnd ==
  ASSUME NEW S, NEW e \in Seq(S), NEW d \in Seq(S), NEW m \in 1..Len(d) + 1, Embeds(e, d),
         \A i \in 1..Len(d) : i < m => d[i] \notin Range(e)
  PROVE  Embeds(e, SubSeq(d, m, Len(d)))
  <1>1. PICK k \in Nat : k = Len(e) /\ DOMAIN e = 1..k
    OBVIOUS
  <1>2. PICK n \in Nat : n = Len(d)
    OBVIOUS
  <1>3. PICK g : Places(e, d, g)
    BY DEF Embeds
  <1>4. PICK t : t = SubSeq(d, m, n)
    OBVIOUS
  <1>5. m \in Nat /\ Len(t) = n - m + 1 /\ \A i \in 1..n - m + 1 : t[i] = d[m + i - 1]
    BY <1>2, <1>4
  <1>6. g \in [1..k -> 1..n] /\ \A i \in 1..k : e[i] = d[g[i]] /\ e[i] \in Range(e)
    BY <1>1, <1>2, <1>3 DEF Places, Range
  <1>7. \A i \in 1..k : g[i] \in 1..n /\ ~(g[i] < m)
    BY <1>2, <1>6
  <1>8. PICK f : f = [i \in 1..k |-> g[i] - m + 1]
    OBVIOUS
  <1>9. f \in [1..k -> 1..n - m + 1] /\ \A i \in 1..k : f[i] = g[i] - m + 1 /\ m + f[i] - 1 = g[i]
    <2>1. ASSUME NEW i \in 1..k PROVE g[i] - m + 1 \in 1..n - m + 1 /\ m + (g[i] - m + 1) - 1 = g[i]
      <3>1. PICK p \in 1..n : p = g[i] /\ ~(p < m)
        BY <1>7
      <3>2. p - m + 1 \in 1..n - m + 1 /\ m + (p - m + 1) - 1 = p
        BY <1>5, <3>1
      <3>. QED
        BY <3>1, <3>2
    <2>2. \A i \in 1..k : f[i] = g[i] - m + 1
      BY <1>8
    <2>3. f \in [1..k -> 1..n - m + 1]
      BY <1>8, <2>1
    <2>. QED
      BY <2>1, <2>2, <2>3
  <1>10. \A i, j \in 1..k : f[i] = f[j] => i = j
    BY <1>1, <1>3, <1>9 DEF Places
  <1>11. ASSUME NEW i \in 1..k PROVE e[i] = t[f[i]]
    <2>1. f[i] \in 1..n - m + 1 /\ m + f[i] - 1 = g[i]
      BY <1>9
    <2>2. t[f[i]] = d[m + f[i] - 1]
      BY <1>5, <2>1
    <2>. QED
      BY <1>6, <2>1, <2>2
  <1>12. Places(e, t, f)
    BY <1>1, <1>5, <1>9, <1>10, <1>11 DEF Places
  <1>. QED
    BY <1>2, <1>4, <1>12 DEF Embeds

-----------------------------------------------------------------------------
(* Events that Trim takes from the front. *)

\* Trim drops events from the front until one is late enough: every late one
\* stays.
LEMMA TrimStart ==
  ASSUME NEW rows \in Seq(Nat), NEW threshold \in Int
  PROVE  \E m \in 1..Len(rows) + 1 :
           /\ Trim(rows, threshold) = SubSeq(rows, m, Len(rows))
           /\ \A i \in 1..Len(rows) : i < m => ~(rows[i] > threshold)
  <1>1. PICK n \in Nat : n = Len(rows) /\ DOMAIN rows = 1..n
    OBVIOUS
  <1>2. PICK late : late = {i \in DOMAIN rows : rows[i] > threshold} \cup {n + 1}
    OBVIOUS
  <1>3. late \subseteq Nat /\ late # {} /\ late \subseteq 1..n + 1
    BY <1>1, <1>2
  <1>4. \E x \in late : \A y \in late : x <= y
    BY <1>3, LeastOfNats
  <1>5. Min(late) \in late /\ \A y \in late : Min(late) <= y
    BY <1>4 DEF Min
  <1>6. PICK m \in 1..n + 1 : m = Min(late)
    BY <1>3, <1>5
  <1>7. Trim(rows, threshold) = SubSeq(rows, m, n)
    BY <1>1, <1>2, <1>6 DEF Trim
  <1>8. ASSUME NEW i \in 1..n, i < m PROVE ~(rows[i] > threshold)
    <2>1. i \in late => m <= i
      BY <1>5, <1>6
    <2>2. i \notin late
      BY <1>8, <2>1
    <2>. QED
      BY <1>1, <1>2, <2>2
  <1>. QED
    BY <1>1, <1>7, <1>8

LEMMA TrimIs ==
  ASSUME NEW rows \in Seq(Nat), NEW threshold \in Int
  PROVE  LET t == Trim(rows, threshold)
         IN  /\ t \in Seq(Nat) /\ Len(t) <= Len(rows)
             /\ \A e \in Seq(Nat) : Embeds(e, rows)
                  /\ (\A x \in Range(e) : x > threshold) => Embeds(e, t)
  <1>1. PICK n \in Nat : n = Len(rows)
    OBVIOUS
  <1>2. PICK m \in 1..n + 1 : /\ Trim(rows, threshold) = SubSeq(rows, m, n)
                              /\ \A i \in 1..n : i < m => ~(rows[i] > threshold)
    BY <1>1, TrimStart
  <1>3. PICK t : t = Trim(rows, threshold)
    OBVIOUS
  <1>4. t \in Seq(Nat) /\ Len(t) = n - m + 1
    BY <1>1, <1>2, <1>3, EndEmbeds
  <1>5. ASSUME NEW e \in Seq(Nat), Embeds(e, rows), \A x \in Range(e) : x > threshold
        PROVE  Embeds(e, t)
    <2>1. \A i \in 1..n : i < m => rows[i] \notin Range(e)
      BY <1>2, <1>5
    <2>. QED
      BY <1>1, <1>2, <1>3, <1>5, <2>1, EmbedsEnd
  <1>. QED
    BY <1>1, <1>3, <1>4, <1>5

\* An event after the ones that Trim leaves.
LEMMA TrimAppend ==
  ASSUME NEW rows \in Seq(Nat), NEW threshold \in Int, NEW now \in Nat, NEW e \in Seq(Nat),
         Embeds(e, Append(rows, now)), \A x \in Range(e) : x > threshold
  PROVE  Embeds(e, Append(Trim(rows, threshold), now))
  <1>1. PICK n \in Nat : n = Len(rows)
    OBVIOUS
  <1>2. PICK m \in 1..n + 1 : /\ Trim(rows, threshold) = SubSeq(rows, m, n)
                              /\ \A i \in 1..n : i < m => ~(rows[i] > threshold)
    BY <1>1, TrimStart
  <1>3. PICK d : d = Append(rows, now)
    OBVIOUS
  <1>4. d \in Seq(Nat) /\ Len(d) = n + 1 /\ d[n + 1] = now /\ \A i \in 1..n : d[i] = rows[i]
    BY <1>1, <1>3
  <1>5. \A i \in 1..n + 1 : i < m => d[i] \notin Range(e)
    <2>1. ASSUME NEW i \in 1..n + 1, i < m PROVE d[i] \notin Range(e)
      <3>1. i \in 1..n
        BY <2>1
      <3>. QED
        BY <1>2, <1>4, <2>1, <3>1
    <2>. QED
      BY <2>1
  <1>6. m \in 1..Len(d) + 1
    BY <1>4
  <1>7. Embeds(e, SubSeq(d, m, n + 1))
    BY <1>3, <1>4, <1>5, <1>6, EmbedsEnd
  <1>8. SubSeq(d, m, n + 1) = Append(SubSeq(rows, m, n), now)
    <2>1. PICK s : s = SubSeq(d, m, n + 1)
      OBVIOUS
    <2>2. PICK u : u = SubSeq(rows, m, n)
      OBVIOUS
    <2>3. PICK t : t = Append(u, now)
      OBVIOUS
    <2>4. s \in Seq(Nat) /\ Len(s) = n - m + 2 /\ \A i \in 1..n - m + 2 : s[i] = d[m + i - 1]
      <3>1. Len(d) = n + 1 /\ d \in Seq(Nat) /\ (n + 1) - m + 1 = n - m + 2
        BY <1>1, <1>4
      <3>2. PICK end : end = SubSeq(d, m, Len(d))
        OBVIOUS
      <3>3. /\ end \in Seq(Nat) /\ Len(end) = Len(d) - m + 1
            /\ \A i \in 1..Len(d) - m + 1 : end[i] = d[m + i - 1]
        BY <1>6, <3>1, <3>2, EndEmbeds
      <3>4. s = end
        BY <2>1, <3>1, <3>2
      <3>. QED
        BY <3>1, <3>3, <3>4
    <2>5. u \in Seq(Nat) /\ Len(u) = n - m + 1 /\ \A i \in 1..n - m + 1 : u[i] = rows[m + i - 1]
      BY <1>1, <2>2, EndEmbeds
    <2>6. t \in Seq(Nat) /\ Len(t) = n - m + 2 /\ t[n - m + 2] = now
            /\ \A i \in 1..n - m + 1 : t[i] = u[i]
      BY <1>1, <2>3, <2>5
    <2>7. ASSUME NEW i \in 1..n - m + 2 PROVE s[i] = t[i]
      <3>1. CASE i = n - m + 2
        <4>1. m + i - 1 = n + 1
          BY <1>1, <3>1
        <4>. QED
          BY <1>4, <2>4, <2>6, <3>1, <4>1
      <3>2. CASE i # n - m + 2
        <4>1. i \in 1..n - m + 1 /\ m + i - 1 \in 1..n
          BY <1>1, <3>2
        <4>. QED
          BY <1>4, <2>4, <2>5, <2>6, <4>1
      <3>. QED
        BY <3>1, <3>2
    <2>. QED
      BY <2>1, <2>2, <2>3, <2>4, <2>6, <2>7, SeqEqual
  <1>. QED
    BY <1>2, <1>7, <1>8

-----------------------------------------------------------------------------
(* The maps: at most one entry for each client. *)

Map(V, d) == d \in Entries(V) /\ OneEach(d)

\* Everything of the one map is in the other.
PartOf(e, d) ==
  \A k \in Keys(e) : k \in Keys(d) /\ \A default : Lookup(e, k, default) = Lookup(d, k, default)

\* Looking up a key finds its only entry.
LEMMA LookupIs ==
  ASSUME NEW V, NEW d, Map(V, d), NEW default
  PROVE  /\ \A i \in 1..Len(d) : /\ d[i].key \in Keys(d) /\ d[i].key \in IPs /\ d[i].val \in V
                                 /\ Lookup(d, d[i].key, default) = d[i].val
         /\ \A k \in Keys(d) : \E i \in 1..Len(d) : d[i].key = k
         /\ \A k : k \notin Keys(d) => Lookup(d, k, default) = default
         /\ \A k : Lookup(d, k, default) \in V \cup {default}
  <1>1. PICK n \in Nat : n = Len(d) /\ DOMAIN d = 1..n
    BY DEF Map, Entries
  <1>2. \A i \in 1..n : d[i] \in [key : IPs, val : V]
    <2>1. PICK E : E = [key : IPs, val : V]
      OBVIOUS
    <2>2. d \in Seq(E)
      BY <2>1 DEF Map, Entries
    <2>3. \A i \in 1..n : d[i] \in E
      BY <1>1, <2>2
    <2>. QED
      BY <2>1, <2>3
  <1>3. ASSUME NEW i \in 1..n PROVE PlaceOf(d, d[i].key) = i
    <2>1. \E j \in DOMAIN d : d[j].key = d[i].key
      BY <1>1
    <2>2. PlaceOf(d, d[i].key) \in DOMAIN d /\ d[PlaceOf(d, d[i].key)].key = d[i].key
      BY <2>1 DEF PlaceOf
    <2>. QED
      BY <1>1, <2>2 DEF Map, OneEach
  <1>4. ASSUME NEW i \in 1..n
        PROVE  /\ d[i].key \in Keys(d) /\ d[i].key \in IPs /\ d[i].val \in V
               /\ Lookup(d, d[i].key, default) = d[i].val
    BY <1>1, <1>2, <1>3 DEF Keys, Lookup
  <1>5. \A k \in Keys(d) : \E i \in 1..n : d[i].key = k
    BY <1>1 DEF Keys
  <1>6. \A k : k \notin Keys(d) => Lookup(d, k, default) = default
    BY DEF Lookup
  <1>. QED
    BY <1>1, <1>4, <1>5, <1>6

LEMMA EntryLooked ==
  ASSUME NEW V, NEW d, Map(V, d), NEW i \in 1..Len(d), NEW default
  PROVE  /\ d[i].key \in Keys(d) /\ d[i].key \in IPs /\ d[i].val \in V
         /\ Lookup(d, d[i].key, default) = d[i].val
  BY LookupIs

LEMMA KeyFound ==
  ASSUME NEW V, NEW d, Map(V, d), NEW k \in Keys(d), NEW default
  PROVE  \E i \in 1..Len(d) : d[i].key = k /\ Lookup(d, k, default) = d[i].val
  BY LookupIs

\* What is left of a map when entries are taken out of it.
LEMMA SomeEntries ==
  ASSUME NEW V, NEW d, Map(V, d), NEW e \in Entries(V), Embeds(e, d)
  PROVE  Map(V, e) /\ Len(e) <= Len(d) /\ PartOf(e, d)
  <1>1. PICK n \in Nat : n = Len(d) /\ DOMAIN d = 1..n
    BY DEF Map, Entries
  <1>2. PICK m \in Nat : m = Len(e) /\ DOMAIN e = 1..m
    BY DEF Entries
  <1>3. PICK g : Places(e, d, g)
    BY DEF Embeds
  <1>4. \A i \in 1..m : g[i] \in 1..n /\ e[i] = d[g[i]]
    BY <1>1, <1>2, <1>3 DEF Places
  <1>5. \A i, j \in 1..m : e[i].key = e[j].key => i = j
    BY <1>1, <1>2, <1>3, <1>4 DEF Map, OneEach, Places
  <1>6. Map(V, e)
    BY <1>2, <1>5 DEF Map, OneEach
  <1>7. Len(e) <= Len(d)
    BY EmbedsLen DEF Map, Entries
  <1>8. ASSUME NEW k \in Keys(e), NEW default
        PROVE  k \in Keys(d) /\ Lookup(e, k, default) = Lookup(d, k, default)
    <2>1. PICK i \in 1..m : e[i].key = k /\ Lookup(e, k, default) = e[i].val
      BY <1>2, <1>6, KeyFound
    <2>2. PICK j \in 1..n : e[i] = d[j]
      BY <1>4
    <2>3. d[j].key \in Keys(d) /\ Lookup(d, d[j].key, default) = d[j].val
      BY <1>1, EntryLooked
    <2>4. d[j].key = k
      BY <2>1, <2>2
    <2>. QED
      BY <2>1, <2>2, <2>3, <2>4
  <1>9. PartOf(e, d)
    BY <1>8 DEF PartOf
  <1>. QED
    BY <1>6, <1>7, <1>9

\* What PartOf says of the values that are looked up.
LEMMA PartValues ==
  ASSUME NEW V, NEW d, Map(V, d), NEW e, Map(V, e), PartOf(e, d), NEW default, NEW k
  PROVE  Lookup(e, k, default) = default \/ Lookup(e, k, default) = Lookup(d, k, default)
  BY LookupIs DEF PartOf

\* Eviction keeps the newest entries, one less than fit.
LEMMA RoomLeft ==
  ASSUME NEW V, NEW d, Map(V, d), NEW max \in Nat \ {0}
  PROVE  LET e == LeaveRoom(d, max)
         IN  Map(V, e) /\ Len(e) < max /\ PartOf(e, d)
  <1>1. PICK n \in Nat : n = Len(d)
    BY DEF Map, Entries
  <1>2. PICK e : e = LeaveRoom(d, max)
    OBVIOUS
  <1>3. CASE n < max
    <2>1. e = d
      BY <1>1, <1>2, <1>3 DEF LeaveRoom
    <2>. QED
      BY <1>1, <1>2, <1>3, <2>1 DEF PartOf
  <1>4. CASE ~(n < max)
    <2>1. PICK m \in 1..n + 1 : m = n - max + 2
      BY <1>4
    <2>2. e = SubSeq(d, m, n)
      BY <1>1, <1>2, <1>4, <2>1 DEF LeaveRoom
    <2>3. e \in Entries(V) /\ Len(e) = n - m + 1 /\ Embeds(e, d)
      BY <1>1, <2>2, EndEmbeds DEF Map, Entries
    <2>4. Map(V, e) /\ PartOf(e, d)
      BY <2>3, SomeEntries
    <2>5. Len(e) < max
      BY <2>1, <2>3
    <2>. QED
      BY <1>2, <2>4, <2>5
  <1>. QED
    BY <1>3, <1>4

\* An entry is popped.
LEMMA WithoutIs ==
  ASSUME NEW V, NEW d, Map(V, d), NEW k
  PROVE  LET e == Without(d, k)
         IN  /\ Map(V, e) /\ PartOf(e, d) /\ Keys(e) = Keys(d) \ {k}
             /\ Len(e) <= Len(d) /\ (k \in Keys(d) => Len(e) < Len(d))
  <1>1. PICK n \in Nat : n = Len(d) /\ DOMAIN d = 1..n
    BY DEF Map, Entries
  <1>2. PICK e : e = Without(d, k)
    OBVIOUS
  <1>3. CASE k \notin Keys(d)
    <2>1. e = d
      BY <1>2, <1>3 DEF Without
    <2>. QED
      BY <1>1, <1>2, <1>3, <2>1 DEF PartOf
  <1>4. CASE k \in Keys(d)
    <2>1. PICK p \in 1..n : p = PlaceOf(d, k) /\ d[p].key = k
      <3>1. \E i \in DOMAIN d : d[i].key = k
        BY <1>4 DEF Keys
      <3>. QED
        BY <1>1, <3>1 DEF PlaceOf
    <2>2. PICK front : front = SubSeq(d, 1, p - 1)
      OBVIOUS
    <2>3. PICK back : back = SubSeq(d, p + 1, n)
      OBVIOUS
    <2>4. PICK E : E = [key : IPs, val : V]
      OBVIOUS
    <2>5. d \in Seq(E)
      BY <2>4 DEF Map, Entries
    <2>6. front \in Seq(E) /\ Len(front) = p - 1 /\ \A j \in 1..p - 1 : front[j] = d[j]
      BY <1>1, <2>1, <2>2, <2>5
    <2>7. back \in Seq(E) /\ Len(back) = n - p /\ \A j \in 1..n - p : back[j] = d[j + p]
      BY <1>1, <2>1, <2>3, <2>5
    <2>8. e = front \o back
      BY <1>1, <1>2, <1>4, <2>1, <2>2, <2>3 DEF Without, RemoveAt
    <2>9. e \in Seq(E) /\ Len(e) = n - 1
      BY <2>1, <2>6, <2>7, <2>8
    <2>10. PICK g : g = [i \in 1..n - 1 |-> IF i < p THEN i ELSE i + 1]
      OBVIOUS
    <2>11. /\ g \in [1..n - 1 -> 1..n] /\ \A i \in 1..n - 1 : g[i] # p
           /\ \A i, j \in 1..n - 1 : g[i] = g[j] => i = j
      BY <1>1, <2>1, <2>10
    <2>12. ASSUME NEW i \in 1..n - 1 PROVE e[i] = d[g[i]]
      <3>1. CASE i < p
        <4>1. i \in 1..p - 1 /\ g[i] = i
          BY <2>1, <2>10, <3>1
        <4>2. e[i] = front[i]
          BY <2>6, <2>7, <2>8, <4>1
        <4>. QED
          BY <2>6, <4>1, <4>2
      <3>2. CASE ~(i < p)
        <4>1. i - (p - 1) \in 1..n - p /\ g[i] = i + 1 /\ (i - (p - 1)) + p = i + 1
                /\ i = (p - 1) + (i - (p - 1))
          BY <1>1, <2>1, <2>10, <3>2
        <4>2. e[i] = back[i - (p - 1)]
          BY <2>6, <2>7, <2>8, <4>1
        <4>. QED
          BY <2>7, <4>1, <4>2
      <3>. QED
        BY <3>1, <3>2
    <2>13. Places(e, d, g)
      BY <1>1, <2>9, <2>11, <2>12 DEF Places
    <2>14. e \in Entries(V) /\ Embeds(e, d)
      BY <2>4, <2>9, <2>13 DEF Embeds, Entries
    <2>15. Map(V, e) /\ PartOf(e, d)
      BY <2>14, SomeEntries
    <2>16. k \notin Keys(e)
      <3>1. ASSUME NEW i \in 1..n - 1 PROVE e[i].key # k
        BY <1>1, <2>1, <2>11, <2>12 DEF Map, OneEach
      <3>. QED
        BY <2>9, <3>1 DEF Keys
    <2>17. ASSUME NEW a \in Keys(d), a # k PROVE a \in Keys(e)
      <3>1. PICK i \in 1..n : d[i].key = a
        BY <1>1 DEF Keys
      <3>2. i # p
        BY <2>1, <2>17, <3>1
      <3>3. CASE i < p
        <4>1. i \in 1..n - 1 /\ g[i] = i
          BY <1>1, <2>1, <2>10, <3>3
        <4>2. e[i].key = a
          BY <2>12, <3>1, <4>1
        <4>. QED
          BY <2>9, <4>1, <4>2 DEF Keys
      <3>4. CASE i > p
        <4>1. i - 1 \in 1..n - 1 /\ g[i - 1] = i
          BY <1>1, <2>1, <2>10, <3>4
        <4>2. e[i - 1].key = a
          BY <2>12, <3>1, <4>1
        <4>. QED
          BY <2>9, <4>1, <4>2 DEF Keys
      <3>. QED
        BY <3>2, <3>3, <3>4
    <2>18. Len(e) <= n /\ Len(e) < n
      BY <1>1, <2>9
    <2>19. Keys(e) = Keys(d) \ {k}
      BY <2>15, <2>16, <2>17 DEF PartOf
    <2>. QED
      BY <1>1, <1>2, <2>15, <2>18, <2>19
  <1>. QED
    BY <1>3, <1>4

\* A client that is not in a map is put at its end.
LEMMA LastAdded ==
  ASSUME NEW V, NEW d, Map(V, d), NEW k \in IPs, k \notin Keys(d), NEW v \in V
  PROVE  LET e == Append(d, [key |-> k, val |-> v])
         IN  /\ Map(V, e) /\ Len(e) = Len(d) + 1 /\ Keys(e) = Keys(d) \cup {k}
             /\ \A default : Lookup(e, k, default) = v
             /\ \A a \in Keys(d) : \A default : Lookup(e, a, default) = Lookup(d, a, default)
  <1>1. PICK n \in Nat : n = Len(d) /\ DOMAIN d = 1..n
    BY DEF Map, Entries
  <1>2. PICK r \in [key : IPs, val : V] : r = [key |-> k, val |-> v]
    OBVIOUS
  <1>3. PICK e : e = Append(d, r)
    OBVIOUS
  <1>4. e \in Entries(V) /\ Len(e) = n + 1 /\ DOMAIN e = 1..n + 1 /\ e[n + 1] = r
          /\ \A i \in 1..n : e[i] = d[i]
    BY <1>1, <1>2, <1>3 DEF Map, Entries
  <1>5. r.key = k /\ r.val = v
    BY <1>2
  <1>6. \A i \in 1..n : d[i].key # k
    BY <1>1 DEF Keys
  <1>7. \A i, j \in 1..n + 1 : e[i].key = e[j].key => i = j
    BY <1>1, <1>4, <1>5, <1>6 DEF Map, OneEach
  <1>8. Map(V, e)
    BY <1>4, <1>7 DEF Map, OneEach
  <1>9. Keys(e) = Keys(d) \cup {k}
    BY <1>1, <1>4, <1>5 DEF Keys
  <1>10. ASSUME NEW default PROVE Lookup(e, k, default) = v
    <2>1. n + 1 \in 1..Len(e) /\ e[n + 1].key = k /\ e[n + 1].val = v
      BY <1>4, <1>5
    <2>2. Lookup(e, e[n + 1].key, default) = e[n + 1].val
      BY <1>8, <2>1, EntryLooked
    <2>. QED
      BY <2>1, <2>2
  <1>11. ASSUME NEW a \in Keys(d), NEW default PROVE Lookup(e, a, default) = Lookup(d, a, default)
    <2>1. PICK i \in 1..n : d[i].key = a /\ Lookup(d, a, default) = d[i].val
      BY <1>1, KeyFound
    <2>2. i \in 1..Len(e) /\ e[i] = d[i]
      BY <1>4
    <2>3. Lookup(e, e[i].key, default) = e[i].val
      BY <1>8, <2>2, EntryLooked
    <2>. QED
      BY <2>1, <2>2, <2>3
  <1>. QED
    BY <1>1, <1>2, <1>3, <1>4, <1>8, <1>9, <1>10, <1>11

\* _push_event_locked and _set_temporary_block_locked put a client's entry at
\* the end, where there is room for it.
PutInto(d, k, max, v) == AddLast(IF k \in Keys(d) THEN d ELSE LeaveRoom(d, max), k, v)

LEMMA PutIs ==
  ASSUME NEW V, NEW d, Map(V, d), NEW max \in Nat \ {0}, Len(d) <= max, NEW k \in IPs, NEW v \in V
  PROVE  LET e == PutInto(d, k, max, v)
         IN  /\ Map(V, e) /\ Len(e) <= max /\ k \in Keys(e)
             /\ \A default : Lookup(e, k, default) = v
             /\ \A a \in Keys(e) \ {k} : a \in Keys(d)
                  /\ \A default : Lookup(e, a, default) = Lookup(d, a, default)
  <1>1. PICK room : room = IF k \in Keys(d) THEN d ELSE LeaveRoom(d, max)
    OBVIOUS
  <1>2. PICK base : base = Without(room, k)
    OBVIOUS
  <1>3. PICK e : e = PutInto(d, k, max, v)
    OBVIOUS
  <1>4. e = Append(base, [key |-> k, val |-> v])
    BY <1>1, <1>2, <1>3 DEF PutInto, AddLast
  <1>5. Map(V, base) /\ k \notin Keys(base) /\ Len(base) < max /\ PartOf(base, d)
    <2>1. CASE k \in Keys(d)
      <3>1. Map(V, base) /\ k \notin Keys(base) /\ Len(base) < Len(d) /\ PartOf(base, d)
        BY <1>1, <1>2, <2>1, WithoutIs
      <3>2. Len(base) \in Nat /\ Len(d) \in Nat
        BY <3>1 DEF Map, Entries
      <3>. QED
        BY <3>1, <3>2
    <2>2. CASE k \notin Keys(d)
      <3>1. Map(V, room) /\ Len(room) < max /\ PartOf(room, d)
        BY <1>1, <2>2, RoomLeft
      <3>2. Map(V, base) /\ k \notin Keys(base) /\ Len(base) <= Len(room) /\ PartOf(base, room)
        BY <1>2, <3>1, WithoutIs
      <3>3. Len(base) \in Nat /\ Len(room) \in Nat
        BY <3>1, <3>2 DEF Map, Entries
      <3>4. PartOf(base, d)
        BY <3>1, <3>2 DEF PartOf
      <3>. QED
        BY <3>1, <3>2, <3>3, <3>4
    <2>. QED
      BY <2>1, <2>2
  <1>6. /\ Map(V, e) /\ Len(e) = Len(base) + 1 /\ Keys(e) = Keys(base) \cup {k}
        /\ \A default : Lookup(e, k, default) = v
        /\ \A a \in Keys(base) : \A default : Lookup(e, a, default) = Lookup(base, a, default)
    BY <1>4, <1>5, LastAdded
  <1>7. Len(e) <= max
    <2>1. Len(base) \in Nat
      BY <1>5 DEF Map, Entries
    <2>. QED
      BY <1>5, <1>6, <2>1
  <1>8. \A a \in Keys(e) \ {k} : a \in Keys(d)
          /\ \A default : Lookup(e, a, default) = Lookup(d, a, default)
    BY <1>5, <1>6 DEF PartOf
  <1>. QED
    BY <1>3, <1>6, <1>7, <1>8

-----------------------------------------------------------------------------
(* What the policy does to a map. *)

Stamps == Seq(Nat)

LEMMA InRange ==
  ASSUME NEW S, NEW s \in Seq(S), NEW i \in 1..Len(s)
  PROVE  s[i] \in S /\ s[i] \in Range(s)
  <1>1. DOMAIN s = 1..Len(s) /\ s[i] \in S
    OBVIOUS
  <1>. QED
    BY <1>1 DEF Range

LEMMA TrimmedIs ==
  ASSUME NEW d, Map(Stamps, d), NEW threshold \in Int
  PROVE  LET e == Trimmed(d, threshold)
         IN  /\ Map(Stamps, e) /\ Len(e) = Len(d) /\ Keys(e) = Keys(d)
             /\ \A k : Lookup(e, k, <<>>) = Trim(Lookup(d, k, <<>>), threshold)
  <1>1. PICK n \in Nat : n = Len(d) /\ DOMAIN d = 1..n
    BY DEF Map, Entries
  <1>2. PICK e : e = Trimmed(d, threshold)
    OBVIOUS
  <1>3. e = [i \in 1..n |-> [key |-> d[i].key, val |-> Trim(d[i].val, threshold)]]
    BY <1>1, <1>2 DEF Trimmed
  <1>4. ASSUME NEW i \in 1..n
        PROVE d[i].key \in IPs /\ d[i].val \in Stamps /\ Trim(d[i].val, threshold) \in Stamps
    <2>1. d[i].key \in IPs /\ d[i].val \in Stamps
      BY <1>1, EntryLooked
    <2>. QED
      BY <2>1, TrimIs DEF Stamps
  <1>5. PICK E : E = [key : IPs, val : Stamps]
    OBVIOUS
  <1>6. ASSUME NEW i \in 1..n
        PROVE  e[i] \in E /\ e[i].key = d[i].key /\ e[i].val = Trim(d[i].val, threshold)
    <2>1. e[i] = [key |-> d[i].key, val |-> Trim(d[i].val, threshold)]
      BY <1>3
    <2>. QED
      BY <1>4, <1>5, <2>1
  <1>7. e \in Seq(E) /\ Len(e) = n /\ DOMAIN e = 1..n
    <2>1. e \in [1..n -> E]
      BY <1>3, <1>6
    <2>. QED
      BY <2>1
  <1>8. Map(Stamps, e)
    <2>1. \A i, j \in 1..n : e[i].key = e[j].key => i = j
      BY <1>1, <1>6 DEF Map, OneEach
    <2>. QED
      BY <1>5, <1>7, <2>1 DEF Map, OneEach, Entries
  <1>9. Keys(e) = Keys(d)
    BY <1>1, <1>6, <1>7 DEF Keys
  <1>10. Trim(<<>>, threshold) = <<>>
    <2>1. <<>> \in Seq(Nat) /\ Len(<<>>) = 0
      OBVIOUS
    <2>2. PICK t \in Seq(Nat) : t = Trim(<<>>, threshold)
      BY <2>1, TrimIs
    <2>3. Len(t) <= 0
      BY <2>1, <2>2, TrimIs
    <2>. QED
      BY <2>2, <2>3
  <1>11. ASSUME NEW k PROVE Lookup(e, k, <<>>) = Trim(Lookup(d, k, <<>>), threshold)
    <2>1. CASE k \in Keys(d)
      <3>1. PICK i \in 1..n : d[i].key = k /\ Lookup(d, k, <<>>) = d[i].val
        BY <1>1, <2>1, KeyFound
      <3>2. Lookup(e, e[i].key, <<>>) = e[i].val
        BY <1>7, <1>8, EntryLooked
      <3>. QED
        BY <1>6, <3>1, <3>2
    <2>2. CASE k \notin Keys(d)
      BY <1>8, <1>9, <1>10, <2>2, LookupIs
    <2>. QED
      BY <2>1, <2>2
  <1>. QED
    BY <1>1, <1>2, <1>7, <1>8, <1>9, <1>11

\* What is kept of a map by its entries' values.
LEMMA KeptEntries ==
  ASSUME NEW V, NEW d, Map(V, d), NEW K, NEW default
  PROVE  LET e == Kept(d, K)
         IN  /\ Map(V, e) /\ Len(e) <= Len(d) /\ PartOf(e, d)
             /\ \A k \in Keys(e) : [key |-> k, val |-> Lookup(d, k, default)] \in K
             /\ \A k \in Keys(d) \ Keys(e) : [key |-> k, val |-> Lookup(d, k, default)] \notin K
  <1>1. PICK E : E = [key : IPs, val : V]
    OBVIOUS
  <1>2. d \in Seq(E)
    BY <1>1 DEF Map, Entries
  <1>3. PICK n \in Nat : n = Len(d) /\ DOMAIN d = 1..n
    BY <1>2
  <1>4. PICK e : e = Kept(d, K)
    OBVIOUS
  <1>5. e \in Seq(E) /\ Embeds(e, d) /\ \A x : x \in Range(e) <=> x \in Range(d) /\ x \in K
    BY <1>2, <1>4, KeptIs
  <1>6. e \in Entries(V)
    BY <1>1, <1>5 DEF Entries
  <1>7. Map(V, e) /\ Len(e) <= Len(d) /\ PartOf(e, d)
    BY <1>5, <1>6, SomeEntries
  <1>8. PICK m \in Nat : m = Len(e) /\ DOMAIN e = 1..m
    BY <1>5
  <1>9. ASSUME NEW i \in 1..n PROVE d[i] = [key |-> d[i].key, val |-> d[i].val] /\ d[i] \in Range(d)
    <2>1. d[i] \in E
      BY <1>2, <1>3
    <2>. QED
      BY <1>1, <1>3, <2>1 DEF Range
  <1>10. ASSUME NEW k \in Keys(e) PROVE [key |-> k, val |-> Lookup(d, k, default)] \in K
    <2>1. PICK j \in 1..m : e[j].key = k
      BY <1>8, <1>10 DEF Keys
    <2>2. e[j] \in Range(e)
      BY <1>8 DEF Range
    <2>3. e[j] \in K /\ e[j] \in Range(d)
      BY <1>5, <2>2
    <2>4. PICK i \in 1..n : d[i] = e[j]
      BY <1>3, <2>3 DEF Range
    <2>5. Lookup(d, d[i].key, default) = d[i].val
      BY <1>3, EntryLooked
    <2>. QED
      BY <1>9, <2>1, <2>3, <2>4, <2>5
  <1>11. ASSUME NEW k \in Keys(d) \ Keys(e) PROVE [key |-> k, val |-> Lookup(d, k, default)] \notin K
    <2>1. PICK i \in 1..n : d[i].key = k /\ Lookup(d, k, default) = d[i].val
      BY <1>3, KeyFound
    <2>2. d[i] \notin Range(e)
      <3>1. ASSUME NEW j \in 1..m PROVE e[j].key # k
        BY <1>8, <1>11 DEF Keys
      <3>. QED
        BY <1>8, <2>1, <3>1 DEF Range
    <2>. QED
      BY <1>5, <1>9, <2>1, <2>2
  <1>. QED
    BY <1>4, <1>7, <1>10, <1>11

\* _prune_events_locked leaves of each client's events what Trim does; a client
\* with none is dropped.
LEMMA PrunedIs ==
  ASSUME NEW d, Map(Stamps, d), NEW now \in Int, NEW window \in Nat
  PROVE  LET e == Pruned(d, now, window)
         IN  /\ Map(Stamps, e) /\ Len(e) <= Len(d)
             /\ \A k : Lookup(e, k, <<>>) = IF window = 0 THEN <<>>
                                            ELSE Trim(Lookup(d, k, <<>>), now - window)
  <1>1. PICK e : e = Pruned(d, now, window)
    OBVIOUS
  <1>2. CASE window = 0
    <2>1. e = <<>>
      BY <1>1, <1>2 DEF Pruned
    <2>2. Map(Stamps, e) /\ Len(e) = 0 /\ Keys(e) = {}
      BY <2>1 DEF Map, Entries, OneEach, Keys
    <2>3. \A k : Lookup(e, k, <<>>) = <<>>
      BY <2>2 DEF Lookup
    <2>4. Len(d) \in Nat
      BY DEF Map, Entries
    <2>. QED
      BY <1>1, <1>2, <2>2, <2>3, <2>4
  <1>3. CASE window # 0
    <2>1. PICK t : t = Trimmed(d, now - window)
      OBVIOUS
    <2>2. Map(Stamps, t) /\ Len(t) = Len(d)
            /\ \A k : Lookup(t, k, <<>>) = Trim(Lookup(d, k, <<>>), now - window)
      BY <2>1, TrimmedIs
    <2>3. PICK K : K = {x \in Range(t) : x.val # <<>>}
      OBVIOUS
    <2>4. e = Kept(t, K)
      BY <1>1, <1>3, <2>1, <2>3 DEF Pruned
    <2>5. /\ Map(Stamps, e) /\ Len(e) <= Len(t) /\ PartOf(e, t)
          /\ \A k \in Keys(t) \ Keys(e) : [key |-> k, val |-> Lookup(t, k, <<>>)] \notin K
      BY <2>2, <2>4, KeptEntries
    <2>6. ASSUME NEW k PROVE Lookup(e, k, <<>>) = Lookup(t, k, <<>>)
      <3>1. CASE k \in Keys(e)
        BY <2>5, <3>1 DEF PartOf
      <3>2. CASE k \notin Keys(t)
        <4>1. k \notin Keys(e)
          BY <2>5, <3>2 DEF PartOf
        <4>. QED
          BY <3>2, <4>1 DEF Lookup
      <3>3. CASE k \in Keys(t) \ Keys(e)
        <4>1. PICK i \in 1..Len(t) : t[i].key = k /\ Lookup(t, k, <<>>) = t[i].val
          BY <2>2, <3>3, KeyFound
        <4>2. PICK x \in Range(t) : x = [key |-> k, val |-> Lookup(t, k, <<>>)]
          <5>1. t \in Seq([key : IPs, val : Stamps])
            BY <2>2 DEF Map, Entries
          <5>2. t[i] \in [key : IPs, val : Stamps] /\ t[i] \in Range(t)
            BY <4>1, <5>1, InRange
          <5>. QED
            BY <4>1, <5>2
        <4>3. x.val = <<>>
          BY <2>3, <2>5, <3>3, <4>2
        <4>. QED
          BY <3>3, <4>2, <4>3 DEF Lookup
      <3>. QED
        BY <3>1, <3>2, <3>3
    <2>. QED
      BY <1>1, <1>3, <2>2, <2>5, <2>6
  <1>. QED
    BY <1>2, <1>3

\* _expire_blocks_locked drops the blocks that have run out.
LEMMA UnexpiredIs ==
  ASSUME NEW d, Map(Nat, d), NEW now \in Nat
  PROVE  LET e == Unexpired(d, now)
         IN  /\ Map(Nat, e) /\ Len(e) <= Len(d) /\ PartOf(e, d)
             /\ \A k : k \in Keys(e) <=> Lookup(d, k, 0) > now
             /\ \A k : Lookup(e, k, 0) = IF Lookup(d, k, 0) > now THEN Lookup(d, k, 0) ELSE 0
  <1>1. PICK e : e = Unexpired(d, now)
    OBVIOUS
  <1>2. PICK K : K = {x \in Range(d) : x.val > now}
    OBVIOUS
  <1>3. e = Kept(d, K)
    BY <1>1, <1>2 DEF Unexpired
  <1>4. /\ Map(Nat, e) /\ Len(e) <= Len(d) /\ PartOf(e, d)
        /\ \A k \in Keys(e) : [key |-> k, val |-> Lookup(d, k, 0)] \in K
        /\ \A k \in Keys(d) \ Keys(e) : [key |-> k, val |-> Lookup(d, k, 0)] \notin K
    BY <1>3, KeptEntries
  <1>5. ASSUME NEW k PROVE k \in Keys(e) <=> Lookup(d, k, 0) > now
    <2>1. CASE k \notin Keys(d)
      <3>1. k \notin Keys(e) /\ Lookup(d, k, 0) = 0
        BY <1>4, <2>1, LookupIs DEF PartOf
      <3>. QED
        BY <3>1
    <2>2. CASE k \in Keys(d)
      <3>1. PICK i \in 1..Len(d) : d[i].key = k /\ Lookup(d, k, 0) = d[i].val
        BY <2>2, KeyFound
      <3>2. d \in Seq([key : IPs, val : Nat])
        BY DEF Map, Entries
      <3>3. d[i] \in [key : IPs, val : Nat] /\ d[i] \in Range(d)
        BY <3>1, <3>2, InRange
      <3>4. d[i] = [key |-> k, val |-> Lookup(d, k, 0)]
        BY <3>1, <3>3
      <3>5. d[i] \in K <=> d[i].val > now
        BY <1>2, <3>3
      <3>. QED
        BY <1>4, <2>2, <3>1, <3>4, <3>5
    <2>. QED
      BY <2>1, <2>2
  <1>6. ASSUME NEW k PROVE Lookup(e, k, 0) = IF Lookup(d, k, 0) > now THEN Lookup(d, k, 0) ELSE 0
    BY <1>4, <1>5 DEF PartOf, Lookup
  <1>. QED
    BY <1>1, <1>4, <1>5, <1>6

\* A stamp more.
LEMMA StampPushed ==
  ASSUME NEW x, x \in Stamps \cup {<<>>}, NEW now \in Nat, NEW window \in Nat
  PROVE  Append(x, now) \in Seq(Nat) /\ Trim(Append(x, now), now - window) \in Stamps
  <1>1. <<>> \in Seq(Nat)
    OBVIOUS
  <1>2. x \in Seq(Nat)
    BY <1>1 DEF Stamps
  <1>3. Append(x, now) \in Seq(Nat) /\ now - window \in Int
    BY <1>2
  <1>. QED
    BY <1>3, TrimIs DEF Stamps

\* _push_event_locked.
LEMMA PushIs ==
  ASSUME NEW d, Map(Stamps, d), Len(d) <= MaxTracked, NEW ip \in IPs,
         NEW now \in Nat, NEW window \in Nat, NEW e, e = Push(d, ip, now, window)
  PROVE  /\ Map(Stamps, e) /\ Len(e) <= MaxTracked /\ ip \in Keys(e)
         /\ Lookup(e, ip, <<>>) = Trim(Append(Lookup(d, ip, <<>>), now), now - window)
         /\ \A a \in Keys(e) \ {ip} : a \in Keys(d) /\ Lookup(e, a, <<>>) = Lookup(d, a, <<>>)
  <1>1. PICK v : v = Trim(Append(Lookup(d, ip, <<>>), now), now - window)
    OBVIOUS
  <1>2. v \in Stamps
    <2>1. Lookup(d, ip, <<>>) \in Stamps \cup {<<>>}
      BY LookupIs
    <2>. QED
      BY ONLY <1>1, <2>1, now \in Nat, window \in Nat, StampPushed
  <1>3. e = PutInto(d, ip, MaxTracked, v)
    BY <1>1 DEF Push, PutInto
  <1>4. MaxTracked \in Nat \ {0}
    BY PolicyConstants DEF PolicyConstants
  <1>5. /\ Map(Stamps, e) /\ Len(e) <= MaxTracked /\ ip \in Keys(e)
        /\ \A default : Lookup(e, ip, default) = v
        /\ \A a \in Keys(e) \ {ip} :
             a \in Keys(d) /\ \A default : Lookup(e, a, default) = Lookup(d, a, default)
    BY <1>2, <1>3, <1>4, PutIs
  <1>. QED
    BY <1>1, <1>5

\* _set_temporary_block_locked never shortens a block.
LEMMA BlockIs ==
  ASSUME NEW d, Map(Nat, d), Len(d) <= MaxBlocks, NEW ip \in IPs,
         NEW now \in Nat, NEW duration \in Nat
  PROVE  LET e == Block(d, ip, now, duration)
         IN  /\ Map(Nat, e) /\ Len(e) <= MaxBlocks /\ ip \in Keys(e)
             /\ Lookup(e, ip, 0) >= Lookup(d, ip, 0)
             /\ \A a \in Keys(e) \ {ip} : a \in Keys(d) /\ Lookup(e, a, 0) = Lookup(d, a, 0)
  <1>1. PICK v : v = Until(d, ip, now, duration)
    OBVIOUS
  <1>2. Lookup(d, ip, 0) \in Nat \cup {0}
    BY LookupIs
  <1>3. v \in Nat /\ v >= Lookup(d, ip, 0)
    BY <1>1, <1>2 DEF Until, LaterOf
  <1>4. Block(d, ip, now, duration) = PutInto(d, ip, MaxBlocks, v)
    BY <1>1 DEF Block, PutInto
  <1>5. MaxBlocks \in Nat \ {0}
    BY PolicyConstants DEF PolicyConstants
  <1>6. PICK e : e = PutInto(d, ip, MaxBlocks, v)
    OBVIOUS
  <1>7. /\ Map(Nat, e) /\ Len(e) <= MaxBlocks /\ ip \in Keys(e)
        /\ \A default : Lookup(e, ip, default) = v
        /\ \A a \in Keys(e) \ {ip} :
             a \in Keys(d) /\ \A default : Lookup(e, a, default) = Lookup(d, a, default)
    BY <1>3, <1>5, <1>6, PutIs
  <1>. QED
    BY <1>3, <1>4, <1>6, <1>7

-----------------------------------------------------------------------------
(* The invariant, and what a call may leave of it. *)

\* A client's events and its strikes are within their limits.
Strikes(d, threshold, window) ==
  /\ Map(Stamps, d) /\ Len(d) <= MaxTracked
  /\ CountsStrikes(threshold, window) => \A ip \in IPs : Len(Lookup(d, ip, <<>>)) < threshold

\* What a call leaves of the blocks: those that are due, at least as long.
BlocksKept(b, now, ip) ==
  /\ Map(Nat, b) /\ Len(b) <= MaxBlocks
  /\ \A a \in Keys(b) \cup {ip} : Lookup(blocks, a, 0) <= now \/ Lookup(blocks, a, 0) <= Lookup(b, a, 0)

\* The admissions of the window are among the events the policy has of a client.
Counted(adm, req) == \A ip \in IPs : Embeds(adm[ip], Lookup(req, ip, <<>>)) /\ Len(adm[ip]) <= RateLimit
AdmissionsKept == RateLimit > 0 /\ RateWindow > 0 => Counted(admitted, requests)

\* What the full map lost count of is at most a whole limit for each row it let go.
LossesBounded ==
  RateLimit > 0 /\ RateWindow > 0 => \A ip \in IPs : lost[ip] <= RateLimit * letGo[ip]

\* A block is there as long as it was announced.
BansKept == \A ip \in IPs : banned[ip] <= latest \/ banned[ip] <= Lookup(blocks, ip, 0)

MapsOK ==
  /\ Map(Stamps, requests) /\ Len(requests) <= MaxTracked
  /\ Strikes(violations, ViolationThreshold, ViolationWindow)
  /\ Strikes(suspicious, SuspiciousThreshold, SuspiciousWindow)
  /\ Map(Nat, blocks) /\ Len(blocks) <= MaxBlocks

PolicyInv == PolicyTypeOK /\ MapsWithinBounds /\ AdmissionsKept /\ LossesBounded /\ BansKept

LEMMA ValueLooked ==
  ASSUME NEW d, Map(Stamps, d), NEW k
  PROVE  Lookup(d, k, <<>>) \in Seq(Nat) /\ Len(Lookup(d, k, <<>>)) \in Nat
  <1>1. Lookup(d, k, <<>>) \in Stamps \cup {<<>>}
    BY LookupIs
  <1>2. <<>> \in Seq(Nat)
    OBVIOUS
  <1>3. PICK rows \in Seq(Nat) : rows = Lookup(d, k, <<>>)
    BY <1>1, <1>2 DEF Stamps
  <1>4. Len(rows) \in Nat
    OBVIOUS
  <1>. QED
    BY <1>3, <1>4

\* Sweeping leaves no client with more strikes than it had.
LEMMA PrunedStrikes ==
  ASSUME NEW d, NEW threshold \in Nat, NEW window \in Nat, Strikes(d, threshold, window),
         NEW now \in Nat
  PROVE  /\ Strikes(Pruned(d, now, window), threshold, window)
         /\ Strikes(SweptEvents(d, now, window), threshold, window)
  <1>1. PICK e : e = Pruned(d, now, window)
    OBVIOUS
  <1>2. Map(Stamps, d) /\ Len(d) <= MaxTracked
    BY DEF Strikes
  <1>3. /\ Map(Stamps, e) /\ Len(e) <= Len(d)
        /\ \A k : Lookup(e, k, <<>>) = IF window = 0 THEN <<>>
             ELSE Trim(Lookup(d, k, <<>>), now - window)
    BY <1>1, <1>2, PrunedIs
  <1>4. Len(e) <= MaxTracked
    <2>1. Len(e) \in Nat /\ Len(d) \in Nat
      BY <1>2, <1>3 DEF Map, Entries
    <2>2. MaxTracked \in Nat
      BY PolicyConstants DEF PolicyConstants
    <2>. QED
      BY <1>2, <1>3, <2>1, <2>2
  <1>5. ASSUME CountsStrikes(threshold, window), NEW ip \in IPs
        PROVE Len(Lookup(e, ip, <<>>)) < threshold
    <2>1. PICK rows \in Seq(Nat) : rows = Lookup(d, ip, <<>>) /\ Len(rows) < threshold
      BY <1>2, <1>5, ValueLooked DEF Strikes
    <2>2. now - window \in Int /\ window # 0
      BY <1>5 DEF CountsStrikes
    <2>3. PICK t \in Seq(Nat) : t = Trim(rows, now - window) /\ Len(t) <= Len(rows)
      BY <2>1, <2>2, TrimIs
    <2>4. Lookup(e, ip, <<>>) = t
      BY <1>3, <2>1, <2>2, <2>3
    <2>. QED
      BY <2>1, <2>3, <2>4
  <1>6. Strikes(e, threshold, window)
    BY <1>3, <1>4, <1>5 DEF Strikes
  <1>. QED
    BY <1>1, <1>6 DEF SweptEvents

\* _register_violation_locked and _register_suspicious_response_locked.
LEMMA AfterStrikeIs ==
  ASSUME NEW d, NEW threshold \in Nat, NEW window \in Nat, Strikes(d, threshold, window),
         NEW now \in Nat,
         NEW ip \in IPs
  PROVE  Strikes(AfterStrike(d, ip, now, threshold, window), threshold, window)
  <1>1. PICK p : p = Push(d, ip, now, window)
    OBVIOUS
  <1>2. /\ Map(Stamps, p) /\ Len(p) <= MaxTracked /\ ip \in Keys(p)
        /\ \A a \in Keys(p) \ {ip} : a \in Keys(d) /\ Lookup(p, a, <<>>) = Lookup(d, a, <<>>)
    <2>1. Map(Stamps, d) /\ Len(d) <= MaxTracked
      BY DEF Strikes
    <2>2. ip \in IPs /\ now \in Nat /\ window \in Nat
      OBVIOUS
    <2>. QED
      BY ONLY <1>1, <2>1, <2>2, PushIs
  <1>3. PICK e : e = AfterStrike(d, ip, now, threshold, window)
    OBVIOUS
  <1>4. CASE ~CountsStrikes(threshold, window)
    BY <1>4 DEF AfterStrike
  <1>5. CASE CountsStrikes(threshold, window)
    <2>0. threshold > 0
      BY <1>5 DEF CountsStrikes
    <2>1. ASSUME NEW a \in IPs, a # ip PROVE Len(Lookup(p, a, <<>>)) < threshold
      <3>1. CASE a \in Keys(p)
        BY <1>2, <1>5, <2>1, <3>1 DEF Strikes
      <3>2. CASE a \notin Keys(p)
        <4>1. Lookup(p, a, <<>>) = <<>>
          BY <3>2 DEF Lookup
        <4>. QED
          BY <2>0, <4>1
      <3>. QED
        BY <3>1, <3>2
    <2>2. CASE Struck(d, ip, now, threshold, window)
      <3>1. e = Without(p, ip)
        BY <1>1, <1>3, <1>5, <2>2 DEF AfterStrike
      <3>2. Map(Stamps, e) /\ PartOf(e, p) /\ ip \notin Keys(e) /\ Len(e) <= Len(p)
        BY <1>2, <3>1, WithoutIs
      <3>3. Len(e) <= MaxTracked
        <4>1. Len(e) \in Nat /\ Len(p) \in Nat
          BY <1>2, <3>2 DEF Map, Entries
        <4>2. MaxTracked \in Nat
          BY PolicyConstants DEF PolicyConstants
        <4>. QED
          BY <1>2, <3>2, <4>1, <4>2
      <3>4. ASSUME NEW a \in IPs PROVE Len(Lookup(e, a, <<>>)) < threshold
        <4>1. CASE a \in Keys(e)
          BY <2>1, <3>2, <4>1 DEF PartOf
        <4>2. CASE a \notin Keys(e)
          <5>1. Lookup(e, a, <<>>) = <<>>
            BY <4>2 DEF Lookup
          <5>. QED
            BY <2>0, <5>1
        <4>. QED
          BY <4>1, <4>2
      <3>. QED
        BY <1>3, <3>2, <3>3, <3>4 DEF Strikes
    <2>3. CASE ~Struck(d, ip, now, threshold, window)
      <3>1. e = p
        BY <1>1, <1>3, <1>5, <2>3 DEF AfterStrike
      <3>2. ~(Len(Lookup(p, ip, <<>>)) >= threshold)
        BY <1>1, <1>5, <2>3 DEF Struck, TooMany
      <3>3. Len(Lookup(p, ip, <<>>)) \in Nat
        BY <1>2, ValueLooked
      <3>4. Len(Lookup(p, ip, <<>>)) < threshold
        BY <3>2, <3>3
      <3>5. \A a \in IPs : Len(Lookup(p, a, <<>>)) < threshold
        BY <2>1, <3>4
      <3>. QED
        BY <1>2, <1>3, <3>1, <3>5 DEF Strikes
    <2>. QED
      BY <2>2, <2>3
  <1>. QED
    BY <1>4, <1>5

-----------------------------------------------------------------------------
(* The blocks that a call leaves. *)

LEMMA SweptBlocksKept ==
  ASSUME MapsOK, NEW now \in Nat, NEW ip
  PROVE  /\ BlocksKept(SweptBlocks(now), now, ip)
         /\ PartOf(SweptBlocks(now), blocks)
         /\ \A a : \/ Lookup(SweptBlocks(now), a, 0) = Lookup(blocks, a, 0)
                   \/ (Lookup(SweptBlocks(now), a, 0) = 0 /\ Lookup(blocks, a, 0) <= now)
  <1>1. PICK b : b = SweptBlocks(now)
    OBVIOUS
  <1>2. Map(Nat, blocks) /\ Len(blocks) <= MaxBlocks
    BY DEF MapsOK
  <1>3. \A a : Lookup(blocks, a, 0) \in Nat
    <2>1. \A a : Lookup(blocks, a, 0) \in Nat \cup {0}
      BY <1>2, LookupIs
    <2>. QED
      BY <2>1
  <1>4. CASE Sweeps(now)
    <2>1. b = Unexpired(blocks, now)
      BY <1>1, <1>4 DEF SweptBlocks
    <2>2. /\ Map(Nat, b) /\ Len(b) <= Len(blocks) /\ PartOf(b, blocks)
          /\ \A k : Lookup(b, k, 0) = IF Lookup(blocks, k, 0) > now THEN Lookup(blocks, k, 0) ELSE 0
      BY <1>2, <2>1, UnexpiredIs
    <2>3. Len(b) <= MaxBlocks
      <3>1. Len(b) \in Nat /\ Len(blocks) \in Nat
        BY <1>2, <2>2 DEF Map, Entries
      <3>2. MaxBlocks \in Nat
        BY PolicyConstants DEF PolicyConstants
      <3>. QED
        BY <1>2, <2>2, <3>1, <3>2
    <2>4. \A a :
            Lookup(b, a, 0) = Lookup(blocks, a, 0) \/ (Lookup(b, a, 0) = 0 /\ Lookup(blocks, a, 0) <= now)
      BY <1>3, <2>2
    <2>5. \A a : Lookup(blocks, a, 0) <= now \/ Lookup(blocks, a, 0) <= Lookup(b, a, 0)
      BY <1>3, <2>4
    <2>. QED
      BY <1>1, <2>2, <2>3, <2>4, <2>5 DEF BlocksKept
  <1>5. CASE ~Sweeps(now)
    <2>1. b = blocks
      BY <1>1, <1>5 DEF SweptBlocks
    <2>2. \A a : Lookup(blocks, a, 0) <= Lookup(b, a, 0)
      BY <1>3, <2>1
    <2>3. PartOf(b, blocks)
      BY <2>1 DEF PartOf
    <2>. QED
      BY <1>1, <1>2, <2>1, <2>2, <2>3 DEF BlocksKept
  <1>. QED
    BY <1>4, <1>5

LEMMA SeenBlocksKept ==
  ASSUME MapsOK, NEW now \in Nat, NEW ip
  PROVE  BlocksKept(BlocksSeen(ip, now), now, ip)
  <1>1. PICK s : s = SweptBlocks(now)
    OBVIOUS
  <1>2. /\ BlocksKept(s, now, ip)
        /\ \A a :
             Lookup(s, a, 0) = Lookup(blocks, a, 0) \/ (Lookup(s, a, 0) = 0 /\ Lookup(blocks, a, 0) <= now)
    BY <1>1, SweptBlocksKept
  <1>3. CASE ActivelyBlocked(ip, now)
    BY <1>1, <1>2, <1>3 DEF BlocksSeen
  <1>4. CASE ~ActivelyBlocked(ip, now)
    <2>1. PICK b : b = BlocksSeen(ip, now) /\ b = Without(s, ip)
      BY <1>1, <1>4 DEF BlocksSeen
    <2>2. Map(Nat, s) /\ Len(s) <= MaxBlocks
      BY <1>2 DEF BlocksKept
    <2>3. Map(Nat, b) /\ PartOf(b, s) /\ ip \notin Keys(b) /\ Len(b) <= Len(s)
      BY <2>1, <2>2, WithoutIs
    <2>4. Len(b) <= MaxBlocks
      <3>1. Len(b) \in Nat /\ Len(s) \in Nat
        BY <2>2, <2>3 DEF Map, Entries
      <3>2. MaxBlocks \in Nat
        BY PolicyConstants DEF PolicyConstants
      <3>. QED
        BY <2>2, <2>3, <3>1, <3>2
    <2>5. ASSUME NEW a \in Keys(b)
          PROVE Lookup(blocks, a, 0) <= now \/ Lookup(blocks, a, 0) <= Lookup(b, a, 0)
      <3>1. a \in Keys(s) /\ Lookup(b, a, 0) = Lookup(s, a, 0)
        BY <2>3 DEF PartOf
      <3>. QED
        BY <1>2, <3>1 DEF BlocksKept
    <2>6. Lookup(blocks, ip, 0) <= now
      <3>1. ~(Lookup(s, ip, 0) > now)
        BY <1>1, <1>4 DEF ActivelyBlocked
      <3>2. Lookup(s, ip, 0) \in Nat \cup {0}
        BY <2>2, LookupIs
      <3>3. Lookup(s, ip, 0) <= now
        BY <3>1, <3>2
      <3>. QED
        BY <1>2, <3>3
    <2>. QED
      BY <2>1, <2>3, <2>4, <2>5, <2>6 DEF BlocksKept
  <1>. QED
    BY <1>3, <1>4

LEMMA BlockKeeps ==
  ASSUME NEW b, NEW now \in Nat, NEW ip \in IPs, BlocksKept(b, now, ip), NEW duration \in Nat,
         MapsOK
  PROVE  BlocksKept(Block(b, ip, now, duration), now, ip)
  <1>1. PICK e : e = Block(b, ip, now, duration)
    OBVIOUS
  <1>2. Map(Nat, b) /\ Len(b) <= MaxBlocks
    BY DEF BlocksKept
  <1>3. /\ Map(Nat, e) /\ Len(e) <= MaxBlocks /\ ip \in Keys(e)
        /\ Lookup(e, ip, 0) >= Lookup(b, ip, 0)
        /\ \A a \in Keys(e) \ {ip} : a \in Keys(b) /\ Lookup(e, a, 0) = Lookup(b, a, 0)
    BY <1>1, <1>2, BlockIs
  <1>4. ASSUME NEW a \in Keys(e) \cup {ip}
        PROVE  Lookup(blocks, a, 0) <= now \/ Lookup(blocks, a, 0) <= Lookup(e, a, 0)
    <2>1. CASE a = ip
      <3>1. Lookup(blocks, ip, 0) <= now \/ Lookup(blocks, ip, 0) <= Lookup(b, ip, 0)
        BY DEF BlocksKept
      <3>2. Lookup(b, ip, 0) \in Nat \cup {0} /\ Lookup(e, ip, 0) \in Nat \cup {0}
        BY <1>2, <1>3, LookupIs
      <3>3. Lookup(blocks, ip, 0) \in Nat \cup {0}
        BY LookupIs DEF MapsOK
      <3>4. Lookup(e, ip, 0) >= Lookup(b, ip, 0)
        BY <1>3
      <3>. QED
        BY <2>1, <3>1, <3>2, <3>3, <3>4
    <2>2. CASE a # ip
      <3>1. a \in Keys(b) /\ Lookup(e, a, 0) = Lookup(b, a, 0)
        BY <1>3, <2>2
      <3>. QED
        BY <3>1 DEF BlocksKept
    <2>. QED
      BY <2>1, <2>2
  <1>. QED
    BY <1>1, <1>3, <1>4 DEF BlocksKept

-----------------------------------------------------------------------------
(* The admissions of the latest window. *)

LEMMA Lengthened ==
  ASSUME NEW rows \in Seq(Nat), NEW now \in Nat
  PROVE  Append(rows, now) \in Seq(Nat)
  OBVIOUS

\* The stamps of the window that ends at the newest.
LEMMA RecentIs ==
  ASSUME NEW stamps \in Seq(Nat), NEW newest \in Nat
  PROVE  /\ Recent(stamps, newest) \in Seq(Nat) /\ Embeds(Recent(stamps, newest), stamps)
         /\ \A x \in Range(Recent(stamps, newest)) : x \in Nat /\ x > newest - RateWindow
  <1>1. PICK K : K = {s \in Nat : s > newest - RateWindow}
    OBVIOUS
  <1>2. Recent(stamps, newest) = Kept(stamps, K)
    BY <1>1 DEF Recent
  <1>. QED
    BY <1>1, <1>2, KeptIs

\* A call may be late: what its own window keeps has all of the newest window.
LEMMA WindowOf ==
  ASSUME NEW e \in Seq(Nat), NEW newest \in Nat, NEW now \in Nat, now <= newest,
         \A x \in Range(e) : x \in Nat /\ x > newest - RateWindow
  PROVE  now - RateWindow \in Int /\ \A x \in Range(e) : x > now - RateWindow
  <1>1. RateWindow \in Nat
    BY PolicyConstants DEF PolicyConstants
  <1>2. \A x \in Range(e) : x > now - RateWindow
    BY <1>1
  <1>. QED
    BY <1>1, <1>2

\* After a sweep a client's recent admissions are still among its events, and
\* so they are when the call's own event is added to both.
LEMMA SweptCounts ==
  ASSUME Map(Stamps, requests), Len(requests) <= MaxTracked, NEW now \in Nat, RateWindow > 0
  PROVE  LET d == SweptRequests(now)
         IN  /\ Map(Stamps, d) /\ Len(d) <= MaxTracked
             /\ \A k : \/ Lookup(d, k, <<>>) = Lookup(requests, k, <<>>)
                       \/ Lookup(d, k, <<>>) = Trim(Lookup(requests, k, <<>>), now - RateWindow)
  <1>1. RateWindow \in Nat
    BY PolicyConstants DEF PolicyConstants
  <1>2. PICK p : p = Pruned(requests, now, RateWindow)
    OBVIOUS
  <1>3. /\ Map(Stamps, p) /\ Len(p) <= Len(requests)
        /\ \A k : Lookup(p, k, <<>>) = Trim(Lookup(requests, k, <<>>), now - RateWindow)
    BY <1>1, <1>2, PrunedIs
  <1>4. Len(p) <= MaxTracked
    <2>1. Len(p) \in Nat /\ Len(requests) \in Nat
      BY <1>3 DEF Map, Entries
    <2>2. MaxTracked \in Nat
      BY PolicyConstants DEF PolicyConstants
    <2>. QED
      BY <1>3, <2>1, <2>2
  <1>. QED
    BY <1>2, <1>3, <1>4 DEF SweptRequests, SweptEvents

\* The same without the limit: the map stays one.
LEMMA SweptIs ==
  ASSUME Map(Stamps, requests), Len(requests) <= MaxTracked, NEW now \in Nat
  PROVE  Map(Stamps, SweptRequests(now)) /\ Len(SweptRequests(now)) <= MaxTracked
  <1>1. RateWindow \in Nat
    BY PolicyConstants DEF PolicyConstants
  <1>2. PICK p : p = Pruned(requests, now, RateWindow)
    OBVIOUS
  <1>3. Map(Stamps, p) /\ Len(p) <= Len(requests)
    BY <1>1, <1>2, PrunedIs
  <1>4. Len(p) <= MaxTracked
    <2>1. Len(p) \in Nat /\ Len(requests) \in Nat
      BY <1>3 DEF Map, Entries
    <2>2. MaxTracked \in Nat
      BY PolicyConstants DEF PolicyConstants
    <2>. QED
      BY <1>3, <2>1, <2>2
  <1>. QED
    BY <1>2, <1>3, <1>4 DEF SweptRequests, SweptEvents

LEMMA StillCounted ==
  ASSUME Map(Stamps, requests), Len(requests) <= MaxTracked, NEW now \in Nat, RateWindow > 0,
         NEW newest \in Nat, now <= newest, NEW a, NEW adm \in Seq(Nat),
         Embeds(adm, Lookup(requests, a, <<>>))
  PROVE  /\ Embeds(Recent(adm, newest), Lookup(SweptRequests(now), a, <<>>))
         /\ Embeds(Recent(adm, newest), Trim(Append(Lookup(SweptRequests(now), a, <<>>), now), now - RateWindow))
         /\ Embeds(Recent(Append(adm, now), newest),
                   Trim(Append(Lookup(SweptRequests(now), a, <<>>), now), now - RateWindow))
  <1>1. PICK rows \in Seq(Nat) : rows = Lookup(requests, a, <<>>)
    BY ValueLooked
  <1>2. PICK swept \in Seq(Nat) : swept = Lookup(SweptRequests(now), a, <<>>)
    BY SweptCounts, ValueLooked
  <1>3. PICK edge \in Int : edge = now - RateWindow
    <2>1. RateWindow \in Nat
      BY PolicyConstants DEF PolicyConstants
    <2>. QED
      BY <2>1
  <1>4. swept = rows \/ swept = Trim(rows, edge)
    BY <1>1, <1>2, <1>3, SweptCounts
  <1>5. PICK old \in Seq(Nat) : old = Recent(adm, newest) /\ Embeds(old, adm)
          /\ \A x \in Range(old) : x > edge
    BY <1>3, RecentIs, WindowOf
  <1>6. PICK longer \in Seq(Nat) : longer = Append(adm, now)
    BY Lengthened
  <1>7. PICK new \in Seq(Nat) : new = Recent(longer, newest) /\ Embeds(new, longer)
          /\ \A x \in Range(new) : x > edge
    BY <1>3, <1>6, RecentIs, WindowOf
  <1>8. Embeds(old, rows)
    BY <1>1, <1>5, EmbedsOn
  <1>9. Embeds(old, swept)
    BY <1>4, <1>5, <1>8, TrimIs
  <1>10. PICK pushed \in Seq(Nat) : pushed = Append(swept, now)
    BY Lengthened
  <1>11. Embeds(old, pushed)
    BY <1>9, <1>10, EmbedsAppend
  <1>12. Embeds(old, Trim(pushed, edge))
    BY <1>5, <1>11, TrimIs
  <1>13. PICK whole \in Seq(Nat) : whole = Append(rows, now)
    BY Lengthened
  <1>14. Embeds(longer, whole)
    BY <1>1, <1>6, <1>13, EmbedsAppend
  <1>15. Embeds(new, whole)
    BY <1>7, <1>14, EmbedsOn
  <1>16. Embeds(new, pushed)
    BY <1>4, <1>7, <1>10, <1>13, <1>15, TrimAppend
  <1>17. Embeds(new, Trim(pushed, edge))
    BY <1>7, <1>16, TrimIs
  <1>. QED
    BY <1>2, <1>3, <1>5, <1>6, <1>7, <1>9, <1>10, <1>12, <1>17

\* What a locked call records of a client's admissions.
Recorded(a, ip, now, newest, admission, req) ==
  IF a \in Keys(SweptRequests(now)) \ Keys(req) THEN <<>>
  ELSE Recent(IF admission /\ a = ip THEN Append(admitted[a], now) ELSE admitted[a], newest)

\* It keeps count of them.
LEMMA RecordedCounts ==
  ASSUME Map(Stamps, requests), Len(requests) <= MaxTracked, admitted \in [IPs -> Seq(Nat)],
         Counted(admitted, requests), RateLimit > 0, RateWindow > 0,
         NEW now \in Nat, NEW newest \in Nat, now <= newest, NEW ip \in IPs, NEW admission \in BOOLEAN,
         NEW pushed, pushed = Push(SweptRequests(now), ip, now, RateWindow),
         NEW req, req = SweptRequests(now) \/ req = pushed,
         admission => (req = pushed /\ ~(Len(Lookup(pushed, ip, <<>>)) > RateLimit)),
         NEW a \in IPs
  PROVE  LET r == Recorded(a, ip, now, newest, admission, req)
         IN  r \in Seq(Nat) /\ Embeds(r, Lookup(req, a, <<>>)) /\ Len(r) <= RateLimit
  <1>0. RateWindow \in Nat /\ RateLimit \in Nat
    BY PolicyConstants DEF PolicyConstants
  <1>1. PICK d : d = SweptRequests(now)
    OBVIOUS
  <1>2. Map(Stamps, d) /\ Len(d) <= MaxTracked
    BY <1>1, SweptCounts
  <1>3. /\ Map(Stamps, pushed) /\ Len(pushed) <= MaxTracked /\ ip \in Keys(pushed)
        /\ Lookup(pushed, ip, <<>>) = Trim(Append(Lookup(d, ip, <<>>), now), now - RateWindow)
        /\ \A k \in Keys(pushed) \ {ip} : k \in Keys(d) /\ Lookup(pushed, k, <<>>) = Lookup(d, k, <<>>)
    <2>1. PICK e : e = Push(d, ip, now, RateWindow)
      OBVIOUS
    <2>2. /\ Map(Stamps, e) /\ Len(e) <= MaxTracked /\ ip \in Keys(e)
          /\ Lookup(e, ip, <<>>) = Trim(Append(Lookup(d, ip, <<>>), now), now - RateWindow)
          /\ \A k \in Keys(e) \ {ip} : k \in Keys(d) /\ Lookup(e, k, <<>>) = Lookup(d, k, <<>>)
      BY ONLY ip \in IPs, now \in Nat, <1>0, <1>2, <2>1, PushIs
    <2>3. pushed = e
      BY <1>1, <2>1
    <2>. QED
      BY <2>2, <2>3
  <1>4. PICK adm \in Seq(Nat) : adm = admitted[a]
    OBVIOUS
  <1>5. Embeds(adm, Lookup(requests, a, <<>>)) /\ Len(adm) <= RateLimit
    BY <1>4 DEF Counted
  <1>6. PICK r : r = Recorded(a, ip, now, newest, admission, req)
    OBVIOUS
  <1>7. PICK old \in Seq(Nat) : old = Recent(adm, newest) /\ Embeds(old, adm)
    BY RecentIs
  <1>8. PICK new \in Seq(Nat) : new = Recent(Append(adm, now), newest)
    <2>1. Append(adm, now) \in Seq(Nat)
      BY Lengthened
    <2>. QED
      BY <2>1, RecentIs
  <1>9. Embeds(old, Lookup(d, a, <<>>))
    BY <1>1, <1>5, <1>7, StillCounted
  <1>10. Embeds(old, Trim(Append(Lookup(d, a, <<>>), now), now - RateWindow))
    BY <1>1, <1>5, <1>7, StillCounted
  <1>11. Embeds(new, Trim(Append(Lookup(d, a, <<>>), now), now - RateWindow))
    BY <1>1, <1>5, <1>8, StillCounted
  <1>12. Len(old) <= RateLimit
    <2>1. Len(old) <= Len(adm)
      BY <1>7, EmbedsLen
    <2>2. Len(old) \in Nat /\ Len(adm) \in Nat
      OBVIOUS
    <2>. QED
      BY <1>0, <1>5, <2>1, <2>2
  <1>13. PICK rows \in Seq(Nat) : rows = Lookup(req, a, <<>>)
    BY <1>1, <1>2, <1>3, ValueLooked
  <1>14. CASE a \in Keys(d) \ Keys(req)
    <2>1. r = <<>>
      BY <1>1, <1>6, <1>14 DEF Recorded
    <2>2. <<>> \in Seq(Nat) /\ Len(<<>>) = 0 /\ Embeds(<<>>, rows)
      BY EmbedsSame
    <2>. QED
      BY <1>6, <1>0, <1>13, <2>1, <2>2
  <1>15. CASE a \notin Keys(d) \ Keys(req) /\ admission /\ a = ip
    <2>1. r = new
      BY <1>1, <1>4, <1>6, <1>8, <1>15 DEF Recorded
    <2>2. rows = Trim(Append(Lookup(d, a, <<>>), now), now - RateWindow) /\ ~(Len(rows) > RateLimit)
      BY <1>3, <1>13, <1>15
    <2>3. Embeds(new, rows)
      BY <1>11, <2>2
    <2>4. Len(new) <= Len(rows)
      BY <2>3, EmbedsLen
    <2>5. Len(new) \in Nat /\ Len(rows) \in Nat
      OBVIOUS
    <2>6. Len(new) <= RateLimit
      BY <1>0, <2>2, <2>4, <2>5
    <2>. QED
      BY <1>6, <1>13, <2>1, <2>3, <2>6
  <1>16. CASE a \notin Keys(d) \ Keys(req) /\ ~(admission /\ a = ip)
    <2>1. r = old
      BY <1>1, <1>4, <1>6, <1>7, <1>16 DEF Recorded
    <2>2. Embeds(old, rows)
      <3>1. CASE req = d
        BY <1>9, <1>13, <3>1
      <3>2. CASE req = pushed /\ a = ip
        BY <1>3, <1>10, <1>13, <3>2
      <3>3. CASE req = pushed /\ a # ip
        <4>1. CASE a \in Keys(pushed)
          BY <1>3, <1>9, <1>13, <3>3, <4>1
        <4>2. CASE a \notin Keys(pushed)
          <5>1. a \notin Keys(d)
            BY <1>16, <3>3, <4>2
          <5>2. Lookup(pushed, a, <<>>) = Lookup(d, a, <<>>)
            BY <4>2, <5>1 DEF Lookup
          <5>. QED
            BY <1>9, <1>13, <3>3, <5>2
        <4>. QED
          BY <4>1, <4>2
      <3>. QED
        BY <1>1, <3>1, <3>2, <3>3
    <2>. QED
      BY <1>6, <1>12, <1>13, <2>1, <2>2
  <1>. QED
    BY <1>14, <1>15, <1>16

-----------------------------------------------------------------------------
(* What every call under the lock keeps. *)

\* What a thread is about to do.
LEMMA CallIs ==
  ASSUME call \in [Threads -> Calls(clock)], NEW th \in Threads
  PROVE  /\ call[th].op \in {"evaluate", "block", "observe"} =>
              call[th].ip \in IPs /\ call[th].now \in 0..clock
         /\ call[th].op = "snapshot" => call[th].now \in 0..clock
         /\ call[th].op \in {"allowed", "denied"} => call[th].ip \in IPs
  <1>1. PICK c \in Calls(clock) : c = call[th]
    OBVIOUS
  <1>2. \/ c = Idle
        \/ c \in [op : {"evaluate", "block", "observe"}, ip : IPs, now : 0..clock]
        \/ c \in [op : {"snapshot"}, ip : {"nobody"}, now : 0..clock]
        \/ c \in [op : {"allowed", "denied"}, ip : IPs]
    BY DEF Calls
  <1>3. CASE c = Idle
    BY <1>1, <1>3 DEF Idle
  <1>4. CASE c \in [op : {"evaluate", "block", "observe"}, ip : IPs, now : 0..clock]
    BY <1>1, <1>4
  <1>5. CASE c \in [op : {"snapshot"}, ip : {"nobody"}, now : 0..clock]
    BY <1>1, <1>5
  <1>6. CASE c \in [op : {"allowed", "denied"}, ip : IPs]
    BY <1>1, <1>6
  <1>. QED
    BY <1>2, <1>3, <1>4, <1>5, <1>6

LEMMA MoreTime ==
  ASSUME NEW c, NEW s \in Nat, NEW t \in Nat, s <= t, c \in [Threads -> Calls(s)]
  PROVE  c \in [Threads -> Calls(t)]
  <1>1. 0..s \subseteq 0..t
    OBVIOUS
  <1>2. [op : {"evaluate", "block", "observe"}, ip : IPs, now : 0..s] \subseteq
        [op : {"evaluate", "block", "observe"}, ip : IPs, now : 0..t]
    BY <1>1
  <1>3. [op : {"snapshot"}, ip : {"nobody"}, now : 0..s]
          \subseteq [op : {"snapshot"}, ip : {"nobody"}, now : 0..t]
    BY <1>1
  <1>4. Calls(s) \subseteq Calls(t)
    BY <1>2, <1>3 DEF Calls
  <1>. QED
    BY <1>4

LEMMA CallMoves ==
  ASSUME NEW c, NEW t, c \in [Threads -> Calls(t)], NEW th \in Threads, NEW next \in Calls(t)
  PROVE  [c EXCEPT ![th] = next] \in [Threads -> Calls(t)]
  OBVIOUS

\* The invariant in the terms of the lemmas.
LEMMA MapsAre ==
  ASSUME PolicyInv
  PROVE  MapsOK
  <1>1. Map(Stamps, requests) /\ Map(Stamps, violations) /\ Map(Stamps, suspicious) /\ Map(Nat, blocks)
    BY DEF PolicyInv, PolicyTypeOK, MapsWithinBounds, Bounded, Map, Stamps
  <1>2. /\ Len(requests) <= MaxTracked /\ Len(violations) <= MaxTracked
        /\ Len(suspicious) <= MaxTracked /\ Len(blocks) <= MaxBlocks
    BY DEF PolicyInv, MapsWithinBounds, Bounded
  <1>3. Strikes(violations, ViolationThreshold, ViolationWindow)
    BY <1>1, <1>2 DEF PolicyInv, MapsWithinBounds, Strikes
  <1>4. Strikes(suspicious, SuspiciousThreshold, SuspiciousWindow)
    BY <1>1, <1>2 DEF PolicyInv, MapsWithinBounds, Strikes
  <1>. QED
    BY <1>1, <1>2, <1>3, <1>4 DEF MapsOK

\* The rest of the types.
RestTyped ==
  /\ clock \in 0..MaxClock /\ calls \in 0..MaxCalls /\ latest \in 0..clock
  /\ call \in [Threads -> Calls(clock)]
  /\ nextSweep \in 0..(clock + SweepInterval)
  /\ white \subseteq Listable /\ black \subseteq Listable
  /\ admitted \in [IPs -> Seq(Nat)] /\ banned \in [IPs -> Nat]
  /\ letGo \in [IPs -> Nat] /\ lost \in [IPs -> Nat]

LEMMA RestIs ==
  ASSUME PolicyInv
  PROVE  RestTyped
  BY DEF PolicyInv, PolicyTypeOK, RestTyped

LEMMA MapsMake ==
  ASSUME RestTyped', MapsOK', AdmissionsKept', LossesBounded', BansKept'
  PROVE  PolicyInv'
  <1>1. /\ requests' \in Entries(Seq(Nat)) /\ violations' \in Entries(Seq(Nat))
        /\ suspicious' \in Entries(Seq(Nat)) /\ blocks' \in Entries(Nat)
    BY DEF MapsOK, Strikes, Map, Stamps
  <1>2. PolicyTypeOK'
    BY <1>1 DEF PolicyTypeOK, RestTyped
  <1>3. /\ Bounded(requests, MaxTracked)' /\ Bounded(violations, MaxTracked)'
        /\ Bounded(suspicious, MaxTracked)' /\ Bounded(blocks, MaxBlocks)'
    BY DEF MapsOK, Strikes, Map, Bounded
  <1>4. MapsWithinBounds'
    BY <1>3 DEF MapsWithinBounds, MapsOK, Strikes
  <1>. QED
    BY <1>2, <1>4 DEF PolicyInv

\* A block that is due is not cut short, and one that was lifted is no longer
\* announced.
LEMMA BansLeft ==
  ASSUME MapsOK, RestTyped, BansKept, NEW now \in Nat, NEW ip \in IPs, NEW blk,
         BlocksKept(blk, now, ip),
         NEW newest \in Nat, newest >= now, newest >= latest,
         NEW a \in IPs,
         NEW until, until = IF a \in Keys(Unexpired(blocks, now)) \ Keys(blk) THEN 0
                            ELSE Larger(banned[a], Lookup(blk, a, 0))
  PROVE  until \in Nat /\ (until <= newest \/ until <= Lookup(blk, a, 0))
  <1>1. PICK old : old = Lookup(blocks, a, 0)
    OBVIOUS
  <1>2. PICK new : new = Lookup(blk, a, 0)
    OBVIOUS
  <1>3. old \in Nat \cup {0}
    BY <1>1, LookupIs DEF MapsOK
  <1>4. new \in Nat \cup {0}
    BY <1>2, LookupIs DEF BlocksKept
  <1>5. PICK b \in Nat : b = banned[a]
    BY DEF RestTyped
  <1>6. b <= latest \/ b <= old
    BY <1>1, <1>5 DEF BansKept
  <1>7. latest \in Nat
    BY DEF RestTyped
  <1>8. CASE a \in Keys(Unexpired(blocks, now)) \ Keys(blk)
    BY <1>8
  <1>9. CASE a \notin Keys(Unexpired(blocks, now)) \ Keys(blk)
    <2>1. until = Larger(b, new)
      BY <1>2, <1>5, <1>9
    <2>2. until \in Nat
      BY <1>4, <2>1 DEF Larger
    <2>3. b <= newest \/ b <= new
      <3>1. CASE b <= latest
        BY <1>7, <3>1
      <3>2. CASE b <= old /\ ~(old > now)
        BY <1>3, <3>2
      <3>3. CASE b <= old /\ old > now
        <4>1. a \in Keys(Unexpired(blocks, now))
          BY <1>1, <3>3, UnexpiredIs DEF MapsOK
        <4>2. a \in Keys(blk)
          BY <1>9, <4>1
        <4>3. old <= now \/ old <= new
          BY <1>1, <1>2, <4>2 DEF BlocksKept
        <4>. QED
          BY <1>3, <1>4, <3>3, <4>3
      <3>. QED
        BY <1>6, <3>1, <3>2, <3>3
    <2>. QED
      BY <1>2, <1>4, <2>1, <2>2, <2>3 DEF Larger
  <1>. QED
    BY <1>8, <1>9

\* What a call under the lock may leave.
Leaves(ip, now, next, req, vio, sus, blk) ==
  /\ next \in {Idle, [op |-> "allowed", ip |-> ip], [op |-> "denied", ip |-> ip]}
  /\ req \in {SweptRequests(now), Push(SweptRequests(now), ip, now, RateWindow)}
  /\ Strikes(vio, ViolationThreshold, ViolationWindow)
  /\ Strikes(sus, SuspiciousThreshold, SuspiciousWindow)
  /\ BlocksKept(blk, now, ip)
  /\ next.op = "allowed" /\ Limits(ip) =>
       /\ req = Push(SweptRequests(now), ip, now, RateWindow)
       /\ ~(Len(Lookup(req, ip, <<>>)) > RateLimit)

LEMMA LockedKeeps ==
  ASSUME PolicyInv, NEW th \in Threads, NEW ip \in IPs, NEW now \in 0..clock,
         ip = call[th].ip, now = call[th].now,
         NEW next, NEW req, NEW vio, NEW sus, NEW blk, Leaves(ip, now, next, req, vio, sus, blk),
         Locked(th, next, req, vio, sus, blk)
  PROVE  PolicyInv'
  <1>1. MapsOK /\ RestTyped /\ AdmissionsKept /\ LossesBounded /\ BansKept
    BY MapsAre, RestIs DEF PolicyInv
  <1>2. clock \in Nat /\ now \in Nat /\ latest \in Nat /\ latest <= clock /\ now <= clock
    BY <1>1 DEF RestTyped
  <1>3. PICK newest \in 0..clock : newest = Larger(now, latest) /\ newest >= now /\ newest >= latest
    BY <1>2 DEF Larger
  <1>4. PICK pushed : pushed = Push(SweptRequests(now), ip, now, RateWindow)
    OBVIOUS
  <1>5. Map(Stamps, requests) /\ Len(requests) <= MaxTracked
    BY <1>1 DEF MapsOK
  <1>6. Map(Stamps, SweptRequests(now)) /\ Len(SweptRequests(now)) <= MaxTracked
    BY <1>2, <1>5, SweptIs
  <1>7. Map(Stamps, pushed) /\ Len(pushed) <= MaxTracked
    <2>1. RateWindow \in Nat
      BY PolicyConstants DEF PolicyConstants
    <2>. QED
      BY <1>2, <1>4, <1>6, <2>1, PushIs
  <1>8. Map(Stamps, req) /\ Len(req) <= MaxTracked
    BY <1>4, <1>6, <1>7 DEF Leaves
  <1>9. MapsOK'
    <2>1. requests' = req /\ violations' = vio /\ suspicious' = sus /\ blocks' = blk
      BY DEF Locked
    <2>. QED
      BY <1>8, <2>1 DEF MapsOK, Leaves, BlocksKept, Strikes, Stamps, Map
  <1>10. PICK admission \in BOOLEAN : admission = (next.op = "allowed" /\ ~Bypasses(next.ip))
    OBVIOUS
  <1>11. admission => ~Bypasses(ip) /\ next.ip = ip /\ next.op = "allowed"
    <2>1. next = Idle \/ next = [op |-> "allowed", ip |-> ip] \/ next = [op |-> "denied", ip |-> ip]
      BY DEF Leaves
    <2>2. next.op = "allowed" => next.ip = ip
      BY <2>1 DEF Idle
    <2>3. admission => next.op = "allowed" /\ ~Bypasses(next.ip)
      BY <1>10
    <2>4. CASE next.ip = ip
      BY <2>2, <2>3, <2>4
    <2>5. CASE ~(next.op = "allowed")
      BY <2>3, <2>5
    <2>. QED
      BY <2>2, <2>4, <2>5
  <1>12. admitted' = [a \in IPs |-> Recorded(a, ip, now, newest, admission, req)]
    <2>1. ASSUME NEW a \in IPs
          PROVE  (IF admission /\ a = next.ip THEN Append(admitted[a], now) ELSE admitted[a])
                 = (IF admission /\ a = ip THEN Append(admitted[a], now) ELSE admitted[a])
      BY <1>11
    <2>2. admitted' = [a \in IPs |->
             IF a \in Keys(SweptRequests(now)) \ Keys(req) THEN <<>>
             ELSE Recent(IF admission /\ a = next.ip THEN Append(admitted[a], now) ELSE admitted[a], newest)]
      BY <1>3, <1>10 DEF Locked
    <2>. QED
      BY <2>1, <2>2 DEF Recorded
  <1>13. ASSUME NEW a \in IPs PROVE Recorded(a, ip, now, newest, admission, req) \in Seq(Nat)
    <2>1. PICK adm \in Seq(Nat) : adm = admitted[a]
      BY <1>1 DEF RestTyped
    <2>2. PICK longer \in Seq(Nat) : longer = Append(adm, now)
      BY <1>2, Lengthened
    <2>3. Recent(adm, newest) \in Seq(Nat) /\ Recent(longer, newest) \in Seq(Nat)
      BY <1>2, <1>3, RecentIs
    <2>4. <<>> \in Seq(Nat)
      OBVIOUS
    <2>. QED
      BY <2>1, <2>2, <2>3, <2>4 DEF Recorded
  <1>14. AdmissionsKept'
    <2> SUFFICES ASSUME RateLimit > 0, RateWindow > 0 PROVE Counted(admitted, requests)'
      BY DEF AdmissionsKept
    <2>1. Counted(admitted, requests)
      BY <1>1 DEF AdmissionsKept
    <2>2. admission => req = pushed /\ ~(Len(Lookup(pushed, ip, <<>>)) > RateLimit)
      BY <1>4, <1>11 DEF Leaves, Limits
    <2>3. req = SweptRequests(now) \/ req = pushed
      BY <1>4 DEF Leaves
    <2>4. ASSUME NEW a \in IPs
          PROVE  LET r == Recorded(a, ip, now, newest, admission, req)
                 IN  Embeds(r, Lookup(req, a, <<>>)) /\ Len(r) <= RateLimit
      <3>1. admitted \in [IPs -> Seq(Nat)] /\ newest \in Nat
        BY <1>1, <1>2, <1>3 DEF RestTyped
      <3>. QED
        BY <1>2, <1>3, <1>4, <1>5, <2>1, <2>2, <2>3, <3>1, RecordedCounts
    <2>5. requests' = req
      BY DEF Locked
    <2>6. \A a \in IPs : admitted'[a] = Recorded(a, ip, now, newest, admission, req)
      BY <1>12
    <2>. QED
      BY <2>4, <2>5, <2>6 DEF Counted
  <1>15. ASSUME NEW a \in IPs
         PROVE  banned'[a] \in Nat /\ (banned'[a] <= newest \/ banned'[a] <= Lookup(blk, a, 0))
    <2>1. PICK until : until = IF a \in Keys(Unexpired(blocks, now)) \ Keys(blk) THEN 0
                               ELSE Larger(banned[a], Lookup(blk, a, 0))
      OBVIOUS
    <2>2. banned'[a] = until
      BY <2>1 DEF Locked
    <2>3. BlocksKept(blk, now, ip)
      BY DEF Leaves
    <2>4. until \in Nat /\ (until <= newest \/ until <= Lookup(blk, a, 0))
      BY <1>1, <1>2, <1>3, <2>1, <2>3, BansLeft
    <2>. QED
      BY <2>2, <2>4
  <1>16. BansKept'
    <2>1. blocks' = blk /\ latest' = newest
      BY <1>3 DEF Locked
    <2>. QED
      BY <1>15, <2>1 DEF BansKept
  <1>18. ASSUME NEW a \in IPs
         PROVE  /\ letGo'[a] \in Nat /\ lost'[a] \in Nat
                /\ RateLimit > 0 /\ RateWindow > 0 => lost'[a] <= RateLimit * letGo'[a]
    <2>1. RateLimit \in Nat
      BY PolicyConstants DEF PolicyConstants
    <2>2. PICK n \in Nat, m \in Nat, k \in Nat : n = letGo[a] /\ m = lost[a] /\ k = Len(admitted[a])
      <3>1. PICK adm \in Seq(Nat) : adm = admitted[a]
        BY <1>1 DEF RestTyped
      <3>2. Len(adm) \in Nat
        OBVIOUS
      <3>. QED
        BY <1>1, <3>1, <3>2 DEF RestTyped
    <2>3. RateLimit > 0 /\ RateWindow > 0 => m <= RateLimit * n /\ k <= RateLimit
      BY <1>1, <2>2 DEF LossesBounded, AdmissionsKept, Counted
    <2>4. RateLimit * (n + 1) = RateLimit * n + RateLimit /\ RateLimit * n \in Nat
      BY <2>1
    <2>5. CASE a \in Keys(SweptRequests(now)) \ Keys(req)
      <3>1. letGo'[a] = n + 1 /\ lost'[a] = m + k
        BY <2>2, <2>5 DEF Locked
      <3>2. RateLimit > 0 /\ RateWindow > 0 => m + k <= RateLimit * (n + 1)
        BY <2>1, <2>3, <2>4
      <3>. QED
        BY <3>1, <3>2
    <2>6. CASE a \notin Keys(SweptRequests(now)) \ Keys(req)
      <3>1. letGo'[a] = n /\ lost'[a] = m
        BY <2>2, <2>6 DEF Locked
      <3>. QED
        BY <2>3, <3>1
    <2>. QED
      BY <2>5, <2>6
  <1>19. LossesBounded'
    BY <1>18 DEF LossesBounded
  <1>17. RestTyped'
    <2>1. next \in Calls(clock)
      BY DEF Leaves, Calls
    <2>2. call' \in [Threads -> Calls(clock)]
      <3>1. call \in [Threads -> Calls(clock)]
        BY <1>1 DEF RestTyped
      <3>2. call' = [call EXCEPT ![th] = next]
        BY DEF Locked
      <3>. QED
        BY <2>1, <3>1, <3>2, CallMoves
    <2>3. clock' = clock /\ calls' = calls /\ white' = white /\ black' = black /\ latest' = newest
      BY <1>3 DEF Locked
    <2>4. nextSweep' \in 0..(clock + SweepInterval)
      <3>1. SweepInterval \in Nat
        BY PolicyConstants DEF PolicyConstants
      <3>2. nextSweep' = nextSweep \/ nextSweep' = now + SweepInterval
        BY DEF Locked, AfterSweep
      <3>3. nextSweep \in 0..(clock + SweepInterval)
        BY <1>1 DEF RestTyped
      <3>. QED
        BY <1>2, <3>1, <3>2, <3>3
    <2>5. admitted' \in [IPs -> Seq(Nat)]
      BY <1>12, <1>13
    <2>6. banned' \in [IPs -> Nat]
      <3>1. banned' = [a \in IPs |-> banned'[a]]
        BY DEF Locked
      <3>. QED
        BY <1>15, <3>1
    <2>7. letGo' \in [IPs -> Nat] /\ lost' \in [IPs -> Nat]
      <3>1. letGo' = [a \in IPs |-> letGo'[a]] /\ lost' = [a \in IPs |-> lost'[a]]
        BY DEF Locked
      <3>. QED
        BY <1>18, <3>1
    <2>. QED
      BY <1>1, <1>3, <2>2, <2>3, <2>4, <2>5, <2>6, <2>7 DEF RestTyped
  <1>. QED
    BY <1>9, <1>14, <1>16, <1>17, <1>19, MapsMake

-----------------------------------------------------------------------------
(* Every action keeps it. *)

LEMMA PolicyStarts ==
  ASSUME PolicyInit
  PROVE  PolicyInv
  <1>1. /\ requests = <<>> /\ violations = <<>> /\ suspicious = <<>> /\ blocks = <<>>
        /\ clock = 0 /\ calls = 0 /\ latest = 0 /\ nextSweep = 0 /\ white = {} /\ black = {}
        /\ call = [th \in Threads |-> Idle] /\ admitted = [ip \in IPs |-> <<>>]
             /\ banned = [ip \in IPs |-> 0]
        /\ letGo = [ip \in IPs |-> 0] /\ lost = [ip \in IPs |-> 0]
    BY DEF PolicyInit
  <1>2. ASSUME NEW V, NEW d, d = <<>>, NEW max \in Nat
        PROVE  /\ d \in Entries(V) /\ Bounded(d, max)
               /\ \A k, default : Lookup(d, k, default) = default
    <2>1. d \in Entries(V) /\ Len(d) = 0 /\ DOMAIN d = {}
      BY <1>2 DEF Entries
    <2>2. Keys(d) = {} /\ OneEach(d)
      BY <2>1 DEF Keys, OneEach
    <2>. QED
      BY <2>1, <2>2 DEF Bounded, Lookup
  <1>3. MaxTracked \in Nat /\ MaxBlocks \in Nat /\ RateLimit \in Nat /\ SweepInterval \in Nat
        /\ MaxClock \in Nat /\ MaxCalls \in Nat
    BY PolicyConstants DEF PolicyConstants
  <1>4. <<>> \in Seq(Nat) /\ Len(<<>>) = 0
    OBVIOUS
  <1>5. PolicyTypeOK
    <2>1. call \in [Threads -> Calls(clock)]
      BY <1>1 DEF Calls
    <2>2. /\ admitted \in [IPs -> Seq(Nat)] /\ banned \in [IPs -> Nat]
          /\ letGo \in [IPs -> Nat] /\ lost \in [IPs -> Nat]
      BY <1>1, <1>4
    <2>. QED
      BY <1>1, <1>2, <1>3, <2>1, <2>2 DEF PolicyTypeOK
  <1>6. MapsWithinBounds
    <2>1. /\ Bounded(requests, MaxTracked) /\ Bounded(violations, MaxTracked)
          /\ Bounded(suspicious, MaxTracked) /\ Bounded(blocks, MaxBlocks)
      BY <1>1, <1>2, <1>3
    <2>2. \A ip \in IPs : Len(Lookup(violations, ip, <<>>)) = 0 /\ Len(Lookup(suspicious, ip, <<>>)) = 0
      BY <1>1, <1>2, <1>3, <1>4
    <2>. QED
      BY <2>1, <2>2 DEF MapsWithinBounds, CountsStrikes
  <1>7. AdmissionsKept
    <2>1. Embeds(<<>>, <<>>)
      BY <1>4, EmbedsSame
    <2>2. \A ip \in IPs : admitted[ip] = <<>> /\ Lookup(requests, ip, <<>>) = <<>>
      BY <1>1, <1>2, <1>3
    <2>. QED
      BY <1>3, <1>4, <2>1, <2>2 DEF AdmissionsKept, Counted
  <1>8. BansKept
    BY <1>1 DEF BansKept
  <1>9. LossesBounded
    <2>1. RateLimit * 0 = 0
      BY <1>3
    <2>. QED
      BY <1>1, <2>1 DEF LossesBounded
  <1>. QED
    BY <1>5, <1>6, <1>7, <1>8, <1>9 DEF PolicyInv

\* A step that leaves the maps and what they are held against.
LEMMA MapsUnchanged ==
  ASSUME PolicyInv,
         UNCHANGED <<requests, violations, suspicious, blocks, history>>, RestTyped'
  PROVE  PolicyInv'
  <1>1. MapsOK'
    BY MapsAre DEF MapsOK
  <1>2. AdmissionsKept' /\ LossesBounded' /\ BansKept'
    BY DEF PolicyInv, AdmissionsKept, LossesBounded, BansKept, history
  <1>. QED
    BY <1>1, <1>2, MapsMake

LEMMA TickKeeps ==
  ASSUME PolicyInv, Tick
  PROVE  PolicyInv'
  <1>1. RestTyped
    BY RestIs
  <1>2. MaxClock \in Nat /\ SweepInterval \in Nat
    BY PolicyConstants DEF PolicyConstants
  <1>3. clock \in Nat /\ clock' = clock + 1 /\ clock' \in 0..MaxClock
    BY <1>1, <1>2 DEF RestTyped, Tick
  <1>4. call' \in [Threads -> Calls(clock')]
    <2>1. call' = call /\ call \in [Threads -> Calls(clock)] /\ clock' \in Nat /\ clock <= clock'
      BY <1>1, <1>3 DEF RestTyped, Tick
    <2>. QED
      BY <1>3, <2>1, MoreTime
  <1>5. nextSweep' \in 0..(clock' + SweepInterval) /\ latest' \in 0..clock'
    BY <1>1, <1>2, <1>3 DEF RestTyped, Tick, maps, history
  <1>6. RestTyped'
    BY <1>1, <1>3, <1>4, <1>5 DEF RestTyped, Tick, maps, history
  <1>. QED
    BY <1>6, MapsUnchanged DEF Tick, maps, history

LEMMA AskKeeps ==
  ASSUME PolicyInv, NEW th \in Threads, NEW op, NEW ip, Ask(th, op, ip),
         \/ (op \in {"evaluate", "block"} /\ ip \in IPs)
         \/ (op = "snapshot" /\ ip = "nobody")
  PROVE  PolicyInv'
  <1>1. RestTyped
    BY RestIs
  <1>2. clock \in Nat /\ clock \in 0..clock
    BY <1>1 DEF RestTyped
  <1>3. PICK next : next = [op |-> op, ip |-> ip, now |-> clock]
    OBVIOUS
  <1>4. next \in Calls(clock)
    BY <1>2, <1>3 DEF Calls
  <1>5. call' \in [Threads -> Calls(clock)]
    <2>1. call' = [call EXCEPT ![th] = next]
      BY <1>3 DEF Ask
    <2>. QED
      BY <1>1, <1>4, <2>1, CallMoves DEF RestTyped
  <1>6. calls' \in 0..MaxCalls
    <2>1. MaxCalls \in Nat
      BY PolicyConstants DEF PolicyConstants
    <2>. QED
      BY <1>1, <2>1 DEF RestTyped, Ask
  <1>7. RestTyped'
    BY <1>1, <1>5, <1>6 DEF RestTyped, Ask, maps, history
  <1>. QED
    BY <1>7, MapsUnchanged DEF Ask, maps, history

LEMMA RespondKeeps ==
  ASSUME PolicyInv, NEW th \in Threads, Respond(th)
  PROVE  PolicyInv'
  <1>1. RestTyped
    BY RestIs
  <1>2. clock \in Nat /\ clock \in 0..clock
    BY <1>1 DEF RestTyped
  <1>3. PICK next : next = [op |-> "observe", ip |-> call[th].ip, now |-> clock]
    OBVIOUS
  <1>4. call[th].ip \in IPs
    BY <1>1, CallIs DEF RestTyped, Respond
  <1>5. next \in Calls(clock)
    BY <1>2, <1>3, <1>4 DEF Calls
  <1>6. call' \in [Threads -> Calls(clock)]
    <2>1. call' = [call EXCEPT ![th] = next]
      BY <1>1, <1>3 DEF Respond, RestTyped
    <2>. QED
      BY <1>1, <1>5, <2>1, CallMoves DEF RestTyped
  <1>7. RestTyped'
    BY <1>1, <1>6 DEF RestTyped, Respond, maps, history
  <1>. QED
    BY <1>7, MapsUnchanged DEF Respond, maps, history

LEMMA ChangeKeeps ==
  ASSUME PolicyInv, ChangeLists
  PROVE  PolicyInv'
  <1>1. RestTyped
    BY RestIs
  <1>2. calls' \in 0..MaxCalls
    <2>1. MaxCalls \in Nat
      BY PolicyConstants DEF PolicyConstants
    <2>. QED
      BY <1>1, <2>1 DEF RestTyped, ChangeLists
  <1>3. white' \subseteq Listable /\ black' \subseteq Listable
    BY <1>1 DEF RestTyped, ChangeLists
  <1>4. RestTyped'
    BY <1>1, <1>2, <1>3 DEF RestTyped, ChangeLists, maps, history
  <1>. QED
    BY <1>4, MapsUnchanged DEF ChangeLists, maps, history

LEMMA DenyKeeps ==
  ASSUME PolicyInv, NEW th \in Threads, NEW ip \in IPs, NEW now \in 0..clock,
         ip = call[th].ip, now = call[th].now, NEW req, NEW blk,
         req \in {SweptRequests(now), Push(SweptRequests(now), ip, now, RateWindow)},
         BlocksKept(blk, now, ip), Deny(th, req, blk)
  PROVE  PolicyInv'
  <1>1. MapsOK
    BY MapsAre
  <1>2. now \in Nat
          /\ {ViolationThreshold, ViolationWindow, SuspiciousThreshold, SuspiciousWindow} \subseteq Nat
        /\ BlockDuration \in Nat
    <2>1. clock \in Nat
      BY RestIs DEF RestTyped
    <2>. QED
      BY <2>1, PolicyConstants DEF PolicyConstants
  <1>3. PICK vio : vio = SweptViolations(now)
    OBVIOUS
  <1>4. Strikes(vio, ViolationThreshold, ViolationWindow)
    BY <1>1, <1>2, <1>3, PrunedStrikes DEF MapsOK, SweptViolations
  <1>5. PICK sus : sus = SweptSuspicious(now)
    OBVIOUS
  <1>6. Strikes(sus, SuspiciousThreshold, SuspiciousWindow)
    BY <1>1, <1>2, <1>5, PrunedStrikes DEF MapsOK, SweptSuspicious
  <1>7. PICK struck : struck = AfterStrike(vio, ip, now, ViolationThreshold, ViolationWindow)
    OBVIOUS
  <1>8. Strikes(struck, ViolationThreshold, ViolationWindow)
    BY <1>2, <1>4, <1>7, AfterStrikeIs
  <1>9. PICK left : left = IF Struck(vio, ip, now, ViolationThreshold, ViolationWindow)
                             THEN Block(blk, ip, now, BlockDuration) ELSE blk
    OBVIOUS
  <1>10. BlocksKept(left, now, ip)
    BY <1>1, <1>2, <1>9, BlockKeeps
  <1>11. PICK next : next = [op |-> "denied", ip |-> ip]
    OBVIOUS
  <1>12. Locked(th, next, req, struck, sus, left)
    BY <1>3, <1>5, <1>7, <1>9, <1>11 DEF Deny
  <1>13. Leaves(ip, now, next, req, struck, sus, left)
    BY <1>6, <1>8, <1>10, <1>11 DEF Leaves
  <1>. QED
    BY <1>12, <1>13, LockedKeeps

LEMMA AllowKeeps ==
  ASSUME PolicyInv, NEW th \in Threads, NEW ip \in IPs, NEW now \in 0..clock,
         ip = call[th].ip, now = call[th].now, NEW req, NEW blk,
         req = IF Limits(ip) THEN Push(SweptRequests(now), ip, now, RateWindow) ELSE SweptRequests(now),
         Limits(ip) => ~(Len(Lookup(req, ip, <<>>)) > RateLimit),
         BlocksKept(blk, now, ip), Allow(th, req, blk)
  PROVE  PolicyInv'
  <1>1. MapsOK
    BY MapsAre
  <1>2. now \in Nat
          /\ {ViolationThreshold, ViolationWindow, SuspiciousThreshold, SuspiciousWindow} \subseteq Nat
    <2>1. clock \in Nat
      BY RestIs DEF RestTyped
    <2>. QED
      BY <2>1, PolicyConstants DEF PolicyConstants
  <1>3. PICK vio : vio = SweptViolations(now)
    OBVIOUS
  <1>4. Strikes(vio, ViolationThreshold, ViolationWindow)
    BY <1>1, <1>2, <1>3, PrunedStrikes DEF MapsOK, SweptViolations
  <1>5. PICK sus : sus = SweptSuspicious(now)
    OBVIOUS
  <1>6. Strikes(sus, SuspiciousThreshold, SuspiciousWindow)
    BY <1>1, <1>2, <1>5, PrunedStrikes DEF MapsOK, SweptSuspicious
  <1>7. PICK next : next = [op |-> "allowed", ip |-> ip]
    OBVIOUS
  <1>8. Locked(th, next, req, vio, sus, blk)
    BY <1>3, <1>5, <1>7 DEF Allow
  <1>9. Leaves(ip, now, next, req, vio, sus, blk)
    BY <1>4, <1>6, <1>7 DEF Leaves
  <1>. QED
    BY <1>8, <1>9, LockedKeeps

LEMMA EvaluateKeeps ==
  ASSUME PolicyInv, NEW th \in Threads, NEW effect, Evaluate(th, effect)
  PROVE  PolicyInv'
  <1>1. MapsOK /\ RestTyped
    BY MapsAre, RestIs
  <1>2. PICK ip \in IPs : ip = call[th].ip
    BY <1>1, CallIs DEF RestTyped, Evaluate
  <1>3. PICK now \in 0..clock : now = call[th].now
    BY <1>1, CallIs DEF RestTyped, Evaluate
  <1>4. now \in Nat /\ BlockDuration \in Nat
    BY <1>1, PolicyConstants DEF RestTyped, PolicyConstants
  <1>5. PICK due : due = BlocksSeen(ip, now)
    OBVIOUS
  <1>6. BlocksKept(due, now, ip) /\ BlocksKept(Block(due, ip, now, BlockDuration), now, ip)
    BY <1>1, <1>4, <1>5, SeenBlocksKept, BlockKeeps
  <1>7. PICK pushed : pushed = Push(SweptRequests(now), ip, now, RateWindow)
    OBVIOUS
  <1>8. PICK counted : counted = IF Limits(ip) THEN pushed ELSE SweptRequests(now)
    OBVIOUS
  <1>9. \/ Deny(th, SweptRequests(now), due)
        \/ Deny(th, pushed, Block(due, ip, now, BlockDuration))
        \/ (~(Limits(ip) /\ Len(Lookup(pushed, ip, <<>>)) > RateLimit) /\ Allow(th, counted, due))
        \/ Deny(th, counted, due)
    BY <1>2, <1>3, <1>5, <1>7, <1>8 DEF Evaluate
  <1>10. CASE Deny(th, SweptRequests(now), due)
    BY <1>2, <1>3, <1>6, <1>10, DenyKeeps
  <1>11. CASE Deny(th, pushed, Block(due, ip, now, BlockDuration))
    BY <1>2, <1>3, <1>6, <1>7, <1>11, DenyKeeps
  <1>12. CASE ~(Limits(ip) /\ Len(Lookup(pushed, ip, <<>>)) > RateLimit) /\ Allow(th, counted, due)
    BY <1>2, <1>3, <1>6, <1>7, <1>8, <1>12, AllowKeeps
  <1>13. CASE Deny(th, counted, due)
    BY <1>2, <1>3, <1>6, <1>7, <1>8, <1>13, DenyKeeps
  <1>. QED
    BY <1>9, <1>10, <1>11, <1>12, <1>13

LEMMA ObserveKeeps ==
  ASSUME PolicyInv, NEW th \in Threads, NEW suspect, ObserveResponse(th, suspect)
  PROVE  PolicyInv'
  <1>1. MapsOK /\ RestTyped
    BY MapsAre, RestIs
  <1>2. PICK ip \in IPs : ip = call[th].ip
    BY <1>1, CallIs DEF RestTyped, ObserveResponse
  <1>3. PICK now \in 0..clock : now = call[th].now
    BY <1>1, CallIs DEF RestTyped, ObserveResponse
  <1>4. now \in Nat
          /\ {ViolationThreshold, ViolationWindow, SuspiciousThreshold, SuspiciousWindow} \subseteq Nat
        /\ BlockDuration \in Nat
    BY <1>1, PolicyConstants DEF RestTyped, PolicyConstants
  <1>5. PICK sus : sus = SweptSuspicious(now)
    OBVIOUS
  <1>6. Strikes(sus, SuspiciousThreshold, SuspiciousWindow)
    BY <1>1, <1>4, <1>5, PrunedStrikes DEF MapsOK, SweptSuspicious
  <1>7. PICK vio : vio = SweptViolations(now)
    OBVIOUS
  <1>8. Strikes(vio, ViolationThreshold, ViolationWindow)
    BY <1>1, <1>4, <1>7, PrunedStrikes DEF MapsOK, SweptViolations
  <1>9. PICK counts \in BOOLEAN : counts = (suspect /\ ~Bypasses(ip))
    OBVIOUS
  <1>10. PICK struck : struck = IF counts
           THEN AfterStrike(sus, ip, now, SuspiciousThreshold, SuspiciousWindow) ELSE sus
    OBVIOUS
  <1>11. Strikes(struck, SuspiciousThreshold, SuspiciousWindow)
    BY <1>4, <1>6, <1>10, AfterStrikeIs
  <1>12. PICK blk : blk = IF counts /\ Struck(sus, ip, now, SuspiciousThreshold, SuspiciousWindow)
                            THEN Block(SweptBlocks(now), ip, now, BlockDuration) ELSE SweptBlocks(now)
    OBVIOUS
  <1>13. BlocksKept(blk, now, ip)
    BY <1>1, <1>4, <1>12, SweptBlocksKept, BlockKeeps
  <1>14. Locked(th, Idle, SweptRequests(now), vio, struck, blk)
    BY <1>2, <1>3, <1>5, <1>7, <1>9, <1>10, <1>12 DEF ObserveResponse
  <1>15. Leaves(ip, now, Idle, SweptRequests(now), vio, struck, blk)
    BY <1>8, <1>11, <1>13 DEF Leaves, Idle
  <1>. QED
    BY <1>2, <1>3, <1>14, <1>15, LockedKeeps

LEMMA BlockIpKeeps ==
  ASSUME PolicyInv, NEW th \in Threads, NEW duration \in Nat, BlockIp(th, duration)
  PROVE  PolicyInv'
  <1>1. MapsOK /\ RestTyped /\ AdmissionsKept /\ BansKept
    BY MapsAre, RestIs DEF PolicyInv
  <1>2. PICK ip \in IPs : ip = call[th].ip
    BY <1>1, CallIs DEF RestTyped, BlockIp
  <1>3. PICK now \in 0..clock : now = call[th].now
    BY <1>1, CallIs DEF RestTyped, BlockIp
  <1>4. now \in Nat /\ clock \in Nat /\ latest \in 0..clock
    BY <1>1 DEF RestTyped
  <1>5. PICK newest \in 0..clock : newest = Larger(now, latest) /\ newest >= now /\ newest >= latest
    BY <1>4 DEF Larger
  <1>6. PICK blk : blk = Block(blocks, ip, now, duration)
    OBVIOUS
  <1>7. BlocksKept(blocks, now, ip)
    <2>1. \A a : Lookup(blocks, a, 0) \in Nat \cup {0}
      BY <1>1, LookupIs DEF MapsOK
    <2>2. \A a : Lookup(blocks, a, 0) <= Lookup(blocks, a, 0)
      BY <2>1
    <2>. QED
      BY <1>1, <2>2 DEF BlocksKept, MapsOK
  <1>8. BlocksKept(blk, now, ip)
    BY <1>1, <1>4, <1>6, <1>7, BlockKeeps
  <1>9. blocks' = blk /\ latest' = newest
    BY <1>2, <1>3, <1>5, <1>6 DEF BlockIp
  <1>10. MapsOK'
    BY <1>1, <1>8, <1>9 DEF MapsOK, BlocksKept, BlockIp
  <1>11. AdmissionsKept' /\ LossesBounded'
    BY <1>1 DEF AdmissionsKept, LossesBounded, PolicyInv, BlockIp
  <1>12. ASSUME NEW a \in IPs
         PROVE  banned'[a] \in Nat /\ (banned'[a] <= newest \/ banned'[a] <= Lookup(blk, a, 0))
    <2>1. banned'[a] = IF a \in Keys(blocks) \ Keys(blk) THEN 0
            ELSE Larger(banned[a], Lookup(blk, a, 0))
      BY <1>2, <1>3, <1>6 DEF BlockIp
    <2>2. CASE a \in Keys(blocks) \ Keys(blk)
      <3>1. banned'[a] = 0
        BY <2>1, <2>2
      <3>. QED
        BY <3>1
    <2>3. CASE a \notin Keys(blocks) \ Keys(blk)
      <3>1. a \notin Keys(Unexpired(blocks, now)) \ Keys(blk)
        BY <1>1, <1>4, <2>3, UnexpiredIs DEF MapsOK, PartOf
      <3>2. PICK until : until = Larger(banned[a], Lookup(blk, a, 0))
        OBVIOUS
      <3>3. until = IF a \in Keys(Unexpired(blocks, now)) \ Keys(blk) THEN 0
                    ELSE Larger(banned[a], Lookup(blk, a, 0))
        BY <3>1, <3>2
      <3>4. until \in Nat /\ (until <= newest \/ until <= Lookup(blk, a, 0))
        BY <1>1, <1>4, <1>5, <1>8, <3>3, BansLeft
      <3>. QED
        BY <2>1, <2>3, <3>2, <3>4
    <2>. QED
      BY <2>2, <2>3
  <1>13. BansKept'
    BY <1>9, <1>12 DEF BansKept
  <1>14. RestTyped'
    <2>1. call' \in [Threads -> Calls(clock)]
      <3>1. call' = [call EXCEPT ![th] = Idle]
        BY DEF BlockIp
      <3>2. Idle \in Calls(clock)
        BY DEF Calls
      <3>. QED
        BY <1>1, <3>1, <3>2, CallMoves DEF RestTyped
    <2>2. banned' \in [IPs -> Nat]
      <3>1. banned' = [a \in IPs |-> banned'[a]]
        BY DEF BlockIp
      <3>. QED
        BY <1>12, <3>1
    <2>. QED
      BY <1>1, <1>5, <1>9, <2>1, <2>2 DEF RestTyped, BlockIp
  <1>. QED
    BY <1>10, <1>11, <1>13, <1>14, MapsMake

LEMMA SnapshotKeeps ==
  ASSUME PolicyInv, NEW th \in Threads, Snapshot(th)
  PROVE  PolicyInv'
  <1>1. MapsOK /\ RestTyped /\ AdmissionsKept /\ BansKept
    BY MapsAre, RestIs DEF PolicyInv
  <1>2. PICK now \in 0..clock : now = call[th].now
    BY <1>1, CallIs DEF RestTyped, Snapshot
  <1>3. now \in Nat /\ clock \in Nat /\ latest \in 0..clock
    BY <1>1 DEF RestTyped
  <1>4. PICK newest \in 0..clock : newest = Larger(now, latest) /\ newest >= now /\ newest >= latest
    BY <1>3 DEF Larger
  <1>5. /\ {ViolationThreshold, ViolationWindow, SuspiciousThreshold, SuspiciousWindow,
             SweepInterval} \subseteq Nat
        /\ RateWindow \in Nat /\ RateLimit \in Nat /\ MaxTracked \in Nat /\ MaxBlocks \in Nat
    BY PolicyConstants DEF PolicyConstants
  <1>6. latest' = newest
    BY <1>2, <1>4 DEF Snapshot
  <1>7. PICK req : req = Pruned(requests, now, RateWindow)
    OBVIOUS
  <1>8. /\ Map(Stamps, req) /\ Len(req) <= Len(requests)
        /\ \A k : Lookup(req, k, <<>>) = IF RateWindow = 0 THEN <<>>
                                         ELSE Trim(Lookup(requests, k, <<>>), now - RateWindow)
    <2>1. Map(Stamps, requests) /\ RateWindow \in Nat /\ now \in Nat
      BY <1>1, <1>3, <1>5 DEF MapsOK
    <2>. QED
      BY ONLY <2>1, <1>7, PrunedIs
  <1>9. Len(req) <= MaxTracked
    <2>1. Len(req) \in Nat /\ Len(requests) \in Nat
      BY <1>1, <1>8 DEF Map, Entries, MapsOK
    <2>. QED
      BY <1>1, <1>5, <1>8, <2>1 DEF MapsOK
  <1>10. PICK blk : blk = Unexpired(blocks, now)
    OBVIOUS
  <1>11. /\ Map(Nat, blk) /\ Len(blk) <= Len(blocks)
         /\ \A k : Lookup(blk, k, 0) = IF Lookup(blocks, k, 0) > now THEN Lookup(blocks, k, 0) ELSE 0
    BY <1>1, <1>3, <1>10, UnexpiredIs DEF MapsOK
  <1>12. Len(blk) <= MaxBlocks
    <2>1. Len(blk) \in Nat /\ Len(blocks) \in Nat
      BY <1>1, <1>11 DEF Map, Entries, MapsOK
    <2>. QED
      BY <1>1, <1>5, <1>11, <2>1 DEF MapsOK
  <1>13. /\ requests' = req /\ blocks' = blk
         /\ violations' = Pruned(violations, now, ViolationWindow)
         /\ suspicious' = Pruned(suspicious, now, SuspiciousWindow)
    BY <1>2, <1>7, <1>10 DEF Snapshot
  <1>14. Strikes(violations', ViolationThreshold, ViolationWindow)
    BY <1>1, <1>3, <1>5, <1>13, PrunedStrikes DEF MapsOK
  <1>15. Strikes(suspicious', SuspiciousThreshold, SuspiciousWindow)
    BY <1>1, <1>3, <1>5, <1>13, PrunedStrikes DEF MapsOK
  <1>16. MapsOK'
    BY <1>8, <1>9, <1>11, <1>12, <1>13, <1>14, <1>15 DEF MapsOK, Strikes
  <1>17. ASSUME NEW a \in IPs
         PROVE  \E adm, new \in Seq(Nat) :
                  /\ adm = admitted[a] /\ new = admitted'[a] /\ Embeds(new, adm)
                  /\ now - RateWindow \in Int /\ \A x \in Range(new) : x > now - RateWindow
    <2>1. PICK adm \in Seq(Nat) : adm = admitted[a]
      BY <1>1 DEF RestTyped
    <2>2. PICK new \in Seq(Nat) : /\ new = Recent(adm, newest) /\ Embeds(new, adm)
                                  /\ now - RateWindow \in Int
                                       /\ \A x \in Range(new) : x > now - RateWindow
      <3>1. newest \in Nat /\ now <= newest
        BY <1>3, <1>4
      <3>2. PICK new \in Seq(Nat) : /\ new = Recent(adm, newest) /\ Embeds(new, adm)
                                    /\ \A x \in Range(new) : x \in Nat /\ x > newest - RateWindow
        BY <3>1, RecentIs
      <3>3. now - RateWindow \in Int /\ \A x \in Range(new) : x > now - RateWindow
        BY <1>3, <3>1, <3>2, WindowOf
      <3>. QED
        BY <3>2, <3>3
    <2>3. admitted'[a] = new
      BY <1>6, <2>1, <2>2 DEF Snapshot
    <2>. QED
      BY <2>1, <2>2, <2>3
  <1>18. AdmissionsKept'
    <2> SUFFICES ASSUME RateLimit > 0, RateWindow > 0, NEW a \in IPs
                 PROVE  Embeds(admitted'[a], Lookup(req, a, <<>>)) /\ Len(admitted'[a]) <= RateLimit
      BY <1>13 DEF AdmissionsKept, Counted
    <2>1. PICK adm, new \in Seq(Nat) : /\ adm = admitted[a] /\ new = admitted'[a] /\ Embeds(new, adm)
                                       /\ now - RateWindow \in Int
                                            /\ \A x \in Range(new) : x > now - RateWindow
      BY <1>17
    <2>2. PICK rows \in Seq(Nat) : rows = Lookup(requests, a, <<>>)
      BY <1>1, ValueLooked DEF MapsOK
    <2>3. Embeds(adm, rows) /\ Len(adm) <= RateLimit
      BY <1>1, <2>1, <2>2 DEF AdmissionsKept, Counted
    <2>4. Embeds(new, rows)
      BY <2>1, <2>3, EmbedsOn
    <2>5. Embeds(new, Trim(rows, now - RateWindow))
      BY <2>1, <2>4, TrimIs
    <2>6. Lookup(req, a, <<>>) = Trim(rows, now - RateWindow)
      BY <1>8, <2>2
    <2>7. Len(new) <= RateLimit
      <3>1. Len(new) <= Len(adm)
        BY <2>1, EmbedsLen
      <3>2. Len(new) \in Nat /\ Len(adm) \in Nat
        OBVIOUS
      <3>. QED
        BY <1>5, <2>3, <3>1, <3>2
    <2>. QED
      BY <2>1, <2>5, <2>6, <2>7
  <1>19. BansKept'
    <2> SUFFICES ASSUME NEW a \in IPs
                 PROVE  banned[a] <= newest \/ banned[a] <= Lookup(blk, a, 0)
      BY <1>6, <1>13 DEF BansKept, Snapshot
    <2>1. PICK b \in Nat : b = banned[a]
      BY <1>1 DEF RestTyped
    <2>2. PICK old : old = Lookup(blocks, a, 0)
      OBVIOUS
    <2>3. old \in Nat \cup {0}
      BY <1>1, <2>2, LookupIs DEF MapsOK
    <2>4. b <= latest \/ b <= old
      BY <1>1, <2>1, <2>2 DEF BansKept
    <2>5. Lookup(blk, a, 0) = IF old > now THEN old ELSE 0
      BY <1>11, <2>2
    <2>6. b <= newest \/ (b <= old /\ old > now)
      BY <1>3, <1>4, <2>3, <2>4
    <2>. QED
      BY <2>1, <2>5, <2>6
  <1>21. LossesBounded'
    BY DEF PolicyInv, LossesBounded, Snapshot
  <1>20. RestTyped'
    <2>1. call' \in [Threads -> Calls(clock)]
      <3>1. call' = [call EXCEPT ![th] = Idle]
        BY DEF Snapshot
      <3>2. Idle \in Calls(clock)
        BY DEF Calls
      <3>. QED
        BY <1>1, <3>1, <3>2, CallMoves DEF RestTyped
    <2>2. admitted' \in [IPs -> Seq(Nat)]
      <3>1. admitted' = [a \in IPs |-> admitted'[a]]
        BY DEF Snapshot
      <3>2. \A a \in IPs : admitted'[a] \in Seq(Nat)
        BY <1>17
      <3>. QED
        BY <3>1, <3>2
    <2>3. nextSweep' \in 0..(clock + SweepInterval)
      <3>1. nextSweep' = now + SweepInterval
        BY <1>2 DEF Snapshot, AfterSweep
      <3>. QED
        BY <1>3, <1>5, <3>1
    <2>. QED
      BY <1>1, <1>4, <1>6, <2>1, <2>2, <2>3 DEF RestTyped, Snapshot
  <1>. QED
    BY <1>16, <1>18, <1>19, <1>20, <1>21, MapsMake

LEMMA UnblockKeeps ==
  ASSUME PolicyInv, NEW ip \in IPs, UnblockIp(ip)
  PROVE  PolicyInv'
  <1>1. MapsOK /\ RestTyped /\ AdmissionsKept /\ BansKept
    BY MapsAre, RestIs DEF PolicyInv
  <1>2. PICK blk : blk = Without(blocks, ip)
    OBVIOUS
  <1>3. Map(Nat, blk) /\ PartOf(blk, blocks) /\ Keys(blk) = Keys(blocks) \ {ip}
          /\ Len(blk) <= Len(blocks)
    BY <1>1, <1>2, WithoutIs DEF MapsOK
  <1>4. Len(blk) <= MaxBlocks
    <2>1. Len(blk) \in Nat /\ Len(blocks) \in Nat
      BY <1>1, <1>3 DEF Map, Entries, MapsOK
    <2>2. MaxBlocks \in Nat
      BY PolicyConstants DEF PolicyConstants
    <2>. QED
      BY <1>1, <1>3, <2>1, <2>2 DEF MapsOK
  <1>5. blocks' = blk
    BY <1>2 DEF UnblockIp
  <1>6. MapsOK'
    BY <1>1, <1>3, <1>4, <1>5 DEF MapsOK, UnblockIp
  <1>7. AdmissionsKept' /\ LossesBounded'
    BY <1>1 DEF AdmissionsKept, LossesBounded, PolicyInv, UnblockIp
  <1>8. banned' \in [IPs -> Nat] /\ \A a \in IPs : banned'[a] = IF a = ip THEN 0 ELSE banned[a]
    BY <1>1 DEF RestTyped, UnblockIp
  <1>9. BansKept'
    <2> SUFFICES ASSUME NEW a \in IPs
                 PROVE  banned'[a] <= latest \/ banned'[a] <= Lookup(blk, a, 0)
      BY <1>5 DEF BansKept, UnblockIp
    <2>1. latest \in Nat
      BY <1>1 DEF RestTyped
    <2>2. CASE a = ip
      BY <1>8, <2>1, <2>2
    <2>3. CASE a # ip
      <3>1. Lookup(blk, a, 0) = Lookup(blocks, a, 0)
        <4>1. CASE a \in Keys(blk)
          BY <1>3, <4>1 DEF PartOf
        <4>2. CASE a \notin Keys(blk)
          <5>1. a \notin Keys(blocks)
            BY <1>3, <2>3, <4>2
          <5>. QED
            BY <4>2, <5>1 DEF Lookup
        <4>. QED
          BY <4>1, <4>2
      <3>. QED
        BY <1>1, <1>8, <2>3, <3>1 DEF BansKept
    <2>. QED
      BY <2>2, <2>3
  <1>10. RestTyped'
    <2>1. calls' \in 0..MaxCalls
      <3>1. MaxCalls \in Nat
        BY PolicyConstants DEF PolicyConstants
      <3>. QED
        BY <1>1, <3>1 DEF RestTyped, UnblockIp
    <2>. QED
      BY <1>1, <1>8, <2>1 DEF RestTyped, UnblockIp
  <1>. QED
    BY <1>6, <1>7, <1>9, <1>10, MapsMake

LEMMA PolicySteps ==
  ASSUME PolicyInv, [PolicyNext]_policyVars
  PROVE  PolicyInv'
  <1>1. CASE UNCHANGED policyVars
    <2>1. RestTyped'
      BY <1>1, RestIs DEF RestTyped, policyVars, maps, history
    <2>. QED
      BY <1>1, <2>1, MapsUnchanged DEF policyVars, maps, history
  <1>2. CASE Tick
    BY <1>2, TickKeeps
  <1>3. ASSUME NEW th \in Threads, NEW ip \in IPs, NEW op \in {"evaluate", "block"},
          Ask(th, op, ip) PROVE PolicyInv'
    BY <1>3, AskKeeps
  <1>4. ASSUME NEW th \in Threads, Ask(th, "snapshot", "nobody") PROVE PolicyInv'
    BY <1>4, AskKeeps
  <1>5. ASSUME NEW th \in Threads, Snapshot(th) PROVE PolicyInv'
    BY <1>5, SnapshotKeeps
  <1>6. ASSUME NEW th \in Threads, NEW effect, Evaluate(th, effect) PROVE PolicyInv'
    BY <1>6, EvaluateKeeps
  <1>7. ASSUME NEW th \in Threads, NEW suspect, ObserveResponse(th, suspect) PROVE PolicyInv'
    BY <1>7, ObserveKeeps
  <1>8. ASSUME NEW th \in Threads, Respond(th) PROVE PolicyInv'
    BY <1>8, RespondKeeps
  <1>9. ASSUME NEW th \in Threads, BlockIp(th, BlockDuration) \/ BlockIp(th, 1) PROVE PolicyInv'
    <2>1. BlockDuration \in Nat /\ 1 \in Nat
      BY PolicyConstants DEF PolicyConstants
    <2>. QED
      BY <1>9, <2>1, BlockIpKeeps
  <1>10. ASSUME NEW ip \in IPs, UnblockIp(ip) PROVE PolicyInv'
    BY <1>10, UnblockKeeps
  <1>11. CASE ChangeLists
    BY <1>11, ChangeKeeps
  <1>. QED
    BY <1>1, <1>2, <1>3, <1>4, <1>5, <1>6, <1>7, <1>8, <1>9, <1>10, <1>11 DEF PolicyNext

LEMMA PolicyInvariant == PolicySpec => []PolicyInv
  <1>1. PolicyInit => PolicyInv
    BY PolicyStarts
  <1>2. PolicyInv /\ [PolicyNext]_policyVars => PolicyInv'
    BY PolicySteps
  <1>. QED
    BY <1>1, <1>2, PTL DEF PolicySpec

\* The invariant has what the run checks.
LEMMA PolicyLimits ==
  ASSUME PolicyInv
  PROVE  LimitsHold
  <1>1. ASSUME RateLimit > 0, RateWindow > 0, NEW ip \in IPs
        PROVE  Len(admitted[ip]) <= RateLimit /\ Len(admitted[ip]) + lost[ip] <= RateLimit * (1 + letGo[ip])
    <2>1. RateLimit \in Nat
      BY PolicyConstants DEF PolicyConstants
    <2>2. PICK n \in Nat, m \in Nat : n = letGo[ip] /\ m = lost[ip]
      BY RestIs DEF RestTyped
    <2>3. PICK k \in Nat : k = Len(admitted[ip])
      <3>1. PICK adm \in Seq(Nat) : adm = admitted[ip]
        BY RestIs DEF RestTyped
      <3>2. Len(adm) \in Nat
        OBVIOUS
      <3>. QED
        BY <3>1, <3>2
    <2>4. k <= RateLimit /\ m <= RateLimit * n
      BY <1>1, <2>2, <2>3 DEF PolicyInv, AdmissionsKept, Counted, LossesBounded
    <2>5. RateLimit * (1 + n) = RateLimit + RateLimit * n /\ RateLimit * n \in Nat
      BY <2>1
    <2>6. k + m <= RateLimit * (1 + n)
      BY <2>1, <2>4, <2>5
    <2>. QED
      BY <2>2, <2>3, <2>4, <2>6
  <1>. QED
    BY <1>1 DEF PolicyInv, LimitsHold, WindowRespected

\* The policy's limits hold: its maps stay within their bounds, with one entry
\* for each client and none that has its strikes full; and in the latest window a
\* client was admitted as often as rate_limit_requests allows, at most, and that
\* often again for each time the full map of clients let go of its row.
THEOREM PolicyLimitsHold == PolicySpec => []LimitsHold
  <1>1. PolicyInv => LimitsHold
    BY PolicyLimits
  <1>. QED
    BY <1>1, PolicyInvariant, PTL

-----------------------------------------------------------------------------
(* Who is let in. *)

\* The other threads' calls, and those that are not evaluations, let no one in.
LEMMA OthersStay ==
  ASSUME call \in [Threads -> Calls(clock)], NEW actor \in Threads, NEW next,
         call' = [call EXCEPT ![actor] = next],
         call[actor].op # "evaluate" \/ next.op # "allowed",
         NEW th \in Threads, call[th].op = "evaluate"
  PROVE  call'[th].op # "allowed"
  <1>1. CASE th = actor
    <2>1. call'[th] = next
      BY <1>1
    <2>. QED
      BY <1>1, <2>1
  <1>2. CASE th # actor
    <2>1. call'[th] = call[th]
      BY <1>2
    <2>. QED
      BY <2>1
  <1>. QED
    BY <1>1, <1>2

\* evaluate lets in whom it has no block of that is due.
LEMMA EvaluateRefuses ==
  ASSUME PolicyInv, NEW th \in Threads, NEW effect, Evaluate(th, effect), call'[th].op = "allowed"
  PROVE  Bypasses(call[th].ip) \/ banned[call[th].ip] <= latest'
  <1>1. MapsOK /\ RestTyped /\ BansKept
    BY MapsAre, RestIs DEF PolicyInv
  <1>2. PICK ip \in IPs : ip = call[th].ip
    BY <1>1, CallIs DEF RestTyped, Evaluate
  <1>3. PICK now \in 0..clock : now = call[th].now
    BY <1>1, CallIs DEF RestTyped, Evaluate
  <1>4. now \in Nat /\ latest \in Nat
    BY <1>1 DEF RestTyped
  <1>5. ASSUME NEW req, NEW blk PROVE ~Deny(th, req, blk)
    <2> SUFFICES ASSUME Deny(th, req, blk) PROVE FALSE
      OBVIOUS
    <2>1. PICK next : next = [op |-> "denied", ip |-> call[th].ip]
      OBVIOUS
    <2>2. call' = [call EXCEPT ![th] = next]
      BY <2>1 DEF Deny, Locked
    <2>3. call'[th] = next
      BY <1>1, <2>2 DEF RestTyped
    <2>. QED
      BY <2>1, <2>3
  <1>6. ~((ActivelyBlocked(ip, now) /\ ~Bypasses(ip)) \/ Blacklisted(ip))
    BY <1>2, <1>3, <1>5 DEF Evaluate
  <1>7. \E req, vio, sus, blk, next : Locked(th, next, req, vio, sus, blk)
    BY <1>5 DEF Evaluate, Allow
  <1>8. latest' = Larger(now, latest)
    BY <1>3, <1>7 DEF Locked
  <1>9. latest' \in Nat /\ latest' >= now /\ latest' >= latest
    BY <1>4, <1>8 DEF Larger
  <1>10. CASE Bypasses(ip)
    BY <1>2, <1>10
  <1>11. CASE ~Bypasses(ip)
    <2>1. ~(Lookup(SweptBlocks(now), ip, 0) > now)
      BY <1>6, <1>11 DEF ActivelyBlocked
    <2>2. PICK old : old = Lookup(blocks, ip, 0)
      OBVIOUS
    <2>3. old \in Nat \cup {0}
      BY <1>1, <2>2, LookupIs DEF MapsOK
    <2>4. old <= now
      BY <1>1, <1>4, <2>1, <2>2, <2>3, SweptBlocksKept
    <2>5. PICK b \in Nat : b = banned[ip]
      BY <1>1 DEF RestTyped
    <2>6. b <= latest \/ b <= old
      BY <1>1, <2>2, <2>5 DEF BansKept
    <2>. QED
      BY <1>2, <1>4, <1>9, <2>3, <2>4, <2>5, <2>6
  <1>. QED
    BY <1>10, <1>11

LEMMA StaysOutStep ==
  ASSUME PolicyInv, [PolicyNext]_policyVars
  PROVE  StaysOut
  <1> SUFFICES ASSUME NEW th \in Threads, call[th].op = "evaluate", call'[th].op = "allowed"
               PROVE  Bypasses(call[th].ip) \/ banned[call[th].ip] <= latest'
    BY DEF StaysOut
  <1>0. call \in [Threads -> Calls(clock)]
    BY RestIs DEF RestTyped
  <1>1. call' # call
    OBVIOUS
  <1>2. ~(UNCHANGED policyVars) /\ ~Tick /\ ~ChangeLists /\ \A ip \in IPs : ~UnblockIp(ip)
    BY <1>1 DEF policyVars, Tick, ChangeLists, UnblockIp
  <1>3. ASSUME NEW actor \in Threads, NEW ip, NEW op, Ask(actor, op, ip) PROVE FALSE
    <2>1. call[actor].op # "evaluate"
      BY <1>3 DEF Ask, Idle
    <2>. QED
      BY <1>0, <1>3, <2>1, OthersStay DEF Ask
  <1>4. ASSUME NEW actor \in Threads, Snapshot(actor) PROVE FALSE
    <2>1. call[actor].op # "evaluate" /\ call' = [call EXCEPT ![actor] = Idle]
      BY <1>4 DEF Snapshot
    <2>. QED
      BY <1>0, <2>1, OthersStay
  <1>5. ASSUME NEW actor \in Threads, NEW suspect, ObserveResponse(actor, suspect) PROVE FALSE
    <2>1. call[actor].op # "evaluate" /\ call' = [call EXCEPT ![actor] = Idle]
      BY <1>5 DEF ObserveResponse, Locked
    <2>. QED
      BY <1>0, <2>1, OthersStay
  <1>6. ASSUME NEW actor \in Threads, Respond(actor) PROVE FALSE
    <2>1. call[actor].op # "evaluate"
      BY <1>6 DEF Respond
    <2>2. PICK next : call' = [call EXCEPT ![actor] = next]
      BY <1>0, <1>6 DEF Respond
    <2>. QED
      BY <1>0, <2>1, <2>2, OthersStay
  <1>7. ASSUME NEW actor \in Threads, NEW duration, BlockIp(actor, duration) PROVE FALSE
    <2>1. call[actor].op # "evaluate" /\ call' = [call EXCEPT ![actor] = Idle]
      BY <1>7 DEF BlockIp
    <2>. QED
      BY <1>0, <2>1, OthersStay
  <1>8. ASSUME NEW actor \in Threads, NEW effect, Evaluate(actor, effect)
        PROVE  Bypasses(call[th].ip) \/ banned[call[th].ip] <= latest'
    <2>1. CASE actor = th
      BY <1>8, <2>1, EvaluateRefuses
    <2>2. CASE actor # th
      <3>1. \E next : call' = [call EXCEPT ![actor] = next]
        BY <1>8 DEF Evaluate, Deny, Allow, Locked
      <3>2. call'[th] = call[th]
        BY <1>0, <2>2, <3>1
      <3>. QED
        BY <3>2
    <2>. QED
      BY <2>1, <2>2
  <1>. QED
    BY <1>2, <1>3, <1>4, <1>5, <1>6, <1>7, <1>8 DEF PolicyNext

\* A client whose block was announced until a time is not let in before: a later
\* call with an older time stamp neither shortens a block nor lifts it.
THEOREM BlockedStayOut == PolicySpec => NoAdmissionWhileBlocked
  <1>1. PolicyInv /\ [PolicyNext]_policyVars => StaysOut
    BY StaysOutStep
  <1>. QED
    BY <1>1, PolicyInvariant, PTL DEF PolicySpec, NoAdmissionWhileBlocked
=============================================================================
