---------------------------- MODULE RouteWorkers ---------------------------
(***************************************************************************)
(* wsbuilder/app.py: the worker pool of one threaded view route            *)
(* (_RouteThreadPool, _RouteThreadWorker, _RouteJob) and the part of       *)
(* App.dispatch that selects a worker and submits to it.                   *)
(*                                                                         *)
(* A request's thread selects a worker under the pool lock, reading the    *)
(* load of one worker after another; it then leaves the lock and submits,  *)
(* which checks the load again under the worker's condition.  A worker     *)
(* runs the handler outside any lock.  Workers are numbered from 1 in the  *)
(* order of _next_index.                                                   *)
(***************************************************************************)
EXTENDS Integers, Sequences, SequencesExt, FiniteSets

CONSTANTS
  Requests,           \* the requests dispatched to the route
  Shapes,             \* how the route may be configured: min_threads, max_threads
                      \* (positive, or App makes no pool), requests_per_thread (0 for
                      \* no limit), and whether worker_timeout_seconds is positive
  DyingRequests,      \* requests whose handler raises SystemExit
  Closes              \* whether the application may be closed meanwhile

ASSUME PoolConstants ==
  /\ IsFiniteSet(Requests)
  /\ Shapes \subseteq [min : Nat, max : Nat \ {0}, perThread : Nat, timeout : BOOLEAN]
  /\ IsFiniteSet(Shapes) /\ Shapes # {}
  /\ \A s \in Shapes : s.min <= s.max
  /\ Closes \in BOOLEAN
  /\ DyingRequests \subseteq Requests /\ "no one" \notin Requests

VARIABLES
  shape,      \* the configuration of the route
  count,      \* len(pool.workers)
  jobs,       \* worker._jobs
  open,       \* worker._running
  active,     \* worker._active_jobs
  served,     \* worker._served_jobs
  wpc,        \* where the worker's thread is in _run
  current,    \* the job the worker's thread holds
  lock,       \* who holds pool._lock, if anybody
  seen,       \* the loads resolve() has read so far
  spc,        \* where the request's thread is in dispatch
  target,     \* the worker resolve() returned, 0 before that
  outcome,    \* job.result or job.error, once the handler has ended
  done,       \* requests whose job.done is set
  answer,     \* what dispatch returns
  closing,    \* how many workers pool.close() has closed
  closed,     \* pool.close() has returned
  started,    \* history: for each worker, the requests it took
  withdrawn   \* history: requests removed from a queue by a timeout

worker == <<jobs, open, active, served, wpc, current, started>>
request == <<spc, target, outcome, done, answer, withdrawn>>
pool == <<count, lock, seen, closing, closed>>
vars == <<shape, worker, request, pool>>

Workers == UNION {1..s.max : s \in Shapes}
NoOne == "no one"
Outcomes == {"none", "ok", "error", "exit"}
Answers == {"none", "ok", "error", "empty", "busy", "shut", "late"}

Load(w) == active[w] + Len(jobs[w])
HasRoom(load) == shape.perThread = 0 \/ load < shape.perThread

TypeOK ==
  /\ shape \in Shapes
  /\ count \in 0..shape.max
  /\ jobs \in [Workers -> Seq(Requests)]
  /\ open \in [Workers -> BOOLEAN]
  /\ active \in [Workers -> 0..1]
  /\ served \in [Workers -> Nat]
  /\ wpc \in [Workers -> {"none", "idle", "handling", "finishing", "exited"}]
  /\ current \in [Workers -> Requests \cup {NoOne}]
  /\ started \in [Workers -> Seq(Requests)]
  /\ lock \in Requests \cup {NoOne}
  /\ seen \in Seq(Nat)
  /\ spc \in [Requests -> {"new", "scan", "rescan", "submit", "waiting", "expired", "answered"}]
  /\ target \in [Requests -> 0..shape.max]
  /\ outcome \in [Requests -> Outcomes]
  /\ done \subseteq Requests /\ withdrawn \subseteq Requests
  /\ answer \in [Requests -> Answers]
  /\ closing \in 0..shape.max /\ closed \in BOOLEAN

Init ==
  /\ shape \in Shapes
  /\ count = shape.min
  /\ jobs = [w \in Workers |-> <<>>] /\ started = [w \in Workers |-> <<>>]
  /\ open = [w \in Workers |-> w <= shape.min]
  /\ active = [w \in Workers |-> 0] /\ served = [w \in Workers |-> 0]
  /\ wpc = [w \in Workers |-> IF w <= shape.min THEN "idle" ELSE "none"]
  /\ current = [w \in Workers |-> NoOne]
  /\ lock = NoOne /\ seen = <<>>
  /\ spc = [r \in Requests |-> "new"] /\ target = [r \in Requests |-> 0]
  /\ outcome = [r \in Requests |-> "none"] /\ answer = [r \in Requests |-> "none"]
  /\ done = {} /\ withdrawn = {}
  /\ closing = 0 /\ closed = FALSE

(***************************************************************************)
(* _RouteThreadPool.resolve, under pool._lock.                             *)
(***************************************************************************)
\* The lock is released and the request's thread goes on to submit.
Select(r, w) ==
  /\ target' = [target EXCEPT ![r] = w]
  /\ spc' = [spc EXCEPT ![r] = "submit"]
  /\ lock' = NoOne
  /\ seen' = <<>>

\* The lock is taken; a worker named by the affinity cookie is used if it has
\* room (cookie is 0 when there is none or it is not valid).
Resolve(r, cookie) ==
  /\ spc[r] = "new" /\ lock = NoOne
  /\ IF cookie \in 1..count /\ HasRoom(Load(cookie))
       THEN Select(r, cookie)
       ELSE /\ spc' = [spc EXCEPT ![r] = "scan"]
            /\ lock' = r
            /\ UNCHANGED <<seen, target>>
  /\ UNCHANGED <<shape, worker, outcome, done, answer, withdrawn, count, closing, closed>>

\* worker.load() of the next worker of the list.
ReadLoad(r) ==
  /\ spc[r] \in {"scan", "rescan"} /\ Len(seen) < count
  /\ seen' = Append(seen, Load(Len(seen) + 1))
  /\ UNCHANGED <<shape, worker, request, count, lock, closing, closed>>

\* The least loaded of the candidates by what was read, the oldest of those.
LeastBusy(candidates) ==
  CHOOSE w \in candidates : \A v \in candidates :
    seen[w] < seen[v] \/ (seen[w] = seen[v] /\ w <= v)

CanGrow == count < shape.max

\* _spawn_worker_locked: the thread starts in the constructor.
SpawnWorker(r) ==
  /\ count' = count + 1
  /\ open' = [open EXCEPT ![count + 1] = TRUE]
  /\ wpc' = [wpc EXCEPT ![count + 1] = "idle"]
  /\ Select(r, count + 1)
  /\ UNCHANGED <<jobs, active, served, current, started>>

\* The first scan: a worker with room, else a new one, else scan again.
Pick(r) ==
  LET roomy == {w \in 1..count : HasRoom(seen[w])}
  IN  /\ spc[r] = "scan" /\ Len(seen) = count
      /\ \/ roomy # {} /\ Select(r, LeastBusy(roomy)) /\ UNCHANGED <<worker, count>>
         \/ roomy = {} /\ CanGrow /\ SpawnWorker(r)
         \/ /\ roomy = {} /\ ~CanGrow
            /\ spc' = [spc EXCEPT ![r] = "rescan"]
            /\ seen' = <<>>
            /\ UNCHANGED <<worker, target, count, lock>>
      /\ UNCHANGED <<shape, outcome, done, answer, withdrawn, closing, closed>>

\* The second scan: any least loaded worker.
PickAny(r) ==
  /\ spc[r] = "rescan" /\ Len(seen) = count
  /\ Select(r, LeastBusy(1..count))
  /\ UNCHANGED <<shape, worker, outcome, done, answer, withdrawn, count, closing, closed>>

(***************************************************************************)
(* _RouteThreadWorker.submit.                                              *)
(***************************************************************************)
Answer(r, a) ==
  /\ answer' = [answer EXCEPT ![r] = a]
  /\ spc' = [spc EXCEPT ![r] = "answered"]

Takes(w) == HasRoom(Load(w))

Submit(r) ==
  LET w == target[r]
  IN  /\ spc[r] = "submit"
      /\ \/ ~open[w] /\ Answer(r, "shut") /\ UNCHANGED jobs
         \/ open[w] /\ ~Takes(w) /\ Answer(r, "busy") /\ UNCHANGED jobs
         \/ /\ open[w] /\ Takes(w)
            /\ jobs' = [jobs EXCEPT ![w] = Append(@, r)]
            /\ spc' = [spc EXCEPT ![r] = "waiting"]
            /\ UNCHANGED answer
      /\ UNCHANGED <<shape, open, active, served, wpc, current, started, target, outcome,
                     done, withdrawn, pool>>

ErrorIgnored(o) == IF o = "exit" THEN "empty" ELSE "ok"  \* Fault: job.error is not looked at
AnswerOf(o) == CASE o = "ok" -> "ok" [] o = "error" -> "error" [] OTHER -> "empty"

\* job.done.wait() returns True.
Receive(r) ==
  /\ spc[r] = "waiting" /\ r \in done
  /\ Answer(r, AnswerOf(outcome[r]))
  /\ UNCHANGED <<shape, worker, target, outcome, done, withdrawn, pool>>

WaitsForever == FALSE  \* Fault: wait() is called without the timeout
WaitExpires == shape.timeout

\* job.done.wait(timeout) returns False ...
TimesOut(r) ==
  /\ WaitExpires
  /\ spc[r] = "waiting" /\ r \notin done
  /\ spc' = [spc EXCEPT ![r] = "expired"]
  /\ UNCHANGED <<shape, worker, target, outcome, done, answer, withdrawn, pool>>

QueueKept(w, r) == jobs[w]  \* Fault: the job is only marked as cancelled
QueueWithout(w, r) == RemoveAt(jobs[w], CHOOSE i \in DOMAIN jobs[w] : jobs[w][i] = r)

\* ... and the job, if no worker has taken it yet, leaves the queue.
Withdraw(r) ==
  LET w == target[r]
      queued == Contains(jobs[w], r)
  IN  /\ spc[r] = "expired"
      /\ Answer(r, "late")
      /\ jobs' = [jobs EXCEPT ![w] = IF queued THEN QueueWithout(w, r) ELSE @]
      /\ done' = IF queued THEN done \cup {r} ELSE done
      /\ withdrawn' = IF queued THEN withdrawn \cup {r} ELSE withdrawn
      /\ UNCHANGED <<shape, open, active, served, wpc, current, started, target, outcome, pool>>

(***************************************************************************)
(* _RouteThreadWorker._run.                                                *)
(***************************************************************************)
\* A job is taken; none that is queued is marked cancelled, so the branch for
\* that is never entered.
Take(w) ==
  /\ wpc[w] = "idle" /\ jobs[w] # <<>>
  /\ current' = [current EXCEPT ![w] = Head(jobs[w])]
  /\ jobs' = [jobs EXCEPT ![w] = Tail(@)]
  /\ active' = [active EXCEPT ![w] = @ + 1]
  /\ wpc' = [wpc EXCEPT ![w] = "handling"]
  /\ started' = [started EXCEPT ![w] = Append(@, Head(jobs[w]))]
  /\ UNCHANGED <<shape, open, served, request, pool>>

\* The handler returns or raises; the counters follow under the condition.
HandlerEnds(w) ==
  LET r == current[w]
  IN  /\ wpc[w] = "handling"
      /\ \E o \in IF r \in DyingRequests THEN {"exit"} ELSE {"ok", "error"} :
           /\ outcome' = [outcome EXCEPT ![r] = o]
      /\ active' = [active EXCEPT ![w] = @ - 1]
      /\ served' = [served EXCEPT ![w] = @ + 1]
      /\ wpc' = [wpc EXCEPT ![w] = "finishing"]
      /\ UNCHANGED <<shape, jobs, open, current, started, spc, target, done, answer,
                     withdrawn, pool>>

\* job.done.set(); a SystemExit then ends the thread, with _running still set.
Notify(w) ==
  /\ wpc[w] = "finishing"
  /\ done' = done \cup {current[w]}
  /\ wpc' = [wpc EXCEPT ![w] =
       IF outcome[current[w]] = "exit" THEN "exited" ELSE "idle"]
  /\ current' = [current EXCEPT ![w] = NoOne]
  /\ UNCHANGED <<shape, jobs, open, active, served, started, spc, target, outcome,
                 answer, withdrawn, pool>>

ExitsWhen(w) == jobs[w] = <<>>

\* Told to stop, and the queue is empty.
Exit(w) ==
  /\ wpc[w] = "idle" /\ ~open[w] /\ ExitsWhen(w)
  /\ wpc' = [wpc EXCEPT ![w] = "exited"]
  /\ UNCHANGED <<shape, jobs, open, active, served, current, started, request, pool>>

(***************************************************************************)
(* _RouteThreadPool.close, without the pool lock: workers one by one, each *)
(* joined for at most a second.                                            *)
(***************************************************************************)
CloseWorker ==
  /\ Closes /\ ~closed /\ closing < count
  /\ open' = [open EXCEPT ![closing + 1] = FALSE]
  /\ closing' = closing + 1
  /\ UNCHANGED <<shape, jobs, active, served, wpc, current, started, request, count, lock,
                 seen, closed>>

CloseEnds ==
  /\ Closes /\ ~closed /\ closing = count
  /\ closed' = TRUE
  /\ UNCHANGED <<shape, worker, request, count, lock, seen, closing>>

RequestStep(r) ==
  \/ \E cookie \in 0..count : Resolve(r, cookie)
  \/ ReadLoad(r) \/ Pick(r) \/ PickAny(r)
  \/ Submit(r) \/ Receive(r) \/ Withdraw(r)

WorkerStep(w) == Take(w) \/ Notify(w) \/ Exit(w)

Next ==
  \/ \E r \in Requests : RequestStep(r) \/ TimesOut(r)
  \/ \E w \in Workers : WorkerStep(w) \/ HandlerEnds(w)
  \/ CloseWorker \/ CloseEnds

Spec == Init /\ [][Next]_vars

\* Threads run and a wait with a timeout ends.
Fairness ==
  /\ \A r \in Requests : WF_vars(RequestStep(r)) /\ WF_vars(TimesOut(r))
  /\ \A w \in Workers : WF_vars(WorkerStep(w))
  /\ WF_vars(CloseWorker) /\ WF_vars(CloseEnds)

\* Nothing is assumed of the handlers.
FairSpec == Spec /\ Fairness

\* What the handlers owe: they end, and without ending their thread.
HandlersReturn ==
  /\ \A w \in Workers : WF_vars(HandlerEnds(w))
  /\ [](\A r \in Requests : outcome[r] # "exit")

-----------------------------------------------------------------------------
\* requests_per_thread bounds what a worker has queued and in hand, although
\* resolve() gives up its lock before submit() looks at the load again.
LoadBound ==
  shape.perThread > 0 => \A w \in Workers : Load(w) <= shape.perThread

\* Every job accepted is in one place: in one queue, in one worker's hands,
\* handled, or withdrawn; the counters agree with it and no job runs twice.
Queued(r) == {w \in Workers : Contains(jobs[w], r)}
Ran(r) == {w \in Workers : Contains(started[w], r)}
JobConservation ==
  /\ \A r \in Requests :
       /\ Cardinality(Queued(r)) + Cardinality(Ran(r))
            + (IF r \in withdrawn THEN 1 ELSE 0)
            = IF spc[r] \in {"waiting", "expired"} \/ answer[r] \in {"ok", "error", "empty", "late"}
                THEN 1 ELSE 0
       /\ Queued(r) \cup Ran(r) \subseteq {target[r]}
  /\ \A w \in Workers :
       /\ Len(started[w]) = served[w] + active[w]
       /\ active[w] = (IF wpc[w] = "handling" THEN 1 ELSE 0)

\* docs/app-http.md, "Si una solicitud vence mientras aun esta en cola se
\* retira antes de que el handler comience".
WithdrawnNeverRuns == \A r \in withdrawn : Ran(r) = {}

\* A result is returned only when the request's own handler has produced it
\* and the worker's counters have been brought up to date.
AnswersAreHonest ==
  \A r \in Requests :
    /\ answer[r] = "ok" => outcome[r] = "ok"
    /\ answer[r] = "error" => outcome[r] = "error"
    /\ answer[r] \in {"ok", "error"} => \E w \in Ran(r) : current[w] # r
    /\ answer[r] = "shut" => closing > 0

\* No worker takes more than its share, and no job is lost, run twice, or run
\* after it was withdrawn, whichever thread came first at each lock.
WorkConserved == TypeOK /\ LoadBound /\ JobConservation /\ WithdrawnNeverRuns

\* Every dispatched request is answered: because its wait has a timeout,
\* whatever handlers do, or else because handlers return.  (A request that is
\* answered stays so: in the end none is left waiting.)
AllAnswered == \A r \in Requests : spc[r] \in {"new", "answered"}
EveryRequestAnswered == HandlersReturn \/ []shape.timeout => <>[]AllAnswered

\* A worker that was told to stop stops, once its handlers end.
ClosedWorkersExit ==
  HandlersReturn => <>[](\A w \in Workers : w <= closing => wpc[w] = "exited")

\* Neither a request nor a thread is left waiting.
EverythingAnswered == EveryRequestAnswered /\ ClosedWorkersExit
=============================================================================
