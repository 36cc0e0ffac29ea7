---------------------------- MODULE TaskManager ----------------------------
(***************************************************************************)
(* wsbuilder/tasks.py: TaskManager and TaskHandle.                         *)
(*                                                                         *)
(* One thread per spawned task, an optional BoundedSemaphore in front of   *)
(* the task bodies, cooperative cancellation, a bounded history of ended   *)
(* tasks, and close(), which refuses further spawns, cancels what is       *)
(* registered and joins it.  Every action is one step of a thread between  *)
(* two points where another can run: a critical section of the manager     *)
(* lock or of a task's state lock, a semaphore operation, or the read of   *)
(* an Event.  Definitions marked Fault are variants with a bug.            *)
(***************************************************************************)
EXTENDS Integers, Sequences, FiniteSets

CONSTANTS
  Tasks,          \* the tasks a program may spawn
  GroupTasks,     \* the tasks spawned with the one group modelled
  TimedTasks,     \* the tasks spawned with timeout_seconds
  ClosingTasks,   \* the tasks whose body may call manager.close()
  ExitingTasks,   \* the tasks whose body may raise a BaseException (SystemExit)
  Callers,        \* threads that call cancel_group, cancel_all and close
  MaxConcurrent,  \* max_concurrent; 0 means no semaphore
  MaxFinished     \* max_finished_tasks; 0 keeps every ended task

ASSUME TaskConstants ==
  /\ IsFiniteSet(Tasks)
  /\ GroupTasks \subseteq Tasks
  /\ TimedTasks \subseteq Tasks
  /\ ClosingTasks \subseteq Tasks
  /\ ExitingTasks \subseteq Tasks
  /\ Callers \cap Tasks = {}
  /\ MaxConcurrent \in Nat
  /\ MaxFinished \in Nat

VARIABLES
  closed,         \* manager._closed
  tasks,          \* the keys of manager._tasks
  group,          \* manager._by_group of the group, empty when absent
  finishedOrder,  \* manager._finished_order
  evictedTotal,   \* manager._evicted_finished_total
  finalLog,       \* history: every task _finalize_task registered, in order
  slots,          \* the value of manager._task_slot
  holding,        \* tasks between gate.acquire and gate.release
  status,         \* task._status
  cancelReq,      \* tasks whose _cancel_requested is set
  promised,       \* history: tasks for which cancel() returned True
  finished,       \* tasks whose _finished is set
  pc,             \* where each task's thread is in _run
  verdict,        \* what the thread has decided to report: see Settle
  expired,        \* timed tasks whose deadline for a slot has passed
  call            \* the manager call each participant is in

registry == <<tasks, group, finishedOrder, evictedTotal, finalLog>>
manager == <<closed, registry>>
gate == <<slots, holding>>
task == <<status, cancelReq, promised, finished>>
vars == <<manager, gate, task, pc, verdict, expired, call>>

Terminal == {"completed", "failed", "cancelled", "rejected"}
Verdicts == {"none", "returned", "raised", "cancelled", "rejected", "exit"}
Locations == {"unborn", "aborted", "gate", "acquire", "precancel", "preclosed",
              "start", "body", "settle", "release", "finalize", "signal", "done"}
Modes == {"cancel", "nowait", "forever", "deadline"}
Participants == Callers \cup ClosingTasks
Idle == [op |-> "idle", todo |-> {}, joins |-> {}, mode |-> "cancel"]

HasGate == MaxConcurrent > 0
\* Spawned tasks whose thread has not registered their end.
Live == {t \in Tasks : pc[t] \notin {"unborn", "aborted", "signal", "done"}}
InBody == {t \in Tasks : pc[t] = "body"}

TypeOK ==
  /\ closed \in BOOLEAN
  /\ tasks \subseteq Tasks /\ group \subseteq Tasks
  /\ finishedOrder \in Seq(Tasks) /\ finalLog \in Seq(Tasks)
  /\ evictedTotal \in Nat
  /\ slots \in 0..MaxConcurrent
  /\ holding \subseteq Tasks
  /\ status \in [Tasks -> {"pending", "running"} \cup Terminal]
  /\ cancelReq \subseteq Tasks /\ promised \subseteq Tasks
  /\ finished \subseteq Tasks /\ expired \subseteq Tasks
  /\ pc \in [Tasks -> Locations]
  /\ verdict \in [Tasks -> Verdicts]
  /\ call \in [Participants ->
        [op : {"idle", "sweep", "join", "returned"}, todo : SUBSET Tasks,
         joins : SUBSET Tasks, mode : Modes]]

Init ==
  /\ closed = FALSE
  /\ tasks = {} /\ group = {}
  /\ finishedOrder = <<>> /\ finalLog = <<>> /\ evictedTotal = 0
  /\ slots = MaxConcurrent /\ holding = {}
  /\ status = [t \in Tasks |-> "pending"]
  /\ cancelReq = {} /\ promised = {} /\ finished = {} /\ expired = {}
  /\ pc = [t \in Tasks |-> "unborn"]
  /\ verdict = [t \in Tasks |-> "none"]
  /\ call = [c \in Participants |-> Idle]

Goto(t, from, to) ==
  /\ pc[t] = from
  /\ pc' = [pc EXCEPT ![t] = to]

(***************************************************************************)
(* spawn(): the check of _closed, the registration and Thread.start() are  *)
(* one critical section of the manager lock.                               *)
(***************************************************************************)
SpawnAdmits == ~closed

Spawn(t) ==
  /\ SpawnAdmits
  /\ Goto(t, "unborn", IF HasGate THEN "gate" ELSE "precancel")
  /\ tasks' = tasks \cup {t}
  /\ group' = group \cup ({t} \cap GroupTasks)
  /\ UNCHANGED <<closed, finishedOrder, evictedTotal, finalLog, gate, task,
                 verdict, expired, call>>

\* Thread.start() raises: the entries added under the same lock are removed.
SpawnFails(t) ==
  /\ SpawnAdmits
  /\ Goto(t, "unborn", "aborted")
  /\ UNCHANGED <<manager, gate, task, verdict, expired, call>>

(***************************************************************************)
(* TaskHandle._run.  A verdict is what the thread is about to write as its *)
(* status; the write is a step of its own: a cancel() may come in between. *)
(***************************************************************************)
Decide(t, v) ==
  /\ verdict' = [verdict EXCEPT ![t] = v]
  /\ pc' = [pc EXCEPT ![t] = "settle"]

RefusedAtGate(t) == closed \/ t \in cancelReq

DeadlineReached(t) == t \in expired

\* One turn of the waiting loop, up to gate.acquire.
GateCheck(t) ==
  /\ pc[t] = "gate"
  /\ \/ RefusedAtGate(t) /\ Decide(t, "cancelled")
     \/ ~RefusedAtGate(t) /\ DeadlineReached(t) /\ Decide(t, "rejected")
     \/ /\ ~RefusedAtGate(t) /\ ~DeadlineReached(t)
        /\ Goto(t, "gate", "acquire")
        /\ UNCHANGED verdict
  /\ UNCHANGED <<manager, gate, task, expired, call>>

\* time.monotonic() passes the deadline of the task.
DeadlinePasses(t) ==
  /\ t \in TimedTasks \ expired
  /\ pc[t] \in {"gate", "acquire"}
  /\ expired' = expired \cup {t}
  /\ UNCHANGED <<manager, gate, task, pc, verdict, call>>

\* gate.acquire(timeout) takes a slot ...
Acquire(t) ==
  /\ slots > 0
  /\ Goto(t, "acquire", "precancel")
  /\ slots' = slots - 1
  /\ holding' = holding \cup {t}
  /\ UNCHANGED <<manager, task, verdict, expired, call>>

TimeoutProceeds == "precancel"  \* Fault: the result of acquire is not tested
AfterTimeout == "gate"

\* ... or times out, which a threading semaphore does only with none free.
AcquireTimesOut(t) ==
  /\ slots = 0
  /\ Goto(t, "acquire", AfterTimeout)
  /\ UNCHANGED <<manager, gate, task, verdict, expired, call>>

\* The two checks made with the slot held, one after the other.
PreStartCheck(t) ==
  /\ \/ pc[t] = "precancel" /\ t \in cancelReq /\ Decide(t, "cancelled")
     \/ pc[t] = "preclosed" /\ closed /\ Decide(t, "rejected")
     \/ t \notin cancelReq /\ Goto(t, "precancel", "preclosed") /\ UNCHANGED verdict
     \/ ~closed /\ Goto(t, "preclosed", "start") /\ UNCHANGED verdict
  /\ UNCHANGED <<manager, gate, task, expired, call>>

\* The task is running and its target is called.
Start(t) ==
  /\ Goto(t, "start", "body")
  /\ status' = [status EXCEPT ![t] = "running"]
  /\ UNCHANGED <<manager, gate, cancelReq, promised, finished, verdict, expired, call>>

\* The target returns, raises, raises TaskCancelledError or one of the other
\* task errors, or (ExitingTasks) raises what "except Exception" misses.
BodyVerdicts(t) ==
  {"returned", "raised", "cancelled", "rejected"}
    \cup (IF t \in ExitingTasks THEN {"exit"} ELSE {})

BodyEnds(t) ==
  /\ pc[t] = "body"
  /\ t \in ClosingTasks => call[t].op \in {"idle", "returned"}
  /\ \E v \in BodyVerdicts(t) : Decide(t, v)
  /\ UNCHANGED <<manager, gate, task, expired, call>>

OutcomeKept(t, s) == s  \* Fault: the cancellation is not looked at again
UnlessCancelled(t, s) == IF t \in cancelReq THEN "cancelled" ELSE s

\* What _run writes; for a BaseException that no handler names, nothing.
SettledStatus(t) ==
  CASE verdict[t] = "returned" -> UnlessCancelled(t, "completed")
    [] verdict[t] = "raised" -> UnlessCancelled(t, "failed")
    [] verdict[t] \in {"cancelled", "rejected"} -> verdict[t]
    [] OTHER -> status[t]

AlwaysRelease(t) == "release"  \* Fault: the refusals release a slot too
WakeFirst(t) == "signal"       \* Fault: waiters wake before the bookkeeping
AfterSettle(t) == IF t \in holding THEN "release" ELSE "finalize"

Settle(t) ==
  /\ Goto(t, "settle", AfterSettle(t))
  /\ status' = [status EXCEPT ![t] = SettledStatus(t)]
  /\ UNCHANGED <<manager, gate, cancelReq, promised, finished, verdict, expired, call>>

SlotLeaked == slots  \* Fault: gate.release() is missing
SlotReturned == slots + 1

\* gate.release() in the finally block.
Release(t) ==
  /\ Goto(t, "release", "finalize")
  /\ slots' = SlotReturned
  /\ holding' = holding \ {t}
  /\ UNCHANGED <<manager, task, verdict, expired, call>>

\* _evict_finished_locked: how many handles popleft() drops from order.
EvictCount(order) ==
  IF MaxFinished > 0 /\ Len(order) > MaxFinished THEN Len(order) - MaxFinished ELSE 0

GroupWithout(t) == group \ {t}

\* manager._finalize_task, one critical section of the manager lock.
Finalize(t) ==
  LET order == Append(finishedOrder, t)
      n == EvictCount(order)
  IN  /\ Goto(t, "finalize", "signal")
      /\ group' = GroupWithout(t)
      /\ finishedOrder' = SubSeq(order, n + 1, Len(order))
      /\ tasks' = (tasks \cup {t}) \ {order[i] : i \in 1..n}
      /\ evictedTotal' = evictedTotal + n
      /\ finalLog' = Append(finalLog, t)
      /\ UNCHANGED <<closed, gate, task, verdict, expired, call>>

\* _finished.set() wakes wait(), join() and get().
Signal(t) ==
  /\ Goto(t, "signal", "done")
  /\ finished' = finished \cup {t}
  /\ UNCHANGED <<manager, gate, status, cancelReq, promised, verdict, expired, call>>

(***************************************************************************)
(* cancel, cancel_group, cancel_all, close.                                *)
(***************************************************************************)
AlwaysCancellable(t) == TRUE  \* Fault: cancel() does not look at the status
Cancellable(t) == status[t] \notin Terminal

\* TaskHandle.cancel(), under the task's state lock.
CancelStep(t) ==
  /\ cancelReq' = IF Cancellable(t) THEN cancelReq \cup {t} ELSE cancelReq
  /\ promised' = IF Cancellable(t) THEN promised \cup {t} ELSE promised
  /\ UNCHANGED <<manager, gate, status, finished, pc, verdict, expired>>

\* A program that kept the handle, or finds it by id, cancels one task.
Cancel(t) ==
  /\ pc[t] \notin {"unborn", "aborted"}
  /\ t \notin cancelReq
  /\ CancelStep(t)
  /\ UNCHANGED call

\* cancel_group and cancel_all copy the ids under the manager lock.
BeginCancelSweep(c, ids) ==
  /\ call[c].op = "idle"
  /\ ids # {}
  /\ call' = [call EXCEPT ![c] = [Idle EXCEPT !.op = "sweep", !.todo = ids]]
  /\ UNCHANGED <<manager, gate, task, pc, verdict, expired>>

JoinsOf(c) == tasks \ {c}

\* close() sets _closed and copies the handles in one critical section.
BeginClose(c, mode) ==
  /\ call[c].op = "idle"
  /\ c \in ClosingTasks => pc[c] = "body"
  /\ closed' = TRUE
  /\ call' = [call EXCEPT ![c] =
       [op |-> "sweep", todo |-> tasks, mode |-> mode,
        joins |-> IF mode = "nowait" THEN {} ELSE JoinsOf(c)]]
  /\ UNCHANGED <<registry, gate, task, pc, verdict, expired>>

\* One cancel() of the loop over the copy.
SweepOne(c, t) ==
  /\ call[c].op = "sweep" /\ t \in call[c].todo
  /\ call' = [call EXCEPT ![c].todo = @ \ {t}]
  /\ CancelStep(t)

AfterSweep(mode) ==
  CASE mode = "cancel" -> "idle" [] mode = "nowait" -> "returned" [] OTHER -> "join"

SweepDone(c) ==
  /\ call[c].op = "sweep" /\ call[c].todo = {}
  /\ call' = [call EXCEPT ![c].op = AfterSweep(call[c].mode)]
  /\ UNCHANGED <<manager, gate, task, pc, verdict, expired>>

JoinOne(c, t) ==
  /\ call[c].op = "join" /\ t \in call[c].joins \cap finished
  /\ call' = [call EXCEPT ![c].joins = @ \ {t}]
  /\ UNCHANGED <<manager, gate, task, pc, verdict, expired>>

\* close() returns: everything is joined, or its own deadline has passed.
CloseReturns(c) ==
  /\ call[c].op = "join"
  /\ call[c].joins = {} \/ call[c].mode = "deadline"
  /\ call' = [call EXCEPT ![c].op = "returned"]
  /\ UNCHANGED <<manager, gate, task, pc, verdict, expired>>

ThreadStep(t) ==
  \/ GateCheck(t) \/ Acquire(t) \/ AcquireTimesOut(t) \/ PreStartCheck(t)
  \/ Start(t) \/ Settle(t) \/ Release(t) \/ Finalize(t) \/ Signal(t)

CallerStep(c) ==
  \/ \E t \in Tasks : SweepOne(c, t) \/ JoinOne(c, t)
  \/ SweepDone(c)
  \/ CloseReturns(c)

Next ==
  \/ \E t \in Tasks :
       \/ Spawn(t) \/ SpawnFails(t) \/ Cancel(t)
       \/ ThreadStep(t) \/ BodyEnds(t) \/ DeadlinePasses(t)
  \/ \E c \in Callers, ids \in {group, tasks} : BeginCancelSweep(c, ids)
  \/ \E c \in Participants :
       \/ \E mode \in {"nowait", "forever", "deadline"} : BeginClose(c, mode)
       \/ CallerStep(c)

Spec == Init /\ [][Next]_vars

\* The operating system runs every thread, and a participant inside a call.
ThreadFairness ==
  /\ \A t \in Tasks : WF_vars(ThreadStep(t)) /\ WF_vars(DeadlinePasses(t))
  /\ \A c \in Participants : WF_vars(CallerStep(c))

ThreadFairSpec == Spec /\ ThreadFairness

\* What the program owes for its part: the targets end.
TargetsEnd == \A t \in Tasks : WF_vars(BodyEnds(t))

-----------------------------------------------------------------------------
\* No slot of the semaphore is leaked or returned twice, whichever of the
\* ways out of _run a task takes (the refusals at the gate hold none).
SlotConservation == slots + Cardinality(holding) = MaxConcurrent

\* max_concurrent bounds the targets that execute at one time.
ConcurrencyBound == HasGate => Cardinality(InBody) <= MaxConcurrent

\* A task whose cancel() returned True never ends completed or failed,
\* however the request races the end of its target.
CancelHonoured == \A t \in promised : status[t] \notin {"completed", "failed"}

\* A task that has not ended is in the table (and in its group), so that
\* cancel_all, cancel_group and close reach it; the eviction of ended
\* handles never drops it.
LiveTasksRegistered ==
  \A t \in Live : t \in tasks /\ (t \in GroupTasks => t \in group)

\* The retained handles are the newest of those that ended, at most
\* max_finished_tasks of them, and finished_evicted_total counts the others.
HistoryKeepsNewest ==
  /\ MaxFinished > 0 => Len(finishedOrder) <= MaxFinished
  /\ Len(finalLog) = Len(finishedOrder) + evictedTotal
  /\ finishedOrder = SubSeq(finalLog, evictedTotal + 1, Len(finalLog))
  /\ tasks \ Live = {finishedOrder[i] : i \in DOMAIN finishedOrder}

\* When wait() returns the task has given its slot back, has been registered
\* as ended and has left the group index (comment of _finish_and_finalize).
WaitersSeeSettledBookkeeping ==
  \A t \in finished :
    /\ t \notin group
    /\ t \notin holding
    /\ \E i \in DOMAIN finalLog : finalLog[i] = t

\* close(wait=True) without a deadline, called from outside, returns only when
\* every task ever started has ended and none can start any more (a task that
\* ended and was evicted before the copy may still be waking its waiters).
CloseQuiesces ==
  \A c \in Callers :
    call[c].op = "returned" /\ call[c].mode = "forever" => closed /\ Live = {}

\* The manager's tables are right for whoever reads them: cancel_all and close
\* find the live tasks, status() the ended ones, and those who wake after a task,
\* or return from close(), find nothing of it left to do.
BookkeepingSettled ==
  /\ LiveTasksRegistered
  /\ HistoryKeepsNewest
  /\ WaitersSeeSettledBookkeeping
  /\ CloseQuiesces

\* A terminal status is never overwritten, and cancel() does not return True
\* for a task that has one.
FinalStep ==
  \A t \in Tasks : status[t] \in Terminal =>
    status'[t] = status[t] /\ (t \in promised' => t \in promised)
TerminalIsFinal == [][FinalStep]_vars

(***************************************************************************)
(* Refinement of TaskContract                                              *)
(***************************************************************************)
PhaseOf(t) ==
  CASE pc[t] \in {"unborn", "aborted"} -> "new"
    [] pc[t] = "body" -> "executing"
    [] verdict[t] \in {"returned", "raised"} -> "yielded"
    [] verdict[t] \in {"cancelled", "rejected", "exit"} -> "barren"
    [] OTHER -> "waiting"

OutcomeOf(t) == IF status[t] \in Terminal THEN status[t] ELSE "none"

Contract == INSTANCE TaskContract WITH
  Limit <- MaxConcurrent,
  shut <- closed,
  phase <- [t \in Tasks |-> PhaseOf(t)],
  outcome <- [t \in Tasks |-> OutcomeOf(t)]

\* The threads, the semaphore and the tables implement the contract.
ImplementsContract == Contract!CSpec

(***************************************************************************)
(* Liveness                                                                *)
(***************************************************************************)
\* Every spawned task ends and wakes its waiters, when targets end.  (A task
\* that ended stays so: in the end none is left.)
SpawnedTasksEnd ==
  TargetsEnd =>
    <>[](\A t \in Tasks : pc[t] \in {"unborn", "aborted"} \/ t \in finished)

\* A task cancelled before its target began ends even if the tasks that hold
\* the slots never do.
CancelledWaiterEnds ==
  <>[](\A t \in cancelReq : pc[t] \notin {"gate", "acquire", "precancel"})

\* close() returns, also when a task calls it on its own manager.
CloseTerminates ==
  TargetsEnd =>
    <>[](\A c \in Participants :
           call[c].mode # "cancel" => call[c].op \notin {"sweep", "join"})

\* Nothing waits for ever: not the spawned tasks, nor what was cancelled before
\* its target began, nor close().
EverythingEnds == SpawnedTasksEnd /\ CancelledWaiterEnds /\ CloseTerminates
=============================================================================
