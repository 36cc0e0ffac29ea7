------------------------- MODULE TaskManagerProofs -------------------------
(***************************************************************************)
(* Theorems about TaskManager, for every set of tasks and every bound.     *)
(***************************************************************************)
EXTENDS TaskManager, FiniteSetTheorems, TLAPS

\* Which threads are between gate.acquire and gate.release.
HolderLocations == {"precancel", "preclosed", "start", "body"}

SlotInv ==
  /\ SlotConservation
  /\ \A t \in Tasks :
       /\ pc[t] \in HolderLocations /\ HasGate => t \in holding
       /\ pc[t] = "release" => t \in holding
       /\ t \in holding => pc[t] \in HolderLocations \cup {"settle", "release"}

\* A slot is taken from those left and given back by one that has it.
LEMMA HolderCount ==
  ASSUME TypeOK, SlotConservation, NEW t \in Tasks
  PROVE  /\ IsFiniteSet(holding)
         /\ Cardinality(holding) \in Nat
         /\ t \notin holding => Cardinality(holding \cup {t}) = Cardinality(holding) + 1
         /\ t \in holding => /\ Cardinality(holding \ {t}) = Cardinality(holding) - 1
                             /\ slots < MaxConcurrent
  <1>1. IsFiniteSet(holding)
    BY FS_Subset, TaskConstants DEF TypeOK
  <1>2. Cardinality(holding) \in Nat
    BY <1>1, FS_CardinalityType
  <1>3. IsFiniteSet(holding \ {t}) /\ Cardinality(holding \ {t}) \in Nat
    BY <1>1, FS_RemoveElement, FS_CardinalityType
  <1>4. Cardinality(holding \cup {t}) =
          IF t \in holding THEN Cardinality(holding) ELSE Cardinality(holding) + 1
    BY <1>1, FS_AddElement
  <1>5. Cardinality(holding \ {t}) =
          IF t \in holding THEN Cardinality(holding) - 1 ELSE Cardinality(holding)
    BY <1>1, FS_RemoveElement
  <1>. QED
    BY <1>1, <1>2, <1>3, <1>4, <1>5, TaskConstants DEF TypeOK, SlotConservation

\* At the start every slot is free.
LEMMA SlotInvInit == Init => TypeOK /\ SlotInv
  <1> SUFFICES ASSUME Init PROVE TypeOK /\ SlotInv
    OBVIOUS
  <1>1. Idle \in [op : {"idle", "sweep", "join", "returned"}, todo : SUBSET Tasks,
                  joins : SUBSET Tasks, mode : Modes]
    BY DEF Idle, Modes
  <1>2. TypeOK
    <2>1. call \in [Participants ->
            [op : {"idle", "sweep", "join", "returned"}, todo : SUBSET Tasks,
             joins : SUBSET Tasks, mode : Modes]]
      BY <1>1 DEF Init
    <2>2. finishedOrder \in Seq(Tasks) /\ finalLog \in Seq(Tasks)
      BY DEF Init
    <2>3. slots \in 0..MaxConcurrent /\ evictedTotal \in Nat
      BY TaskConstants DEF Init
    <2>4. status \in [Tasks -> {"pending", "running"} \cup Terminal]
      BY DEF Init
    <2>5. pc \in [Tasks -> Locations] /\ verdict \in [Tasks -> Verdicts]
      BY DEF Init, Verdicts, Locations
    <2>. QED
      BY <2>1, <2>2, <2>3, <2>4, <2>5 DEF Init, TypeOK
  <1>3. SlotInv
    BY FS_EmptySet, TaskConstants DEF Init, SlotInv, SlotConservation, HolderLocations
  <1>. QED
    BY <1>2, <1>3

\* The steps that move one thread, without touching the semaphore, between
\* places where it holds a slot or between places where it holds none.
LEMMA SlotInvStep == TypeOK /\ SlotInv /\ [Next]_vars => TypeOK' /\ SlotInv'
  <1> SUFFICES ASSUME TypeOK, SlotInv, [Next]_vars PROVE TypeOK' /\ SlotInv'
    OBVIOUS
  <1> USE DEF manager, registry, gate, task, Goto, Decide
  <1> DEFINE Kept == UNCHANGED <<slots, holding>>
  <1>a. ASSUME Kept, UNCHANGED pc PROVE SlotInv'
    BY <1>a DEF SlotInv, SlotConservation, HasGate, HolderLocations
  <1>1. ASSUME NEW t \in Tasks, Spawn(t) PROVE TypeOK' /\ SlotInv'
    <2>1. TypeOK'
      BY <1>1, TaskConstants DEF Spawn, TypeOK, Locations
    <2>2. SlotInv'
      BY <1>1, TaskConstants DEF Spawn, TypeOK, SlotInv, SlotConservation, HasGate, HolderLocations
    <2>. QED BY <2>1, <2>2
  <1>2. ASSUME NEW t \in Tasks, SpawnFails(t) PROVE TypeOK' /\ SlotInv'
    BY <1>2 DEF SpawnFails, TypeOK, Locations, SlotInv, SlotConservation, HasGate, HolderLocations
  <1>3. ASSUME NEW t \in Tasks, Cancel(t) PROVE TypeOK' /\ SlotInv'
    BY <1>3, <1>a DEF Cancel, CancelStep, TypeOK
  <1>4. ASSUME NEW t \in Tasks, GateCheck(t) PROVE TypeOK' /\ SlotInv'
    <2>1. TypeOK'
      BY <1>4 DEF GateCheck, TypeOK, Locations, Verdicts
    <2>2. SlotInv'
      BY <1>4 DEF GateCheck, TypeOK, SlotInv, SlotConservation, HasGate, HolderLocations
    <2>. QED BY <2>1, <2>2
  <1>5. ASSUME NEW t \in Tasks, Acquire(t) PROVE TypeOK' /\ SlotInv'
    <2>1. t \notin holding
      BY <1>5 DEF Acquire, SlotInv, HolderLocations
    <2>2. SlotConservation'
      BY <1>5, <2>1, HolderCount, TaskConstants DEF Acquire, SlotInv, SlotConservation, TypeOK
    <2>. QED
      BY <1>5, <2>2, TaskConstants DEF Acquire, TypeOK, Locations, SlotInv, HasGate, HolderLocations
  <1>6. ASSUME NEW t \in Tasks, AcquireTimesOut(t) PROVE TypeOK' /\ SlotInv'
    BY <1>6 DEF AcquireTimesOut, AfterTimeout, TypeOK, Locations, SlotInv, SlotConservation,
                HasGate, HolderLocations
  <1>7. ASSUME NEW t \in Tasks, PreStartCheck(t) PROVE TypeOK' /\ SlotInv'
    <2>1. TypeOK'
      BY <1>7 DEF PreStartCheck, TypeOK, Locations, Verdicts
    <2>2. SlotInv'
      BY <1>7, SMTT(30) DEF PreStartCheck, TypeOK, SlotInv, SlotConservation, HasGate, HolderLocations
    <2>. QED BY <2>1, <2>2
  <1>8. ASSUME NEW t \in Tasks, Start(t) PROVE TypeOK' /\ SlotInv'
    BY <1>8 DEF Start, TypeOK, Locations, SlotInv, SlotConservation, HasGate, HolderLocations
  <1>9. ASSUME NEW t \in Tasks, BodyEnds(t) PROVE TypeOK' /\ SlotInv'
    <2> PICK v \in BodyVerdicts(t) : Decide(t, v)
      BY <1>9 DEF BodyEnds
    <2> v \in Verdicts
      BY DEF BodyVerdicts, Verdicts
    <2>. QED
      BY <1>9 DEF BodyEnds, TypeOK, Locations, SlotInv, SlotConservation, HasGate, HolderLocations
  <1>10. ASSUME NEW t \in Tasks, Settle(t) PROVE TypeOK' /\ SlotInv'
    <2>1. SettledStatus(t) \in {"pending", "running"} \cup Terminal
      BY DEF SettledStatus, UnlessCancelled, TypeOK, Terminal, Verdicts
    <2>2. AfterSettle(t) \in Locations
      BY DEF AfterSettle, Locations
    <2>. QED
      BY <1>10, <2>1, <2>2 DEF Settle, AfterSettle, TypeOK, SlotInv, SlotConservation, HasGate,
                HolderLocations
  <1>11. ASSUME NEW t \in Tasks, Release(t) PROVE TypeOK' /\ SlotInv'
    <2>1. t \in holding
      BY <1>11 DEF Release, SlotInv
    <2>2. SlotConservation' /\ slots < MaxConcurrent
      BY <1>11, <2>1, HolderCount, TaskConstants
         DEF Release, SlotReturned, SlotInv, SlotConservation, TypeOK
    <2>. QED
      BY <1>11, <2>2, TaskConstants
         DEF Release, SlotReturned, TypeOK, Locations, SlotInv, HasGate, HolderLocations
  <1>12. ASSUME NEW t \in Tasks, Finalize(t) PROVE TypeOK' /\ SlotInv'
    <2> DEFINE order == Append(finishedOrder, t)
               n == EvictCount(order)
    <2>1. order \in Seq(Tasks) /\ Len(order) \in Nat
      BY DEF TypeOK
    <2>2. n \in Nat /\ n <= Len(order)
      BY <2>1, TaskConstants DEF EvictCount
    <2>3. SubSeq(order, n + 1, Len(order)) \in Seq(Tasks)
      <3>1. \A i \in 1..Len(order) : order[i] \in Tasks
        BY <2>1
      <3>. QED
        BY <2>1, <2>2, <3>1
    <2>4. Append(finalLog, t) \in Seq(Tasks) /\ evictedTotal + n \in Nat
      BY <2>2 DEF TypeOK
    <2>5. /\ pc[t] = "finalize" /\ pc' = [pc EXCEPT ![t] = "signal"]
          /\ group' = group \ {t}
          /\ finishedOrder' = SubSeq(order, n + 1, Len(order))
          /\ tasks' \subseteq tasks \cup {t}
          /\ evictedTotal' = evictedTotal + n
          /\ finalLog' = Append(finalLog, t)
          /\ UNCHANGED <<closed, slots, holding, status, cancelReq, promised, finished,
                         verdict, expired, call>>
      BY <1>12 DEF Finalize, GroupWithout
    <2>6. TypeOK'
      BY <2>3, <2>4, <2>5 DEF TypeOK, Locations
    <2>7. SlotInv'
      BY <2>5 DEF TypeOK, SlotInv, SlotConservation, HasGate, HolderLocations
    <2>. QED BY <2>6, <2>7
  <1>13. ASSUME NEW t \in Tasks, Signal(t) PROVE TypeOK' /\ SlotInv'
    BY <1>13 DEF Signal, TypeOK, Locations, SlotInv, SlotConservation, HasGate, HolderLocations
  <1>14. ASSUME NEW t \in Tasks, DeadlinePasses(t) PROVE TypeOK' /\ SlotInv'
    BY <1>14, <1>a DEF DeadlinePasses, TypeOK
  <1>15. ASSUME NEW c \in Callers, NEW ids \in {group, tasks}, BeginCancelSweep(c, ids)
         PROVE TypeOK' /\ SlotInv'
    <2>1. [Idle EXCEPT !.op = "sweep", !.todo = ids] \in
            [op : {"idle", "sweep", "join", "returned"}, todo : SUBSET Tasks,
             joins : SUBSET Tasks, mode : Modes]
      BY DEF Idle, TypeOK, Modes
    <2>. QED
      BY <1>15, <2>1, <1>a DEF BeginCancelSweep, TypeOK, Participants
  <1>16. ASSUME NEW c \in Participants, NEW mode \in {"nowait", "forever", "deadline"},
                BeginClose(c, mode)
         PROVE TypeOK' /\ SlotInv'
    <2> DEFINE r == [op |-> "sweep", todo |-> tasks, mode |-> mode,
                     joins |-> IF mode = "nowait" THEN {} ELSE JoinsOf(c)]
    <2>1. r \in [op : {"idle", "sweep", "join", "returned"}, todo : SUBSET Tasks,
                 joins : SUBSET Tasks, mode : Modes]
      BY DEF TypeOK, Modes, JoinsOf
    <2>2. call' = [call EXCEPT ![c] = r] /\ closed' = TRUE
          /\ UNCHANGED <<registry, slots, holding, status, cancelReq, promised, finished, pc,
                         verdict, expired>>
      BY <1>16 DEF BeginClose
    <2>. QED
      BY <2>1, <2>2, <1>a DEF TypeOK
  <1>17. ASSUME NEW c \in Participants, CallerStep(c) PROVE TypeOK' /\ SlotInv'
    <2>1. ASSUME NEW t \in Tasks, SweepOne(c, t) PROVE TypeOK' /\ SlotInv'
      BY <2>1, <1>a, ZenonT(30) DEF SweepOne, CancelStep, TypeOK
    <2>2. ASSUME NEW t \in Tasks, JoinOne(c, t) PROVE TypeOK' /\ SlotInv'
      BY <2>2, <1>a, ZenonT(30) DEF JoinOne, TypeOK
    <2>3. ASSUME SweepDone(c) PROVE TypeOK' /\ SlotInv'
      <3>1. AfterSweep(call[c].mode) \in {"idle", "sweep", "join", "returned"}
        BY DEF AfterSweep
      <3>. QED
        BY <2>3, <3>1, <1>a, ZenonT(30) DEF SweepDone, TypeOK
    <2>4. ASSUME CloseReturns(c) PROVE TypeOK' /\ SlotInv'
      BY <2>4, <1>a, SMTT(30) DEF CloseReturns, TypeOK
    <2>. QED
      BY <1>17, <2>1, <2>2, <2>3, <2>4 DEF CallerStep
  <1>18. CASE UNCHANGED vars
    BY <1>18, <1>a DEF vars, TypeOK
  <1>. QED
    BY <1>1, <1>2, <1>3, <1>4, <1>5, <1>6, <1>7, <1>8, <1>9, <1>10, <1>11, <1>12, <1>13,
       <1>14, <1>15, <1>16, <1>17, <1>18 DEF Next, ThreadStep

\* Type correctness.
THEOREM TypeCorrect == Spec => []TypeOK
  BY SlotInvInit, SlotInvStep, PTL DEF Spec

\* The slots are accounted for in every reachable state.
LEMMA SlotsInvariant == Spec => []SlotInv
  BY SlotInvInit, SlotInvStep, PTL DEF Spec

\* The free slots and the holders always add up to max_concurrent.
THEOREM SlotsConserved == Spec => []SlotConservation
  <1>1. SlotInv => SlotConservation
    BY DEF SlotInv
  <1>. QED
    BY <1>1, SlotsInvariant, PTL

\* At most max_concurrent targets execute at one time.
THEOREM ConcurrencyBounded == Spec => []ConcurrencyBound
  <1>1. TypeOK /\ SlotInv => ConcurrencyBound
    <2> SUFFICES ASSUME TypeOK, SlotInv, HasGate
                 PROVE  Cardinality(InBody) <= MaxConcurrent
      BY DEF ConcurrencyBound
    <2>1. InBody \subseteq holding
      BY DEF InBody, SlotInv, HolderLocations
    <2>2. IsFiniteSet(holding) /\ Cardinality(holding) \in Nat
      BY FS_Subset, FS_CardinalityType, TaskConstants DEF TypeOK
    <2>3. Cardinality(InBody) \in Nat /\ Cardinality(InBody) <= Cardinality(holding)
      BY <2>1, <2>2, FS_Subset, FS_CardinalityType
    <2>. QED
      BY <2>2, <2>3, TaskConstants DEF SlotInv, SlotConservation, TypeOK
  <1>. QED
    BY <1>1, TypeCorrect, SlotsInvariant, PTL

-----------------------------------------------------------------------------
\* What a cancellation that was promised leaves behind, and where a thread is
\* once its task has a terminal status.
OutcomeInv ==
  /\ promised \subseteq cancelReq
  /\ CancelHonoured
  /\ \A t \in Tasks :
       status[t] \in Terminal => pc[t] \in {"release", "finalize", "signal", "done"}

\* A promised cancellation is not broken by any step, and a terminal status is
\* never overwritten.
LEMMA OutcomeInvStep ==
  TypeOK /\ OutcomeInv /\ [Next]_vars =>
    /\ OutcomeInv'
    /\ \A t \in Tasks : status[t] \in Terminal =>
         status'[t] = status[t] /\ (t \in promised' => t \in promised)
  <1> SUFFICES ASSUME TypeOK, OutcomeInv, [Next]_vars
               PROVE  /\ OutcomeInv'
                      /\ \A t \in Tasks : status[t] \in Terminal =>
                           status'[t] = status[t] /\ (t \in promised' => t \in promised)
    OBVIOUS
  <1> DEFINE Goal == /\ OutcomeInv'
                     /\ \A t \in Tasks : status[t] \in Terminal =>
                          status'[t] = status[t] /\ (t \in promised' => t \in promised)
  <1> USE DEF manager, registry, gate, task, Goto, Decide
  <1>1. ASSUME UNCHANGED <<status, cancelReq, promised>>,
               \A t \in Tasks : pc[t] \in {"release", "finalize", "signal", "done"} =>
                 pc'[t] \in {"release", "finalize", "signal", "done"}
        PROVE  Goal
    BY <1>1 DEF OutcomeInv, CancelHonoured
  <1>2. ASSUME NEW t \in Tasks, CancelStep(t) PROVE Goal
    BY <1>2 DEF CancelStep, Cancellable, OutcomeInv, CancelHonoured, Terminal
  <1>3. ASSUME NEW t \in Tasks, Start(t) PROVE Goal
    BY <1>3 DEF Start, TypeOK, OutcomeInv, CancelHonoured, Terminal
  <1>4. ASSUME NEW t \in Tasks, Settle(t) PROVE Goal
    <2>1. t \in promised => SettledStatus(t) \notin {"completed", "failed"}
      BY DEF SettledStatus, UnlessCancelled, OutcomeInv, CancelHonoured
    <2>2. AfterSettle(t) \in {"release", "finalize"}
      BY DEF AfterSettle
    <2>3. /\ pc[t] = "settle" /\ pc' = [pc EXCEPT ![t] = AfterSettle(t)]
          /\ status' = [status EXCEPT ![t] = SettledStatus(t)]
          /\ UNCHANGED <<cancelReq, promised>>
      BY <1>4 DEF Settle
    <2>. QED
      BY <2>1, <2>2, <2>3 DEF TypeOK, OutcomeInv, CancelHonoured
  <1>5. ASSUME NEW t \in Tasks,
               \/ Spawn(t) \/ SpawnFails(t) \/ Acquire(t) \/ AcquireTimesOut(t)
               \/ Release(t) \/ Signal(t) \/ DeadlinePasses(t)
        PROVE  Goal
    BY <1>5, <1>1 DEF Spawn, SpawnFails, Acquire, AcquireTimesOut, AfterTimeout,
         Release, Signal, DeadlinePasses, TypeOK
  <1>6. ASSUME NEW t \in Tasks, GateCheck(t) \/ PreStartCheck(t) \/ BodyEnds(t) PROVE Goal
    BY <1>6, <1>1 DEF GateCheck, PreStartCheck, BodyEnds, TypeOK
  <1>7. ASSUME NEW t \in Tasks, Finalize(t) PROVE Goal
    BY <1>7, <1>1 DEF Finalize, TypeOK
  <1>8. ASSUME UNCHANGED <<status, cancelReq, promised, pc>> PROVE Goal
    BY <1>8, <1>1
  <1>9. ASSUME NEW c \in Participants, CallerStep(c) PROVE Goal
    BY <1>9, <1>2, <1>8 DEF CallerStep, SweepOne, JoinOne, SweepDone, CloseReturns
  <1>. QED
    BY <1>2, <1>3, <1>4, <1>5, <1>6, <1>7, <1>8, <1>9
       DEF Next, ThreadStep, Cancel, BeginCancelSweep, BeginClose, vars

\* Promises of cancellation are kept in every reachable state.
LEMMA OutcomeInvariant == Spec => []OutcomeInv
  <1>1. Init => OutcomeInv
    BY DEF Init, OutcomeInv, CancelHonoured, Terminal
  <1>. QED
    BY <1>1, OutcomeInvStep, TypeCorrect, PTL DEF Spec

\* A task whose cancel() returned True never ends completed or failed.
THEOREM CancellationHonoured == Spec => []CancelHonoured
  <1>1. OutcomeInv => CancelHonoured
    BY DEF OutcomeInv
  <1>. QED
    BY <1>1, OutcomeInvariant, PTL

\* A terminal status is final.
THEOREM TerminalStaysFinal == Spec => TerminalIsFinal
  <1>1. TypeOK /\ OutcomeInv /\ [Next]_vars =>
          [FinalStep]_vars
    BY OutcomeInvStep DEF FinalStep
  <1>. QED
    BY <1>1, TypeCorrect, OutcomeInvariant, PTL DEF Spec, TerminalIsFinal
-----------------------------------------------------------------------------
\* Where a task is, the manager's tables show it: registered while its thread
\* has not registered its end, in the history from then on.
TableInv ==
  \A t \in Tasks :
    /\ t \in Live => t \in tasks /\ (t \in GroupTasks => t \in group)
    /\ t \in group => t \in Live
    /\ pc[t] \in {"unborn", "aborted"} => t \notin tasks
    /\ t \in finished => pc[t] = "done"
    /\ pc[t] \in {"signal", "done"} => \E i \in DOMAIN finalLog : finalLog[i] = t

\* The retained handles are the end of the history, each once, and the only
\* ended tasks of the table.
NewestInv ==
  /\ MaxFinished > 0 => Len(finishedOrder) <= MaxFinished
  /\ Len(finalLog) = Len(finishedOrder) + evictedTotal
  /\ \A i \in 1..Len(finishedOrder) : finishedOrder[i] = finalLog[evictedTotal + i]
  /\ \A i, j \in 1..Len(finishedOrder) : finishedOrder[i] = finishedOrder[j] => i = j
  /\ \A t \in Tasks :
       t \in tasks \ Live <=> \E i \in 1..Len(finishedOrder) : finishedOrder[i] = t

\* A close() that joins still has before it every thread that has not ended.
CloseInv ==
  \A c \in Callers :
    call[c].mode = "forever" /\ call[c].op \in {"sweep", "join", "returned"} =>
      closed /\ Live \subseteq call[c].joins /\ (call[c].op = "returned" => call[c].joins = {})

RegistryInv == TableInv /\ NewestInv /\ CloseInv
\* Before its thread exists, and once its end is registered.
Unstarted(t) == pc[t] \in {"unborn", "aborted"}
Ended(t) == pc[t] \in {"signal", "done"}

\* Registering an end: the history grows by the task, the oldest retained
\* handles beyond the limit leave, and no live task leaves with them.
LEMMA FinalizeKeepsNewest ==
  ASSUME TypeOK, RegistryInv, NEW t \in Tasks, Finalize(t)
  PROVE  /\ NewestInv'
         /\ \A u \in Live \ {t} : u \in tasks => u \in tasks'
         /\ tasks' \subseteq tasks \cup {t}
  <1> DEFINE order == Append(finishedOrder, t)
             n == EvictCount(order)
             log == Append(finalLog, t)
             len == Len(finishedOrder)
  <1>1. /\ len \in Nat /\ evictedTotal \in Nat /\ Len(finalLog) = len + evictedTotal
        /\ finishedOrder \in Seq(Tasks) /\ finalLog \in Seq(Tasks)
    BY DEF TypeOK, RegistryInv, NewestInv
  <1>2. /\ order \in Seq(Tasks) /\ Len(order) = len + 1 /\ order[len + 1] = t
        /\ \A i \in 1..len : order[i] = finishedOrder[i]
    BY <1>1
  <1>3. /\ Len(log) = len + evictedTotal + 1 /\ log[len + evictedTotal + 1] = t
        /\ \A i \in 1..(len + evictedTotal) : log[i] = finalLog[i]
    BY <1>1
  <1>4. n \in 0..(len + 1) /\ (MaxFinished > 0 => len + 1 - n <= MaxFinished)
    <2> HIDE DEF order
    <2>. QED
      BY <1>1, <1>2, TaskConstants DEF EvictCount
  <1>5. PICK m \in 0..(len + 1) : m = n
    BY <1>4
  <1>6. /\ finishedOrder' = SubSeq(order, m + 1, len + 1) /\ evictedTotal' = evictedTotal + m
        /\ finalLog' = log /\ tasks' = (tasks \cup {t}) \ {order[i] : i \in 1..m}
        /\ pc[t] = "finalize" /\ pc' = [pc EXCEPT ![t] = "signal"]
    BY <1>2, <1>5 DEF Finalize, Goto
  <1> HIDE DEF order, n, log
  <1>7. /\ Len(finishedOrder') = len + 1 - m
        /\ \A i \in 1..(len + 1 - m) : finishedOrder'[i] = order[m + i]
    BY <1>1, <1>2, <1>6
  <1>8. \A u \in Tasks : u \in Live' <=> u \in Live /\ u # t
    BY <1>6 DEF Live, TypeOK
  <1>9. t \in Live /\ t \in tasks
    BY <1>6 DEF Live, RegistryInv, TableInv
  <1>10. \A i \in 1..len : finishedOrder[i] \in tasks \ Live
    <2>1. \A i \in 1..len : finishedOrder[i] \in Tasks
      BY <1>1
    <2>. QED
      BY <2>1 DEF RegistryInv, NewestInv
  <1>11. \A i, j \in 1..(len + 1) : order[i] = order[j] => i = j
    <2>1. \A i \in 1..len : order[i] # t
      BY <1>2, <1>9, <1>10
    <2>2. ASSUME NEW i \in 1..(len + 1), NEW j \in 1..(len + 1), order[i] = order[j] PROVE i = j
      <3>1. CASE i \in 1..len /\ j \in 1..len
        BY <1>2, <2>2, <3>1 DEF RegistryInv, NewestInv
      <3>2. CASE i = len + 1 \/ j = len + 1
        BY <1>1, <1>2, <2>1, <2>2, <3>2
      <3>. QED
        BY <1>1, <3>1, <3>2
    <2>. QED
      BY <2>2
  <1>12. ASSUME NEW u \in Tasks
         PROVE  u \in tasks' \ Live' <=> \E i \in (m + 1)..(len + 1) : order[i] = u
    <2>1. u \in tasks' \ Live' <=>
            /\ (u \in tasks \ Live) \/ u = t
            /\ \A i \in 1..m : order[i] # u
      BY <1>6, <1>8, <1>9
    <2>2. u \in tasks \ Live <=> \E i \in 1..len : order[i] = u
      BY <1>2 DEF RegistryInv, NewestInv
    <2>3. (u \in tasks \ Live) \/ u = t <=> \E i \in 1..(len + 1) : order[i] = u
      <3>1. u = t => \E i \in 1..(len + 1) : order[i] = u
        BY <1>1, <1>2
      <3>2. (\E i \in 1..len : order[i] = u) => \E i \in 1..(len + 1) : order[i] = u
        BY <1>1
      <3>3. ASSUME NEW i \in 1..(len + 1), order[i] = u
            PROVE  (\E j \in 1..len : order[j] = u) \/ u = t
        BY <1>1, <1>2, <3>3
      <3>. QED
        BY <2>2, <3>1, <3>2, <3>3
    <2>4. ASSUME NEW i \in 1..(len + 1), order[i] = u
          PROVE  (\A j \in 1..m : order[j] # u) <=> i \in (m + 1)..(len + 1)
      <3>1. ASSUME NEW j \in 1..m, order[j] = u PROVE i \notin (m + 1)..(len + 1)
        <4>1. j \in 1..(len + 1) /\ i = j
          BY <1>1, <1>11, <2>4, <3>1
        <4>. QED
          BY <1>1, <4>1
      <3>. QED
        BY <1>1, <2>4, <3>1
    <2>5. (m + 1)..(len + 1) \subseteq 1..(len + 1)
      BY <1>1
    <2>. QED
      BY <2>1, <2>3, <2>4, <2>5
  <1>13. ASSUME NEW u \in Tasks
         PROVE  u \in tasks' \ Live' <=>
                  \E i \in 1..Len(finishedOrder') : finishedOrder'[i] = u
    <2>1. ASSUME NEW i \in (m + 1)..(len + 1), order[i] = u
          PROVE  \E k \in 1..(len + 1 - m) : finishedOrder'[k] = u
      <3>1. i - m \in 1..(len + 1 - m) /\ m + (i - m) = i
        BY <1>1
      <3>. QED
        BY <1>7, <2>1, <3>1
    <2>2. ASSUME NEW k \in 1..(len + 1 - m), finishedOrder'[k] = u
          PROVE  \E i \in (m + 1)..(len + 1) : order[i] = u
      <3>1. m + k \in (m + 1)..(len + 1) /\ order[m + k] = u
        BY <1>1, <1>7, <2>2
      <3>. QED
        BY <3>1
    <2>. QED
      BY <1>7, <1>12, <2>1, <2>2
  <1>14. /\ MaxFinished > 0 => Len(finishedOrder') <= MaxFinished
         /\ Len(finalLog') = Len(finishedOrder') + evictedTotal'
    <2>1. MaxFinished > 0 => len + 1 - m <= MaxFinished
      BY <1>4, <1>5
    <2>2. Len(finalLog') = (len + 1 - m) + (evictedTotal + m)
      <3>1. Len(finalLog') = len + evictedTotal + 1
        BY <1>3, <1>6
      <3>2. m \in Nat /\ len \in Nat /\ evictedTotal \in Nat
        BY <1>1
      <3>3. len + evictedTotal + 1 = (len + 1 - m) + (evictedTotal + m)
        BY <3>2
      <3>. QED
        BY <3>1, <3>3
    <2>. QED
      BY <1>6, <1>7, <2>1, <2>2
  <1>15. ASSUME NEW i \in 1..Len(finishedOrder')
         PROVE  finishedOrder'[i] = finalLog'[evictedTotal' + i]
    <2>1. finishedOrder'[i] = order[m + i] /\ m + i \in 1..(len + 1)
      BY <1>1, <1>7
    <2>2. evictedTotal' + i = evictedTotal + (m + i)
      BY <1>1, <1>6, <1>7
    <2>3. CASE m + i \in 1..len
      <3>1. evictedTotal + (m + i) \in 1..(len + evictedTotal)
        BY <1>1, <2>3
      <3>2. finishedOrder[m + i] = finalLog[evictedTotal + (m + i)]
        BY <2>3 DEF RegistryInv, NewestInv
      <3>. QED
        BY <1>2, <1>3, <1>6, <2>1, <2>2, <2>3, <3>1, <3>2
    <2>4. CASE m + i = len + 1
      <3>1. evictedTotal + (m + i) = len + evictedTotal + 1
        BY <1>1, <2>4
      <3>. QED
        BY <1>2, <1>3, <1>6, <2>1, <2>2, <2>4, <3>1
    <2>. QED
      BY <1>1, <2>1, <2>3, <2>4
  <1>16. ASSUME NEW i \in 1..Len(finishedOrder'), NEW j \in 1..Len(finishedOrder'),
                finishedOrder'[i] = finishedOrder'[j]
         PROVE  i = j
    <2>1. m + i \in 1..(len + 1) /\ m + j \in 1..(len + 1) /\ order[m + i] = order[m + j]
      BY <1>1, <1>7, <1>16
    <2>2. m + i = m + j
      BY <1>11, <2>1
    <2>. QED
      BY <1>7, <2>2
  <1>17. ASSUME NEW u \in Live \ {t}, u \in tasks PROVE u \in tasks'
    <2>1. \A i \in 1..m : order[i] # u
      <3>1. \A i \in 1..(len + 1) : i \in 1..len \/ i = len + 1
        BY <1>1
      <3>2. \A i \in 1..m : i \in 1..(len + 1)
        BY <1>1
      <3>. QED
        BY <1>2, <1>10, <1>17, <3>1, <3>2
    <2>. QED
      BY <1>6, <1>17, <2>1
  <1>. QED
    BY <1>6, <1>13, <1>14, <1>15, <1>16, <1>17 DEF NewestInv

\* No step leaves a live task out of the tables, or an ended one out of the
\* history it belongs to.
LEMMA RegistryStep ==
  ASSUME TypeOK, RegistryInv, [Next]_vars PROVE RegistryInv'
  <1>. USE DEF manager, registry, gate, task, Goto, Decide
  <1>. pc \in [Tasks -> Locations]
    BY DEF TypeOK
  \* A step that leaves the tables alone and every thread on its side of them.
  <1>q. ASSUME UNCHANGED <<tasks, group, finishedOrder, evictedTotal, finalLog, finished>>,
               \A u \in Tasks : /\ Unstarted(u)' <=> Unstarted(u)
                                /\ Ended(u)' <=> Ended(u)
                                /\ pc[u] = "done" => pc'[u] = "done"
        PROVE  TableInv' /\ NewestInv' /\ Live' = Live
    <2>1. \A u \in Tasks : u \in Live <=> ~Unstarted(u) /\ ~Ended(u)
      BY DEF Live, Unstarted, Ended
    <2>2. \A u \in Tasks : u \in Live' <=> ~Unstarted(u)' /\ ~Ended(u)'
      BY DEF Live, Unstarted, Ended
    <2>3. Live' = Live
      <3>1. Live \subseteq Tasks /\ Live' \subseteq Tasks
        BY DEF Live
      <3>. QED
        BY <1>q, <2>1, <2>2, <3>1
    <2>4. TableInv'
      BY <1>q, <2>3 DEF RegistryInv, TableInv, Unstarted, Ended
    <2>5. NewestInv'
      BY <1>q, <2>3 DEF RegistryInv, NewestInv
    <2>. QED
      BY <2>3, <2>4, <2>5
  <1>c. ASSUME Live' \subseteq Live, closed => closed', call' = call PROVE CloseInv'
    BY <1>c DEF RegistryInv, CloseInv
  <1>1. ASSUME NEW t \in Tasks, Spawn(t) PROVE RegistryInv'
    <2>1. /\ tasks' = tasks \cup {t} /\ group' = group \cup ({t} \cap GroupTasks) /\ ~closed
          /\ UNCHANGED <<closed, finishedOrder, evictedTotal, finalLog, finished, call>>
          /\ pc[t] = "unborn" /\ pc'[t] \in {"gate", "precancel"}
          /\ \A u \in Tasks : u # t => pc'[u] = pc[u]
      BY <1>1 DEF Spawn, SpawnAdmits
    <2>2. \A u \in Tasks : u \in Live' <=> u \in Live \/ u = t
      BY <2>1 DEF Live
    <2>3. t \notin tasks /\ t \notin Live
      BY <2>1 DEF RegistryInv, TableInv, Live
    <2>4. TableInv'
      BY <2>1, <2>2 DEF RegistryInv, TableInv
    <2>5. \A u \in Tasks : u \in tasks' \ Live' <=> u \in tasks \ Live
      BY <2>1, <2>2, <2>3
    <2>6. NewestInv'
      BY <2>1, <2>5 DEF RegistryInv, NewestInv
    <2>7. CloseInv'
      BY <2>1 DEF RegistryInv, CloseInv
    <2>. QED
      BY <2>4, <2>6, <2>7 DEF RegistryInv
  <1>2. ASSUME NEW t \in Tasks, Finalize(t) PROVE RegistryInv'
    <2>1. /\ group' = group \ {t} /\ finalLog' = Append(finalLog, t)
          /\ UNCHANGED <<closed, finished, call>>
          /\ pc[t] = "finalize" /\ pc'[t] = "signal"
          /\ \A u \in Tasks : u # t => pc'[u] = pc[u]
      BY <1>2 DEF Finalize, GroupWithout
    <2>2. \A u \in Tasks : u \in Live' <=> u \in Live /\ u # t
      BY <2>1 DEF Live
    <2>3. finalLog \in Seq(Tasks)
      BY DEF TypeOK
    <2>4. /\ DOMAIN finalLog' = 1..(Len(finalLog) + 1) /\ finalLog'[Len(finalLog) + 1] = t
          /\ \A i \in DOMAIN finalLog : i \in DOMAIN finalLog' /\ finalLog'[i] = finalLog[i]
          /\ Len(finalLog) + 1 \in DOMAIN finalLog'
      BY <2>1, <2>3
    <2>5. ASSUME NEW u \in Tasks
          PROVE  /\ u \in Live' => u \in tasks' /\ (u \in GroupTasks => u \in group')
                 /\ u \in group' => u \in Live'
                 /\ pc'[u] \in {"unborn", "aborted"} => u \notin tasks'
                 /\ u \in finished' => pc'[u] = "done"
      <3>1. u \in Live' => u \in tasks' /\ (u \in GroupTasks => u \in group')
        BY <1>2, <2>1, <2>2, FinalizeKeepsNewest DEF RegistryInv, TableInv
      <3>2. u \in group' => u \in Live'
        BY <2>1, <2>2 DEF RegistryInv, TableInv
      <3>3. pc'[u] \in {"unborn", "aborted"} => u \notin tasks'
        BY <1>2, <2>1, FinalizeKeepsNewest DEF RegistryInv, TableInv
      <3>4. u \in finished' => pc'[u] = "done"
        BY <2>1 DEF RegistryInv, TableInv
      <3>. QED
        BY <3>1, <3>2, <3>3, <3>4
    <2>6. ASSUME NEW u \in Tasks, pc'[u] \in {"signal", "done"}
          PROVE  \E i \in DOMAIN finalLog' : finalLog'[i] = u
      <3>1. CASE u = t
        BY <2>4, <3>1
      <3>2. CASE u # t
        <4>1. PICK i \in DOMAIN finalLog : finalLog[i] = u
          BY <2>1, <2>6, <3>2 DEF RegistryInv, TableInv
        <4>. QED
          BY <2>4, <4>1
      <3>. QED
        BY <3>1, <3>2
    <2>7. TableInv'
      BY <2>5, <2>6 DEF TableInv
    <2>8. CloseInv'
      <3>1. Live' \subseteq Live
        BY <2>2 DEF Live
      <3>. QED
        BY <1>c, <2>1, <3>1
    <2>. QED
      BY <1>2, <2>7, <2>8, FinalizeKeepsNewest DEF RegistryInv
  <1>3. ASSUME NEW t \in Tasks, Signal(t) PROVE RegistryInv'
    <2>1. /\ UNCHANGED <<closed, tasks, group, finishedOrder, evictedTotal, finalLog, call>>
          /\ finished' = finished \cup {t} /\ pc[t] = "signal" /\ pc'[t] = "done"
          /\ \A u \in Tasks : u # t => pc'[u] = pc[u]
      BY <1>3 DEF Signal
    <2>2. Live' = Live
      BY <2>1 DEF Live
    <2>3. TableInv'
      BY <2>1, <2>2 DEF RegistryInv, TableInv
    <2>4. NewestInv'
      BY <2>1, <2>2 DEF RegistryInv, NewestInv
    <2>5. CloseInv'
      BY <1>c, <2>1, <2>2
    <2>. QED
      BY <2>3, <2>4, <2>5 DEF RegistryInv
  <1>4. ASSUME NEW t \in Tasks,
               \/ SpawnFails(t) \/ Cancel(t) \/ GateCheck(t) \/ Acquire(t) \/ AcquireTimesOut(t)
               \/ PreStartCheck(t) \/ Start(t) \/ Settle(t) \/ Release(t) \/ BodyEnds(t)
               \/ DeadlinePasses(t)
        PROVE  RegistryInv'
    <2>1. UNCHANGED <<closed, tasks, group, finishedOrder, evictedTotal, finalLog, finished, call>>
      BY <1>4 DEF SpawnFails, Cancel, CancelStep, GateCheck, Acquire, AcquireTimesOut,
         PreStartCheck, Start, Settle, Release, BodyEnds, DeadlinePasses
    <2>2. \/ pc' = pc
          \/ pc' = [pc EXCEPT ![t] = pc'[t]] /\ pc[t] = "unborn" /\ pc'[t] = "aborted"
          \/ /\ pc' = [pc EXCEPT ![t] = pc'[t]]
             /\ ~Unstarted(t) /\ ~Ended(t) /\ ~Unstarted(t)' /\ ~Ended(t)'
      BY <1>4 DEF SpawnFails, Cancel, CancelStep, GateCheck, Acquire, AcquireTimesOut,
         AfterTimeout, PreStartCheck, Start, Settle, AfterSettle, Release, BodyEnds,
         DeadlinePasses, Unstarted, Ended
    <2>3. ASSUME NEW u \in Tasks
          PROVE  /\ Unstarted(u)' <=> Unstarted(u)
                 /\ Ended(u)' <=> Ended(u)
                 /\ pc[u] = "done" => pc'[u] = "done"
      BY <2>2 DEF Unstarted, Ended
    <2>. QED
      BY <1>q, <1>c, <2>1, <2>3 DEF RegistryInv
  \* The calls on the manager leave the tables and the threads alone.
  <1>5. ASSUME UNCHANGED <<registry, finished, pc>>, CloseInv' PROVE RegistryInv'
    <2>1. TableInv' /\ NewestInv'
      BY <1>5, <1>q DEF Unstarted, Ended
    <2>. QED
      BY <1>5, <2>1 DEF RegistryInv
  <1>6. ASSUME NEW c \in Callers, NEW ids \in {group, tasks}, BeginCancelSweep(c, ids)
        PROVE  RegistryInv'
    <2>1. UNCHANGED <<closed, registry, finished, pc>>
      BY <1>6 DEF BeginCancelSweep
    <2>2. /\ call' = [call EXCEPT ![c] = call'[c]] /\ call'[c].mode = "cancel"
      BY <1>6 DEF BeginCancelSweep, Idle, Participants, TypeOK
    <2>3. Live' = Live
      BY <2>1 DEF Live
    <2>4. ASSUME NEW d \in Callers, d # c PROVE call'[d] = call[d]
      BY <2>2, <2>4 DEF Participants, TypeOK
    <2>5. CloseInv'
      BY <2>1, <2>2, <2>3, <2>4 DEF RegistryInv, CloseInv
    <2>. QED
      BY <1>5, <2>1, <2>5
  <1>7. ASSUME NEW c \in Participants, NEW mode \in {"nowait", "forever", "deadline"},
               BeginClose(c, mode)
        PROVE  RegistryInv'
    <2>1. UNCHANGED <<registry, finished, pc>> /\ closed' = TRUE
      BY <1>7 DEF BeginClose
    <2>2. /\ call'[c].op = "sweep" /\ call'[c].mode = mode
          /\ mode = "forever" => call'[c].joins = tasks \ {c}
          /\ \A d \in Participants : d # c => call'[d] = call[d]
      BY <1>7 DEF BeginClose, JoinsOf, TypeOK
    <2>3. Live' = Live /\ Live \subseteq tasks
      BY <2>1 DEF Live, RegistryInv, TableInv
    <2>4. c \in Callers => c \notin tasks
      BY TaskConstants DEF TypeOK
    <2>5. CloseInv'
      BY <2>1, <2>2, <2>3, <2>4 DEF RegistryInv, CloseInv, Participants
    <2>. QED
      BY <1>5, <2>1, <2>5
  <1>8. ASSUME NEW c \in Participants, CallerStep(c) PROVE RegistryInv'
    <2>1. UNCHANGED <<closed, registry, finished, pc>>
      BY <1>8 DEF CallerStep, SweepOne, JoinOne, SweepDone, CloseReturns, CancelStep
    <2>2. Live' = Live
      BY <2>1 DEF Live
    <2>3. \A d \in Participants : d # c => call'[d] = call[d]
      BY <1>8 DEF CallerStep, SweepOne, JoinOne, SweepDone, CloseReturns, TypeOK
    <2>4. /\ call'[c].mode = call[c].mode
          /\ call[c].mode = "forever" /\ call'[c].op \in {"sweep", "join", "returned"} =>
               call[c].op \in {"sweep", "join", "returned"}
          /\ call[c].mode = "forever" /\ call'[c].op = "returned" => call'[c].joins = {}
          /\ \A u \in call[c].joins : u \in call'[c].joins \/ u \in finished
      <3>. call \in [Participants -> [op : {"idle", "sweep", "join", "returned"},
                 todo : SUBSET Tasks, joins : SUBSET Tasks, mode : Modes]]
        BY DEF TypeOK
      <3>1. ASSUME NEW t \in Tasks, SweepOne(c, t)
            PROVE  /\ call'[c].mode = call[c].mode /\ call'[c].joins = call[c].joins
                   /\ call[c].op = "sweep" /\ call'[c].op = "sweep"
        BY <3>1 DEF SweepOne
      <3>2. ASSUME NEW t \in Tasks, JoinOne(c, t)
            PROVE  /\ call'[c].mode = call[c].mode /\ call'[c].joins = call[c].joins \ {t}
                   /\ call[c].op = "join" /\ call'[c].op = "join" /\ t \in finished
        BY <3>2 DEF JoinOne
      <3>3. ASSUME SweepDone(c)
            PROVE  /\ call'[c].mode = call[c].mode /\ call'[c].joins = call[c].joins
                   /\ call[c].op = "sweep" /\ (call[c].mode = "forever" => call'[c].op = "join")
        BY <3>3 DEF SweepDone, AfterSweep
      <3>4. ASSUME CloseReturns(c)
            PROVE  /\ call'[c].mode = call[c].mode /\ call'[c].joins = call[c].joins
                   /\ call[c].op = "join" /\ (call[c].mode = "forever" => call[c].joins = {})
        BY <3>4 DEF CloseReturns
      <3>. QED
        BY <1>8, <3>1, <3>2, <3>3, <3>4 DEF CallerStep
    <2>5. \A u \in finished : u \notin Live
      BY DEF RegistryInv, TableInv, Live, TypeOK
    <2>6. CloseInv'
      <3>1. ASSUME NEW d \in Callers, call'[d].mode = "forever",
                   call'[d].op \in {"sweep", "join", "returned"}
            PROVE  /\ closed' /\ Live' \subseteq call'[d].joins
                   /\ call'[d].op = "returned" => call'[d].joins = {}
        <4>1. CASE d = c
          <5>1. /\ closed /\ Live \subseteq call[c].joins
                /\ call[c].op = "returned" => call[c].joins = {}
            BY <2>4, <3>1, <4>1 DEF RegistryInv, CloseInv
          <5>2. Live \subseteq call'[c].joins
            BY <2>4, <2>5, <5>1
          <5>. QED
            BY <2>1, <2>2, <2>4, <3>1, <4>1, <5>1, <5>2
        <4>2. CASE d # c
          BY <2>1, <2>2, <2>3, <3>1, <4>2 DEF RegistryInv, CloseInv, Participants
        <4>. QED
          BY <4>1, <4>2
      <3>. QED
        BY <3>1 DEF CloseInv
    <2>. QED
      BY <1>5, <2>1, <2>6
  <1>9. ASSUME UNCHANGED vars PROVE RegistryInv'
    <2>1. UNCHANGED <<closed, registry, finished, pc, call>>
      BY <1>9 DEF vars
    <2>2. Live' = Live
      BY <2>1 DEF Live
    <2>. QED
      BY <1>5, <1>c, <2>1, <2>2
  <1>. QED
    BY <1>1, <1>2, <1>3, <1>4, <1>6, <1>7, <1>8, <1>9 DEF Next, ThreadStep

\* The tables are right in every reachable state.
LEMMA RegistryInvariant == Spec => []RegistryInv
  <1>1. Init => RegistryInv
    <2> SUFFICES ASSUME Init PROVE RegistryInv
      OBVIOUS
    <2>1. Live = {}
      BY DEF Init, Live
    <2>2. TableInv
      BY <2>1 DEF Init, TableInv
    <2>3. NewestInv
      BY <2>1, TaskConstants DEF Init, NewestInv
    <2>4. CloseInv
      BY DEF Init, CloseInv, Idle, Participants
    <2>. QED
      BY <2>2, <2>3, <2>4 DEF RegistryInv
  <1>. QED
    BY <1>1, RegistryStep, TypeCorrect, PTL DEF Spec

\* The tables are right for whoever reads them: live tasks are registered,
\* the retained handles are the newest of the ended, those who wake after a
\* task find its end registered, and a close() that waits returns only when
\* nothing lives.
THEOREM TablesSettled == Spec => []BookkeepingSettled
  <1>1. ASSUME TypeOK, SlotInv, RegistryInv PROVE BookkeepingSettled
    <2>. USE <1>1 DEF RegistryInv
    <2>1. LiveTasksRegistered
      BY DEF LiveTasksRegistered, TableInv, Live
    <2>2. HistoryKeepsNewest
      <3>1. /\ finishedOrder \in Seq(Tasks) /\ finalLog \in Seq(Tasks) /\ evictedTotal \in Nat
            /\ Len(finalLog) = Len(finishedOrder) + evictedTotal
        BY DEF TypeOK, NewestInv
      <3>2. finishedOrder = SubSeq(finalLog, evictedTotal + 1, Len(finalLog))
        <4>1. PICK tail : tail = SubSeq(finalLog, evictedTotal + 1, Len(finalLog))
          OBVIOUS
        <4>2. /\ tail \in Seq(Tasks) /\ Len(tail) = Len(finishedOrder)
              /\ \A i \in 1..Len(finishedOrder) : tail[i] = finalLog[evictedTotal + i]
          BY <3>1, <4>1
        <4>3. \A i \in 1..Len(finishedOrder) : tail[i] = finishedOrder[i]
          BY <4>2 DEF NewestInv
        <4>. QED
          BY <3>1, <4>1, <4>2, <4>3
      <3>3. tasks \ Live = {finishedOrder[i] : i \in DOMAIN finishedOrder}
        <4>1. tasks \subseteq Tasks /\ DOMAIN finishedOrder = 1..Len(finishedOrder)
              /\ \A i \in 1..Len(finishedOrder) : finishedOrder[i] \in Tasks
          BY <3>1 DEF TypeOK
        <4>. QED
          BY <4>1 DEF NewestInv
      <3>. QED
        BY <3>1, <3>2, <3>3 DEF HistoryKeepsNewest, NewestInv
    <2>3. WaitersSeeSettledBookkeeping
      <3>1. ASSUME NEW t \in finished
            PROVE  t \in Tasks /\ pc[t] = "done" /\ t \notin Live
        BY DEF TableInv, TypeOK, Live
      <3>. QED
        BY <3>1 DEF WaitersSeeSettledBookkeeping, TableInv, SlotInv, HolderLocations
    <2>4. CloseQuiesces
      BY DEF CloseQuiesces, CloseInv
    <2>. QED
      BY <2>1, <2>2, <2>3, <2>4 DEF BookkeepingSettled
  <1>. QED
    BY <1>1, TypeCorrect, SlotsInvariant, RegistryInvariant, PTL
-----------------------------------------------------------------------------
\* What the refinement of TaskContract needs besides: the verdict of a thread
\* tells on which side of its target it is, a cancellation requested is one
\* promised, and the sweeps reach only tasks that were admitted.
BeforeVerdict == {"unborn", "aborted", "gate", "acquire", "precancel", "preclosed", "start", "body"}
PhaseInv ==
  /\ promised = cancelReq
  /\ \A t \in Tasks : verdict[t] = "none" <=> pc[t] \in BeforeVerdict
  /\ \A c \in Participants : \A t \in call[c].todo : ~Unstarted(t)

\* No step takes a task to a place that its status, and the sets it is in, do
\* not allow.
LEMMA PhaseInvStep ==
  ASSUME TypeOK, RegistryInv, PhaseInv, [Next]_vars PROVE PhaseInv'
  <1>. USE DEF manager, registry, gate, task, Goto, Decide
  <1>. /\ pc \in [Tasks -> Locations] /\ verdict \in [Tasks -> Verdicts]
       /\ call \in [Participants -> [op : {"idle", "sweep", "join", "returned"},
                 todo : SUBSET Tasks, joins : SUBSET Tasks, mode : Modes]]
    BY DEF TypeOK
  \* A thread moves: it decides its verdict when, and only when, it passes.
  <1>t. ASSUME NEW t \in Tasks, UNCHANGED <<promised, cancelReq, call>>,
               pc' = [pc EXCEPT ![t] = pc'[t]], ~Unstarted(t)' \/ Unstarted(t),
               verdict' = [verdict EXCEPT ![t] = verdict'[t]],
               verdict'[t] = "none" <=> pc'[t] \in BeforeVerdict
        PROVE  PhaseInv'
    <2>1. ASSUME NEW u \in Tasks
          PROVE  (verdict'[u] = "none" <=> pc'[u] \in BeforeVerdict) /\ (Unstarted(u)' => Unstarted(u))
      <3>1. CASE u = t
        BY <1>t, <3>1
      <3>2. CASE u # t
        <4>1. pc'[u] = pc[u] /\ verdict'[u] = verdict[u]
          BY <1>t, <3>2
        <4>. QED
          BY <4>1 DEF PhaseInv, Unstarted
      <3>. QED
        BY <3>1, <3>2
    <2>2. \A c \in Participants : \A u \in call'[c].todo : ~Unstarted(u)'
      BY <1>t, <2>1 DEF PhaseInv
    <2>. QED
      BY <1>t, <2>1, <2>2 DEF PhaseInv
  <1>1. ASSUME NEW t \in Tasks,
               \/ Spawn(t) \/ SpawnFails(t) \/ Acquire(t) \/ AcquireTimesOut(t) \/ Start(t)
               \/ Settle(t) \/ Release(t) \/ Finalize(t) \/ Signal(t)
        PROVE  PhaseInv'
    <2>1. UNCHANGED <<promised, cancelReq, call, verdict>> /\ pc' = [pc EXCEPT ![t] = pc'[t]]
      BY <1>1 DEF Spawn, SpawnFails, Acquire, AcquireTimesOut, Start, Settle, Release, Finalize,
         Signal
    <2>2. (pc'[t] \in BeforeVerdict <=> pc[t] \in BeforeVerdict) /\ (~Unstarted(t)' \/ Unstarted(t))
      BY <1>1 DEF Spawn, SpawnFails, Acquire, AcquireTimesOut, AfterTimeout, Start, Settle,
         AfterSettle, Release, Finalize, Signal, BeforeVerdict, Unstarted
    <2>3. verdict' = [verdict EXCEPT ![t] = verdict'[t]] /\ verdict'[t] = verdict[t]
      BY <2>1
    <2>. QED
      BY <1>t, <2>1, <2>2, <2>3 DEF PhaseInv
  <1>2. ASSUME NEW t \in Tasks, GateCheck(t) \/ PreStartCheck(t) \/ BodyEnds(t) PROVE PhaseInv'
    <2>1. UNCHANGED <<promised, cancelReq, call>> /\ pc[t] \in BeforeVerdict /\ ~Unstarted(t)
      BY <1>2 DEF GateCheck, PreStartCheck, BodyEnds, BeforeVerdict, Unstarted
    <2>2. CASE \E v \in Verdicts \ {"none"} : Decide(t, v)
      BY <1>t, <2>1, <2>2 DEF BeforeVerdict, Unstarted
    <2>3. CASE UNCHANGED verdict /\ \E to \in {"acquire", "preclosed", "start"} : pc' = [pc EXCEPT ![t] = to]
      BY <1>t, <2>1, <2>3 DEF BeforeVerdict, Unstarted, PhaseInv
    <2>4. \A v \in BodyVerdicts(t) : v \in Verdicts \ {"none"}
      BY DEF BodyVerdicts, Verdicts
    <2>. QED
      BY <1>2, <2>2, <2>3, <2>4 DEF GateCheck, PreStartCheck, BodyEnds, Verdicts
  <1>3. ASSUME UNCHANGED <<pc, verdict>>, promised' = cancelReq',
               \A c \in Participants : \A t \in call'[c].todo :
                 t \in call[c].todo \/ ~Unstarted(t)
        PROVE  PhaseInv'
    BY <1>3 DEF PhaseInv, Unstarted
  <1>4. ASSUME NEW t \in Tasks, Cancel(t) \/ DeadlinePasses(t) PROVE PhaseInv'
    BY <1>3, <1>4 DEF Cancel, CancelStep, DeadlinePasses, PhaseInv
  <1>5. ASSUME NEW c \in Callers, NEW ids \in {group, tasks}, BeginCancelSweep(c, ids)
        PROVE  PhaseInv'
    <2>1. UNCHANGED <<pc, verdict, promised, cancelReq>>
      BY <1>5 DEF BeginCancelSweep
    <2>2. \A t \in ids : ~Unstarted(t)
      BY DEF RegistryInv, TableInv, Unstarted, Live, TypeOK
    <2>3. \A d \in Participants : call'[d].todo = IF d = c THEN ids ELSE call[d].todo
      BY <1>5 DEF BeginCancelSweep, Idle
    <2>. QED
      BY <1>3, <2>1, <2>2, <2>3 DEF PhaseInv
  <1>6. ASSUME NEW c \in Participants, NEW mode \in {"nowait", "forever", "deadline"},
               BeginClose(c, mode)
        PROVE  PhaseInv'
    <2>1. UNCHANGED <<pc, verdict, promised, cancelReq>>
      BY <1>6 DEF BeginClose
    <2>2. \A t \in tasks : ~Unstarted(t)
      BY DEF RegistryInv, TableInv, Unstarted, TypeOK
    <2>3. \A d \in Participants : call'[d].todo = IF d = c THEN tasks ELSE call[d].todo
      BY <1>6 DEF BeginClose
    <2>. QED
      BY <1>3, <2>1, <2>2, <2>3 DEF PhaseInv
  <1>7. ASSUME NEW c \in Participants, CallerStep(c) PROVE PhaseInv'
    <2>1. UNCHANGED <<pc, verdict>> /\ promised' = cancelReq'
      BY <1>7 DEF CallerStep, SweepOne, JoinOne, SweepDone, CloseReturns, CancelStep, PhaseInv
    <2>2. \A d \in Participants : call'[d].todo \subseteq call[d].todo
      BY <1>7 DEF CallerStep, SweepOne, JoinOne, SweepDone, CloseReturns
    <2>. QED
      BY <1>3, <2>1, <2>2
  <1>8. ASSUME UNCHANGED vars PROVE PhaseInv'
    BY <1>3, <1>8 DEF vars, PhaseInv
  <1>. QED
    BY <1>1, <1>2, <1>4, <1>5, <1>6, <1>7, <1>8 DEF Next, ThreadStep

\* Places, statuses and sets agree in every reachable state.
LEMMA PhaseInvariant == Spec => []PhaseInv
  <1>1. Init => PhaseInv
    BY DEF Init, PhaseInv, BeforeVerdict, Idle
  <1>. QED
    BY <1>1, PhaseInvStep, TypeCorrect, RegistryInvariant, PTL DEF Spec

\* Each step of a thread or of a caller is a step of the contract or none.
LEMMA ContractStep ==
  ASSUME TypeOK, SlotInv, OutcomeInv, PhaseInv, [Next]_vars
  PROVE  [Contract!CNext]_(Contract!cvars)
  <1>. USE DEF manager, registry, gate, task, Goto, Decide
  <1>. /\ pc \in [Tasks -> Locations] /\ verdict \in [Tasks -> Verdicts]
       /\ status \in [Tasks -> {"pending", "running"} \cup Terminal]
    BY DEF TypeOK
  <1> DEFINE Simulated == [Contract!CNext]_(Contract!cvars)
  <1>s. ASSUME UNCHANGED <<closed, promised>>,
               \A u \in Tasks : PhaseOf(u)' = PhaseOf(u) /\ OutcomeOf(u)' = OutcomeOf(u)
        PROVE  Simulated
    BY <1>s DEF Contract!cvars
  <1>m. ASSUME NEW t \in Tasks, NEW from, NEW to, PhaseOf(t) = from, PhaseOf(t)' = to,
               \A u \in Tasks : u # t => PhaseOf(u)' = PhaseOf(u),
               UNCHANGED <<closed, promised, status>>
        PROVE  Contract!Move(t, from, to)
    BY <1>m DEF Contract!Move, OutcomeOf
  <1>1. ASSUME NEW t \in Tasks, Spawn(t) PROVE Simulated
    <2>1. /\ ~closed /\ pc[t] = "unborn" /\ pc'[t] \in {"gate", "precancel"}
          /\ \A u \in Tasks : u # t => pc'[u] = pc[u]
          /\ UNCHANGED <<closed, promised, status, verdict>>
      BY <1>1 DEF Spawn, SpawnAdmits
    <2>2. PhaseOf(t) = "new" /\ PhaseOf(t)' = "waiting"
      BY <2>1 DEF PhaseOf, PhaseInv, BeforeVerdict
    <2>3. \A u \in Tasks : u # t => PhaseOf(u)' = PhaseOf(u)
      BY <2>1 DEF PhaseOf
    <2>4. Contract!Admit(t)
      BY <1>m, <2>1, <2>2, <2>3 DEF Contract!Admit
    <2>. QED
      BY <2>4 DEF Contract!CNext
  <1>2. ASSUME NEW t \in Tasks, Start(t) PROVE Simulated
    <2>1. /\ pc[t] = "start" /\ pc' = [pc EXCEPT ![t] = "body"]
          /\ status' = [status EXCEPT ![t] = "running"]
          /\ UNCHANGED <<closed, promised, verdict>>
      BY <1>2 DEF Start
    <2>2. \A u \in Tasks : OutcomeOf(u)' = OutcomeOf(u)
      BY <2>1 DEF OutcomeOf, OutcomeInv, Terminal
    <2>3. PhaseOf(t) = "waiting" /\ PhaseOf(t)' = "executing"
      BY <2>1 DEF PhaseOf, PhaseInv, BeforeVerdict
    <2>4. \A u \in Tasks : u # t => PhaseOf(u)' = PhaseOf(u)
      BY <2>1 DEF PhaseOf
    <2>5. Contract!Move(t, "waiting", "executing")
      BY <2>1, <2>2, <2>3, <2>4 DEF Contract!Move
    <2>6. ASSUME HasGate PROVE Cardinality(Contract!Executing) < MaxConcurrent
      <3>1. Contract!Executing = InBody
        <4>1. ASSUME NEW u \in Tasks PROVE PhaseOf(u) = "executing" <=> pc[u] = "body"
          <5>1. CASE pc[u] = "body"
            BY <5>1 DEF PhaseOf, PhaseInv, BeforeVerdict
          <5>2. CASE pc[u] # "body"
            BY <5>2 DEF PhaseOf, PhaseInv, BeforeVerdict
          <5>. QED
            BY <5>1, <5>2
        <4>. QED
          BY <4>1 DEF Contract!Executing, InBody
      <3>2. t \in holding /\ InBody \subseteq holding \ {t}
        BY <2>1, <2>6 DEF InBody, SlotInv, HolderLocations
      <3>3. IsFiniteSet(holding) /\ Cardinality(holding \ {t}) = Cardinality(holding) - 1
            /\ Cardinality(holding) \in Nat
        BY <3>2, HolderCount DEF SlotInv
      <3>4. IsFiniteSet(holding \ {t})
        BY <3>3, FS_RemoveElement
      <3>5. Cardinality(InBody) \in Nat /\ Cardinality(InBody) <= Cardinality(holding \ {t})
        BY <3>2, <3>4, FS_Subset, FS_CardinalityType
      <3>6. slots \in Nat /\ slots + Cardinality(holding) = MaxConcurrent
        BY TaskConstants DEF TypeOK, SlotInv, SlotConservation
      <3>. QED
        BY <3>1, <3>3, <3>5, <3>6, TaskConstants
    <2>7. Contract!Begin(t)
      <3>1. Contract!Cardinality(Contract!Executing) = Cardinality(Contract!Executing)
        BY DEF Contract!Cardinality, Cardinality
      <3>. QED
        BY <2>5, <2>6, <3>1 DEF Contract!Begin, HasGate
    <2>. QED
      BY <2>7 DEF Contract!CNext
  <1>3. ASSUME NEW t \in Tasks, GateCheck(t) \/ PreStartCheck(t) PROVE Simulated
    <2>1. /\ pc[t] \in {"gate", "precancel", "preclosed"} /\ verdict[t] = "none"
          /\ UNCHANGED <<closed, promised, status>>
      BY <1>3 DEF GateCheck, PreStartCheck, PhaseInv, BeforeVerdict
    <2>2. CASE \E v \in {"cancelled", "rejected"} : Decide(t, v)
      <3>1. PhaseOf(t) = "waiting" /\ PhaseOf(t)' = "barren"
        BY <2>1, <2>2 DEF PhaseOf
      <3>2. \A u \in Tasks : u # t => PhaseOf(u)' = PhaseOf(u)
        BY <2>2 DEF PhaseOf
      <3>3. Contract!Refuse(t)
        BY <1>m, <2>1, <3>1, <3>2 DEF Contract!Refuse
      <3>. QED
        BY <3>3 DEF Contract!CNext
    <2>3. CASE UNCHANGED verdict /\ \E to \in {"acquire", "preclosed", "start"} :
                                      pc' = [pc EXCEPT ![t] = to]
      <3>1. \A u \in Tasks : PhaseOf(u)' = PhaseOf(u)
        BY <2>1, <2>3 DEF PhaseOf
      <3>. QED
        BY <1>s, <2>1, <3>1 DEF OutcomeOf
    <2>. QED
      BY <1>3, <2>2, <2>3 DEF GateCheck, PreStartCheck
  <1>4. ASSUME NEW t \in Tasks, BodyEnds(t) PROVE Simulated
    <2>1. PICK v \in BodyVerdicts(t) :
            /\ pc[t] = "body" /\ pc' = [pc EXCEPT ![t] = "settle"]
            /\ verdict' = [verdict EXCEPT ![t] = v]
            /\ UNCHANGED <<closed, promised, status>>
      BY <1>4 DEF BodyEnds
    <2>2. \A u \in Tasks : u # t => PhaseOf(u)' = PhaseOf(u)
      BY <2>1 DEF PhaseOf
    <2>3. PhaseOf(t) = "executing" /\ pc'[t] = "settle" /\ verdict'[t] = v
      <3>1. pc[t] = "body" /\ pc'[t] = "settle" /\ verdict'[t] = v
        BY <2>1
      <3>2. verdict[t] = "none"
        BY <3>1 DEF PhaseInv, BeforeVerdict
      <3>. QED
        BY <3>1, <3>2 DEF PhaseOf
    <2>4. CASE v \in {"returned", "raised"}
      <3>1. PhaseOf(t)' = "yielded"
        BY <2>3, <2>4 DEF PhaseOf
      <3>2. Contract!Yield(t)
        BY <1>m, <2>1, <2>2, <2>3, <3>1 DEF Contract!Yield
      <3>. QED
        BY <3>2 DEF Contract!CNext
    <2>5. CASE v \in {"cancelled", "rejected", "exit"}
      <3>1. PhaseOf(t)' = "barren"
        BY <2>3, <2>5 DEF PhaseOf
      <3>2. Contract!GiveUp(t)
        BY <1>m, <2>1, <2>2, <2>3, <3>1 DEF Contract!GiveUp
      <3>. QED
        BY <3>2 DEF Contract!CNext
    <2>. QED
      BY <2>4, <2>5 DEF BodyVerdicts
  <1>5. ASSUME NEW t \in Tasks, Settle(t) PROVE Simulated
    <2>1. /\ pc[t] = "settle" /\ pc'[t] \in {"release", "finalize"}
          /\ \A u \in Tasks : u # t => pc'[u] = pc[u] /\ status'[u] = status[u]
          /\ status'[t] = SettledStatus(t) /\ UNCHANGED <<closed, promised, verdict>>
      BY <1>5 DEF Settle, AfterSettle
    <2>2. \A u \in Tasks : PhaseOf(u)' = PhaseOf(u)
      BY <2>1 DEF PhaseOf
    <2>3. OutcomeOf(t) = "none" /\ status[t] \notin Terminal
      BY <2>1 DEF OutcomeOf, OutcomeInv
    <2>4. \A u \in Tasks : u # t => OutcomeOf(u)' = OutcomeOf(u)
      BY <2>1 DEF OutcomeOf
    <2>5. ASSUME NEW o \in Terminal, OutcomeOf(t)' = o,
                 \/ PhaseOf(t) = "barren" /\ o \in {"cancelled", "rejected"}
                 \/ PhaseOf(t) = "yielded" /\ t \in promised /\ o = "cancelled"
                 \/ PhaseOf(t) = "yielded" /\ t \notin promised /\ o \in {"completed", "failed"}
          PROVE  Simulated
      <3>1. Contract!Resolve(t, o)
        BY <2>1, <2>2, <2>3, <2>4, <2>5
        DEF Contract!Resolve, Contract!WithResult, Contract!WithoutResult
      <3>. QED
        BY <2>5, <3>1 DEF Contract!CNext, Contract!WithResult, Contract!WithoutResult, Terminal
    <2>6. CASE verdict[t] \in {"returned", "raised"}
      <3>1. PhaseOf(t) = "yielded"
        BY <2>1, <2>6 DEF PhaseOf
      <3>2. /\ t \in promised => SettledStatus(t) = "cancelled"
            /\ t \notin promised => SettledStatus(t) \in {"completed", "failed"}
        BY <2>6 DEF SettledStatus, UnlessCancelled, PhaseInv
      <3>. QED
        BY <2>1, <2>5, <3>1, <3>2 DEF OutcomeOf, Terminal
    <2>7. CASE verdict[t] \in {"cancelled", "rejected"}
      <3>1. PhaseOf(t) = "barren" /\ SettledStatus(t) = verdict[t]
        BY <2>1, <2>7 DEF PhaseOf, SettledStatus
      <3>. QED
        BY <2>1, <2>5, <2>7, <3>1 DEF OutcomeOf, Terminal
    <2>8. CASE verdict[t] = "exit"
      <3>1. SettledStatus(t) = status[t]
        BY <2>8 DEF SettledStatus
      <3>2. OutcomeOf(t)' = OutcomeOf(t)
        BY <2>1, <2>3, <3>1 DEF OutcomeOf
      <3>. QED
        BY <1>s, <2>1, <2>2, <2>4, <3>2
    <2>9. verdict[t] # "none"
      BY <2>1 DEF PhaseInv, BeforeVerdict
    <2>. QED
      BY <2>6, <2>7, <2>8, <2>9 DEF Verdicts
  <1>6. ASSUME NEW t \in Tasks,
               \/ SpawnFails(t) \/ Acquire(t) \/ AcquireTimesOut(t) \/ DeadlinePasses(t)
               \/ Release(t) \/ Finalize(t) \/ Signal(t)
        PROVE  Simulated
    <2>1. UNCHANGED <<closed, promised, status, verdict>>
      BY <1>6 DEF SpawnFails, Acquire, AcquireTimesOut, DeadlinePasses, Release, Finalize, Signal
    <2>2. \/ pc' = pc
          \/ pc' = [pc EXCEPT ![t] = pc'[t]] /\ pc[t] = "unborn" /\ pc'[t] = "aborted"
          \/ /\ pc' = [pc EXCEPT ![t] = pc'[t]]
             /\ pc[t] \notin {"unborn", "aborted", "body"}
             /\ pc'[t] \notin {"unborn", "aborted", "body"}
      BY <1>6 DEF SpawnFails, Acquire, AcquireTimesOut, AfterTimeout, DeadlinePasses, Release,
         Finalize, Signal
    <2>3. ASSUME NEW u \in Tasks PROVE PhaseOf(u)' = PhaseOf(u)
      BY <2>1, <2>2 DEF PhaseOf
    <2>. QED
      BY <1>s, <2>1, <2>3 DEF OutcomeOf
  \* cancel() is a promise if the task has no terminal status.
  <1>7. ASSUME NEW t \in Tasks, CancelStep(t), ~Unstarted(t) PROVE Simulated
    <2>1. UNCHANGED <<closed, status, pc, verdict>>
      BY <1>7 DEF CancelStep
    <2>2. \A u \in Tasks : PhaseOf(u)' = PhaseOf(u) /\ OutcomeOf(u)' = OutcomeOf(u)
      BY <2>1 DEF PhaseOf, OutcomeOf
    <2>3. CASE Cancellable(t)
      <3>1. promised' = promised \cup {t} /\ OutcomeOf(t) = "none"
        BY <1>7, <2>3 DEF CancelStep, Cancellable, OutcomeOf
      <3>2. PhaseOf(t) # "new"
        BY <1>7 DEF PhaseOf, Unstarted
      <3>3. Contract!Promise(t)
        BY <2>1, <2>2, <3>1, <3>2 DEF Contract!Promise
      <3>. QED
        BY <3>3 DEF Contract!CNext
    <2>4. CASE ~Cancellable(t)
      BY <1>7, <1>s, <2>1, <2>2, <2>4 DEF CancelStep
    <2>. QED
      BY <2>3, <2>4
  <1>8. ASSUME NEW c \in Participants, NEW mode \in {"nowait", "forever", "deadline"},
               BeginClose(c, mode)
        PROVE  Simulated
    <2>1. closed' = TRUE /\ UNCHANGED <<promised, status, pc, verdict>>
      BY <1>8 DEF BeginClose
    <2>2. Contract!Shut
      BY <2>1 DEF Contract!Shut, PhaseOf, OutcomeOf
    <2>. QED
      BY <2>2 DEF Contract!CNext
  <1>9. ASSUME UNCHANGED <<closed, promised, status, pc, verdict>> PROVE Simulated
    BY <1>9, <1>s DEF PhaseOf, OutcomeOf
  <1>10. ASSUME NEW c \in Participants, CallerStep(c) PROVE Simulated
    <2>1. ASSUME NEW t \in Tasks, SweepOne(c, t) PROVE Simulated
      BY <1>7, <2>1 DEF SweepOne, PhaseInv
    <2>2. ASSUME (\E t \in Tasks : JoinOne(c, t)) \/ SweepDone(c) \/ CloseReturns(c) PROVE Simulated
      BY <1>9, <2>2 DEF JoinOne, SweepDone, CloseReturns
    <2>. QED
      BY <1>10, <2>1, <2>2 DEF CallerStep
  <1>11. ASSUME NEW c \in Callers, NEW ids \in {group, tasks}, BeginCancelSweep(c, ids)
         PROVE  Simulated
    BY <1>9, <1>11 DEF BeginCancelSweep
  <1>12. ASSUME NEW t \in Tasks, Cancel(t) PROVE Simulated
    BY <1>7, <1>12 DEF Cancel, Unstarted
  <1>13. ASSUME UNCHANGED vars PROVE Simulated
    BY <1>9, <1>13 DEF vars
  <1>. QED
    BY <1>1, <1>2, <1>3, <1>4, <1>5, <1>6, <1>8, <1>10, <1>11, <1>12, <1>13 DEF Next, ThreadStep

\* The threads, the semaphore and the tables implement TaskContract: for every
\* set of tasks, what a program sees of them is what the contract allows.
THEOREM ManagerImplementsContract == Spec => ImplementsContract
  <1>1. Init => Contract!CInit
    BY DEF Init, Contract!CInit, PhaseOf, OutcomeOf, Terminal
  <1>. QED
    BY <1>1, ContractStep, TypeCorrect, SlotsInvariant, OutcomeInvariant, PhaseInvariant, PTL
    DEF Spec, ImplementsContract, Contract!CSpec
=============================================================================
