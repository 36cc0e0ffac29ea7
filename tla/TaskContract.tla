--------------------------- MODULE TaskContract ----------------------------
(***************************************************************************)
(* What wsbuilder.tasks promises to the code that spawns a task, without   *)
(* threads, semaphores or tables: a bounded number of bodies execute at a  *)
(* time, a result comes only from a body that executed, an outcome is      *)
(* final, and a task that was promised its cancellation has no result.     *)
(***************************************************************************)
EXTENDS Integers, FiniteSets

CONSTANTS
  Tasks,
  Limit     \* how many bodies may execute at once; 0 for any number

VARIABLES
  shut,     \* the manager admits no further task
  phase,    \* where each task is in its life
  promised, \* the tasks whose cancellation was promised
  outcome   \* how each task ended, "none" before it did

cvars == <<shut, phase, promised, outcome>>

Phases == {"new", "waiting", "executing", "yielded", "barren"}
WithResult == {"completed", "failed"}
WithoutResult == {"cancelled", "rejected"}

Executing == {t \in Tasks : phase[t] = "executing"}

CInit ==
  /\ shut = FALSE
  /\ phase = [t \in Tasks |-> "new"]
  /\ promised = {}
  /\ outcome = [t \in Tasks |-> "none"]

Move(t, from, to) ==
  /\ phase[t] = from
  /\ phase' = [phase EXCEPT ![t] = to]
  /\ UNCHANGED <<shut, promised, outcome>>

Admit(t) == ~shut /\ Move(t, "new", "waiting")

Begin(t) ==
  /\ Limit > 0 => Cardinality(Executing) < Limit
  /\ Move(t, "waiting", "executing")

\* A task never admitted to execution ends without a result ...
Refuse(t) == Move(t, "waiting", "barren")

\* ... and a body may end with something to report or with nothing.
Yield(t) == Move(t, "executing", "yielded")
GiveUp(t) == Move(t, "executing", "barren")

Resolve(t, o) ==
  /\ outcome[t] = "none"
  /\ \/ phase[t] = "barren" /\ o \in WithoutResult
     \/ phase[t] = "yielded" /\ t \in promised /\ o = "cancelled"
     \/ phase[t] = "yielded" /\ t \notin promised /\ o \in WithResult
  /\ outcome' = [outcome EXCEPT ![t] = o]
  /\ UNCHANGED <<shut, phase, promised>>

Promise(t) ==
  /\ phase[t] # "new"
  /\ outcome[t] = "none"
  /\ promised' = promised \cup {t}
  /\ UNCHANGED <<shut, phase, outcome>>

Shut == shut' = TRUE /\ UNCHANGED <<phase, promised, outcome>>

CNext ==
  \/ \E t \in Tasks :
       Admit(t) \/ Begin(t) \/ Refuse(t) \/ Yield(t) \/ GiveUp(t) \/ Promise(t)
  \/ \E t \in Tasks, o \in WithResult \cup WithoutResult : Resolve(t, o)
  \/ Shut

CSpec == CInit /\ [][CNext]_cvars
=============================================================================
