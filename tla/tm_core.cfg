\* Two tasks of one group compete for one slot and one place in the history;
\* one has a timeout and may close the manager from its own body; an outside
\* thread cancels the group, cancels everything and closes.
CONSTANTS
  Tasks = {t1, t2}
  GroupTasks = {t1, t2}
  TimedTasks = {t2}
  ClosingTasks = {t2}
  ExitingTasks = {t1}
  Callers = {c1}
  MaxConcurrent = 1
  MaxFinished = 1
SPECIFICATION ThreadFairSpec
INVARIANTS TypeOK ConcurrencyBound CancelHonoured BookkeepingSettled
PROPERTIES ImplementsContract EverythingEnds
\* The manager is closed and its tasks have ended.
CHECK_DEADLOCK FALSE
