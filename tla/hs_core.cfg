\* Two connections for one worker slot or for two, at most two requests on a
\* connection; threads that cannot be started.
CONSTANTS
  Conns = {c1, c2}
  WorkerLimits = {1, 2}
  MaxRequests = 2
  StartMayFail = TRUE
  RequestBound = 3
SPECIFICATION FairSpec
INVARIANTS CountsExact DrainOrdered
PROPERTIES ShutdownEnds
\* A server that was stopped has returned.
CHECK_DEADLOCK FALSE
