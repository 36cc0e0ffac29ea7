\* Two threads, two keys, one replica, both journal modes; it stops when the
\* bounds are reached.
CONSTANTS
  Threads = {t1, t2}
  Keys = {k1, k2}
  None = None
  Journals = {"wal", "delete"}
  Replicas = 1
  MaxWrites = 2
  MaxScopes = 2
  MaxReads = 1
SPECIFICATION Spec
INVARIANTS TransactionsHold StoredAsTold
PROPERTIES LockFreed
CHECK_DEADLOCK FALSE
