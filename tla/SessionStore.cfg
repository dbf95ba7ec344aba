\* Two threads: a session logs in, times out, is evicted, restored and cleared.
CONSTANTS
  Threads = {t1, t2}
  Sessions = {s1}
  None = None
  Timeout = 2
  Validation = 1
  SyncInterval = 1
  Retention = 5
  MaxTime = 14
SPECIFICATION Spec
CHECK_DEADLOCK FALSE
SYMMETRY Symmetry
INVARIANTS SerialRowsLoggedIn ArchivedOnce EndedArchived
