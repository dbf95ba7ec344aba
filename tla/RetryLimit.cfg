\* Two request threads on one user: every interleaving of the cache and counter accesses.
CONSTANTS
  Threads = {t1, t2}
  Users = {u1}
  Refs = {r1, r2, r3}
  NoRef = NoRef
  RetryLimit = 2
  LockTime = 1
  MaxTime = 3
  MaxAttempts = 4
SPECIFICATION Spec
SYMMETRY Symmetry
CHECK_DEADLOCK FALSE
INVARIANTS TypeOK CountsNotShared SerialBurstLimit
