\* Two threads create the counter of one user at the same time.
CONSTANTS
  Threads = {t1, t2}
  Users = {u1}
  Refs = {r1, r2, r3}
  NoRef = NoRef
  RetryLimit = 1
  LockTime = 1
  MaxTime = 0
  MaxAttempts = 3
SPECIFICATION Spec
CHECK_DEADLOCK FALSE
INVARIANTS BurstLimit
