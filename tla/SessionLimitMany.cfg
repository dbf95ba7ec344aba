\* Overlapping requests of three sessions, kicking out the newest session.
CONSTANTS
  Threads = {t1, t2}
  Sessions = {s1, s2, s3}
  Deques = {d1, d2}
  None = None
  MaxSession = 1
  KickOutLast = TRUE
SYMMETRY Symmetry
SPECIFICATION Spec
CHECK_DEADLOCK FALSE
INVARIANTS QueuedPerThread OnlineWithinDeques
