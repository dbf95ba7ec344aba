\* Three concurrent requests of one session, every interleaving: its id is queued
\* more than once and the trimming loops meet an empty deque.
CONSTANTS
  Threads = {t1, t2, t3}
  Sessions = {s1}
  Deques = {d1, d2, d3}
  None = None
  MaxSession = 1
  KickOutLast = FALSE
SPECIFICATION FairSpec
CHECK_DEADLOCK FALSE
INVARIANTS TypeOK LimitRestored NoneSlips
PROPERTIES RequestsFinish
