\* Two threads, which may create a worker each; sequence numbers 0 and 1.
CONSTANTS
  Threads = {t1, t2}
  Workers = {w1, w2}
  None = None
  WorkerIds = 2
  SequenceSize = 2
  MaxBack = 1
  MaxTime = 3
  MaxIds = 6
SPECIFICATION Spec
CHECK_DEADLOCK FALSE
SYMMETRY Symmetry
INVARIANTS Increasing
