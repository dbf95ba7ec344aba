\* Two calls at a time on three departments.
CONSTANTS
  Threads = {t1, t2}
  Nodes = {n1, n2, n3}
  Root = Root
  None = None
  MaxPath = 4
SPECIFICATION Spec
CHECK_DEADLOCK FALSE
SYMMETRY Symmetry
CONSTRAINT Bounded
INVARIANTS TypeOK LevelMatchesPath PathMatchesParent PathFindsFamily NoOrphanNodes NoOrphanManagers
PROPERTY ImplementsTree
