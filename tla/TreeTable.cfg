\* Eight resources on three levels.
CONSTANTS
  Resources <- const_Resources
  Target <- const_Target
SPECIFICATION TableSpec
CHECK_DEADLOCK FALSE
INVARIANTS InTreeOrder OpenedAreShown ForksTell InsertionsAgree
PROPERTY TargetShown
