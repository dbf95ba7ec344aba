\* Two administrators, all trees of four nodes, the link types of the code.
CONSTANTS
  Admins = {a1, a2}
  N = 4
  Nodes = {1, 2, 3, 4}
  Root = 0
  SmallIds = {1, 2, 4}
  Trees <- Forests
  LinkTypes <- Links
SPECIFICATION Spec
CHECK_DEADLOCK FALSE
SYMMETRY Symmetry
INVARIANTS ParentsGranted BoxFollowsChildren GrantedInMenu RecursionsAgree
