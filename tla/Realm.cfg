\* Two resources with two permissions, a role and a staff member with two passwords
\* and two ways to enter the name; two threads load.
CONSTANTS
  Resources = {a1, a2}
  Permissions = {p1, p2}
  Roles = {r1}
  Staff = {s1}
  None = None
  Threads = {t1, t2}
  Passwords = {w1, w2}
  Spellings = {Trimmed, Blanks}
  Trimmed = Trimmed
  MaxOnline = 1
SPECIFICATION RealmSpec
SYMMETRY Symmetry
CONSTRAINT Bounded
INVARIANTS NoRevival LeftoversOfDeleted LoginsValid PermittedAsHeld
