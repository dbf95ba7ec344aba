------------------------------ MODULE GrantPage ------------------------------
(***************************************************************************)
(* The page that grants privileges to a role: the check boxes of           *)
(* bootstrap-tree.js, the scripts of role/grant.jsp, and RoleController    *)
(* and PrivilegeServiceImpl on the server, up to the menus of the users    *)
(* who have the role.                                                      *)
(*                                                                         *)
(* A node of the tree is a resource, merged with its "view" permission, or *)
(* another permission, which is a leaf below its resource.  The topmost li *)
(* (data-id 0) has no check box and is Root.  The recursions along the     *)
(* ancestors are given by the set of nodes they change; MCGrantPage        *)
(* compares these sets with the recursions.                                *)
(***************************************************************************)
EXTENDS Integers

CONSTANTS
  Admins,      \* administrators, each with one page of the same role
  Nodes, Root,
  Trees,       \* the trees considered: functions from nodes to their parents
  LinkTypes,   \* values of data-link-type: Y and N, sets of "p" and "s"
  SmallIds     \* ids up to 127, whose Long objects the JVM shares

\* The nodes below n in the tree t.
DescendantsIn(t, n) ==
  {m \in Nodes : \A S \in SUBSET Nodes :
     (\A k \in Nodes : t[k] \in S \cup {n} => k \in S) => m \in S}

\* No node is below itself, as the tree is a page of nested lists.  Every link
\* type checks the ancestors of what is checked, and unchecks the descendants of
\* what is unchecked: so do the default of bootstrap-tree.js and the one of
\* grant.jsp.
ASSUME GrantPageAssumption ==
  /\ Root \notin Nodes
  /\ Trees \subseteq [Nodes -> Nodes \cup {Root}]
  /\ \A t \in Trees, n \in Nodes : n \notin DescendantsIn(t, n)
  /\ LinkTypes \subseteq [Y : SUBSET {"p", "s"}, N : SUBSET {"p", "s"}]
  /\ \A l \in LinkTypes : "p" \in l.Y /\ "s" \in l.N

VARIABLES
  parent,      \* the tree (does not change)
  plain,       \* the nodes that are permissions other than "view"
  link,        \* the link type of the pages
  open,        \* administrators whose page is open
  checked,     \* administrator -> nodes with class fa-check-square-o
  granted      \* s_role_permission of the role

vars == <<parent, plain, link, open, checked, granted>>

Children(n) == {m \in Nodes : parent[m] = n}
Leaves == {n \in Nodes : Children(n) = {}}

\* The check boxes below the li of n: $li.find(">ul [role=checkbox]").
Descendants(n) == DescendantsIn(parent, n)

Ancestors(n) == {m \in Nodes : n \in Descendants(m)}

TypeOK ==
  /\ parent \in Trees
  /\ plain \in SUBSET Nodes
  /\ link \in LinkTypes
  /\ open \in SUBSET Admins
  /\ checked \in [Admins -> SUBSET Nodes]
  /\ granted \in SUBSET Nodes

\* A new role without privileges.
Init ==
  /\ parent \in Trees
  /\ plain \in SUBSET {n \in Leaves : parent[n] # Root}
  /\ link \in LinkTypes
  /\ open = {}
  /\ checked = [a \in Admins |-> {}]
  /\ granted = {}

(***************************************************************************)
(* bootstrap-tree.js                                                       *)
(***************************************************************************)

\* Mutant: checkAncestors stops at the parent.
CheckAncestorsOnce(c, n) == {parent[n]} \cap Nodes

\* checkAncestors: upwards from n as long as the parent is not checked.
CheckAncestors(c, n) ==
  {m \in Ancestors(n) \ c : \A k \in Ancestors(n) : m \in Ancestors(k) => k \notin c}

\* Mutant: the parent is unchecked though another child of it is checked.
UncheckAncestorsAlways(c, n) == Ancestors(n)

\* uncheckAncestors: upwards from n as long as no box next to it is checked.
UncheckAncestors(c, n) ==
  {m \in Ancestors(n) : \A k \in Ancestors(n) \cup {n} :
     m \in Ancestors(k) => (Children(parent[k]) \ {k}) \cap c = {}}

\* Mutant: the boxes below an unchecked one stay checked.
UncheckAlone(c, n) == c \ {n}

Uncheck(c, n) ==
  LET below == IF "s" \in link.N THEN Descendants(n) ELSE {}
      rest == c \ (below \cup {n}) IN
  IF "p" \in link.N THEN rest \ UncheckAncestors(rest, n) ELSE rest

Check(c, n) ==
  LET below == IF "s" \in link.Y THEN Descendants(n) ELSE {}
      more == c \cup below \cup {n} IN
  IF "p" \in link.Y THEN more \cup CheckAncestors(more, n) ELSE more

Show(a, c) ==
  /\ a \in open
  /\ checked' = [checked EXCEPT ![a] = c]
  /\ UNCHANGED <<parent, plain, link, open, granted>>

\* The click handler of a check box.
Click(a, n) == Show(a, IF n \in checked[a] THEN Uncheck(checked[a], n) ELSE Check(checked[a], n))

(***************************************************************************)
(* grant.jsp and RoleController                                            *)
(***************************************************************************)

\* GET /role/grant: buildPermissionTree checks what getRolePrivileges returns.
Open(a) ==
  /\ a \notin open
  /\ open' = open \cup {a}
  /\ checked' = [checked EXCEPT ![a] = granted]
  /\ UNCHANGED <<parent, plain, link, granted>>

\* btnAll and btnNone.
CheckAll(a) == Show(a, Nodes)
CheckNone(a) == Show(a, {})

\* doSave and grantRolePrivileges; the page stays until its user leaves it.
Save(a) ==
  /\ a \in open
  /\ granted' = checked[a]
  /\ UNCHANGED <<parent, plain, link, open, checked>>

\* btnCancel, or the end of the message after a save.
Close(a) ==
  /\ a \in open
  /\ open' = open \ {a}
  /\ checked' = [checked EXCEPT ![a] = {}]
  /\ UNCHANGED <<parent, plain, link, granted>>

Next ==
  \E a \in Admins :
    \/ Open(a) \/ CheckAll(a) \/ CheckNone(a) \/ Save(a) \/ Close(a)
    \/ \E n \in Nodes : Click(a, n)

Spec == Init /\ [][Next]_vars

(***************************************************************************)
(* PrivilegeServiceImpl.getAccessibleMenuList for a user with the role.    *)
(***************************************************************************)

\* PrivilegeDao.getAccessibleResources: the resources of the granted permissions.
Accessible == (granted \ plain) \cup {parent[p] : p \in granted \cap plain}

\* findChildMenus compares Long objects with ==: below a resource with a large
\* id it finds nothing.
Menu ==
  {n \in Accessible : \A m \in Ancestors(n) : m \in Accessible /\ m \in SmallIds}

(***************************************************************************)
(* Properties                                                              *)
(***************************************************************************)

Closed(c) == \A n \in c : parent[n] \in c \cup {Root}

\* On every page, and in what it saves, whoever has a privilege has the one of
\* the node above, however two administrators click and save: checkAncestors may
\* stop at the first checked box only because of this.
ParentsGranted == Closed(granted) /\ \A a \in open : Closed(checked[a])

\* With the default link type a box above others is checked exactly when one of
\* those is (checkAncestors and uncheckAncestors undo each other).
BoxFollowsChildren ==
  link.N = {"p", "s"} /\ link.Y = {"p", "s"} =>
    \A a \in open, n \in Nodes \ Leaves : n \in checked[a] <=> Children(n) \cap checked[a] # {}

\* A resource that a role may see is in the menu of its users, unless a resource
\* above it has a large id (getAccessibleMenuList).
GrantedInMenu ==
  \A n \in granted \ plain : Ancestors(n) \subseteq SmallIds => n \in Menu
=============================================================================
