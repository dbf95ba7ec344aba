--------------------------- MODULE Authorization ---------------------------
(***************************************************************************)
(* Resources, their permissions and who holds them: ResourceServiceImpl,   *)
(* PrivilegeServiceImpl, and the roles of StaffServiceImpl.                *)
(*                                                                         *)
(* Every service method is one transaction and one action.  Concurrency is *)
(* in the inputs: an administrator submits a form filled earlier, so its   *)
(* ids may have been removed by another one meanwhile, and no service      *)
(* checks whether they were.                                               *)
(*                                                                         *)
(* Roles are never deleted: deleteRole first asks hasStaffOfRole, whose    *)
(* query names a column staff_id that s_staff does not have                *)
(* (StaffDao.xml:122), and the call ends with the error of the database.   *)
(***************************************************************************)
EXTENDS Naturals

CONSTANTS
  Resources, Permissions, Roles, Staff,   \* ids of the rows that can exist
  None

ASSUME AuthorizationAssumption == None \notin Resources

VARIABLES
  resource,  \* resource -> unused, row, deleted
  owner,     \* s_permission: permission -> its resource_id, None without a row
  home,      \* history: permission -> the resource whose form made it and may
             \* still carry its id, None if it has never existed
  grants,    \* s_role_permission and s_staff_permission: <<holder, permission>>
  staff,     \* staff -> row, deleted (is_del = 1)
  roles,     \* s_staff_role: <<staff, role>>
  intended   \* history: what administrators granted and nobody has removed since

vars == <<resource, owner, home, grants, staff, roles, intended>>

Holders == Roles \cup Staff

TypeOK ==
  /\ resource \in [Resources -> {"unused", "row", "deleted"}]
  /\ owner \in [Permissions -> Resources \cup {None}]
  /\ home \in [Permissions -> Resources \cup {None}]
  /\ grants \in SUBSET (Holders \X Permissions)
  /\ staff \in [Staff -> {"row", "deleted"}]
  /\ roles \in SUBSET (Staff \X Roles)
  /\ intended \in SUBSET (Holders \X Permissions)

Init ==
  /\ resource = [r \in Resources |-> "unused"]
  /\ owner = [p \in Permissions |-> None]
  /\ home = [p \in Permissions |-> None]
  /\ grants = {}
  /\ staff = [s \in Staff |-> "row"]
  /\ roles = {}
  /\ intended = {}

Existing == {p \in Permissions : owner[p] # None}
PermissionsOf(r) == {p \in Permissions : owner[p] = r}

\* The ids that a form can carry, whether they still exist or not.
Seen == {p \in Permissions : home[p] # None}

\* deletePermissionByResource(r), then insertPermission for each of ps; a
\* permission that comes with an id keeps it, others get a new one.
ReplacePermissions(r, ps) ==
  /\ owner' = [p \in Permissions |-> IF p \in ps THEN r
                                     ELSE IF owner[p] = r THEN None ELSE owner[p]]
  /\ home' = [p \in Permissions |-> IF p \in ps THEN r ELSE home[p]]
  /\ intended' = {g \in intended : g[2] \notin PermissionsOf(r) \ ps}

(***************************************************************************)
(* ResourceServiceImpl                                                     *)
(***************************************************************************)

CreateResource(r, ps) ==
  /\ resource[r] = "unused"
  /\ ps \cap Seen = {}
  /\ resource' = [resource EXCEPT ![r] = "row"]
  /\ ReplacePermissions(r, ps)
  /\ UNCHANGED <<grants, staff, roles>>

\* Mutant: the grants of removed permissions are kept.
UpdateResourceOnly(r, ps) ==
  /\ resource[r] # "unused"
  /\ \A p \in ps : home[p] \in {None, r}
  /\ ReplacePermissions(r, ps)
  /\ UNCHANGED <<resource, grants, staff, roles>>

\* The form of r has new permissions and some that r had when it was opened; r
\* may be deleted by now.  revokePrivilegesOfRemovedPermissions(r) looks at all
\* grants, not only at those of r.
UpdateResource(r, ps) ==
  /\ resource[r] # "unused"
  /\ \A p \in ps : home[p] \in {None, r}
  /\ ReplacePermissions(r, ps)
  /\ grants' = {g \in grants : owner'[g[2]] # None}
  /\ UNCHANGED <<resource, staff, roles>>

\* revokePrivilegesOfResource(r) joins the grants with the permissions of r,
\* which are deleted by then.  (A resource with children is refused: the tree
\* of the resources is the one of TreePath.)
DeleteResource(r) ==
  /\ resource[r] = "row"
  /\ ReplacePermissions(r, {})
  /\ resource' = [resource EXCEPT ![r] = "deleted"]
  /\ grants' = {g \in grants : owner'[g[2]] # r}
  /\ UNCHANGED <<staff, roles>>

(***************************************************************************)
(* PrivilegeServiceImpl: grantRolePrivileges and grantStaffPrivileges.     *)
(***************************************************************************)

\* Mutant: the earlier grants of the holder are kept.
GrantMore(h, ps) ==
  /\ ps \subseteq Seen
  /\ grants' = grants \cup {h} \X ps
  /\ intended' = {g \in intended : g[1] # h} \cup {h} \X ps
  /\ UNCHANGED <<resource, owner, home, staff, roles>>

Grant(h, ps) ==
  /\ ps \subseteq Seen
  /\ grants' = {g \in grants : g[1] # h} \cup {h} \X ps
  /\ intended' = {g \in intended : g[1] # h} \cup {h} \X ps
  /\ UNCHANGED <<resource, owner, home, staff, roles>>

\* The code of a permission with the code of its resource in front of it, which
\* is left out once the resource is gone.  (The resources above it are not
\* modelled.)
StringPermission(p) == <<IF resource[owner[p]] = "row" THEN owner[p] ELSE None, p>>

GetAllPrivileges(s) ==
  {StringPermission(p) : p \in {p \in Existing :
     <<s, p>> \in grants \/ \E r \in Roles : <<s, r>> \in roles /\ <<r, p>> \in grants}}

(***************************************************************************)
(* StaffServiceImpl                                                        *)
(***************************************************************************)

\* updateStaff: clearStaffRoles and setStaffRoles, for any staff id.
UpdateStaff(s, rs) ==
  /\ roles' = {x \in roles : x[1] # s} \cup {s} \X rs
  /\ UNCHANGED <<resource, owner, home, grants, staff, intended>>

DeleteStaff(s) ==
  /\ staff[s] = "row"
  /\ staff' = [staff EXCEPT ![s] = "deleted"]
  /\ UNCHANGED <<resource, owner, home, grants, roles, intended>>

Next ==
  \/ \E r \in Resources, ps \in SUBSET Permissions : CreateResource(r, ps) \/ UpdateResource(r, ps)
  \/ \E r \in Resources : DeleteResource(r)
  \/ \E h \in Holders, ps \in SUBSET Permissions : Grant(h, ps)
  \/ \E s \in Staff, rs \in SUBSET Roles : UpdateStaff(s, rs)
  \/ \E s \in Staff : DeleteStaff(s)

Spec == Init /\ [][Next]_vars

(***************************************************************************)
(* Properties                                                              *)
(***************************************************************************)

Granted(s, p) ==
  <<s, p>> \in intended \/ \E r \in Roles : <<s, r>> \in roles /\ <<r, p>> \in intended

\* A permission of an existing resource is held only as administrators last
\* granted it and did not remove it since, although forms sent late may bring
\* removed ids back and grants of ids that are gone are left in the tables
\* (grantRolePrivileges, updateResource, deleteResource).
NoRevival ==
  \A s \in Staff : \A x \in GetAllPrivileges(s) : x[1] # None => Granted(s, x[2])

\* Grants that outlive the permission they were given for are grants of deleted
\* resources: updateResource takes back all others, whatever form is sent and
\* whatever it brings back.
LeftoversOfDeleted == \A g \in grants \ intended : resource[home[g[2]]] = "deleted"
=============================================================================
