------------------------ MODULE AuthorizationProofs ------------------------
(***************************************************************************)
(* Nobody holds a permission of an existing resource that was not granted, *)
(* for any number of resources, permissions, roles and staff, and whatever *)
(* forms are sent late.                                                    *)
(*                                                                         *)
(* NoRevival is not inductive: deleteResource leaves grants of permissions *)
(* that are gone, and updateResource can bring these back.  They are       *)
(* harmless because the form that carries such an id is the one of the     *)
(* deleted resource (LeftoversOfDeleted), so the permission comes back     *)
(* without the code of a resource in front of it.                          *)
(*                                                                         *)
(* CachesBounded: what the realm's caches still allow was held, or was the *)
(* password, since the caches were last cleared.                           *)
(***************************************************************************)
EXTENDS Realm, TLAPS

\* A permission is a row only of the resource whose form made it, and that
\* resource has been created; what is granted was made by some form.
Homed ==
  /\ \A p \in Permissions : owner[p] # None => owner[p] = home[p]
  /\ \A p \in Permissions : home[p] # None => resource[home[p]] # "unused"
  /\ \A g \in grants : home[g[2]] # None

IInv == TypeOK /\ Homed /\ LeftoversOfDeleted

LEMMA InitInv == Init => IInv
  BY DEF Init, IInv, TypeOK, Homed, LeftoversOfDeleted

LEMMA ReplaceTyped ==
  ASSUME TypeOK, NEW r \in Resources, NEW ps \in SUBSET Permissions, ReplacePermissions(r, ps)
  PROVE  /\ owner' \in [Permissions -> Resources \cup {None}]
         /\ home' \in [Permissions -> Resources \cup {None}]
         /\ intended' \in SUBSET (Holders \X Permissions)
         /\ \A p \in ps : owner'[p] = r /\ home'[p] = r
         /\ \A p \in Permissions \ ps : home'[p] = home[p] /\ owner'[p] \in {None, owner[p]}
         /\ \A p \in Permissions \ ps : owner'[p] # r
         /\ \A g \in intended : g[2] \in ps \/ owner[g[2]] # r => g \in intended'
  BY AuthorizationAssumption DEF TypeOK, ReplacePermissions, PermissionsOf

\* Every transaction preserves the strengthened invariant.
LEMMA NextInv == IInv /\ [Next]_vars => IInv'
<1> SUFFICES ASSUME IInv, [Next]_vars
             PROVE  IInv'
  OBVIOUS
<1> USE AuthorizationAssumption DEF IInv
<1>t. /\ resource \in [Resources -> {"unused", "row", "deleted"}]
      /\ owner \in [Permissions -> Resources \cup {None}]
      /\ home \in [Permissions -> Resources \cup {None}]
      /\ \A g \in grants : g[2] \in Permissions
  BY DEF TypeOK
<1>1. ASSUME NEW r \in Resources, NEW ps \in SUBSET Permissions, CreateResource(r, ps)
      PROVE  IInv'
  <2>1. /\ resource[r] = "unused" /\ ps \cap Seen = {} /\ resource' = [resource EXCEPT ![r] = "row"]
        /\ ReplacePermissions(r, ps) /\ UNCHANGED <<grants, staff, roles>>
    BY <1>1 DEF CreateResource
  <2>2. TypeOK'
    BY <2>1, ReplaceTyped DEF TypeOK
  <2>3. \A p \in Permissions : home[p] # None => p \notin ps /\ home'[p] = home[p] /\ home[p] # r
    BY <2>1, ReplaceTyped DEF Homed, Seen
  <2>4. Homed'
    <3>1. \A p \in Permissions : owner'[p] # None => owner'[p] = home'[p]
      BY <2>1, ReplaceTyped DEF Homed
    <3>2. \A p \in Permissions : home'[p] # None => resource'[home'[p]] # "unused"
      <4>1. ASSUME NEW p \in Permissions, home'[p] # None PROVE resource'[home'[p]] # "unused"
        <5>1. CASE p \in ps
          BY <5>1, <1>t, <2>1, ReplaceTyped
        <5>2. CASE p \notin ps
          BY <5>2, <4>1, <1>t, <2>1, <2>3, ReplaceTyped DEF Homed
        <5> QED
          BY <5>1, <5>2
      <4> QED
        BY <4>1
    <3>3. \A g \in grants' : home'[g[2]] # None
      BY <1>t, <2>1, <2>3 DEF Homed
    <3> QED
      BY <3>1, <3>2, <3>3 DEF Homed
  <2>5. ASSUME NEW g \in grants' \ intended' PROVE resource'[home'[g[2]]] = "deleted"
    <3>1. g \in grants /\ g[2] \in Permissions /\ home[g[2]] # None /\ home[g[2]] \in Resources
      BY <1>t, <2>1 DEF Homed
    <3>2. home'[g[2]] = home[g[2]] /\ home[g[2]] # r
      BY <2>3, <3>1
    <3>3. g \notin intended
      BY <2>1, <2>5, <3>1, <3>2, ReplaceTyped DEF Homed
    <3> QED
      BY <1>t, <2>1, <3>1, <3>2, <3>3 DEF LeftoversOfDeleted
  <2> QED
    BY <2>2, <2>4, <2>5 DEF LeftoversOfDeleted
<1>2. ASSUME NEW r \in Resources, NEW ps \in SUBSET Permissions, UpdateResource(r, ps)
      PROVE  IInv'
  <2>1. /\ resource[r] # "unused" /\ \A p \in ps : home[p] \in {None, r}
        /\ ReplacePermissions(r, ps) /\ grants' = {g \in grants : owner'[g[2]] # None}
        /\ UNCHANGED <<resource, staff, roles>>
    BY <1>2 DEF UpdateResource
  <2>2. TypeOK'
    BY <2>1, ReplaceTyped DEF TypeOK
  <2>3. \A p \in Permissions : home[p] # None => home'[p] = home[p]
    BY <2>1, ReplaceTyped
  <2>4. Homed'
    BY <1>t, <2>1, <2>3, ReplaceTyped DEF Homed
  <2>5. ASSUME NEW g \in grants' \ intended' PROVE resource'[home'[g[2]]] = "deleted"
    <3>1. g \in grants /\ g[2] \in Permissions /\ home'[g[2]] = home[g[2]] /\ owner'[g[2]] # None
      BY <1>t, <2>1, <2>3 DEF Homed
    <3>2. g \notin intended
      BY <2>1, <2>5, <3>1, ReplaceTyped
    <3> QED
      BY <2>1, <3>1, <3>2 DEF LeftoversOfDeleted
  <2> QED
    BY <2>2, <2>4, <2>5 DEF LeftoversOfDeleted
<1>3. ASSUME NEW r \in Resources, DeleteResource(r)
      PROVE  IInv'
  <2>1. /\ resource[r] = "row" /\ resource' = [resource EXCEPT ![r] = "deleted"]
        /\ ReplacePermissions(r, {}) /\ grants' \subseteq grants
        /\ UNCHANGED <<staff, roles>> /\ {} \in SUBSET Permissions
    BY <1>3 DEF DeleteResource
  <2>2. TypeOK'
    BY <2>1, ReplaceTyped DEF TypeOK
  <2>3. \A p \in Permissions : home'[p] = home[p] /\ owner'[p] \in {None, owner[p]}
    BY <2>1, ReplaceTyped
  <2>4. Homed'
    BY <1>t, <2>1, <2>3 DEF Homed
  <2>5. ASSUME NEW g \in grants' \ intended' PROVE resource'[home'[g[2]]] = "deleted"
    <3>1. g \in grants /\ g[2] \in Permissions /\ home'[g[2]] = home[g[2]] /\ home[g[2]] # None
      BY <1>t, <2>1, <2>3 DEF Homed
    <3>2. CASE g \notin intended
      BY <1>t, <2>1, <3>1, <3>2 DEF LeftoversOfDeleted
    <3>3. CASE g \in intended
      <4>1. owner[g[2]] = r
        BY <2>1, <2>5, <3>1, <3>3, ReplaceTyped
      <4> QED
        BY <1>t, <2>1, <3>1, <4>1 DEF Homed
    <3> QED
      BY <3>2, <3>3
  <2> QED
    BY <2>2, <2>4, <2>5 DEF LeftoversOfDeleted
<1>4. ASSUME NEW h \in Holders, NEW ps \in SUBSET Permissions, Grant(h, ps)
      PROVE  IInv'
  <2>1. TypeOK'
    BY <1>4 DEF Grant, TypeOK
  <2>2. Homed' /\ LeftoversOfDeleted'
    BY <1>4 DEF Grant, Homed, LeftoversOfDeleted, Seen
  <2> QED
    BY <2>1, <2>2
<1>5. ASSUME NEW s \in Staff, NEW rs \in SUBSET Roles, UpdateStaff(s, rs)
      PROVE  IInv'
  <2>1. TypeOK'
    BY <1>5 DEF UpdateStaff, TypeOK
  <2>2. Homed' /\ LeftoversOfDeleted'
    BY <1>5 DEF UpdateStaff, Homed, LeftoversOfDeleted
  <2> QED
    BY <2>1, <2>2
<1>6. ASSUME NEW s \in Staff, DeleteStaff(s)
      PROVE  IInv'
  BY <1>6 DEF DeleteStaff, TypeOK, Homed, LeftoversOfDeleted
<1>7. CASE UNCHANGED vars
  BY <1>7 DEF vars, TypeOK, Homed, LeftoversOfDeleted
<1> QED
  BY <1>1, <1>2, <1>3, <1>4, <1>5, <1>6, <1>7 DEF Next

LEMMA Inductive == Spec => []IInv
  BY InitInv, NextInv, PTL DEF Spec

\* A permission of an existing resource that getAllPrivileges gives a staff member
\* was granted and not removed since, whatever forms were sent late.
THEOREM PrivilegesAsGranted == Spec => []NoRevival
<1>1. IInv => NoRevival
  <2> SUFFICES ASSUME IInv, NEW s \in Staff, NEW x \in GetAllPrivileges(s), x[1] # None
               PROVE  Granted(s, x[2])
    BY DEF NoRevival
  <2>1. PICK p \in Existing : /\ x = StringPermission(p)
                              /\ \/ <<s, p>> \in grants
                                 \/ \E r \in Roles : <<s, r>> \in roles /\ <<r, p>> \in grants
    BY DEF GetAllPrivileges
  <2>2. x[2] = p /\ p \in Permissions /\ resource[home[p]] = "row"
    BY <2>1 DEF StringPermission, IInv, Homed, Existing
  <2>3. \A h : <<h, p>> \in grants => <<h, p>> \in intended
    BY <2>2 DEF IInv, LeftoversOfDeleted
  <2> QED
    BY <2>1, <2>2, <2>3 DEF Granted
<1> QED
  BY Inductive, <1>1, PTL

(***************************************************************************)
(* The caches of the realm                                                 *)
(***************************************************************************)

\* What a thread has read and not put yet, under the name that a logout clears, is
\* as fresh as an entry has to be, or the logout that overtook it is remembered.
LoadsFresh ==
  \A t \in Threads : loading[t] # None =>
    /\ loading[t].name \in Names
    /\ loading[t].op = "authz" => loading[t].name[2] = Trimmed
    /\ loading[t].name[2] = Trimmed /\ loading[t].name[1] \notin raced =>
         /\ loading[t].op = "authc" => loading[t].info \in valid[loading[t].name[1]]
         /\ loading[t].op = "authz" => loading[t].info \subseteq held[loading[t].name[1]]

\* The histories hold at least what is in the database now.
Remembered ==
  \A s \in Staff : Accepted(s) \subseteq valid[s] /\ FindStringPermissions(s) \subseteq held[s]

\* The functions the steps update.
CacheTypes ==
  /\ authc = [x \in Names |-> authc[x]]
  /\ authz = [s \in Staff |-> authz[s]]
  /\ valid = [s \in Staff |-> valid[s]]
  /\ held = [s \in Staff |-> held[s]]
  /\ loading = [t \in Threads |-> loading[t]]

CInv == CacheTypes /\ LoadsFresh /\ Remembered /\ LoginsValid /\ PermittedAsHeld

\* As long as the tables are left alone, so is what is read from them.
LEMMA SameRead ==
  ASSUME UNCHANGED <<resource, owner, grants, roles, staff, locked, password>>
  PROVE  \A s : Accepted(s)' = Accepted(s) /\ FindStringPermissions(s)' = FindStringPermissions(s)
<1>1. \A p : StringPermission(p)' = StringPermission(p)
  BY DEF StringPermission
<1>2. Existing' = Existing
  BY DEF Existing
<1>3. \A s : GetAllPrivileges(s)' = GetAllPrivileges(s)
  BY <1>1, <1>2, Zenon DEF GetAllPrivileges
<1> QED
  BY <1>3 DEF Accepted, FindStringPermissions

\* A step that changes the database only makes the histories longer.
LEMMA RememberKeeps ==
  ASSUME CInv, Remember, UNCHANGED caches
  PROVE  CInv'
<1>1. \A s \in Staff : valid[s] \subseteq valid'[s] /\ held[s] \subseteq held'[s]
  BY DEF Remember
<1>2. \A s \in Staff : Accepted(s)' \subseteq valid'[s] /\ FindStringPermissions(s)' \subseteq held'[s]
  BY DEF Remember
<1>3. raced' = raced /\ authc' = authc /\ authz' = authz /\ loading' = loading
  BY DEF Remember, caches
<1>4. CacheTypes'
  BY <1>3 DEF CInv, CacheTypes, Remember
<1>5. LoadsFresh'
  BY <1>1, <1>3 DEF CInv, LoadsFresh, Names
<1>6. Remembered'
  BY <1>2 DEF Remembered
<1>7. LoginsValid' /\ PermittedAsHeld'
  BY <1>1, <1>3 DEF CInv, LoginsValid, PermittedAsHeld
<1> QED
  BY <1>4, <1>5, <1>6, <1>7 DEF CInv

LEMMA IdleKeeps ==
  ASSUME CInv, UNCHANGED <<vars, account, history, authc, authz, loading>>
  PROVE  CInv'
<1>1. UNCHANGED <<valid, held, raced, staff, locked, password, resource, owner, grants, roles, authc, authz, loading>>
  BY DEF vars, account, history
<1>2. Remembered'
  BY <1>1, SameRead DEF CInv, Remembered
<1>3. CacheTypes' /\ LoadsFresh'
  BY <1>1 DEF CInv, CacheTypes, LoadsFresh, Names
<1>4. LoginsValid' /\ PermittedAsHeld'
  BY <1>1 DEF CInv, LoginsValid, PermittedAsHeld
<1> QED
  BY <1>2, <1>3, <1>4 DEF CInv

LEMMA LoadUserKeeps ==
  ASSUME CInv, NEW t \in Threads, NEW x \in Names, LoadUser(t, x)
  PROVE  CInv'
<1>1. PICK pw \in Accepted(x[1]) : loading' = [loading EXCEPT ![t] = [op |-> "authc", name |-> x, info |-> pw]]
  BY DEF LoadUser
<1>2. x[1] \in Staff /\ x[2] \in Spellings /\ pw \in valid[x[1]]
  BY <1>1 DEF CInv, Remembered, Names
<1>3. UNCHANGED <<authc, authz, valid, held, raced, staff, locked, password, resource, owner, grants, roles>>
  BY DEF LoadUser, vars, account, history
<1>4. LoadsFresh'
  BY <1>1, <1>2, <1>3 DEF CInv, CacheTypes, LoadsFresh
<1>5. CacheTypes'
  BY <1>1, <1>3 DEF CInv, CacheTypes
<1>6. Remembered'
  BY <1>3, SameRead DEF CInv, Remembered
<1> QED
  BY <1>3, <1>4, <1>5, <1>6 DEF CInv, LoginsValid, PermittedAsHeld

LEMMA LoadPermissionsKeeps ==
  ASSUME CInv, NEW t \in Threads, NEW s \in Staff, LoadPermissions(t, s)
  PROVE  CInv'
<1>1. loading' = [loading EXCEPT ![t] = [op |-> "authz", name |-> <<s, Trimmed>>, info |-> FindStringPermissions(s)]]
  BY DEF LoadPermissions
<1>2. FindStringPermissions(s) \subseteq held[s]
  BY DEF CInv, Remembered
<1>3. UNCHANGED <<authc, authz, valid, held, raced, staff, locked, password, resource, owner, grants, roles>>
  BY DEF LoadPermissions, vars, account, history
<1>4. LoadsFresh'
  <2>1. <<s, Trimmed>> \in Names
    BY RealmAssumption DEF Names
  <2> QED
    BY <1>1, <1>2, <1>3, <2>1 DEF CInv, CacheTypes, LoadsFresh
<1>5. CacheTypes'
  BY <1>1, <1>3 DEF CInv, CacheTypes
<1>6. Remembered'
  BY <1>3, SameRead DEF CInv, Remembered
<1> QED
  BY <1>3, <1>4, <1>5, <1>6 DEF CInv, LoginsValid, PermittedAsHeld

\* The steps that put an entry or drop one and leave the histories alone.
LEMMA CacheStepKeeps ==
  ASSUME CInv, UNCHANGED <<vars, account, history>>,
         NEW x \in Names, NEW y \in Staff, NEW a, NEW b,
         authc' = authc \/ authc' = [authc EXCEPT ![x] = a],
         authz' = authz \/ authz' = [authz EXCEPT ![y] = b],
         loading' = loading \/ \E t \in Threads : loading' = [loading EXCEPT ![t] = None],
         a = None \/ x[2] # Trimmed \/ x[1] \in raced \/ a \in valid[x[1]],
         b = None \/ y \in raced \/ b \subseteq held[y]
  PROVE  CInv'
<1>1. UNCHANGED <<valid, held, raced, staff, locked, password, resource, owner, grants, roles>>
  BY DEF vars, account, history
<1>2. LoadsFresh'
  BY <1>1 DEF CInv, CacheTypes, LoadsFresh
<1>3. CacheTypes'
  BY <1>1 DEF CInv, CacheTypes
<1>4. Remembered'
  BY <1>1, SameRead DEF CInv, Remembered
<1>5. LoginsValid'
  <2> SUFFICES ASSUME NEW s \in Staff, s \notin raced, authc'[<<s, Trimmed>>] # None
               PROVE  authc'[<<s, Trimmed>>] \in valid[s]
    BY <1>1 DEF LoginsValid
  <2> DEFINE n == <<s, Trimmed>>
  <2>1. n \in Names /\ n[1] = s /\ n[2] = Trimmed
    BY RealmAssumption DEF Names
  <2>2. authc[n] # None => authc[n] \in valid[s]
    BY DEF CInv, LoginsValid
  <2> HIDE DEF n
  <2>3. authc'[n] = authc[n] \/ (x = n /\ authc'[n] = a)
    BY <2>1 DEF CInv, CacheTypes
  <2>4. authc'[n] \in valid[s]
    <3>1. authc'[n] # None
      BY DEF n
    <3> QED
      BY <2>1, <2>2, <2>3, <3>1
  <2> QED
    BY <2>4 DEF n
<1>6. PermittedAsHeld'
  BY <1>1 DEF CInv, CacheTypes, PermittedAsHeld
<1> QED
  BY <1>2, <1>3, <1>4, <1>5, <1>6 DEF CInv

\* A logout shortens the histories, empties the entries and remembers the loads
\* that it overtakes.
LEMMA LogoutKeeps ==
  ASSUME CInv, NEW s \in Staff, Logout(s)
  PROVE  CInv'
<1>1. /\ authc' = [authc EXCEPT ![<<s, Trimmed>>] = None] /\ authz' = [authz EXCEPT ![s] = None]
      /\ valid' = [valid EXCEPT ![s] = Accepted(s)] /\ held' = [held EXCEPT ![s] = FindStringPermissions(s)]
      /\ UNCHANGED <<loading, staff, locked, password, resource, owner, grants, roles>>
  BY DEF Logout, ClearCache, vars, account
<1>2. \A x \in Staff : x # s => (x \in raced <=> x \in raced')
  BY DEF Logout
<1>3. \A t \in Threads : loading[t] # None /\ loading[t].name = <<s, Trimmed>> => s \in raced'
  BY DEF Logout
<1>4. LoadsFresh'
  <2>1. ASSUME NEW t \in Threads, loading[t] # None, loading[t].name[2] = Trimmed,
               loading[t].name[1] \notin raced'
        PROVE  loading[t].name[1] # s /\ loading[t].name[1] \notin raced
    <3>1. loading[t].name \in Names
      BY <2>1 DEF CInv, LoadsFresh
    <3>2. loading[t].name = <<loading[t].name[1], Trimmed>> /\ loading[t].name[1] \in Staff
      BY <2>1, <3>1 DEF Names
    <3>3. loading[t].name[1] # s
      BY <1>3, <2>1, <3>2
    <3> QED
      BY <1>2, <2>1, <3>2, <3>3
  <2>2. \A x \in Staff : x # s => valid'[x] = valid[x] /\ held'[x] = held[x]
    BY <1>1 DEF CInv, CacheTypes
  <2>3. \A t \in Threads : loading[t] # None => loading[t].name \in Names /\ loading[t].name[1] \in Staff
    BY DEF CInv, LoadsFresh, Names
  <2>4. Names' = Names
    BY DEF Names
  <2> QED
    BY <1>1, <2>1, <2>2, <2>3, <2>4 DEF CInv, LoadsFresh
<1>5. CacheTypes'
  BY <1>1 DEF CInv, CacheTypes
<1>6. Remembered'
  <2>1. \A x \in Staff : Accepted(x)' = Accepted(x) /\ FindStringPermissions(x)' = FindStringPermissions(x)
    BY <1>1, SameRead
  <2> QED
    BY <1>1, <2>1 DEF CInv, CacheTypes, Remembered
<1>7. LoginsValid'
  <2> SUFFICES ASSUME NEW x \in Staff, x \notin raced', authc'[<<x, Trimmed>>] # None
               PROVE  authc'[<<x, Trimmed>>] \in valid'[x]
    BY DEF LoginsValid
  <2>1. <<x, Trimmed>> \in Names /\ <<s, Trimmed>> \in Names
    BY RealmAssumption DEF Names
  <2>2. authc' \in [Names -> {authc[y] : y \in Names} \cup {None}] /\ authc'[<<s, Trimmed>>] = None
    BY <1>1, <2>1 DEF CInv, CacheTypes
  <2>3. x # s
    BY <2>2
  <2>4. authc'[<<x, Trimmed>>] = authc[<<x, Trimmed>>] /\ valid'[x] = valid[x] /\ x \notin raced
    BY <1>1, <1>2, <2>1, <2>3 DEF CInv, CacheTypes
  <2> QED
    BY <2>4 DEF CInv, LoginsValid
<1>8. PermittedAsHeld'
  BY <1>1, <1>2 DEF CInv, CacheTypes, PermittedAsHeld
<1> QED
  BY <1>4, <1>5, <1>6, <1>7, <1>8 DEF CInv

\* Every step of the realm keeps the caches within the histories.
LEMMA CacheInductive == RealmSpec => []CInv
<1>1. RealmInit => CInv
  <2> SUFFICES ASSUME RealmInit PROVE CInv
    OBVIOUS
  <2>1. CacheTypes /\ LoadsFresh
    BY DEF RealmInit, CacheTypes, LoadsFresh
  <2>2. Remembered
    <3>1. Existing = {}
      BY DEF RealmInit, Init, Existing
    <3>2. \A s \in Staff : GetAllPrivileges(s) = {}
      BY <3>1 DEF GetAllPrivileges
    <3> QED
      BY <3>2 DEF RealmInit, Remembered, Accepted, FindStringPermissions
  <2>3. LoginsValid /\ PermittedAsHeld
    <3>1. \A s \in Staff : <<s, Trimmed>> \in Names
      BY RealmAssumption DEF Names
    <3> QED
      BY <3>1 DEF RealmInit, LoginsValid, PermittedAsHeld
  <2> QED
    BY <2>1, <2>2, <2>3 DEF CInv
<1>2. CInv /\ [RealmNext]_allVars => CInv'
  <2> SUFFICES ASSUME CInv, [RealmNext]_allVars PROVE CInv'
    OBVIOUS
  <2>1. CASE Administer
    BY <2>1, RememberKeeps DEF Administer
  <2>2. ASSUME NEW s \in Staff, NEW pw \in Passwords, ChangePassword(s, pw) PROVE CInv'
    BY <2>2, RememberKeeps DEF ChangePassword
  <2>3. ASSUME NEW s \in Staff, NEW lock \in BOOLEAN, SetLock(s, lock) PROVE CInv'
    BY <2>3, RememberKeeps DEF SetLock
  <2>4. ASSUME NEW s \in Staff, Expire(s) PROVE CInv'
    BY <2>4, IdleKeeps DEF Expire
  <2>11. ASSUME NEW x \in Names, LoginCached(x) PROVE CInv'
    BY <2>11, IdleKeeps DEF LoginCached
  <2>5. ASSUME NEW s \in Staff, Logout(s) PROVE CInv'
    BY <2>5, LogoutKeeps
  <2>6. ASSUME NEW x \in Names, Evict(x) PROVE CInv'
    <3>1. x[1] \in Staff /\ UNCHANGED <<vars, account, history>> /\ loading' = loading
      BY <2>6 DEF Evict, Names
    <3>2. \/ authc' = [authc EXCEPT ![x] = None] /\ authz' = authz
          \/ authz' = [authz EXCEPT ![x[1]] = None] /\ authc' = authc
      BY <2>6 DEF Evict
    <3> QED
      BY <3>1, <3>2, CacheStepKeeps
  <2>7. ASSUME NEW t \in Threads, NEW x \in Names, LoadUser(t, x) PROVE CInv'
    BY <2>7, LoadUserKeeps
  <2>12. ASSUME NEW t \in Threads, NEW s \in Staff, LoadPermissions(t, s) PROVE CInv'
    BY <2>12, LoadPermissionsKeeps
  <2>8. ASSUME NEW t \in Threads, PutUser(t) PROVE CInv'
    <3> DEFINE x == loading[t].name
    <3>1. x \in Names /\ (x[2] # Trimmed \/ x[1] \in raced \/ loading[t].info \in valid[x[1]])
      BY <2>8 DEF PutUser, CInv, LoadsFresh
    <3>2. authc' = [authc EXCEPT ![x] = loading[t].info] /\ authz' = authz
          /\ loading' = [loading EXCEPT ![t] = None] /\ UNCHANGED <<vars, account, history>>
      BY <2>8 DEF PutUser
    <3> HIDE DEF x
    <3>3. x[1] \in Staff
      BY <3>1 DEF Names
    <3>4. \E u \in Threads : loading' = [loading EXCEPT ![u] = None]
      BY <3>2
    <3> QED
      BY <3>1, <3>2, <3>3, <3>4, CacheStepKeeps
  <2>9. ASSUME NEW t \in Threads, PutPermissions(t) PROVE CInv'
    <3> DEFINE s == loading[t].name[1]
    <3>1. s \in Staff /\ (s \in raced \/ loading[t].info \subseteq held[s])
      BY <2>9 DEF PutPermissions, CInv, LoadsFresh, Names
    <3>2. authz' = [authz EXCEPT ![s] = loading[t].info] /\ authc' = authc
          /\ loading' = [loading EXCEPT ![t] = None] /\ UNCHANGED <<vars, account, history>>
      BY <2>9 DEF PutPermissions
    <3>3. loading[t].name \in Names
      BY <2>9 DEF PutPermissions, CInv, LoadsFresh
    <3> DEFINE x == loading[t].name
    <3>4. x \in Names
      BY <3>3
    <3> HIDE DEF s, x
    <3>5. \E u \in Threads : loading' = [loading EXCEPT ![u] = None]
      BY <3>2
    <3> QED
      BY <3>1, <3>2, <3>4, <3>5, CacheStepKeeps
  <2>10. CASE UNCHANGED allVars
    <3>1. UNCHANGED <<vars, account, history, authc, authz, loading>>
      BY <2>10 DEF allVars, realmVars, caches
    <3> QED
      BY <3>1, IdleKeeps
  <2> QED
    BY <2>1, <2>2, <2>3, <2>4, <2>5, <2>6, <2>7, <2>8, <2>9, <2>10, <2>11, <2>12 DEF RealmNext
<1> QED
  BY <1>1, <1>2, PTL DEF RealmSpec

\* Whatever is changed and whenever threads load, put and lose entries: a login
\* is accepted with a password that was good at some time since the last logout
\* that no load overlapped.
THEOREM LoginsValidAlways == RealmSpec => []LoginsValid
  BY CacheInductive, PTL DEF CInv

\* Under the same condition the permissions given were held at some time since
\* that logout.
THEOREM CachesBounded == RealmSpec => []PermittedAsHeld
  BY CacheInductive, PTL DEF CInv

-----------------------------------------------------------------------------
\* The realm changes nothing of the tables: what ResourceServiceImpl,
\* PrivilegeServiceImpl and StaffServiceImpl promise holds with logins, logouts
\* and cache entries in between.
THEOREM RealmKeepsTables == RealmSpec => Spec
<1>1. RealmInit => Init
  BY DEF RealmInit
<1>2. [RealmNext]_allVars => [Next]_vars
  <2> SUFFICES ASSUME RealmNext \/ UNCHANGED allVars PROVE Next \/ UNCHANGED vars
    OBVIOUS
  <2>1. CASE Administer
    BY <2>1 DEF Administer
  <2>2. ASSUME NEW s \in Staff, NEW pw \in Passwords, ChangePassword(s, pw) PROVE UNCHANGED vars
    BY <2>2 DEF ChangePassword
  <2>3. ASSUME NEW s \in Staff, NEW lock \in BOOLEAN, SetLock(s, lock) PROVE UNCHANGED vars
    BY <2>3 DEF SetLock
  <2>4. ASSUME NEW s \in Staff, Logout(s) \/ Expire(s) PROVE UNCHANGED vars
    BY <2>4 DEF Logout, Expire
  <2>5. ASSUME NEW x \in Names, LoginCached(x) \/ Evict(x) PROVE UNCHANGED vars
    BY <2>5 DEF LoginCached, Evict
  <2>8. ASSUME NEW t \in Threads, NEW x \in Names, LoadUser(t, x) PROVE UNCHANGED vars
    BY <2>8 DEF LoadUser
  <2>9. ASSUME NEW t \in Threads, NEW s \in Staff, LoadPermissions(t, s) PROVE UNCHANGED vars
    BY <2>9 DEF LoadPermissions
  <2>6. ASSUME NEW t \in Threads, PutUser(t) \/ PutPermissions(t) PROVE UNCHANGED vars
    BY <2>6 DEF PutUser, PutPermissions
  <2>7. CASE UNCHANGED allVars
    BY <2>7 DEF allVars
  <2> QED
    BY <2>1, <2>2, <2>3, <2>4, <2>5, <2>6, <2>7, <2>8, <2>9 DEF RealmNext
<1> QED
  BY <1>1, <1>2, PTL DEF RealmSpec, Spec

\* The grants that outlive what they were given for are those of deleted
\* resources, with any number of administrators, forms and logins: only
\* deleteResource leaves any, updateResource and the grant pages never do.
THEOREM LeftoversOfDeletedAlways == RealmSpec => []LeftoversOfDeleted
<1>1. IInv => LeftoversOfDeleted
  BY DEF IInv
<1> QED
  BY <1>1, Inductive, RealmKeepsTables, PTL
=============================================================================
