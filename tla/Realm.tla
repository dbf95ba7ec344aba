------------------------------- MODULE Realm -------------------------------
(***************************************************************************)
(* UserRealm with its two Shiro caches, on top of the privileges of        *)
(* Authorization.  Shiro asks doGetAuthenticationInfo and                  *)
(* doGetAuthorizationInfo only if the cache has no entry, and puts what    *)
(* they return in a separate step; the entries do not expire and are       *)
(* cleared by a logout, which is all that makes changes of passwords,      *)
(* locks and privileges visible.                                           *)
(*                                                                         *)
(* An account can be entered with blanks around its name.  The realm trims *)
(* it, so the principal and the key of the authorization cache is the      *)
(* account; the key of the authentication cache is the name as entered.    *)
(***************************************************************************)
EXTENDS Authorization

CONSTANTS
  Threads,
  Passwords,   \* salted hashes
  Spellings,   \* ways to enter the name of an account
  Trimmed,     \* the one without blanks
  MaxOnline    \* bound: sessions of a staff member at a time

ASSUME RealmAssumption == MaxOnline \in Nat /\ None \notin Passwords /\ Trimmed \in Spellings

VARIABLES
  password, locked,   \* s_staff: password and is_lock
  online,             \* staff -> number of sessions
  authc,              \* authentication cache: <<staff, spelling>> -> password, or None
  authz,              \* authorization cache: staff -> permissions, or None
  loading,            \* thread -> what it has read and not put yet, or None
  valid,              \* history: passwords the account accepted since the last logout
  held,               \* history: permissions held at some time since the last logout
  raced               \* history: staff whose last logout met a load

account == <<password, locked>>
caches == <<online, authc, authz, loading>>
history == <<valid, held, raced>>
realmVars == <<account, caches, history>>
allVars == <<vars, realmVars>>

Names == Staff \X Spellings
StringPermissions == (Resources \cup {None}) \X Permissions

Load == [op : {"authc"}, name : Names, info : Passwords]
          \cup [op : {"authz"}, name : Staff \X {Trimmed}, info : SUBSET StringPermissions]

RealmTypeOK ==
  /\ TypeOK
  /\ password \in [Staff -> Passwords]
  /\ locked \in [Staff -> BOOLEAN]
  /\ online \in [Staff -> 0..MaxOnline]
  /\ authc \in [Names -> Passwords \cup {None}]
  /\ authz \in [Staff -> SUBSET StringPermissions \cup {None}]
  /\ loading \in [Threads -> Load \cup {None}]
  /\ valid \in [Staff -> SUBSET Passwords]
  /\ held \in [Staff -> SUBSET StringPermissions]
  /\ raced \in SUBSET Staff

\* findUser and doGetAuthenticationInfo: the password of an account that exists
\* and is not locked.
Accepted(s) == IF staff[s] = "row" /\ ~locked[s] THEN {password[s]} ELSE {}

\* findStringPermissions.
FindStringPermissions(s) == IF staff[s] = "row" THEN GetAllPrivileges(s) ELSE {}

RealmInit ==
  /\ Init
  /\ password \in [Staff -> Passwords]
  /\ locked = [s \in Staff |-> FALSE]
  /\ online = [s \in Staff |-> 0]
  /\ authc = [x \in Names |-> None]
  /\ authz = [s \in Staff |-> None]
  /\ loading = [t \in Threads |-> None]
  /\ valid = [s \in Staff |-> {password[s]}]
  /\ held = [s \in Staff |-> {}]
  /\ raced = {}

\* What changes in the database is remembered for the properties.
Remember ==
  /\ valid' = [s \in Staff |-> valid[s] \cup Accepted(s)']
  /\ held' = [s \in Staff |-> held[s] \cup FindStringPermissions(s)']
  /\ UNCHANGED raced

(***************************************************************************)
(* The database: the actions of Authorization, StaffServiceImpl.           *)
(***************************************************************************)

Administer == Next /\ UNCHANGED <<account, caches>> /\ Remember

\* changeStaffPassword, initStaffPassword, randomStaffPassword.
ChangePassword(s, pw) ==
  /\ password' = [password EXCEPT ![s] = pw]
  /\ UNCHANGED <<vars, locked, caches>>
  /\ Remember

\* lockStaff, unlockStaff.
SetLock(s, lock) ==
  /\ locked' = [locked EXCEPT ![s] = lock]
  /\ UNCHANGED <<vars, password, caches>>
  /\ Remember

(***************************************************************************)
(* Logins and permission checks                                            *)
(***************************************************************************)

LogIn(s) == online' = [online EXCEPT ![s] = IF @ < MaxOnline THEN @ + 1 ELSE @]

\* A login that finds an entry is checked against it.
LoginCached(x) ==
  /\ authc[x] # None
  /\ LogIn(x[1])
  /\ UNCHANGED <<vars, account, authc, authz, loading, history>>

\* doGetAuthenticationInfo, for the trimmed name; locked and unknown accounts end
\* here.
LoadUser(t, x) ==
  /\ loading[t] = None /\ authc[x] = None
  /\ \E pw \in Accepted(x[1]) : loading' = [loading EXCEPT ![t] = [op |-> "authc", name |-> x, info |-> pw]]
  /\ UNCHANGED <<vars, account, online, authc, authz, history>>

\* The entry is put before the password is compared: a wrong one leaves it too.
PutUser(t) ==
  /\ loading[t] # None /\ loading[t].op = "authc"
  /\ LET x == loading[t].name IN
     /\ authc' = [authc EXCEPT ![x] = loading[t].info]
     /\ LogIn(x[1]) \/ UNCHANGED online
  /\ loading' = [loading EXCEPT ![t] = None]
  /\ UNCHANGED <<vars, account, authz, history>>

\* doGetAuthorizationInfo returns.
LoadPermissions(t, s) ==
  /\ online[s] > 0 /\ loading[t] = None /\ authz[s] = None
  /\ loading' = [loading EXCEPT ![t] = [op |-> "authz", name |-> <<s, Trimmed>>, info |-> FindStringPermissions(s)]]
  /\ UNCHANGED <<vars, account, online, authc, authz, history>>

PutPermissions(t) ==
  /\ loading[t] # None /\ loading[t].op = "authz"
  /\ authz' = [authz EXCEPT ![loading[t].name[1]] = loading[t].info]
  /\ loading' = [loading EXCEPT ![t] = None]
  /\ UNCHANGED <<vars, account, online, authc, history>>

\* Mutant: only the authentication info is cleared.
ClearAuthentication(s) ==
  /\ authc' = [authc EXCEPT ![<<s, Trimmed>>] = None]
  /\ UNCHANGED authz

\* Mutant: only the authorization info is cleared.
ClearAuthorization(s) ==
  /\ authz' = [authz EXCEPT ![s] = None]
  /\ UNCHANGED authc

\* onLogout of Shiro's CachingRealm clears both caches, under the principal: what
\* was put under another spelling of the name stays.
ClearCache(s) ==
  /\ authc' = [authc EXCEPT ![<<s, Trimmed>>] = None]
  /\ authz' = [authz EXCEPT ![s] = None]

\* Any of the sessions logs out.
Logout(s) ==
  /\ online[s] > 0
  /\ online' = [online EXCEPT ![s] = @ - 1]
  /\ ClearCache(s)
  /\ valid' = [valid EXCEPT ![s] = Accepted(s)]
  /\ held' = [held EXCEPT ![s] = FindStringPermissions(s)]
  /\ raced' = IF \E t \in Threads : loading[t] # None /\ loading[t].name = <<s, Trimmed>>
              THEN raced \cup {s} ELSE raced \ {s}
  /\ UNCHANGED <<vars, account, loading>>

\* A session times out: the caches are left alone.
Expire(s) ==
  /\ online[s] > 0
  /\ online' = [online EXCEPT ![s] = @ - 1]
  /\ UNCHANGED <<vars, account, authc, authz, loading, history>>

\* maxEntriesLocalHeap: an entry gives way to others.
Evict(x) ==
  /\ \/ authc' = [authc EXCEPT ![x] = None] /\ UNCHANGED authz
     \/ authz' = [authz EXCEPT ![x[1]] = None] /\ UNCHANGED authc
  /\ UNCHANGED <<vars, account, online, loading, history>>

RealmNext ==
  \/ Administer
  \/ \E s \in Staff : \/ \E pw \in Passwords : ChangePassword(s, pw)
                      \/ \E lock \in BOOLEAN : SetLock(s, lock)
                      \/ Logout(s) \/ Expire(s)
  \/ \E x \in Names : LoginCached(x) \/ Evict(x)
  \/ \E t \in Threads : \/ \E x \in Names : LoadUser(t, x)
                        \/ \E s \in Staff : LoadPermissions(t, s)
                        \/ PutUser(t) \/ PutPermissions(t)

RealmSpec == RealmInit /\ [][RealmNext]_allVars

(***************************************************************************)
(* Properties                                                              *)
(***************************************************************************)

\* A login under the name of the account is accepted only with a password that the
\* account had, unlocked, at some time since the last logout (unless a load
\* overlapped with that logout): an old password or a lock set meanwhile is
\* honoured at the next logout at the latest.  It is not so for a name entered
\* with blanks, whose entry no logout clears.
LoginsValid ==
  \A s \in Staff \ raced : authc[<<s, Trimmed>>] # None => authc[<<s, Trimmed>>] \in valid[s]

\* A permission check is answered with privileges that the staff member held at
\* some time since the last logout, under the same condition: what was revoked
\* before a logout is not permitted after it.
PermittedAsHeld == \A s \in Staff \ raced : authz[s] # None => authz[s] \subseteq held[s]
=============================================================================
