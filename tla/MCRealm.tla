------------------------------ MODULE MCRealm ------------------------------
(***************************************************************************)
(* Instances of Realm for TLC; the ids, threads and passwords are          *)
(* interchangeable.                                                        *)
(***************************************************************************)
EXTENDS Realm, TLC, FiniteSets

Symmetry ==
  Permutations(Resources) \cup Permutations(Permissions) \cup Permutations(Threads)
    \cup Permutations(Passwords)

\* The realm has not been used, and the accounts have not been changed.
Unused ==
  /\ online = [s \in Staff |-> 0]
  /\ authc = [x \in Names |-> None]
  /\ authz = [s \in Staff |-> None]
  /\ loading = [t \in Threads |-> None]
  /\ locked = [s \in Staff |-> FALSE]
  /\ valid = [s \in Staff |-> {password[s]}]

\* One resource with one permission, not updated after its deletion, and no roles.
Small ==
  /\ Cardinality({r \in Resources : resource[r] # "unused"}) <= 1
  /\ Cardinality(Seen) <= 1
  /\ \A p \in Existing : resource[owner[p]] = "row"
  /\ grants \subseteq Staff \X Permissions
  /\ roles = {}

\* Bound: the caches are explored over small tables, the tables without caches.
Bounded == Unused \/ Small
=============================================================================
