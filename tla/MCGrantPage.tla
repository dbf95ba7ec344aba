---------------------------- MODULE MCGrantPage ----------------------------
(***************************************************************************)
(* Instances of GrantPage for TLC: all trees of up to N nodes in which a   *)
(* parent is older than its children, and the two link types of the code.  *)
(***************************************************************************)
EXTENDS GrantPage, TLC

CONSTANT N

Forests == {f \in [1..N -> 0..(N - 1)] : \A n \in 1..N : f[n] < n}

GrantLink == [Y |-> {"p"}, N |-> {"s"}]
DefaultLink == [Y |-> {"p", "s"}, N |-> {"p", "s"}]
Links == {GrantLink, DefaultLink}

Symmetry == Permutations(Admins)

\* The recursions of bootstrap-tree.js, call by call.
RECURSIVE CheckUp(_, _)
CheckUp(c, n) ==
  LET pli == parent[n] IN
  IF pli # Root /\ pli \notin c THEN {pli} \cup CheckUp(c \cup {pli}, pli) ELSE {}

RECURSIVE UncheckUp(_, _)
UncheckUp(c, n) ==
  LET pli == parent[n] IN
  IF Children(pli) \cap c = {} /\ pli # Root THEN {pli} \cup UncheckUp(c \ {pli}, pli) ELSE {}

\* The sets that CheckAncestors and UncheckAncestors name are what the recursive
\* functions of bootstrap-tree.js change: upwards to the first box that stops
\* them, on every set of checked boxes that a click can leave.
RecursionsAgree ==
  \A a \in open, n \in Nodes :
    LET c == checked[a] IN
    /\ CheckAncestors(c \cup {n}, n) = CheckUp(c \cup {n}, n)
    /\ LET rest == c \ (Descendants(n) \cup {n}) IN
       UncheckAncestors(rest, n) \cap rest = UncheckUp(rest, n) \cap rest
=============================================================================
