-------------------------------- MODULE Tree --------------------------------
(***************************************************************************)
(* What a tree service promises: a forest in which one node at a time is   *)
(* added, moved with all that is below it, or removed when nothing is.     *)
(***************************************************************************)
CONSTANTS Nodes, Root, None

VARIABLE parent   \* node -> its parent, Root at the top, None if it is not there

Present == {n \in Nodes : parent[n] # None}

\* The node and all that is below it: the smallest set that holds it and the
\* children of its members.
Subtree(n) ==
  {m \in Nodes : \A S \in SUBSET Nodes :
     (n \in S /\ \A x \in Nodes : parent[x] \in S => x \in S) => m \in S}

Init == parent = [n \in Nodes |-> None]

Add(n, p) ==
  /\ n \notin Present /\ p \in Present \cup {Root}
  /\ parent' = [parent EXCEPT ![n] = p]

Move(n, p) ==
  /\ n \in Present /\ p \in (Present \ Subtree(n)) \cup {Root}
  /\ parent' = [parent EXCEPT ![n] = p]

Remove(n) ==
  /\ n \in Present /\ \A m \in Nodes : parent[m] # n
  /\ parent' = [parent EXCEPT ![n] = None]

Next == \E n \in Nodes : Remove(n) \/ \E p \in Nodes \cup {Root} : Add(n, p) \/ Move(n, p)

Spec == Init /\ [][Next]_parent
=============================================================================
