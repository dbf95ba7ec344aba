--------------------------- MODULE BrowserProofs ---------------------------
(***************************************************************************)
(* The pages in the browser.                                               *)
(*                                                                         *)
(* GrantPage, for every tree and every link type of GrantPageAssumption: a *)
(* checked box, and a privilege that was saved, has the one above it.      *)
(* With the default link type it also has one below it, unless it is a     *)
(* leaf.                                                                   *)
(*                                                                         *)
(* WebClient, for every finite set of requests: a request settles its      *)
(* promise at most once, two clicks are never in flight together, and one  *)
(* login dialog is open.                                                   *)
(*                                                                         *)
(* TreeTable, for every tree of resources: the rows are those that the     *)
(* open forks show, each once, also when two nodes are expanded at once;   *)
(* in the order of the tree and with the right forks as long as no two     *)
(* requests were in flight together.                                       *)
(***************************************************************************)
EXTENDS GrantPage, WebClient, TreeTable, FiniteSetTheorems, TLAPS

(***************************************************************************)
(* Descendants and ancestors                                               *)
(***************************************************************************)

\* What is below n, or n itself, has its children below n.
LEMMA DescendantsDown ==
  ASSUME NEW n, NEW m \in Nodes, parent[m] \in Descendants(n) \cup {n}
  PROVE  m \in Descendants(n)
<1> SUFFICES ASSUME NEW S \in SUBSET Nodes,
                    \A k \in Nodes : parent[k] \in S \cup {n} => k \in S
             PROVE  m \in S
  BY DEF Descendants, DescendantsIn
<1>1. parent[m] \in S \cup {n}
  BY DEF Descendants, DescendantsIn
<1> QED
  BY <1>1

\* A set that contains the children of n and of its members contains all that
\* is below n.
LEMMA DescendantsLeast ==
  ASSUME NEW n, NEW S \in SUBSET Nodes,
         \A k \in Nodes : parent[k] \in S \cup {n} => k \in S
  PROVE  Descendants(n) \subseteq S
BY DEF Descendants, DescendantsIn

\* The parent of what is below n is below n, or n.
LEMMA ParentBelow ==
  ASSUME NEW n, NEW m \in Descendants(n)
  PROVE  parent[m] \in Descendants(n) \cup {n}
<1> DEFINE S == {j \in Descendants(n) : parent[j] \in Descendants(n) \cup {n}}
<1>1. \A j \in Nodes : parent[j] \in S \cup {n} => j \in S
  BY DescendantsDown
<1>2. S \in SUBSET Nodes
  BY DEF Descendants, DescendantsIn
<1> HIDE DEF S
<1>3. Descendants(n) \subseteq S
  BY <1>1, <1>2, DescendantsLeast
<1> QED
  BY <1>3 DEF S

\* The parent is an ancestor, and so is the parent of an ancestor.
LEMMA AncestorsUp ==
  ASSUME NEW n \in Nodes, NEW m \in Ancestors(n) \cup {n}, parent[m] \in Nodes
  PROVE  parent[m] \in Ancestors(n)
<1>1. m \in Nodes
  BY DEF Ancestors
<1>2. m \in Descendants(parent[m])
  BY <1>1, DescendantsDown
<1>3. Descendants(m) \subseteq Descendants(parent[m])
  <2>1. Descendants(parent[m]) \in SUBSET Nodes
    BY DEF Descendants, DescendantsIn
  <2>2. \A k \in Nodes : parent[k] \in Descendants(parent[m]) \cup {m}
                           => k \in Descendants(parent[m])
    BY <1>2, DescendantsDown
  <2> QED
    BY <2>1, <2>2, DescendantsLeast
<1>4. n \in Descendants(parent[m])
  BY <1>2, <1>3 DEF Ancestors
<1> QED
  BY <1>4 DEF Ancestors

\* A closed set contains the ancestors of its members.
LEMMA ClosedUpwards ==
  ASSUME NEW c \in SUBSET Nodes, Closed(c),
         NEW k \in c, NEW m \in Ancestors(k)
  PROVE  m \in c
<1> SUFFICES ASSUME m \notin c PROVE FALSE
  OBVIOUS
<1>1. m \in Nodes /\ k \in Descendants(m)
  BY DEF Ancestors
<1>2. \A j \in Nodes : parent[j] \in (Nodes \ c) \cup {m} => j \in Nodes \ c
  BY <1>1, GrantPageAssumption DEF Closed
<1>3. Descendants(m) \subseteq Nodes \ c
  <2>1. (Nodes \ c) \in SUBSET Nodes
    OBVIOUS
  <2> QED
    BY <1>2, <2>1, DescendantsLeast
<1> QED
  BY <1>1, <1>3

\* No ancestor of a node is the node or below it.
LEMMA AncestorsElsewhere ==
  ASSUME parent \in Trees, NEW n \in Nodes, NEW k \in Ancestors(n)
  PROVE  k \notin Descendants(n) \cup {n}
<1>1. n \notin Descendants(n)
  BY GrantPageAssumption DEF Descendants
<1>2. n \in Descendants(k)
  BY DEF Ancestors
<1>3. k \in Descendants(n) => Descendants(k) \subseteq Descendants(n)
  <2> SUFFICES ASSUME k \in Descendants(n) PROVE Descendants(k) \subseteq Descendants(n)
    OBVIOUS
  <2>1. Descendants(n) \in SUBSET Nodes
    BY DEF Descendants, DescendantsIn
  <2>2. \A j \in Nodes : parent[j] \in Descendants(n) \cup {k} => j \in Descendants(n)
    BY DescendantsDown
  <2> QED
    BY <2>1, <2>2, DescendantsLeast
<1> QED
  BY <1>1, <1>2, <1>3

\* On the way up from n to an ancestor, the last node before it is its child.
LEMMA ChildOnTheWay ==
  ASSUME NEW n \in Nodes, NEW p \in Ancestors(n)
  PROVE  \E k \in Ancestors(n) \cup {n} : parent[k] = p
<1> DEFINE S == {j \in Nodes : \E k \in Ancestors(j) \cup {j} : parent[k] = p}
<1>1. \A i \in Nodes : parent[i] \in S \cup {p} => i \in S
  <2> SUFFICES ASSUME NEW i \in Nodes, parent[i] \in S \cup {p}
               PROVE  \E k \in Ancestors(i) \cup {i} : parent[k] = p
    OBVIOUS
  <2>1. CASE parent[i] = p
    BY <2>1
  <2>2. CASE parent[i] \in S
    <3>1. PICK k \in Ancestors(parent[i]) \cup {parent[i]} : parent[k] = p
      BY <2>2
    <3>2. parent[i] \in Ancestors(i)
      BY <2>2, AncestorsUp
    <3>3. Ancestors(parent[i]) \subseteq Ancestors(i)
      BY DescendantsDown DEF Ancestors
    <3> QED
      BY <3>1, <3>2, <3>3
  <2> QED
    BY <2>1, <2>2
<1>2. S \in SUBSET Nodes
  OBVIOUS
<1> HIDE DEF S
<1>3. Descendants(p) \subseteq S
  BY <1>1, <1>2, DescendantsLeast
<1>4. n \in S
  BY <1>3 DEF Ancestors
<1> QED
  BY <1>4 DEF S

\* Only one child of a node is on the way up from n: what is below two siblings
\* is apart.
LEMMA OneChildOnTheWay ==
  ASSUME parent \in Trees, NEW n \in Nodes,
         NEW k \in Ancestors(n) \cup {n}, NEW z \in Ancestors(n) \cup {n}, parent[k] = parent[z]
  PROVE  k = z
<1> SUFFICES ASSUME k # z PROVE FALSE
  OBVIOUS
<1> DEFINE S == Descendants(k) \ (Descendants(z) \cup {z})
<1>1. k \in Nodes /\ z \in Nodes /\ n \in Descendants(k) \cup {k} /\ n \in Descendants(z) \cup {z}
  BY DEF Ancestors
<1>2. k \notin Descendants(k) /\ z \notin Descendants(z)
  BY <1>1, GrantPageAssumption DEF Descendants
<1>3. k \notin Descendants(z) /\ parent[z] \notin Descendants(z) \cup {z}
  <2>1. parent[z] \notin Descendants(z) \cup {z}
    BY <1>1, <1>2, DescendantsDown
  <2> QED
    BY <2>1, ParentBelow
<1>4. parent[k] \notin Descendants(k) \cup {k}
  BY <1>1, <1>2, DescendantsDown
<1>5. ASSUME NEW j \in Nodes, parent[j] \in S \cup {k}
      PROVE  j \in S
  <2>1. j \in Descendants(k)
    BY <1>5, DescendantsDown
  <2>2. j # z
    BY <1>4, <1>5
  <2>3. j \notin Descendants(z)
    <3>1. parent[j] \notin Descendants(z) \cup {z}
      BY <1>3, <1>5
    <3> QED
      BY <3>1, ParentBelow
  <2> QED
    BY <2>1, <2>2, <2>3
<1>6. S \in SUBSET Nodes
  BY DEF Descendants, DescendantsIn
<1> HIDE DEF S
<1>7. Descendants(k) \subseteq S
  BY <1>5, <1>6, DescendantsLeast
<1> QED
  BY <1>1, <1>3, <1>7 DEF S

(***************************************************************************)
(* A click keeps the boxes closed                                          *)
(***************************************************************************)

\* Checking a box keeps the checked boxes closed upwards.
LEMMA CheckCloses ==
  ASSUME parent \in Trees, link \in LinkTypes,
         NEW c \in SUBSET Nodes, Closed(c), NEW n \in Nodes
  PROVE  Check(c, n) \in SUBSET Nodes /\ Closed(Check(c, n))
<1> DEFINE below == IF "s" \in link.Y THEN Descendants(n) ELSE {}
           more == c \cup below \cup {n}
           up == CheckAncestors(more, n)
<1>1. Check(c, n) = more \cup up
  BY GrantPageAssumption DEF Check
<1>2. below \subseteq Descendants(n) /\ Descendants(n) \subseteq Nodes /\ up \subseteq Ancestors(n)
  BY DEF Descendants, DescendantsIn, CheckAncestors
<1>3. Ancestors(n) \subseteq Nodes /\ more \subseteq Nodes
  BY <1>2 DEF Ancestors
<1>4. ASSUME NEW m \in Ancestors(n) PROVE m \in more \cup up
  <2> SUFFICES ASSUME m \notin more PROVE m \in up
    OBVIOUS
  <2>1. ASSUME NEW k \in Ancestors(n), m \in Ancestors(k), k \in more PROVE FALSE
    <3>1. k \in c
      BY <1>2, <2>1, AncestorsElsewhere
    <3>2. m \in c
      BY <2>1, <3>1, ClosedUpwards
    <3> QED
      BY <3>2
  <2> QED
    BY <2>1 DEF CheckAncestors
<1>5. ASSUME NEW x \in more \cup up PROVE parent[x] \in more \cup up \cup {Root}
  <2>1. x \in Nodes /\ parent[x] \in Nodes \cup {Root}
    BY <1>2, <1>3, GrantPageAssumption
  <2>2. CASE x \in c
    BY <2>2 DEF Closed
  <2>3. CASE x \in Ancestors(n) \cup {n}
    BY <1>4, <2>1, <2>3, AncestorsUp
  <2>4. CASE x \in below
    <3>1. "s" \in link.Y /\ x \in Descendants(n)
      BY <2>4
    <3>2. parent[x] \in Descendants(n) \cup {n}
      BY <3>1, ParentBelow
    <3> QED
      BY <3>1, <3>2
  <2> QED
    BY <1>2, <2>2, <2>3, <2>4
<1> QED
  BY <1>1, <1>2, <1>3, <1>5 DEF Closed

\* So does unchecking one.
LEMMA UncheckCloses ==
  ASSUME parent \in Trees, link \in LinkTypes,
         NEW c \in SUBSET Nodes, Closed(c), NEW n \in Nodes
  PROVE  Uncheck(c, n) \in SUBSET Nodes /\ Closed(Uncheck(c, n))
<1> DEFINE rest == c \ (Descendants(n) \cup {n})
           un == UncheckAncestors(rest, n)
<1>1. Uncheck(c, n) = IF "p" \in link.N THEN rest \ un ELSE rest
  BY GrantPageAssumption DEF Uncheck
<1>2. Closed(rest)
  <2> SUFFICES ASSUME NEW x \in rest PROVE parent[x] \in rest \cup {Root}
    BY DEF Closed
  <2>1. parent[x] \in c \cup {Root}
    BY DEF Closed
  <2>2. parent[x] \notin Descendants(n) \cup {n}
    BY DescendantsDown
  <2> QED
    BY <2>1, <2>2
<1>3. Closed(rest \ un)
  <2> SUFFICES ASSUME NEW x \in rest, x \notin un, parent[x] \in un PROVE FALSE
    BY <1>2 DEF Closed
  <2> DEFINE p == parent[x]
  <2>1. p \in Ancestors(n) /\ p \in Nodes
    BY DEF UncheckAncestors, Ancestors
  <2>2. \A k \in Ancestors(n) \cup {n} :
          p \in Ancestors(k) => (Children(parent[k]) \ {k}) \cap rest = {}
    BY DEF UncheckAncestors
  <2>3. PICK k \in Ancestors(n) \cup {n} : parent[k] = p
    BY <2>1, ChildOnTheWay
  <2>4. k \in Nodes /\ p \in Ancestors(k)
    BY <2>1, <2>3, AncestorsUp DEF Ancestors
  <2>5. x = k
    BY <2>2, <2>3, <2>4 DEF Children
  <2>6. x \in Ancestors(n)
    BY <2>3, <2>5
  <2>7. PICK k2 \in Ancestors(n) \cup {n} :
          x \in Ancestors(k2) /\ (Children(parent[k2]) \ {k2}) \cap rest # {}
    BY <2>6 DEF UncheckAncestors
  <2>8. p \in Ancestors(k2)
    <3>1. k2 \in Nodes
      BY <2>7 DEF Ancestors
    <3> QED
      BY <2>1, <2>7, <3>1, AncestorsUp
  <2> QED
    BY <2>2, <2>7, <2>8
<1> QED
  BY <1>1, <1>2, <1>3

(***************************************************************************)
(* The specification                                                       *)
(***************************************************************************)

IInv ==
  /\ TypeOK
  /\ plain \subseteq Leaves
  /\ Closed(granted)
  /\ \A a \in Admins : Closed(checked[a])

\* Nothing is checked or saved at first.
LEMMA InitIInv == Init => IInv
BY DEF Init, IInv, TypeOK, Closed, Leaves

\* What a page shows after a step that changes it is closed again.
LEMMA ShowStep ==
  ASSUME IInv, NEW a \in Admins, NEW c \in SUBSET Nodes, Closed(c), Show(a, c)
  PROVE  IInv'
<1>1. TypeOK'
  BY DEF IInv, TypeOK, Show
<1>2. Closed(granted)' /\ (plain \subseteq Leaves)'
  BY DEF IInv, Show, Closed, Leaves, Children
<1>3. ASSUME NEW b \in Admins PROVE Closed(checked[b])'
  BY DEF IInv, TypeOK, Show, Closed
<1> QED
  BY <1>1, <1>2, <1>3 DEF IInv

\* Every step of a page keeps the invariant.
LEMMA NextIInv ==
  ASSUME IInv, [Next]_vars
  PROVE  IInv'
<1> USE DEF IInv
<1>1. ASSUME NEW a \in Admins, Open(a) PROVE IInv'
  BY <1>1 DEF Open, TypeOK, Closed, Leaves, Children
<1>2. ASSUME NEW a \in Admins, CheckAll(a) PROVE IInv'
  <2>1. Closed(Nodes)
    BY GrantPageAssumption DEF Closed, TypeOK
  <2> QED
    BY <1>2, <2>1, ShowStep DEF CheckAll
<1>3. ASSUME NEW a \in Admins, CheckNone(a) PROVE IInv'
  <2>1. Closed({})
    BY DEF Closed
  <2> QED
    BY <1>3, <2>1, ShowStep DEF CheckNone
<1>4. ASSUME NEW a \in Admins, Save(a) PROVE IInv'
  BY <1>4 DEF Save, TypeOK, Closed, Leaves, Children
<1>5. ASSUME NEW a \in Admins, Close(a) PROVE IInv'
  BY <1>5 DEF Close, TypeOK, Closed, Leaves, Children
<1>6. ASSUME NEW a \in Admins, NEW n \in Nodes, Click(a, n) PROVE IInv'
  <2>1. checked[a] \in SUBSET Nodes /\ Closed(checked[a]) /\ parent \in Trees /\ link \in LinkTypes
    BY DEF TypeOK
  <2>2. CASE n \in checked[a]
    <3>1. Uncheck(checked[a], n) \in SUBSET Nodes /\ Closed(Uncheck(checked[a], n))
      BY <2>1, UncheckCloses
    <3>2. Show(a, Uncheck(checked[a], n))
      BY <1>6, <2>2 DEF Click
    <3> QED
      BY <3>1, <3>2, ShowStep
  <2>3. CASE n \notin checked[a]
    <3>1. Check(checked[a], n) \in SUBSET Nodes /\ Closed(Check(checked[a], n))
      BY <2>1, CheckCloses
    <3>2. Show(a, Check(checked[a], n))
      BY <1>6, <2>3 DEF Click
    <3> QED
      BY <3>1, <3>2, ShowStep
  <2> QED
    BY <2>2, <2>3
<1>7. CASE UNCHANGED vars
  BY <1>7 DEF vars, TypeOK, Closed, Leaves, Children
<1> QED
  BY <1>1, <1>2, <1>3, <1>4, <1>5, <1>6, <1>7 DEF Next

\* Type correctness of the page and the table of grants.
THEOREM TypeCorrect == Spec => []TypeOK
<1>1. IInv => TypeOK
  BY DEF IInv
<1> QED
  BY <1>1, InitIInv, NextIInv, PTL DEF Spec

\* Whatever the tree, the link type and the number of administrators: a checked
\* box and a saved privilege have the one above them (bootstrap-tree.js,
\* grant.jsp, grantRolePrivileges).
THEOREM ParentsGrantedAlways == Spec => []ParentsGranted
<1>1. IInv => ParentsGranted
  BY DEF IInv, ParentsGranted, TypeOK
<1> QED
  BY <1>1, InitIInv, NextIInv, PTL DEF Spec

\* Whatever the tree: a resource that the role may see is in the menu of its
\* users unless one above it has a large id (getAccessibleMenuList).
THEOREM GrantedInMenuAlways == Spec => []GrantedInMenu
<1>1. IInv => GrantedInMenu
  <2> SUFFICES ASSUME IInv, NEW n \in granted \ plain, Ancestors(n) \subseteq SmallIds
               PROVE  n \in Menu
    BY DEF GrantedInMenu
  <2>1. granted \in SUBSET Nodes /\ Closed(granted)
    BY DEF IInv, TypeOK
  <2>2. ASSUME NEW m \in Ancestors(n) PROVE m \in granted \ plain
    <3>1. m \in granted
      BY <2>1, ClosedUpwards
    <3>2. PICK k \in Ancestors(n) \cup {n} : parent[k] = m
      BY <2>1, ChildOnTheWay
    <3>3. m \notin Leaves
      BY <2>1, <3>2 DEF Leaves, Children, Ancestors
    <3> QED
      BY <3>1, <3>3 DEF IInv
  <2> QED
    BY <2>2 DEF Menu, Accessible
<1> QED
  BY <1>1, InitIInv, NextIInv, PTL DEF Spec

-----------------------------------------------------------------------------
(***************************************************************************)
(* With the default link type a checked box above others has a checked one *)
(* below it.                                                               *)
(***************************************************************************)

Follows(c) == \A n \in c \ Leaves : Children(n) \cap c # {}

Default == link.N = {"p", "s"} /\ link.Y = {"p", "s"}

\* A box that checking a node adds has a checked one below it, or is a leaf.
LEMMA CheckFollows ==
  ASSUME parent \in Trees, link \in LinkTypes, Default,
         NEW c \in SUBSET Nodes, Closed(c), Follows(c), NEW n \in Nodes
  PROVE  Follows(Check(c, n))
<1> DEFINE d == Check(c, n)
<1>1. d \in SUBSET Nodes /\ Closed(d)
  BY CheckCloses
<1>2. c \cup Descendants(n) \cup {n} \subseteq d /\ d \subseteq c \cup Descendants(n) \cup {n} \cup Ancestors(n)
  BY DEF Check, CheckAncestors, Default
<1> HIDE DEF d
<1> SUFFICES ASSUME NEW x \in d \ Leaves PROVE Children(x) \cap d # {}
  BY DEF Follows, d
<1>3. CASE x \in c
  BY <1>2, <1>3 DEF Follows
<1>4. CASE x \in Descendants(n) \cup {n}
  <2>1. PICK y \in Nodes : parent[y] = x
    BY <1>1 DEF Leaves, Children
  <2>2. y \in Descendants(n)
    BY <1>4, <2>1, DescendantsDown
  <2> QED
    BY <1>2, <2>1, <2>2 DEF Children
<1>5. CASE x \in Ancestors(n)
  <2>1. PICK k \in Ancestors(n) \cup {n} : parent[k] = x
    BY <1>5, ChildOnTheWay
  <2>2. k \in d
    BY <1>1, <1>2, <2>1, ClosedUpwards
  <2> QED
    BY <1>1, <2>1, <2>2 DEF Children
<1> QED
  BY <1>2, <1>3, <1>4, <1>5

\* What unchecking a node leaves still has one below it.
LEMMA UncheckFollows ==
  ASSUME parent \in Trees, link \in LinkTypes, Default,
         NEW c \in SUBSET Nodes, Closed(c), Follows(c), NEW n \in Nodes
  PROVE  Follows(Uncheck(c, n))
<1> DEFINE rest == c \ (Descendants(n) \cup {n})
           un == UncheckAncestors(rest, n)
<1>1. Uncheck(c, n) = rest \ un
  BY DEF Uncheck, Default
<1>2. Closed(rest)
  <2> SUFFICES ASSUME NEW x \in rest PROVE parent[x] \in rest \cup {Root}
    BY DEF Closed
  <2>1. parent[x] \in c \cup {Root}
    BY DEF Closed
  <2>2. parent[x] \notin Descendants(n) \cup {n}
    BY DescendantsDown
  <2> QED
    BY <2>1, <2>2
<1>3. un \subseteq Ancestors(n)
  BY DEF UncheckAncestors
<1>4. rest \in SUBSET Nodes
  OBVIOUS
<1> SUFFICES ASSUME NEW x \in rest \ un, x \notin Leaves, Children(x) \cap (rest \ un) = {} PROVE FALSE
  BY <1>1 DEF Follows
<1>5. PICK y \in Nodes : parent[y] = x /\ y \in c
  BY DEF Follows, Children
<1>6. y \in Ancestors(n) \cup {n}
  <2>1. y \notin Descendants(n)
    BY <1>5, ParentBelow
  <2>2. y = n \/ y \in un
    BY <1>5, <2>1 DEF Children
  <2> QED
    BY <1>3, <2>2
<1>7. x \in Ancestors(n) /\ x \in Nodes
  BY <1>4, <1>5, <1>6, AncestorsUp
<1>8. PICK k \in Ancestors(n) \cup {n} : x \in Ancestors(k) /\ (Children(parent[k]) \ {k}) \cap rest # {}
  BY <1>7 DEF UncheckAncestors
<1>9. PICK z \in rest : parent[z] = parent[k] /\ z # k
  BY <1>8 DEF Children
<1>10. k \in Nodes
  BY <1>8 DEF Ancestors
<1>11. PICK w \in Ancestors(k) \cup {k} : parent[w] = x
  BY <1>8, <1>10, ChildOnTheWay
<1>12. CASE w = k
  <2>1. z \in un
    BY <1>4, <1>9, <1>11, <1>12 DEF Children
  <2> QED
    BY <1>3, <1>8, <1>9, <2>1, OneChildOnTheWay
<1>13. CASE w \in Ancestors(k)
  <2>1. w \in Ancestors(z)
    <3>1. w \in Nodes /\ k \in Descendants(w)
      BY <1>13 DEF Ancestors
    <3>2. parent[z] \in Descendants(w) \cup {w}
      BY <1>9, <3>1, ParentBelow
    <3>3. z \in Descendants(w)
      BY <1>4, <3>2, DescendantsDown
    <3> QED
      BY <3>1, <3>3 DEF Ancestors
  <2>2. w \in rest
    BY <1>2, <1>4, <2>1, ClosedUpwards
  <2>3. w \notin un
    BY <1>8, <1>13 DEF UncheckAncestors
  <2> QED
    BY <1>4, <1>11, <2>2, <2>3 DEF Children
<1> QED
  BY <1>11, <1>12, <1>13

FInv == Default => Follows(granted) /\ \A a \in Admins : Follows(checked[a])

\* A page that shows such boxes keeps the invariant.
LEMMA ShowFollows ==
  ASSUME IInv, FInv, NEW a \in Admins, NEW c, Default => Follows(c), Show(a, c)
  PROVE  FInv'
<1>1. checked' = [checked EXCEPT ![a] = c] /\ UNCHANGED <<parent, link, granted>>
  BY DEF Show
<1>2. Default' = Default /\ \A d : Follows(d)' = Follows(d)
  BY <1>1 DEF Default, Follows, Leaves, Children
<1> QED
  BY <1>1, <1>2 DEF FInv, IInv, TypeOK, Follows, Leaves, Children

\* So does every step.
LEMMA NextFollows ==
  ASSUME IInv, FInv, [Next]_vars
  PROVE  FInv'
<1>1. ASSUME NEW a \in Admins, Open(a) \/ Save(a) \/ Close(a) PROVE FInv'
  <2>1. UNCHANGED <<parent, link>> /\ checked \in [Admins -> SUBSET Nodes]
    BY <1>1 DEF Open, Save, Close, IInv, TypeOK
  <2>2. granted' = granted \/ granted' = checked[a]
    BY <1>1 DEF Open, Save, Close
  <2>3. \A b \in Admins : checked'[b] \in {checked[b], granted, {}}
    BY <1>1, <2>1 DEF Open, Save, Close
  <2> QED
    BY <2>1, <2>2, <2>3 DEF FInv, Default, Follows, Leaves, Children
<1>2. ASSUME NEW a \in Admins, CheckAll(a) PROVE FInv'
  <2>1. Follows(Nodes)
    BY DEF Follows, Leaves, Children
  <2> QED
    BY <1>2, <2>1, ShowFollows DEF CheckAll
<1>3. ASSUME NEW a \in Admins, CheckNone(a) PROVE FInv'
  <2>1. Follows({})
    BY DEF Follows
  <2> QED
    BY <1>3, <2>1, ShowFollows DEF CheckNone
<1>4. ASSUME NEW a \in Admins, NEW n \in Nodes, Click(a, n) PROVE FInv'
  <2> DEFINE c == IF n \in checked[a] THEN Uncheck(checked[a], n) ELSE Check(checked[a], n)
  <2>1. checked[a] \in SUBSET Nodes /\ Closed(checked[a]) /\ parent \in Trees /\ link \in LinkTypes
    BY DEF IInv, TypeOK
  <2>2. ASSUME Default PROVE Follows(Uncheck(checked[a], n)) /\ Follows(Check(checked[a], n))
    BY <2>1, <2>2, CheckFollows, UncheckFollows DEF FInv
  <2>3. Default => Follows(c)
    BY <2>2
  <2>4. Show(a, c)
    BY <1>4 DEF Click
  <2> HIDE DEF c
  <2> QED
    BY <2>3, <2>4, ShowFollows
<1>5. CASE UNCHANGED vars
  BY <1>5 DEF vars, FInv, Default, Follows, Leaves, Children
<1> QED
  BY <1>1, <1>2, <1>3, <1>4, <1>5 DEF Next

\* With the default link type, for every tree and however the administrators
\* click, save and reopen: a box above others is checked exactly when one of
\* those is (checkAncestors, uncheckAncestors).
THEOREM BoxFollowsChildrenAlways == Spec => []BoxFollowsChildren
<1>1. Init => FInv
  BY DEF Init, FInv, Follows
<1>2. IInv /\ FInv => BoxFollowsChildren
  <2> SUFFICES ASSUME IInv, FInv, Default, NEW a \in open, NEW n \in Nodes \ Leaves
               PROVE  n \in checked[a] <=> Children(n) \cap checked[a] # {}
    BY DEF BoxFollowsChildren, Default
  <2>1. a \in Admins /\ Closed(checked[a]) /\ Follows(checked[a])
    BY DEF IInv, TypeOK, FInv
  <2>2. n \in checked[a] => Children(n) \cap checked[a] # {}
    BY <2>1 DEF Follows
  <2>3. Children(n) \cap checked[a] # {} => n \in checked[a]
    BY <2>1, GrantPageAssumption DEF Closed, Children
  <2> QED
    BY <2>2, <2>3
<1> QED
  BY <1>1, <1>2, InitIInv, NextIInv, NextFollows, PTL DEF Spec

(***************************************************************************)
(* WebClient: the count of jQuery.active                                   *)
(***************************************************************************)

\* The requests that jQuery counts: those in flight, and those whose callback has
\* thrown, which it never uncounts.
Counted == {r \in Requests : status[r] = "sent" \/ (status[r] = "done" /\ Threw(r))}

\* Where a request and its promise are.
Settled(r) ==
  /\ status[r] = "idle" => promise[r] = "pending" /\ calls[r] = 0 /\ answer[r] = "none"
  /\ status[r] = "sent" => promise[r] = "pending" /\ calls[r] = 0
  /\ status[r] = "done" =>
       \/ promise[r] = "pending" /\ calls[r] = 0 /\ answer[r] = "401"
       \/ promise[r] = "pending" /\ calls[r] \in 1..2 /\ throws[r]
       \/ promise[r] # "pending" /\ calls[r] = 1 /\ ~throws[r]
       \/ promise[r] # "pending" /\ calls[r] = 2 /\ throws[r]

\* The inductive invariant.  The dialog sends its own requests only while the page
\* has none that shows the mask.
ClientType ==
  /\ status \in [Requests -> {"idle", "sent", "done"}]
  /\ made \in [Requests -> {"click", "script", "quiet"}]
  /\ throws \in [Requests -> BOOLEAN]
  /\ answer \in [Requests -> {"none", "ok", "failed", "401"}]
  /\ promise \in [Requests -> {"pending", "resolved", "rejected"}]
  /\ calls \in [Requests -> 0..2]
  /\ mask \in BOOLEAN
  /\ login \in {"none", "ready", "key", "check", "alert", "dead"}
  /\ session \in BOOLEAN

ClientInv ==
  /\ ClientType
  /\ active = Cardinality(Counted)
  /\ \A r \in Requests : Settled(r)
  /\ NoDoubleSubmit
  /\ OneDialog
  /\ login \in {"key", "check"} => \A r \in Requests : ~Loading(r)

\* A request that is counted makes the count positive.
LEMMA CountPositive ==
  ASSUME NEW S \in SUBSET Requests
  PROVE  /\ Cardinality(S) \in Nat
         /\ Cardinality(S) <= Cardinality(Requests)
         /\ S # {} => Cardinality(S) > 0
<1>1. IsFiniteSet(S) /\ Cardinality(S) <= Cardinality(Requests)
  BY WebClientAssumption, FS_Subset
<1>2. Cardinality(S) \in Nat
  BY <1>1, FS_CardinalityType
<1>3. Cardinality(S) = 0 => S = {}
  BY <1>1, FS_EmptySet
<1> QED
  BY <1>1, <1>2, <1>3

\* One request more, and one request less.
LEMMA CountMore ==
  ASSUME NEW S \in SUBSET Requests, NEW r, r \notin S
  PROVE  Cardinality(S \cup {r}) = Cardinality(S) + 1
BY WebClientAssumption, FS_Subset, FS_AddElement

\* One request less in flight is one less in the count.
LEMMA CountLess ==
  ASSUME NEW S \in SUBSET Requests, NEW r \in S
  PROVE  Cardinality(S \ {r}) = Cardinality(S) - 1
BY WebClientAssumption, FS_Subset, FS_RemoveElement

\* Nothing is in flight at first.
LEMMA ClientInitInv == ClientInit => ClientInv
<1> SUFFICES ASSUME ClientInit PROVE ClientInv
  OBVIOUS
<1>1. Counted = {}
  BY DEF ClientInit, Counted
<1>2. active = Cardinality(Counted)
  BY <1>1, FS_EmptySet DEF ClientInit
<1>3. ClientType
  <2>1. /\ status \in [Requests -> {"idle", "sent", "done"}]
        /\ made \in [Requests -> {"click", "script", "quiet"}]
        /\ throws \in [Requests -> BOOLEAN]
    BY DEF ClientInit
  <2>2. /\ answer \in [Requests -> {"none", "ok", "failed", "401"}]
        /\ promise \in [Requests -> {"pending", "resolved", "rejected"}]
    BY DEF ClientInit
  <2>3. calls \in [Requests -> 0..2]
    BY DEF ClientInit
  <2>4. mask \in BOOLEAN /\ session \in BOOLEAN
    BY DEF ClientInit
  <2>5. login \in {"none", "ready", "key", "check", "alert", "dead"}
    BY DEF ClientInit
  <2> QED
    BY <2>1, <2>2, <2>3, <2>4, <2>5 DEF ClientType
<1>4. \A r \in Requests : Settled(r)
  BY DEF ClientInit, Settled
<1>5. /\ NoDoubleSubmit
      /\ OneDialog
      /\ login \in {"key", "check"} => \A r \in Requests : ~Loading(r)
  BY DEF ClientInit, NoDoubleSubmit, OneDialog, Loading
<1> QED
  BY <1>2, <1>3, <1>4, <1>5 DEF ClientInv

(***************************************************************************)
(* WebClient: each action keeps the invariant                              *)
(***************************************************************************)

\* The parts of the invariant that speak of the counted requests.
LEMMA CountedFacts ==
  ASSUME ClientInv
  PROVE  /\ Counted \in SUBSET Requests
         /\ active \in Nat
         /\ \A r \in Requests : status[r] = "sent" => r \in Counted
         /\ \A r \in Counted : active > 0
         /\ \A q, r \in Counted : q # r => active - 1 > 0
<1>1. /\ Counted \in SUBSET Requests
      /\ \A r \in Requests : status[r] = "sent" => r \in Counted
  BY DEF Counted
<1>2. active = Cardinality(Counted)
  BY DEF ClientInv
<1>3. active \in Nat /\ \A r \in Counted : active > 0
  BY <1>1, <1>2, CountPositive
<1>4. ASSUME NEW q \in Counted, NEW r \in Counted, q # r
      PROVE  active - 1 > 0
  <2>1. Cardinality(Counted \ {r}) = active - 1
    BY <1>1, <1>2, CountLess
  <2>2. Counted \ {r} # {} /\ Counted \ {r} \in SUBSET Requests
    BY <1>1, <1>4
  <2>3. Cardinality(Counted \ {r}) > 0
    BY <2>2, CountPositive
  <2> QED
    BY <2>1, <2>3
<1> QED
  BY <1>1, <1>3, <1>4

\* invoke while the login dialog is open.
LEMMA AbortStep ==
  ASSUME ClientInv, NEW r \in Requests, status[r] = "idle",
         NEW how \in {"click", "script", "quiet"}, NEW fails \in BOOLEAN,
         Abort(r, how, fails)
  PROVE  ClientInv'
<1>1. ClientType
  BY DEF ClientInv
<1>2. ClientType'
  <2>1. /\ status' \in [Requests -> {"idle", "sent", "done"}]
        /\ made' \in [Requests -> {"click", "script", "quiet"}]
    BY <1>1 DEF ClientType, Abort
  <2>2. throws' \in [Requests -> BOOLEAN]
    BY <1>1 DEF ClientType, Abort
  <2>3. promise' \in [Requests -> {"pending", "resolved", "rejected"}]
    BY <1>1 DEF ClientType, Abort
  <2>4. calls' \in [Requests -> 0..2]
    BY <1>1 DEF ClientType, Abort
  <2>5. mask' \in BOOLEAN
    BY <1>1 DEF ClientType, Abort, AjaxStop
  <2> QED
    BY <1>1, <2>1, <2>2, <2>3, <2>4, <2>5 DEF ClientType, Abort
<1>3. \A q \in Requests \ {r} : /\ status'[q] = status[q] /\ made'[q] = made[q]
                               /\ throws'[q] = throws[q] /\ answer'[q] = answer[q]
                               /\ promise'[q] = promise[q] /\ calls'[q] = calls[q]
  BY <1>1 DEF ClientType, Abort
<1>4. /\ status'[r] = "done" /\ throws'[r] = fails
      /\ calls'[r] = (IF fails THEN 2 ELSE 1)
      /\ ~fails => promise'[r] # "pending"
  BY <1>1 DEF ClientType, Abort
<1>5. \A q \in Requests : Settled(q)'
  BY <1>3, <1>4 DEF Settled, ClientInv
<1>6. \A q \in Requests : Loading(q)' => Loading(q) /\ made'[q] = made[q]
  BY <1>3, <1>4 DEF Loading
<1>7. r \notin Counted
  BY DEF Counted
<1>8. active' = Cardinality(Counted')
  <2>1. CASE fails
    <3>3. throws'[r] = TRUE /\ calls'[r] = 2
      BY <1>4, <2>1
    <3>4. Threw(r)' /\ \A q \in Requests \ {r} : Threw(q)' <=> Threw(q)
      BY <1>3, <3>3 DEF Threw
    <3>1. Counted' = Counted \cup {r}
      BY <1>3, <1>4, <3>4 DEF Counted
    <3>2. active' = active + 1
      BY <2>1 DEF Abort
    <3> QED
      BY <3>1, <3>2, <1>7, CountedFacts, CountMore DEF ClientInv
  <2>2. CASE ~fails
    <3>1. Counted' = Counted
      BY <1>3, <1>4, <1>7, <2>2 DEF Counted, Threw
    <3>2. active' = active
      BY <2>2 DEF Abort
    <3> QED
      BY <3>1, <3>2 DEF ClientInv
  <2> QED
    BY <2>1, <2>2
<1>9. NoDoubleSubmit'
  <2>1. ASSUME NEW q \in Requests, Loading(q)
        PROVE  mask'
    <3>1. mask /\ active > 0
      BY <2>1, CountedFacts DEF ClientInv, NoDoubleSubmit, Loading
    <3>2. mask' = mask \/ mask' = (active > 0 /\ mask)
      BY DEF Abort, AjaxStop
    <3> QED
      BY <3>1, <3>2
  <2> QED
    BY <1>6, <2>1 DEF ClientInv, NoDoubleSubmit
<1>10. OneDialog'
  BY DEF Abort, OneDialog, ClientInv
<1>11. login' \in {"key", "check"} => \A q \in Requests : ~Loading(q)'
  BY <1>6 DEF Abort, ClientInv
<1> QED
  BY <1>2, <1>5, <1>8, <1>9, <1>10, <1>11 DEF ClientInv

\* invoke without the login dialog: a click finds no mask, so no request that
\* shows one is in flight.
LEMMA SendStep ==
  ASSUME ClientInv, NEW r \in Requests, status[r] = "idle",
         NEW how \in {"click", "script", "quiet"}, NEW fails \in BOOLEAN,
         how = "click" => ~mask, Send(r, how, fails)
  PROVE  ClientInv'
<1>1. ClientType
  BY DEF ClientInv
<1>2. ClientType'
  <2>1. /\ status' \in [Requests -> {"idle", "sent", "done"}]
        /\ made' \in [Requests -> {"click", "script", "quiet"}]
    BY <1>1 DEF ClientType, Send
  <2>2. throws' \in [Requests -> BOOLEAN]
    BY <1>1 DEF ClientType, Send
  <2>3. mask' \in BOOLEAN
    BY <1>1 DEF ClientType, Send
  <2> QED
    BY <1>1, <2>1, <2>2, <2>3 DEF ClientType, Send
<1>3. \A q \in Requests \ {r} : status'[q] = status[q] /\ made'[q] = made[q] /\ throws'[q] = throws[q]
  BY <1>1 DEF ClientType, Send
<1>4. status'[r] = "sent" /\ made'[r] = how
  BY <1>1 DEF ClientType, Send
<1>5. answer' = answer /\ promise' = promise /\ calls' = calls /\ login' = login /\ dialogs' = dialogs
  BY DEF Send
<1>6. \A q \in Requests : Settled(q)'
  BY <1>3, <1>4, <1>5 DEF Settled, ClientInv
<1>7. active' = Cardinality(Counted')
  <2>1. r \notin Counted
    BY DEF Counted
  <2>2. Counted' = Counted \cup {r}
    BY <1>3, <1>4, <1>5 DEF Counted, Threw
  <2>3. active' = active + 1
    BY DEF Send
  <2> QED
    BY <2>1, <2>2, <2>3, CountedFacts, CountMore DEF ClientInv
<1>8. \A q \in Requests \ {r} : Loading(q)' <=> Loading(q)
  BY <1>3 DEF Loading
<1>9. NoDoubleSubmit'
  <2>1. ASSUME NEW q \in Requests, Loading(q)'
        PROVE  mask'
    <3>1. CASE q = r
      BY <3>1, <2>1, <1>4 DEF Loading, Send
    <3>2. CASE q # r
      <4>1. mask
        BY <3>2, <2>1, <1>8 DEF ClientInv, NoDoubleSubmit
      <4> QED
        BY <4>1 DEF Send
    <3> QED
      BY <3>1, <3>2
  <2>2. ASSUME how = "click", NEW q \in Requests \ {r}
        PROVE  ~Loading(q)'
    BY <2>2, <1>8 DEF ClientInv, NoDoubleSubmit
  <2>3. ASSUME NEW p \in Requests, NEW q \in Requests,
               Loading(p)', made'[p] = "click", Loading(q)', made'[q] = "click"
        PROVE  p = q
    <3>1. CASE p = r \/ q = r
      BY <3>1, <2>3, <2>2, <1>4
    <3>2. CASE p # r /\ q # r
      BY <3>2, <2>3, <1>3, <1>8 DEF ClientInv, NoDoubleSubmit
    <3> QED
      BY <3>1, <3>2
  <2> QED
    BY <2>1, <2>3 DEF NoDoubleSubmit
<1>10. OneDialog'
  BY <1>5 DEF OneDialog, ClientInv
<1>11. login' = "none"
  BY DEF Send
<1> QED
  BY <1>2, <1>6, <1>7, <1>9, <1>10, <1>11 DEF ClientInv

\* A request in flight ends: what its callback leaves, and what that means for the
\* others.
LEMMA EndStep ==
  ASSUME ClientInv, NEW r \in Requests, status[r] = "sent",
         status' = [status EXCEPT ![r] = "done"], made' = made, throws' = throws, answer' = answer,
         calls' \in [Requests -> 0..2],
         promise' \in [Requests -> {"pending", "resolved", "rejected"}],
         \A q \in Requests \ {r} : calls'[q] = calls[q] /\ promise'[q] = promise[q],
         Settled(r)',
         IF throws[r] /\ calls'[r] > 0 THEN active' = active /\ mask' = mask
                                      ELSE active' = active - 1 /\ AjaxStop(active - 1),
         login' \in {"none", "ready", "key", "check", "alert", "dead"},
         login' \in {"key", "check"} => login' = login,
         session' \in BOOLEAN,
         OneDialog'
  PROVE  ClientInv'
<1>1. ClientType
  BY DEF ClientInv
<1>2. ClientType'
  <2>1. status' \in [Requests -> {"idle", "sent", "done"}]
    BY <1>1 DEF ClientType
  <2>2. mask' \in BOOLEAN
    <3>1. mask' = mask \/ mask' = (active - 1 > 0 /\ mask)
      BY DEF AjaxStop
    <3> QED
      BY <3>1, <1>1 DEF ClientType
  <2> QED
    BY <1>1, <2>1, <2>2 DEF ClientType
<1>3. status'[r] = "done" /\ \A q \in Requests \ {r} : status'[q] = status[q]
  BY <1>1 DEF ClientType
<1>4. \A q \in Requests : Settled(q)'
  BY <1>3 DEF Settled, ClientInv
<1>5. r \in Counted
  BY CountedFacts
<1>6. \A q \in Requests : Loading(q)' => Loading(q) /\ q # r
  BY <1>3 DEF Loading
<1>7. active' = Cardinality(Counted')
  <2>1. CASE throws[r] /\ calls'[r] > 0
    <3>1. Counted' = Counted
      BY <1>3, <1>5, <2>1 DEF Counted, Threw
    <3> QED
      BY <3>1, <2>1 DEF ClientInv
  <2>2. CASE ~(throws[r] /\ calls'[r] > 0)
    <3>1. Counted' = Counted \ {r}
      BY <1>3, <1>5, <2>2 DEF Counted, Threw
    <3> QED
      BY <3>1, <2>2, <1>5, CountedFacts, CountLess DEF ClientInv
  <2> QED
    BY <2>1, <2>2
<1>8. NoDoubleSubmit'
  <2>1. ASSUME NEW q \in Requests, Loading(q), q # r
        PROVE  mask'
    <3>1. mask
      BY <2>1 DEF ClientInv, NoDoubleSubmit
    <3>2. q \in Counted
      BY <2>1, CountedFacts DEF Loading
    <3>3. active - 1 > 0
      BY <2>1, <3>2, <1>5, CountedFacts
    <3>4. mask' = mask \/ mask' = (active - 1 > 0 /\ mask)
      BY DEF AjaxStop
    <3> QED
      BY <3>1, <3>3, <3>4
  <2> QED
    BY <1>6, <2>1 DEF ClientInv, NoDoubleSubmit
<1>9. login' \in {"key", "check"} => \A q \in Requests : ~Loading(q)'
  BY <1>6 DEF ClientInv
<1> QED
  BY <1>2, <1>4, <1>7, <1>8, <1>9 DEF ClientInv

\* success, and error with a status other than 401.
LEMMA CallbackStep ==
  ASSUME ClientInv, NEW r \in Requests, NEW outcome \in {"resolved", "rejected"},
         status[r] = "sent", status' = [status EXCEPT ![r] = "done"],
         Callback(r, outcome), AfterCallback(r),
         made' = made, throws' = throws, answer' = answer, session' = session
  PROVE  ClientInv'
<1>1. ClientType
  BY DEF ClientInv
<1>2. calls[r] = 0 /\ promise[r] = "pending"
  BY DEF ClientInv, Settled
<1>3. calls' \in [Requests -> 0..2] /\ calls'[r] = 1
  BY <1>1, <1>2 DEF ClientType, Callback
<1>4. promise' \in [Requests -> {"pending", "resolved", "rejected"}]
  BY <1>1 DEF ClientType, Callback
<1>5. \A q \in Requests \ {r} : calls'[q] = calls[q] /\ promise'[q] = promise[q]
  BY <1>1 DEF ClientType, Callback
<1>6. promise'[r] = (IF throws[r] THEN "pending" ELSE outcome)
  BY <1>1, <1>2 DEF ClientType, Callback
<1>7. status'[r] = "done"
  BY <1>1 DEF ClientType
<1>8. Settled(r)'
  BY <1>3, <1>6, <1>7 DEF Settled
<1>9. login' = login /\ dialogs' = dialogs
  BY DEF AfterCallback, screen
<1>10. IF throws[r] /\ calls'[r] > 0 THEN active' = active /\ mask' = mask
                                    ELSE active' = active - 1 /\ AjaxStop(active - 1)
  BY <1>3 DEF AfterCallback, screen
<1>11. OneDialog'
  BY <1>9 DEF OneDialog, ClientInv
<1>12. session' \in BOOLEAN /\ login' \in {"none", "ready", "key", "check", "alert", "dead"}
  BY <1>1, <1>9 DEF ClientType
<1> QED
  BY <1>3, <1>4, <1>5, <1>8, <1>9, <1>10, <1>11, <1>12, EndStep

\* error with status 401.
LEMMA UnauthorizedStep ==
  ASSUME ClientInv, NEW r \in Requests, Unauthorized(r)
  PROVE  ClientInv'
<1>1. ClientType
  BY DEF ClientInv
<1>2. /\ status[r] = "sent" /\ status' = [status EXCEPT ![r] = "done"]
      /\ made' = made /\ throws' = throws /\ answer' = answer
      /\ promise' = promise /\ calls' = calls /\ session' = session
      /\ answer[r] = "401"
  BY DEF Unauthorized
<1>3. calls[r] = 0 /\ promise[r] = "pending"
  BY <1>2 DEF ClientInv, Settled
<1>4. Settled(r)'
  BY <1>1, <1>2, <1>3 DEF Settled, ClientType
<1>5. active' = active - 1 /\ AjaxStop(active - 1)
  BY DEF Unauthorized
<1>6. OneDialog'
  BY DEF Unauthorized, OneDialog, ClientInv
<1>7. /\ login' \in {"none", "ready", "key", "check", "alert", "dead"}
      /\ login' \in {"key", "check"} => login' = login
  BY <1>1 DEF Unauthorized, ClientType
<1>8. /\ calls' \in [Requests -> 0..2]
      /\ promise' \in [Requests -> {"pending", "resolved", "rejected"}]
      /\ session' \in BOOLEAN
  BY <1>1, <1>2 DEF ClientType
<1>9. IF throws[r] /\ calls'[r] > 0 THEN active' = active /\ mask' = mask
                                   ELSE active' = active - 1 /\ AjaxStop(active - 1)
  BY <1>2, <1>3, <1>5
<1>10. \A q \in Requests \ {r} : calls'[q] = calls[q] /\ promise'[q] = promise[q]
  BY <1>2
<1> QED
  BY <1>2, <1>4, <1>6, <1>7, <1>8, <1>9, <1>10, EndStep

\* The server answers; the page does not know yet.
LEMMA ProcessStep ==
  ASSUME ClientInv, NEW r \in Requests, Process(r)
  PROVE  ClientInv'
<1>1. ClientType
  BY DEF ClientInv
<1>2. /\ status' = status /\ made' = made /\ throws' = throws
      /\ promise' = promise /\ calls' = calls /\ session' = session
      /\ active' = active /\ mask' = mask /\ dialogs' = dialogs /\ login' = login
  BY DEF Process, screen
<1>3. status[r] = "sent" /\ \E a \in {"ok", "failed", "401"} : answer' = [answer EXCEPT ![r] = a]
  BY DEF Process
<1>4. answer' \in [Requests -> {"none", "ok", "failed", "401"}]
  BY <1>1, <1>3 DEF ClientType
<1>5. \A q \in Requests \ {r} : answer'[q] = answer[q]
  BY <1>1, <1>3 DEF ClientType
<1>6. \A q \in Requests : Settled(q)'
  BY <1>2, <1>3, <1>5 DEF Settled, ClientInv
<1>7. ClientType'
  BY <1>1, <1>2, <1>4 DEF ClientType
<1>8. Counted' = Counted
  BY <1>2 DEF Counted, Threw
<1> QED
  BY <1>2, <1>6, <1>7, <1>8 DEF ClientInv, NoDoubleSubmit, OneDialog, Loading

\* The login dialog, whose mask is the page's, and the end of the session.
LEMMA DialogStep ==
  ASSUME ClientInv,
         \/ SubmitLogin \/ KeyReceived \/ LoginSucceeds
         \/ LoginFails \/ DismissAlert \/ CloseDialog \/ Expire
         \/ UNCHANGED clientVars
  PROVE  ClientInv'
<1> USE DEF request, screen
<1>1. ClientType
  BY DEF ClientInv
<1>2. /\ status' = status /\ made' = made /\ throws' = throws /\ answer' = answer
      /\ promise' = promise /\ calls' = calls /\ active' = active
  BY DEF SubmitLogin, KeyReceived, LoginSucceeds, LoginFails,
         DismissAlert, CloseDialog, Expire, clientVars
<1>3. mask' \in BOOLEAN
  BY <1>1 DEF SubmitLogin, KeyReceived, LoginSucceeds, LoginFails,
         DismissAlert, CloseDialog, Expire, clientVars, ClientType
<1>4. login' \in {"none", "ready", "key", "check", "alert", "dead"}
  BY <1>1 DEF SubmitLogin, KeyReceived, LoginSucceeds, LoginFails,
         DismissAlert, CloseDialog, Expire, clientVars, ClientType
<1>5. session' \in BOOLEAN
  <2>1. session' \in {session, TRUE, FALSE}
    BY DEF SubmitLogin, KeyReceived, LoginSucceeds, LoginFails,
           DismissAlert, CloseDialog, Expire, clientVars
  <2> QED
    BY <1>1, <2>1 DEF ClientType
<1>6. ClientType'
  BY <1>1, <1>2, <1>3, <1>4, <1>5 DEF ClientType
<1>7. active' = Cardinality(Counted') /\ \A r \in Requests : Settled(r)'
  <2>1. Counted' = Counted
    BY <1>2 DEF Counted, Threw
  <2> QED
    BY <1>2, <2>1 DEF ClientInv, Settled
<1>8. \A r \in Requests : Loading(r)' <=> Loading(r)
  BY <1>2 DEF Loading
<1>9. ASSUME NEW r \in Requests, Loading(r)
      PROVE  mask' /\ login' \notin {"key", "check"}
  <2>1. mask /\ login \notin {"key", "check"}
    BY <1>9 DEF ClientInv, NoDoubleSubmit
  <2> QED
    BY <2>1 DEF SubmitLogin, KeyReceived, LoginSucceeds, LoginFails,
           DismissAlert, CloseDialog, Expire, clientVars
<1>10. NoDoubleSubmit'
  BY <1>2, <1>8, <1>9 DEF ClientInv, NoDoubleSubmit
<1>11. OneDialog'
  <2>1. \/ dialogs' = dialogs /\ (login' = "none" <=> login = "none")
        \/ dialogs' = dialogs - 1 /\ login # "none" /\ login' = "none"
    <3>1. CASE LoginSucceeds \/ CloseDialog
      BY <3>1 DEF LoginSucceeds, CloseDialog
    <3>2. CASE SubmitLogin \/ KeyReceived \/ LoginFails
      BY <3>2 DEF SubmitLogin, KeyReceived, LoginFails
    <3>3. CASE DismissAlert \/ Expire \/ UNCHANGED clientVars
      BY <3>3 DEF DismissAlert, Expire, clientVars
    <3> QED
      BY <3>1, <3>2, <3>3
  <2> QED
    BY <2>1 DEF OneDialog, ClientInv
<1> QED
  BY <1>6, <1>7, <1>8, <1>9, <1>10, <1>11 DEF ClientInv

\* Every step of the client keeps the invariant.
LEMMA ClientNextInv ==
  ASSUME ClientInv, [ClientNext]_clientVars
  PROVE  ClientInv'
<1>1. ASSUME NEW r \in Requests, NEW how \in {"click", "script", "quiet"}, NEW fails \in BOOLEAN,
             Invoke(r, how, fails)
      PROVE  ClientInv'
  <2>1. status[r] = "idle" /\ (how = "click" => ~mask)
    BY <1>1 DEF Invoke
  <2>2. Abort(r, how, fails) \/ Send(r, how, fails)
    BY <1>1 DEF Invoke
  <2> QED
    BY <2>1, <2>2, AbortStep, SendStep
<1>2. ASSUME NEW r \in Requests, Success(r)
      PROVE  ClientInv'
  <2>1. \E outcome \in {"resolved", "rejected"} : Callback(r, outcome)
    BY <1>2 DEF Success
  <2>2. /\ status[r] = "sent" /\ status' = [status EXCEPT ![r] = "done"]
        /\ AfterCallback(r)
        /\ made' = made /\ throws' = throws /\ answer' = answer /\ session' = session
    BY <1>2 DEF Success
  <2> QED
    BY <2>1, <2>2, CallbackStep
<1>3. ASSUME NEW r \in Requests, GiveUp(r)
      PROVE  ClientInv'
  <2>1. /\ status[r] = "sent" /\ status' = [status EXCEPT ![r] = "done"]
        /\ Callback(r, "rejected") /\ AfterCallback(r)
        /\ made' = made /\ throws' = throws /\ answer' = answer /\ session' = session
    BY <1>3 DEF GiveUp
  <2> QED
    BY <2>1, CallbackStep
<1> QED
  BY <1>1, <1>2, <1>3, UnauthorizedStep, ProcessStep, DialogStep DEF ClientNext

\* The type invariant, and that jQuery.active is never more than the number of
\* requests made nor negative, for every finite set of requests.
THEOREM ClientTypeCorrect == ClientSpec => []ClientTypeOK
<1>1. ClientInv => ClientTypeOK
  <2> SUFFICES ASSUME ClientInv PROVE ClientTypeOK
    OBVIOUS
  <2>1. active \in 0..Cardinality(Requests)
    <3>1. Counted \in SUBSET Requests /\ active = Cardinality(Counted)
      BY CountedFacts DEF ClientInv
    <3>2. active \in Nat /\ active <= Cardinality(Requests)
      BY <3>1, CountPositive
    <3>3. Cardinality(Requests) \in Nat
      BY WebClientAssumption, FS_CardinalityType
    <3> QED
      BY <3>2, <3>3
  <2>2. dialogs \in 0..1
    BY DEF ClientInv, OneDialog
  <2> QED
    BY <2>1, <2>2 DEF ClientInv, ClientType, ClientTypeOK
<1> QED
  BY <1>1, ClientInitInv, ClientNextInv, PTL DEF ClientSpec

\* For every finite set of requests, answers and timeouts in every order: the
\* Deferred of a request is settled by its one callback, or by the second call
\* that invoke makes after the first threw, and stays pending only after a 401 or
\* when the callback threw (ServiceHelper.callback, invoke).
THEOREM SettledOnceAlways == ClientSpec => []SettledOnce
<1>1. ClientInv => SettledOnce
  <2> SUFFICES ASSUME ClientInv, NEW r \in Requests
               PROVE  /\ promise[r] # "pending" =>
                           status[r] = "done" /\ calls[r] = IF throws[r] THEN 2 ELSE 1
                      /\ status[r] = "done" /\ promise[r] = "pending" => answer[r] = "401" \/ Threw(r)
                      /\ calls[r] = 2 => Threw(r)
    BY DEF SettledOnce
  <2>1. Settled(r) /\ status[r] \in {"idle", "sent", "done"}
    BY DEF ClientInv, ClientType
  <2> QED
    BY <2>1 DEF Settled, Threw
<1> QED
  BY <1>1, ClientInitInv, ClientNextInv, PTL DEF ClientSpec

\* For every finite set of requests: two clicks are never in flight together, and
\* the mask is up while a request that shows it is (ajaxSend, ajaxStop).
THEOREM NoDoubleSubmitAlways == ClientSpec => []NoDoubleSubmit
<1>1. ClientInv => NoDoubleSubmit
  BY DEF ClientInv
<1> QED
  BY <1>1, ClientInitInv, ClientNextInv, PTL DEF ClientSpec

\* For every finite set of requests: one login dialog is open however many answers
\* are 401, and _login_opend knows it (ajaxComplete).
THEOREM OneDialogAlways == ClientSpec => []OneDialog
<1>1. ClientInv => OneDialog
  BY DEF ClientInv
<1> QED
  BY <1>1, ClientInitInv, ClientNextInv, PTL DEF ClientSpec

(***************************************************************************)
(* TreeTable: the order of the nodes                                       *)
(***************************************************************************)

\* A prefix, position by position.
LEMMA StrictPrefixAt ==
  ASSUME NEW s \in Seq(Nat), NEW t \in Seq(Nat)
  PROVE  IsStrictPrefix(s, t) <=> Len(s) < Len(t) /\ \A k \in 1..Len(s) : s[k] = t[k]
<1> USE DEF IsStrictPrefix, IsPrefix
<1>1. ASSUME IsStrictPrefix(s, t)
      PROVE  Len(s) < Len(t) /\ \A k \in 1..Len(s) : s[k] = t[k]
  <2>1. Len(s) <= Len(t) /\ SubSeq(s, 1, Len(s)) = SubSeq(t, 1, Len(s))
    BY <1>1
  <2>2. \A k \in 1..Len(s) : s[k] = t[k]
    <3> TAKE k \in 1..Len(s)
    <3>1. SubSeq(s, 1, Len(s))[k] = s[k] /\ SubSeq(t, 1, Len(s))[k] = t[k]
      BY <2>1
    <3> QED BY <3>1, <2>1
  <2>3. Len(s) # Len(t)
    BY <1>1, <2>2
  <2> QED
    BY <2>1, <2>2, <2>3
<1>2. ASSUME Len(s) < Len(t), \A k \in 1..Len(s) : s[k] = t[k]
      PROVE  IsStrictPrefix(s, t)
  BY <1>2
<1> QED
  BY <1>1, <1>2

\* m is below n; m comes before n and is not above it.
Below(m, n) == Len(n) < Len(m) /\ \A k \in 1..Len(n) : n[k] = m[k]
Before(m, n) ==
  \E k \in 1..Len(m) : k <= Len(n) /\ m[k] < n[k] /\ \A j \in 1..(k - 1) : m[j] = n[j]

\* Sequences of one length are equal if their elements are.
LEMMA SameSequence ==
  ASSUME NEW s \in Seq(Nat), NEW t \in Seq(Nat), Len(s) = Len(t), \A j \in 1..Len(s) : s[j] = t[j]
  PROVE  s = t
OBVIOUS

\* The order of the table: above, or before.
LEMMA PrecedesAt ==
  ASSUME NEW m \in Seq(Nat), NEW n \in Seq(Nat)
  PROVE  Precedes(m, n) <=> Below(n, m) \/ Before(m, n)
<1>1. IsStrictPrefix(m, n) <=> Below(n, m)
  BY StrictPrefixAt DEF Below
<1>2. ASSUME NEW k \in 1..Len(m), k <= Len(n)
      PROVE  SubSeq(m, 1, k - 1) = SubSeq(n, 1, k - 1) <=> \A j \in 1..(k - 1) : m[j] = n[j]
  <2>0. k \in Nat /\ Len(m) \in Nat /\ Len(n) \in Nat /\ k - 1 <= Len(m) /\ k - 1 <= Len(n)
    BY <1>2
  <2>1. \A j \in 1..(k - 1) : SubSeq(m, 1, k - 1)[j] = m[j] /\ SubSeq(n, 1, k - 1)[j] = n[j]
    <3> TAKE j \in 1..(k - 1)
    <3>1. SubSeq(m, 1, k - 1)[j] = m[j]
      BY <2>0
    <3>2. SubSeq(n, 1, k - 1)[j] = n[j]
      BY <2>0
    <3> QED
      BY <3>1, <3>2
  <2>2. /\ SubSeq(m, 1, k - 1) \in Seq(Nat) /\ SubSeq(n, 1, k - 1) \in Seq(Nat)
        /\ Len(SubSeq(m, 1, k - 1)) = k - 1 /\ Len(SubSeq(n, 1, k - 1)) = k - 1
    BY <1>2
  <2> DEFINE a == SubSeq(m, 1, k - 1)
             b == SubSeq(n, 1, k - 1)
  <2>3. a \in Seq(Nat) /\ b \in Seq(Nat) /\ Len(a) = Len(b) /\ Len(a) = k - 1
    BY <2>2
  <2>4. \A j \in 1..(k - 1) : a[j] = m[j] /\ b[j] = n[j]
    BY <2>1
  <2> HIDE DEF a, b
  <2>5. ASSUME \A j \in 1..(k - 1) : m[j] = n[j] PROVE a = b
    BY <2>3, <2>4, <2>5, SameSequence
  <2>6. a = b => \A j \in 1..(k - 1) : m[j] = n[j]
    BY <2>4
  <2> QED
    BY <2>5, <2>6 DEF a, b
<1>3. Before(m, n) <=> \E k \in 1..Len(m) : /\ k <= Len(n) /\ m[k] < n[k]
                                          /\ SubSeq(m, 1, k - 1) = SubSeq(n, 1, k - 1)
  BY <1>2 DEF Before
<1> QED
  BY <1>1, <1>3 DEF Precedes

\* Below what is below is below.
LEMMA BelowTransitive ==
  ASSUME NEW x \in Seq(Nat), NEW y \in Seq(Nat), NEW n \in Seq(Nat), Below(x, y), Below(y, n)
  PROVE  Below(x, n)
<1>1. Len(x) \in Nat /\ Len(y) \in Nat /\ Len(n) \in Nat
  OBVIOUS
<1>2. Len(y) < Len(x) /\ Len(n) < Len(y)
  BY DEF Below
<1>3. Len(n) < Len(x)
  BY <1>1, <1>2
<1>4. ASSUME NEW k \in 1..Len(n) PROVE n[k] = x[k]
  <2>1. k \in 1..Len(y)
    BY <1>1, <1>2
  <2>2. n[k] = y[k] /\ y[k] = x[k]
    BY <2>1 DEF Below
  <2> QED
    BY <2>2
<1> QED
  BY <1>3, <1>4 DEF Below

\* The order is irreflexive.
LEMMA PrecedesNotItself ==
  ASSUME NEW n \in Seq(Nat)
  PROVE  ~Precedes(n, n)
BY PrecedesAt DEF Below, Before

\* What comes before a node comes before all that is below it.
LEMMA BeforeBelow ==
  ASSUME NEW x \in Seq(Nat), NEW n \in Seq(Nat), NEW c \in Seq(Nat), Precedes(x, n), Below(c, n)
  PROVE  Precedes(x, c)
<1>1. CASE Below(n, x)
  <2>1. Below(c, x)
    BY <1>1, BelowTransitive
  <2> QED
    BY <2>1, PrecedesAt
<1>2. CASE Before(x, n)
  <2>1. PICK k \in 1..Len(x) : k <= Len(n) /\ x[k] < n[k] /\ \A j \in 1..(k - 1) : x[j] = n[j]
    BY <1>2 DEF Before
  <2>2. k <= Len(c) /\ n[k] = c[k] /\ \A j \in 1..(k - 1) : n[j] = c[j]
    BY <2>1 DEF Below
  <2>3. Before(x, c)
    BY <2>1, <2>2 DEF Before
  <2> QED
    BY <2>3, PrecedesAt
<1> QED
  BY <1>1, <1>2, PrecedesAt

\* What comes behind a node and is not below it comes behind all that is.
LEMMA BehindBelow ==
  ASSUME NEW x \in Seq(Nat), NEW n \in Seq(Nat), NEW c \in Seq(Nat),
         Precedes(n, x), ~Below(x, n), Below(c, n)
  PROVE  Precedes(c, x)
<1>1. Before(n, x)
  BY PrecedesAt
<1>2. PICK k \in 1..Len(n) : k <= Len(x) /\ n[k] < x[k] /\ \A j \in 1..(k - 1) : n[j] = x[j]
  BY <1>1 DEF Before
<1>3. k <= Len(c) /\ n[k] = c[k] /\ \A j \in 1..(k - 1) : n[j] = c[j]
  BY <1>2 DEF Below
<1>4. Before(c, x)
  BY <1>2, <1>3 DEF Before
<1> QED
  BY <1>4, PrecedesAt

\* What stands between a node and one below it is below it too.
LEMMA BetweenBelow ==
  ASSUME NEW x \in Seq(Nat), NEW n \in Seq(Nat), NEW c \in Seq(Nat),
         Precedes(n, x), Precedes(x, c), Below(c, n)
  PROVE  Below(x, n)
<1> SUFFICES ASSUME ~Below(x, n) PROVE FALSE
  OBVIOUS
<1>1. Before(n, x)
  BY PrecedesAt
<1>2. PICK k \in 1..Len(n) : k <= Len(x) /\ n[k] < x[k] /\ \A j \in 1..(k - 1) : n[j] = x[j]
  BY <1>1 DEF Before
<1>3. Len(n) < Len(c) /\ \A j \in 1..Len(n) : n[j] = c[j]
  BY DEF Below
<1>4. n[k] \in Nat /\ x[k] \in Nat /\ c[k] = n[k]
  <2>1. k \in 1..Len(n) /\ k \in 1..Len(x)
    BY <1>2
  <2>2. n[k] \in Nat /\ x[k] \in Nat
    BY <2>1
  <2>3. c[k] = n[k]
    BY <2>1, <1>3
  <2> QED
    BY <2>2, <2>3
<1>5. CASE Below(c, x)
  <2>1. k \in 1..Len(x)
    BY <1>2
  <2>2. x[k] = c[k]
    BY <2>1, <1>5 DEF Below
  <2> QED
    BY <2>2, <1>2, <1>4
<1>6. CASE Before(x, c)
  <2>1. PICK l \in 1..Len(x) : l <= Len(c) /\ x[l] < c[l] /\ \A j \in 1..(l - 1) : x[j] = c[j]
    BY <1>6 DEF Before
  <2>2. CASE l < k
    <3>1. n[l] = x[l] /\ n[l] = c[l]
      BY <1>2, <1>3, <2>2
    <3> QED
      BY <3>1, <2>1
  <2>3. CASE l = k
    BY <2>1, <2>3, <1>2, <1>4
  <2>4. CASE l > k
    BY <2>1, <2>4, <1>2, <1>4
  <2> QED
    BY <2>2, <2>3, <2>4
<1> QED
  BY <1>5, <1>6, PrecedesAt

(***************************************************************************)
(* TreeTable: sequences of rows                                            *)
(***************************************************************************)

\* The number of members up to i orders the members.
LEMMA RankMonotonic ==
  ASSUME NEW I \in SUBSET Nat, IsFiniteSet(I), NEW i \in I, NEW j \in I, i < j
  PROVE  Cardinality({k \in I : k <= i}) < Cardinality({k \in I : k <= j})
<1> DEFINE A == {k \in I : k <= i}
           B == {k \in I : k <= j}
<1>1. A \subseteq B /\ A # B
  <2>1. i \in Nat /\ j \in Nat /\ \A k \in I : k \in Nat
    OBVIOUS
  <2>2. \A k \in I : k <= i => k <= j
    BY <2>1
  <2>3. j \in B /\ j \notin A
    BY <2>1
  <2> QED
    BY <2>2, <2>3
<1>2. IsFiniteSet(B)
  BY FS_Subset
<1>3. IsFiniteSet(A) /\ Cardinality(A) <= Cardinality(B) /\ (Cardinality(B) = Cardinality(A) => A = B)
  BY <1>1, <1>2, FS_Subset
<1>4. Cardinality(A) \in Nat /\ Cardinality(B) \in Nat
  BY <1>2, <1>3, FS_CardinalityType
<1> HIDE DEF A, B
<1>5. Cardinality(A) < Cardinality(B)
  BY <1>1, <1>3, <1>4
<1> QED
  BY <1>5 DEF A, B

\* Ascending lists the members of a finite set of naturals in order.
LEMMA AscendingLists ==
  ASSUME NEW I \in SUBSET Nat, IsFiniteSet(I)
  PROVE  /\ Cardinality(I) \in Nat
         /\ Ascending(I) \in [1..Cardinality(I) -> I]
         /\ \A j, k \in 1..Cardinality(I) : j < k => Ascending(I)[j] < Ascending(I)[k]
         /\ \A i \in I : \E k \in 1..Cardinality(I) : Ascending(I)[k] = i
<1> DEFINE N == Cardinality(I)
           Rank(i) == Cardinality({j \in I : j <= i})
           R == [i \in I |-> Rank(i)]
           f == Ascending(I)
<1>1. N \in Nat
  BY FS_CardinalityType
<1>2. ASSUME NEW i \in I PROVE Rank(i) \in 1..N
  <2>1. {j \in I : j <= i} \in SUBSET I /\ i \in {j \in I : j <= i}
    OBVIOUS
  <2>2. IsFiniteSet({j \in I : j <= i}) /\ Rank(i) <= N
    BY <2>1, FS_Subset
  <2>3. Rank(i) \in Nat /\ Rank(i) # 0
    BY <2>1, <2>2, FS_CardinalityType, FS_EmptySet
  <2> HIDE DEF Rank, N
  <2> QED
    BY <1>1, <2>2, <2>3
<1>3. \A i, j \in I : i < j => Rank(i) < Rank(j)
  BY RankMonotonic
<1> HIDE DEF Rank, N
<1>4. \A i, j \in I : Rank(i) = Rank(j) => i = j
  BY <1>2, <1>3
<1>5. R \in [I -> 1..N] /\ IsInjective(R)
  BY <1>2, <1>4 DEF IsInjective
<1>6. R \in Surjection(I, 1..N)
  <2>1. IsFiniteSet(1..N) /\ Cardinality(1..N) = N
    BY <1>1, FS_Interval
  <2>2. R \in Injection(I, 1..N)
    BY <1>5 DEF Injection
  <2> QED
    BY <2>1, <2>2, FS_Injection DEF N
<1>7. \A k \in 1..N : \E i \in I : Rank(i) = k
  BY <1>6 DEF Surjection
<1>8. f = [k \in 1..N |-> CHOOSE i \in I : Rank(i) = k]
  BY DEF Ascending, Rank, N, Cardinality, Cardinality
<1> HIDE DEF f
<1>9. \A k \in 1..N : f[k] \in I /\ Rank(f[k]) = k
  BY <1>7, <1>8
<1>10. f \in [1..N -> I]
  BY <1>8, <1>9
<1>11. \A j, k \in 1..N : j < k => f[j] < f[k]
  <2> SUFFICES ASSUME NEW j \in 1..N, NEW k \in 1..N, j < k
               PROVE  f[j] < f[k]
    OBVIOUS
  <2>1. f[j] \in I /\ f[k] \in I /\ f[j] \in Nat /\ f[k] \in Nat /\ Rank(f[j]) = j /\ Rank(f[k]) = k
    BY <1>9
  <2>2. CASE f[k] < f[j]
    BY <1>1, <1>3, <2>1, <2>2
  <2>3. CASE f[k] = f[j]
    BY <1>1, <2>1, <2>3
  <2> QED
    BY <2>1, <2>2, <2>3
<1>12. \A i \in I : \E k \in 1..N : f[k] = i
  BY <1>2, <1>4, <1>9
<1> QED
  BY <1>1, <1>10, <1>11, <1>12 DEF f, N

\* RowsAt keeps the rows at the positions I, in their order.
LEMMA RowsAtKeeps ==
  ASSUME NEW S, rows \in Seq(S), NEW I \in SUBSET (1..Len(rows))
  PROVE  /\ RowsAt(I) \in Seq(S)
         /\ \E f \in [1..Len(RowsAt(I)) -> I] :
              /\ \A k \in 1..Len(RowsAt(I)) : RowsAt(I)[k] = rows[f[k]]
              /\ \A j, k \in 1..Len(RowsAt(I)) : j < k => f[j] < f[k]
              /\ \A i \in I : \E k \in 1..Len(RowsAt(I)) : f[k] = i
<1> DEFINE N == Cardinality(I)
           f == Ascending(I)
<1>0. Len(rows) \in Nat /\ \A i \in 1..Len(rows) : i \in Nat /\ rows[i] \in S
  OBVIOUS
<1>1. I \in SUBSET Nat /\ IsFiniteSet(I)
  <2>1. IsFiniteSet(1..Len(rows))
    BY <1>0, FS_Interval
  <2>2. IsFiniteSet(I)
    BY <2>1, FS_Subset
  <2> QED
    BY <1>0, <2>2
<1>2. /\ N \in Nat /\ f \in [1..N -> I]
      /\ \A j, k \in 1..N : j < k => f[j] < f[k]
      /\ \A i \in I : \E k \in 1..N : f[k] = i
  BY <1>1, AscendingLists
<1>3. RowsAt(I) = [k \in 1..N |-> rows[f[k]]]
  BY DEF RowsAt
<1> HIDE DEF N, f
<1>4. \A k \in 1..N : rows[f[k]] \in S
  <2>1. \A k \in 1..N : f[k] \in I
    BY <1>2
  <2> QED
    BY <2>1, <1>0
<1>5. /\ RowsAt(I) \in Seq(S) /\ Len(RowsAt(I)) = N
      /\ \A k \in 1..N : RowsAt(I)[k] = rows[f[k]]
  BY <1>2, <1>3, <1>4
<1> QED
  BY <1>2, <1>5

\* A child is its parent with one number more.
LEMMA ChildAppends ==
  ASSUME NEW n \in Seq(Nat), NEW m \in Seq(Nat)
  PROVE  Child(m, n) <=> \E p \in Nat : m = Append(n, p)
<1>1. ASSUME NEW p \in Nat, m = Append(n, p)
      PROVE  Child(m, n)
  <2>1. Len(m) = Len(n) + 1 /\ \A k \in 1..Len(n) : n[k] = m[k]
    BY <1>1
  <2> QED
    BY <2>1, StrictPrefixAt DEF Child
<1>2. ASSUME Child(m, n)
      PROVE  \E p \in Nat : m = Append(n, p)
  <2>1. Len(m) = Len(n) + 1 /\ \A k \in 1..Len(n) : n[k] = m[k]
    BY <1>2, StrictPrefixAt DEF Child
  <2>2. m[Len(m)] \in Nat
    BY <2>1
  <2>3. m = Append(n, m[Len(m)])
    BY <2>1, <2>2
  <2> QED
    BY <2>2, <2>3
<1> QED
  BY <1>1, <1>2

\* FindChildren lists the children of a node in the order of the tree.
LEMMA FindChildrenLists ==
  ASSUME db \in SUBSET Seq(Nat), IsFiniteSet(db), NEW n \in Seq(Nat)
  PROVE  LET s == FindChildren(n) IN
         /\ s \in Seq(db)
         /\ \A k \in 1..Len(s) : Child(s[k], n)
         /\ \A m \in db : Child(m, n) => \E k \in 1..Len(s) : s[k] = m
         /\ \A j, k \in 1..Len(s) : j < k => Precedes(s[j], s[k])
<1> DEFINE s == FindChildren(n)
           P == {p \in {Last(m) : m \in db} : Append(n, p) \in db}
           N == Cardinality(P)
           f == Ascending(P)
<1>1. \A p \in Nat : Append(n, p) \in Seq(Nat) /\ Last(Append(n, p)) = p
  BY DEF Last
<1>2. P \in SUBSET Nat /\ \A p \in Nat : Append(n, p) \in db => p \in P
  <2>1. ASSUME NEW p \in P PROVE p \in Nat
    <3>1. Append(n, p) \in Seq(Nat)
      BY <2>1
    <3>2. PICK m \in db : p = Last(m)
      BY <2>1
    <3>3. Len(Append(n, p)) = Len(n) + 1 /\ Append(n, p)[Len(n) + 1] = p
      OBVIOUS
    <3> QED
      BY <3>1, <3>3
  <2>2. ASSUME NEW p \in Nat, Append(n, p) \in db PROVE p \in P
    BY <2>2, <1>1
  <2> QED
    BY <2>1, <2>2
<1>3. IsFiniteSet(P)
  <2> DEFINE g == [p \in P |-> Append(n, p)]
  <2>1. g \in [P -> db]
    OBVIOUS
  <2>2. \A p, q \in P : Append(n, p) = Append(n, q) => p = q
    BY <1>1, <1>2
  <2>3. g \in Injection(P, db)
    BY <2>1, <2>2 DEF Injection, IsInjective
  <2> QED
    BY <2>3, FS_Injection
<1>4. \A p \in P : Append(n, p) \in db
  OBVIOUS
<1>5. s = [k \in 1..N |-> Append(n, f[k])]
  BY DEF FindChildren
<1> HIDE DEF P
<1>6. /\ N \in Nat /\ f \in [1..N -> P]
      /\ \A j, k \in 1..N : j < k => f[j] < f[k]
      /\ \A p \in P : \E k \in 1..N : f[k] = p
  BY <1>2, <1>3, AscendingLists
<1> HIDE DEF N, f, s
<1>7. s \in Seq(db) /\ Len(s) = N /\ \A k \in 1..N : s[k] = Append(n, f[k])
  BY <1>4, <1>5, <1>6
<1>8. \A k \in 1..N : f[k] \in Nat
  BY <1>2, <1>6
<1>9. ASSUME NEW k \in 1..N PROVE Child(s[k], n)
  BY <1>1, <1>7, <1>8, ChildAppends
<1>10. ASSUME NEW m \in db, Child(m, n) PROVE \E k \in 1..N : s[k] = m
  <2>1. PICK p \in Nat : m = Append(n, p)
    BY <1>10, ChildAppends
  <2>2. p \in P
    BY <2>1, <1>2
  <2> QED
    BY <2>1, <2>2, <1>6, <1>7
<1>11. ASSUME NEW j \in 1..N, NEW k \in 1..N, j < k PROVE Precedes(s[j], s[k])
  <2>1. s[j] = Append(n, f[j]) /\ s[k] = Append(n, f[k]) /\ f[j] < f[k] /\ f[j] \in Nat /\ f[k] \in Nat
    BY <1>6, <1>7, <1>8, <1>11
  <2>2. s[j] \in Seq(Nat) /\ s[k] \in Seq(Nat)
    BY <2>1, <1>1
  <2>3. /\ Len(s[j]) = Len(n) + 1 /\ Len(s[k]) = Len(n) + 1
        /\ s[j][Len(n) + 1] = f[j] /\ s[k][Len(n) + 1] = f[k]
        /\ \A i \in 1..Len(n) : s[j][i] = n[i] /\ s[k][i] = n[i]
    BY <2>1
  <2>4. Before(s[j], s[k])
    BY <2>1, <2>2, <2>3 DEF Before
  <2> QED
    BY <2>2, <2>4, PrecedesAt
<1> QED
  BY <1>7, <1>9, <1>10, <1>11 DEF s

\* SetData, at a row of the table: the rows up to it, the new rows, the other rows.
LEMMA SetDataInserts ==
  ASSUME NEW S, NEW rs \in Seq(S), NEW ns \in Seq(S), NEW i \in Nat, i < Len(rs)
  PROVE  LET t == SetData(rs, i, ns) IN
         /\ t \in Seq(S) /\ Len(t) = Len(rs) + Len(ns)
         /\ \A k \in 1..(i + 1) : t[k] = rs[k]
         /\ \A k \in 1..Len(ns) : t[i + 1 + k] = ns[k]
         /\ \A k \in (i + 2)..Len(rs) : t[k + Len(ns)] = rs[k]
<1> DEFINE a == SubSeq(rs, 1, i + 1)
           b == SubSeq(rs, i + 2, Len(rs))
           t == SetData(rs, i, ns)
<1>1. a \in Seq(S) /\ Len(a) = i + 1 /\ \A k \in 1..(i + 1) : a[k] = rs[k]
  OBVIOUS
<1>2. b \in Seq(S) /\ Len(b) = Len(rs) - i - 1 /\ \A k \in 1..Len(b) : b[k] = rs[i + 1 + k]
  OBVIOUS
<1>3. t = (a \o ns) \o b
  BY DEF SetData
<1> HIDE DEF a, b, t
<1>4. /\ a \o ns \in Seq(S) /\ Len(a \o ns) = i + 1 + Len(ns)
      /\ \A k \in 1..(i + 1) : (a \o ns)[k] = rs[k]
      /\ \A k \in 1..Len(ns) : (a \o ns)[i + 1 + k] = ns[k]
  <2>1. a \o ns \in Seq(S) /\ Len(a \o ns) = i + 1 + Len(ns)
    <3>1. a \in Seq(S) /\ Len(a) = i + 1
      BY <1>1
    <3>2. Len(a \o ns) = Len(a) + Len(ns)
      BY <3>1
    <3> QED
      BY <3>1, <3>2
  <2>2. ASSUME NEW k \in 1..(i + 1) PROVE (a \o ns)[k] = rs[k]
    <3>1. (a \o ns)[k] = a[k]
      BY <1>1
    <3> QED
      BY <3>1, <1>1
  <2>3. ASSUME NEW k \in 1..Len(ns) PROVE (a \o ns)[i + 1 + k] = ns[k]
    BY <1>1
  <2> QED
    BY <2>1, <2>2, <2>3
<1> DEFINE c == a \o ns
<1>5. t = c \o b /\ c \in Seq(S) /\ Len(c) = i + 1 + Len(ns)
  BY <1>3, <1>4
<1>6. /\ \A k \in 1..(i + 1) : c[k] = rs[k]
      /\ \A k \in 1..Len(ns) : c[i + 1 + k] = ns[k]
  BY <1>4
<1> HIDE DEF c
<1>7. t \in Seq(S) /\ Len(t) = Len(rs) + Len(ns)
  <2>3. b \in Seq(S) /\ c \in Seq(S)
    BY <1>2, <1>5
  <2>4. c \o b \in Seq(S) /\ Len(c \o b) = Len(c) + Len(b)
    BY <2>3
  <2>1. t \in Seq(S) /\ Len(t) = Len(c) + Len(b)
    BY <1>5, <2>4
  <2>2. Len(rs) \in Nat /\ Len(ns) \in Nat
    OBVIOUS
  <2> QED
    BY <2>1, <2>2, <1>2, <1>5
<1>8. \A k \in 1..Len(c) : t[k] = c[k]
  BY <1>2, <1>5
<1>9. \A k \in 1..Len(b) : t[Len(c) + k] = b[k]
  BY <1>2, <1>5
<1>10. ASSUME NEW k \in (i + 2)..Len(rs) PROVE t[k + Len(ns)] = rs[k]
  <2>1. k - i - 1 \in 1..Len(b) /\ Len(c) + (k - i - 1) = k + Len(ns) /\ i + 1 + (k - i - 1) = k
    BY <1>2, <1>5
  <2>2. t[Len(c) + (k - i - 1)] = b[k - i - 1] /\ b[k - i - 1] = rs[i + 1 + (k - i - 1)]
    BY <2>1, <1>2, <1>9
  <2> QED
    BY <2>1, <2>2
<1>11. \A k \in 1..(i + 1) : t[k] = rs[k]
  BY <1>5, <1>6, <1>8
<1>12. \A k \in 1..Len(ns) : t[i + 1 + k] = ns[k]
  BY <1>5, <1>6, <1>8
<1> QED
  BY <1>7, <1>10, <1>11, <1>12 DEF t

(***************************************************************************)
(* TreeTable: the invariant                                                *)
(***************************************************************************)

\* The resources are a tree: a node is not deleted before those below it.
TableType ==
  /\ db \in SUBSET Resources
  /\ \A m \in db : \A k \in 1..Len(m) : SubSeq(m, 1, k) \in db
  /\ rows \in Seq(Resources)
  /\ fork \in [Resources -> {"none", "close", "open"}]
  /\ loaded \in [Resources -> BOOLEAN]
  /\ requests \in SUBSET [op : {"expand", "delete"}, by : {"user", "timer"}, node : Resources, index : Nat]

RowsShown ==
  \A m \in Resources :
    Shown(m) <=> /\ m \in db
                 /\ Len(m) = 1 \/ (Shown(Front(m)) /\ fork[Front(m)] = "open")

\* A row is shown with all those above it.
RowsAbove == \A x, n \in Resources : Shown(x) /\ Below(x, n) => Shown(n)

RowsOnce == \A i, j \in 1..Len(rows) : rows[i] = rows[j] => i = j

ForksLoaded ==
  \A n \in Resources : Shown(n) =>
    /\ fork[n] = "close" <=> ~loaded[n]
    /\ fork[n] = "none" => ~HasChildren(n)

\* While a node is expanded its fork stays closed and no row before the index
\* goes; a deletion is alone.
RequestsPending ==
  /\ \A q \in requests :
       /\ Shown(q.node) /\ q.index < Len(rows)
       /\ q.op = "expand" => fork[q.node] = "close"
       /\ q.op = "delete" => requests = {q}
  /\ \A q, r \in requests : q.node = r.node => q = r

\* Without an overlap the index of a request is that of its row.
RowsInOrder == \A i, j \in 1..Len(rows) : i < j => Precedes(rows[i], rows[j])
IndexRight == \A q \in requests : rows[q.index + 1] = q.node /\ requests = {q}
ForksNeeded == \A n \in Resources : Shown(n) /\ fork[n] # "none" => HasChildren(n)

TableCore ==
  /\ TableType
  /\ RowsShown
  /\ RowsAbove
  /\ RowsOnce
  /\ ForksLoaded
  /\ RequestsPending
  /\ overlap = {} => RowsInOrder /\ IndexRight /\ ForksNeeded

TableInv == overlap \subseteq {"two"} => TableCore

\* A node is shown when a row holds it.
LEMMA ShownAt ==
  ASSUME NEW n
  PROVE  Shown(n) <=> \E i \in 1..Len(rows) : rows[i] = n
BY DEF Shown, Contains

\* The same of the next state.
LEMMA ShownAtPrime ==
  ASSUME NEW n
  PROVE  Shown(n)' <=> \E i \in 1..Len(rows') : rows'[i] = n
BY DEF Shown, Contains

\* A node below the first level.
LEMMA Deeper ==
  ASSUME NEW m \in Seq(Nat), Len(m) > 1
  PROVE  Len(m) # 1
<1> DEFINE l == Len(m)
<1>1. l \in Nat /\ l > 1
  OBVIOUS
<1> HIDE DEF l
<1>2. l # 1
  BY <1>1
<1> QED
  BY <1>2 DEF l

\* The child of a node and its parent.
LEMMA FrontChild ==
  ASSUME NEW m \in Seq(Nat), NEW n \in Seq(Nat), n # <<>>
  PROVE  Child(m, n) <=> Len(m) > 1 /\ Front(m) = n
<1>1. ASSUME Child(m, n) PROVE Len(m) > 1 /\ Front(m) = n
  <2>1. Len(m) = Len(n) + 1 /\ \A k \in 1..Len(n) : n[k] = m[k]
    BY <1>1, StrictPrefixAt DEF Child
  <2>2. Len(n) > 0
    OBVIOUS
  <2>3. SubSeq(m, 1, Len(m) - 1) = n
    BY <2>1, <2>2
  <2> QED
    BY <2>1, <2>2, <2>3 DEF Front
<1>2. ASSUME Len(m) > 1, Front(m) = n PROVE Child(m, n)
  <2>1. n = SubSeq(m, 1, Len(m) - 1)
    BY <1>2 DEF Front
  <2>2. Len(m) = Len(n) + 1 /\ \A k \in 1..Len(n) : n[k] = m[k]
    BY <2>1, <1>2
  <2> QED
    BY <2>2, StrictPrefixAt DEF Child
<1> QED
  BY <1>1, <1>2

\* A child of p is below n when p is, or is n.
LEMMA BelowParent ==
  ASSUME NEW m \in Seq(Nat), NEW n \in Seq(Nat), NEW p \in Seq(Nat), Child(m, p)
  PROVE  Below(m, n) <=> p = n \/ Below(p, n)
<1>1. Len(m) = Len(p) + 1 /\ \A k \in 1..Len(p) : p[k] = m[k]
  BY StrictPrefixAt DEF Child
<1>2. p = n => Below(m, n)
  BY <1>1 DEF Below
<1>3. Below(p, n) => Below(m, n)
  BY <1>1 DEF Below
<1>4. ASSUME Below(m, n), p # n PROVE Below(p, n)
  <2>1. Len(n) <= Len(p) /\ \A k \in 1..Len(n) : n[k] = p[k]
    BY <1>1, <1>4 DEF Below
  <2>2. ASSUME Len(n) = Len(p) PROVE n = p
    <3>1. n \in [1..Len(n) -> Nat] /\ p \in [1..Len(n) -> Nat]
      BY <2>2
    <3> QED
      BY <3>1, <2>1
  <2> QED
    BY <2>1, <2>2, <1>4 DEF Below
<1> QED
  BY <1>2, <1>3, <1>4

\* A node below n is below a child of n, or is one.
LEMMA ChildAbove ==
  ASSUME NEW n \in Seq(Nat), NEW x \in Seq(Nat), Below(x, n)
  PROVE  LET c == SubSeq(x, 1, Len(n) + 1) IN
         /\ Len(n) + 1 \in 1..Len(x)
         /\ c \in Seq(Nat) /\ Child(c, n)
         /\ c = x \/ Below(x, c)
<1> DEFINE c == SubSeq(x, 1, Len(n) + 1)
<1>1. Len(n) \in Nat /\ Len(n) < Len(x) /\ \A k \in 1..Len(n) : n[k] = x[k]
  BY DEF Below
<1>2. Len(n) + 1 \in 1..Len(x)
  BY <1>1
<1>3. c \in Seq(Nat) /\ Len(c) = Len(n) + 1 /\ \A k \in 1..(Len(n) + 1) : c[k] = x[k]
  BY <1>1
<1> HIDE DEF c
<1>4. Child(c, n)
  <2>3. Len(n) < Len(c)
    BY <1>1, <1>3
  <2>4. ASSUME NEW k \in 1..Len(n) PROVE n[k] = c[k]
    <3>1. k \in 1..(Len(n) + 1)
      BY <1>1
    <3> QED
      BY <3>1, <1>1, <1>3
  <2>1. Len(n) < Len(c) /\ \A k \in 1..Len(n) : n[k] = c[k]
    BY <2>3, <2>4
  <2>2. IsStrictPrefix(n, c)
    BY <2>1, <1>3, StrictPrefixAt
  <2> QED
    BY <2>2, <1>3 DEF Child
<1>5. c = x \/ Below(x, c)
  <2>1. CASE Len(x) = Len(n) + 1
    BY <1>3, <2>1
  <2>2. CASE Len(x) # Len(n) + 1
    BY <1>1, <1>3, <2>2 DEF Below
  <2> QED
    BY <2>1, <2>2
<1> QED
  BY <1>2, <1>3, <1>4, <1>5 DEF c

\* In the resources of the server: parents are there, and what is below a node
\* makes it a node with children.
LEMMA DbFacts ==
  ASSUME TableType
  PROVE  /\ \A m \in Resources : m \in Seq(Nat) /\ m # <<>> /\ Len(m) > 0
         /\ IsFiniteSet(db)
         /\ \A m \in db : Len(m) > 1 => Front(m) \in db
         /\ \A n \in Resources : \A x \in db : Below(x, n) =>
              \E c \in db : Child(c, n) /\ (c = x \/ Below(x, c))
<1>1. \A m \in Resources : m \in Seq(Nat) /\ m # <<>> /\ Len(m) > 0
  BY TreeAssumption
<1>2. IsFiniteSet(db)
  BY TreeAssumption, FS_Subset DEF TableType
<1>3. ASSUME NEW m \in db, Len(m) > 1 PROVE Front(m) \in db
  <2>1. m \in Seq(Nat) /\ Len(m) - 1 \in 1..Len(m)
    BY <1>1, <1>3 DEF TableType
  <2> QED
    BY <2>1 DEF TableType, Front
<1>4. ASSUME NEW n \in Resources, NEW x \in db, Below(x, n)
      PROVE  \E c \in db : Child(c, n) /\ (c = x \/ Below(x, c))
  <2>1. n \in Seq(Nat) /\ x \in Seq(Nat)
    BY <1>1 DEF TableType
  <2>2. SubSeq(x, 1, Len(n) + 1) \in db
    BY <2>1, <1>4, ChildAbove DEF TableType
  <2> QED
    BY <2>1, <2>2, <1>4, ChildAbove
<1> QED
  BY <1>1, <1>2, <1>3, <1>4

\* The parent of a node that is not on the first level.
LEMMA ParentInDb ==
  ASSUME TableType, NEW m \in db, Len(m) # 1
  PROVE  LET p == Front(m) IN
         p \in db /\ p \in Resources /\ p \in Seq(Nat) /\ p # <<>> /\ Child(m, p)
<1>1. m \in Seq(Nat) /\ Len(m) \in Nat /\ Len(m) > 0
  <2>1. m \in Resources
    BY DEF TableType
  <2> QED
    BY <2>1, DbFacts
<1>2. Len(m) > 1
  <2> DEFINE k == Len(m)
  <2>1. k \in Nat /\ k > 0 /\ k # 1
    BY <1>1
  <2> HIDE DEF k
  <2>2. k > 1
    BY <2>1
  <2> QED
    BY <2>2 DEF k
<1>3. Front(m) \in db
  BY <1>2, DbFacts
<1>4. Front(m) \in Resources
  BY <1>3 DEF TableType
<1>5. Front(m) \in Seq(Nat) /\ Front(m) # <<>>
  BY <1>4, DbFacts
<1> QED
  BY <1>1, <1>2, <1>3, <1>4, <1>5, FrontChild

\* The index that a click reads is that of the row.
LEMMA IndexRead ==
  ASSUME rows \in Seq(Resources), RowsOnce, NEW n, Shown(n)
  PROVE  LET i == SelectInSeq(rows, LAMBDA m : m = n) IN i \in 1..Len(rows) /\ rows[i] = n
<1> DEFINE I == {i \in 1..Len(rows) : rows[i] = n}
<1>1. I # {} /\ I \subseteq Nat /\ \A x, y \in I : x = y
  BY ShownAt DEF RowsOnce
<1>2. SelectInSeq(rows, LAMBDA m : m = n) = Min(I)
  BY <1>1 DEF SelectInSeq
<1>3. \E x \in I : \A y \in I : x <= y
  BY <1>1
<1>4. Min(I) \in I
  BY <1>3 DEF Min
<1> QED
  BY <1>2, <1>4

\* The first level, in the order of find.json, with all forks closed.
LEMMA TableInitInv ==
  ASSUME TableInit
  PROVE  TableInv
<1>1. db = Resources /\ rows = FindChildren(<<>>) /\ requests = {} /\ overlap = {}
  BY DEF TableInit
<1>2. db \in SUBSET Seq(Nat) /\ IsFiniteSet(db) /\ \A m \in Resources : m \in Seq(Nat) /\ Len(m) > 0
  BY <1>1, TreeAssumption
<1> DEFINE e == <<>>
<1>3. e \in Seq(Nat) /\ Len(e) = 0
  OBVIOUS
<1> HIDE DEF e
<1>4. rows = FindChildren(e)
  BY <1>1 DEF e
<1>5. /\ rows \in Seq(db)
      /\ \A k \in 1..Len(rows) : Child(rows[k], e)
      /\ \A m \in db : Child(m, e) => \E k \in 1..Len(rows) : rows[k] = m
      /\ RowsInOrder
  BY <1>2, <1>3, <1>4, FindChildrenLists DEF RowsInOrder
<1>6. rows \in Seq(Resources)
  BY <1>1, <1>5
<1>7. \A m \in Resources : Child(m, e) <=> Len(m) = 1
  <2> TAKE m \in Resources
  <2>1. m \in Seq(Nat) /\ Len(m) > 0
    BY <1>2
  <2>3. Len(e) < Len(m) /\ \A k \in 1..Len(e) : e[k] = m[k]
    BY <1>3, <2>1
  <2>2. IsStrictPrefix(e, m)
    BY <1>3, <2>1, <2>3, StrictPrefixAt
  <2> QED
    BY <1>3, <2>1, <2>2 DEF Child
<1>8. \A n \in Resources : /\ fork[n] = IF HasChildren(n) THEN "close" ELSE "none"
                           /\ loaded[n] = ~HasChildren(n)
  BY DEF TableInit
<1>9. TableType
  <2>1. fork \in [Resources -> {"none", "close", "open"}]
    BY DEF TableInit
  <2>2. loaded \in [Resources -> BOOLEAN]
    BY DEF TableInit
  <2>3. requests \in SUBSET [op : {"expand", "delete"}, by : {"user", "timer"}, node : Resources, index : Nat]
    BY <1>1
  <2>4. \A m \in db : \A k \in 1..Len(m) : SubSeq(m, 1, k) \in db
    BY <1>1, TreeAssumption
  <2> QED
    BY <1>1, <1>6, <2>1, <2>2, <2>3, <2>4 DEF TableType
<1>10. \A m \in Resources : Shown(m) <=> Len(m) = 1
  BY <1>1, <1>5, <1>6, <1>7, ShownAt
<1>11. RowsShown
  <2> SUFFICES ASSUME NEW m \in Resources, Len(m) # 1, Shown(Front(m)), fork[Front(m)] = "open"
               PROVE  FALSE
    BY <1>1, <1>10 DEF RowsShown
  <2>1. Front(m) \in Resources
    BY <1>6, ShownAt
  <2> QED
    BY <2>1, <1>8
<1>15. RowsAbove
  <2> SUFFICES ASSUME NEW x \in Resources, NEW n \in Resources, Shown(x), Below(x, n)
               PROVE  FALSE
    BY DEF RowsAbove
  <2>1. x \in Seq(Nat) /\ n \in Seq(Nat) /\ Len(n) > 0 /\ Len(x) = 1
    BY <1>2, <1>10
  <2> QED
    BY <2>1 DEF Below
<1>12. RowsOnce
  <2> SUFFICES ASSUME NEW i \in 1..Len(rows), NEW j \in 1..Len(rows), rows[i] = rows[j], i < j
               PROVE  FALSE
    BY <1>6 DEF RowsOnce
  <2>1. Precedes(rows[i], rows[i])
    BY <1>5 DEF RowsInOrder
  <2>2. rows[i] \in Seq(Nat)
    BY <1>2, <1>6
  <2> QED
    BY <2>1, <2>2, PrecedesNotItself
<1>13. ForksLoaded /\ ForksNeeded
  BY <1>8 DEF ForksLoaded, ForksNeeded
<1>14. RequestsPending /\ IndexRight
  BY <1>1 DEF RequestsPending, IndexRight
<1> QED
  BY <1>5, <1>9, <1>11, <1>12, <1>13, <1>14, <1>15 DEF TableInv, TableCore

\* A click that sends a request: the row is there, and no other request is for it.
LEMMA InvokeStep ==
  ASSUME TableCore, overlap' \subseteq {"two"},
         NEW oper \in {"expand", "delete"}, NEW by \in {"user", "timer"}, NEW n \in Resources,
         Shown(n), oper = "expand" => fork[n] = "close",
         Submit(oper, by, n),
         db' = db, rows' = rows, fork' = fork, loaded' = loaded
  PROVE  TableCore'
<1>1. TableType /\ RowsShown /\ RowsAbove /\ RowsOnce /\ ForksLoaded /\ RequestsPending
  BY DEF TableCore
<1>2. rows \in Seq(Resources) /\ Len(rows) \in Nat
  BY <1>1 DEF TableType
<1>3. PICK i \in 1..Len(rows) :
        /\ rows[i] = n
        /\ requests' = requests \cup {[op |-> oper, by |-> by, node |-> n, index |-> i - 1]}
        /\ overlap' = overlap \cup Overlap(oper, n)
  BY <1>1, <1>2, IndexRead DEF Submit
<1>11. i - 1 \in Nat /\ i - 1 < Len(rows) /\ (i - 1) + 1 = i
  BY <1>2
<1> DEFINE q0 == [op |-> oper, by |-> by, node |-> n, index |-> i - 1]
<1>4. /\ q0 \in [op : {"expand", "delete"}, by : {"user", "timer"}, node : Resources, index : Nat]
      /\ q0.op = oper /\ q0.node = n /\ q0.index = i - 1
      /\ requests' = requests \cup {q0}
  BY <1>3, <1>11
<1> HIDE DEF q0
<1>5. ASSUME NEW q \in requests
      PROVE  overlap' # {} /\ oper = "expand" /\ q.op = "expand" /\ q.node # n
  <2> DEFINE o == IF oper = "delete" \/ q.op = "delete" THEN "delete"
                  ELSE IF q.node = n THEN "one" ELSE "two"
  <2>1. o \in Overlap(oper, n)
    BY DEF Overlap
  <2>2. o \in overlap' /\ o = "two"
    BY <1>3, <2>1
  <2>3. q.op \in {"expand", "delete"}
    BY <1>1 DEF TableType
  <2> QED
    BY <2>2, <2>3
<1>6. TableType'
  BY <1>1, <1>4 DEF TableType
<1>7. \A m : Shown(m)' <=> Shown(m)
  BY ShownAt, ShownAtPrime
<1>8. RowsShown' /\ RowsOnce' /\ ForksLoaded'
  BY <1>1, <1>7 DEF RowsShown, RowsOnce, ForksLoaded, HasChildren
<1>12. RowsAbove'
  BY <1>1, <1>7 DEF RowsAbove
<1>9. RequestsPending'
  <2>1. Shown(n)' /\ q0.index < Len(rows) /\ (oper = "expand" => fork[n] = "close")
    BY <1>4, <1>7, <1>11
  <2>2. oper = "delete" => requests' = {q0}
    BY <1>4, <1>5
  <2>3. \A q \in requests : /\ Shown(q.node)' /\ q.index < Len(rows)
                            /\ q.op = "expand" => fork[q.node] = "close"
                            /\ q.op # "delete" /\ q.node # n
    BY <1>1, <1>5, <1>7 DEF RequestsPending
  <2> QED
    BY <1>1, <1>4, <2>1, <2>2, <2>3 DEF RequestsPending
<1>10. ASSUME overlap' = {}
       PROVE  RowsInOrder' /\ IndexRight' /\ ForksNeeded'
  <2>1. overlap = {} /\ requests = {} /\ requests' = {q0}
    BY <1>3, <1>4, <1>5, <1>10
  <2>2. RowsInOrder /\ ForksNeeded
    BY <2>1 DEF TableCore
  <2>3. IndexRight'
    BY <1>3, <1>4, <1>11, <2>1 DEF IndexRight
  <2> QED
    BY <1>7, <2>2, <2>3 DEF RowsInOrder, ForksNeeded, HasChildren
<1> QED
  BY <1>6, <1>8, <1>9, <1>10, <1>12 DEF TableCore

\* A click that closes a fork takes away the rows below it.
LEMMA CollapseStep ==
  ASSUME TableCore, NEW n \in Resources, Shown(n), fork[n] = "open",
         Collapse(n), requests = {}, db' = db
  PROVE  TableCore'
<1> DEFINE I == {i \in 1..Len(rows) : ~IsStrictPrefix(n, rows[i])}
<1>1. TableType /\ RowsShown /\ RowsAbove /\ RowsOnce /\ ForksLoaded
  BY DEF TableCore
<1>2. rows \in Seq(Resources) /\ Len(rows) \in Nat /\ \A i \in 1..Len(rows) : rows[i] \in Resources
  BY <1>1 DEF TableType
<1>3. \A m \in Resources : m \in Seq(Nat) /\ m # <<>> /\ Len(m) > 0
  BY <1>1, DbFacts
<1>4. /\ rows' = RowsAt(I)
      /\ fork' = [fork EXCEPT ![n] = "close"] /\ loaded' = [loaded EXCEPT ![n] = FALSE]
      /\ requests' = {} /\ overlap' = overlap
  BY DEF Collapse
<1>5. I \in SUBSET (1..Len(rows)) /\ \A i \in 1..Len(rows) : i \in I <=> ~Below(rows[i], n)
  BY <1>2, <1>3, StrictPrefixAt DEF Below
<1> HIDE DEF I
<1>6. rows' \in Seq(Resources)
  BY <1>2, <1>4, <1>5, RowsAtKeeps
<1>7. PICK f \in [1..Len(rows') -> I] :
        /\ \A k \in 1..Len(rows') : rows'[k] = rows[f[k]]
        /\ \A j, k \in 1..Len(rows') : j < k => f[j] < f[k]
        /\ \A i \in I : \E k \in 1..Len(rows') : f[k] = i
  <2> DEFINE r == RowsAt(I)
  <2>1. \E f \in [1..Len(r) -> I] :
          /\ \A k \in 1..Len(r) : r[k] = rows[f[k]]
          /\ \A j, k \in 1..Len(r) : j < k => f[j] < f[k]
          /\ \A i \in I : \E k \in 1..Len(r) : f[k] = i
    BY <1>2, <1>5, RowsAtKeeps
  <2>2. rows' = r
    BY <1>4
  <2> HIDE DEF r
  <2> QED
    BY <2>1, <2>2
<1>8. \A k \in 1..Len(rows') : f[k] \in I /\ f[k] \in 1..Len(rows)
  BY <1>5, <1>7
<1>9. \A m \in Resources : Shown(m)' <=> Shown(m) /\ ~Below(m, n)
  <2> TAKE m \in Resources
  <2>1. ASSUME Shown(m)' PROVE Shown(m) /\ ~Below(m, n)
    <3>1. PICK k \in 1..Len(rows') : rows'[k] = m
      BY <2>1, ShownAtPrime
    <3>2. f[k] \in I /\ f[k] \in 1..Len(rows) /\ rows[f[k]] = m
      BY <3>1, <1>7, <1>8
    <3> QED
      BY <3>2, <1>5, ShownAt
  <2>2. ASSUME Shown(m), ~Below(m, n) PROVE Shown(m)'
    <3>1. PICK i \in 1..Len(rows) : rows[i] = m
      BY <2>2, ShownAt
    <3>2. PICK k \in 1..Len(rows') : f[k] = i
      BY <3>1, <2>2, <1>5, <1>7
    <3> QED
      BY <3>1, <3>2, <1>7, ShownAtPrime
  <2> QED
    BY <2>1, <2>2
<1>10. /\ fork' \in [Resources -> {"none", "close", "open"}] /\ fork'[n] = "close"
       /\ \A m \in Resources \ {n} : fork'[m] = fork[m]
  BY <1>1, <1>4 DEF TableType
<1>11. /\ loaded' \in [Resources -> BOOLEAN] /\ loaded'[n] = FALSE
       /\ \A m \in Resources \ {n} : loaded'[m] = loaded[m]
  BY <1>1, <1>4 DEF TableType
<1>12. TableType'
  BY <1>1, <1>4, <1>6, <1>10, <1>11 DEF TableType
<1>13. RowsShown'
  <2> SUFFICES ASSUME NEW m \in Resources
               PROVE  Shown(m)' <=>
                        /\ m \in db
                        /\ Len(m) = 1 \/ (Shown(Front(m))' /\ fork'[Front(m)] = "open")
    BY DEF RowsShown
  <2>1. m \in Seq(Nat) /\ n \in Seq(Nat) /\ Len(m) > 0 /\ Len(n) > 0
    BY <1>3
  <2>2. CASE Len(m) = 1
    <3>1. ~Below(m, n)
      BY <2>1, <2>2 DEF Below
    <3> QED
      BY <2>2, <3>1, <1>1, <1>9 DEF RowsShown
  <2>3. CASE Len(m) # 1 /\ m \in db
    <3> DEFINE p == Front(m)
    <3>1. p \in db /\ p \in Resources /\ p \in Seq(Nat) /\ Child(m, p)
      BY <2>3, <1>1, ParentInDb
    <3>3. Below(m, n) <=> p = n \/ Below(p, n)
      BY <3>1, <2>1, BelowParent
    <3>4. Shown(m) <=> Shown(p) /\ fork[p] = "open"
      BY <2>3, <1>1 DEF RowsShown
    <3>5. fork'[p] = "open" <=> p # n /\ fork[p] = "open"
      BY <3>1, <1>10
    <3> QED
      BY <2>3, <3>1, <3>3, <3>4, <3>5, <1>9
  <2>4. CASE m \notin db
    BY <2>4, <1>1, <1>9 DEF RowsShown
  <2> QED
    BY <2>2, <2>3, <2>4
<1>18. RowsAbove'
  <2> SUFFICES ASSUME NEW x \in Resources, NEW y \in Resources, Shown(x)', Below(x, y)
               PROVE  Shown(y)'
    BY DEF RowsAbove
  <2>1. Shown(x) /\ ~Below(x, n) /\ Shown(y)
    BY <1>1, <1>9 DEF RowsAbove
  <2>2. ~Below(y, n)
    BY <2>1, <1>3, BelowTransitive
  <2> QED
    BY <2>1, <2>2, <1>9
<1>14. RowsOnce'
  <2> SUFFICES ASSUME NEW j \in 1..Len(rows'), NEW k \in 1..Len(rows'), rows'[j] = rows'[k]
               PROVE  j = k
    BY DEF RowsOnce
  <2>1. f[j] = f[k]
    BY <1>1, <1>7, <1>8 DEF RowsOnce
  <2>2. f[j] \in Nat
    BY <1>2, <1>8
  <2> QED
    BY <2>1, <2>2, <1>6, <1>7
<1>15. ForksLoaded'
  BY <1>1, <1>9, <1>10, <1>11 DEF ForksLoaded, HasChildren
<1>16. RequestsPending' /\ IndexRight'
  BY <1>4 DEF RequestsPending, IndexRight
<1>17. ASSUME overlap' = {} PROVE RowsInOrder' /\ ForksNeeded'
  <2>1. RowsInOrder /\ ForksNeeded
    BY <1>4, <1>17 DEF TableCore
  <2>2. RowsInOrder'
    <3> SUFFICES ASSUME NEW j \in 1..Len(rows'), NEW k \in 1..Len(rows'), j < k
                 PROVE  Precedes(rows'[j], rows'[k])
      BY DEF RowsInOrder
    <3>1. f[j] < f[k] /\ f[j] \in 1..Len(rows) /\ f[k] \in 1..Len(rows)
      BY <1>7, <1>8
    <3> QED
      BY <3>1, <2>1, <1>7 DEF RowsInOrder
  <2>3. ForksNeeded'
    BY <2>1, <1>9, <1>10 DEF ForksNeeded, HasChildren
  <2> QED
    BY <2>2, <2>3
<1> QED
  BY <1>12, <1>13, <1>14, <1>15, <1>16, <1>17, <1>18 DEF TableCore

\* Below a closed fork there are no rows.
LEMMA NoRowsBelow ==
  ASSUME TableCore, NEW n \in Resources, fork[n] # "open", NEW x \in Resources, Shown(x)
  PROVE  ~Below(x, n)
<1> SUFFICES ASSUME Below(x, n) PROVE FALSE
  OBVIOUS
<1>1. TableType /\ RowsShown /\ RowsAbove
  BY DEF TableCore
<1>2. x \in db
  BY <1>1 DEF RowsShown
<1>3. PICK c \in db : Child(c, n) /\ (c = x \/ Below(x, c))
  BY <1>1, <1>2, DbFacts
<1>4. c \in Resources /\ c \in Seq(Nat) /\ n \in Seq(Nat) /\ n # <<>>
  BY <1>1, <1>3, DbFacts DEF TableType
<1>5. Shown(c)
  BY <1>1, <1>3, <1>4 DEF RowsAbove
<1>6. Len(c) > 1 /\ Front(c) = n
  BY <1>3, <1>4, FrontChild
<1>7. Len(c) # 1
  BY <1>4, <1>6, Deeper
<1> QED
  BY <1>1, <1>4, <1>5, <1>6, <1>7 DEF RowsShown

\* Where a row is after L rows have been inserted behind row i + 1.
LEMMA Positions ==
  ASSUME NEW M \in Nat, NEW L \in Nat, NEW i \in Nat, i < M, NEW k \in 1..(M + L)
  PROVE  \/ \E a \in 1..M : k = IF a <= i + 1 THEN a ELSE a + L
         \/ \E b \in 1..L : k = i + 1 + b
<1>1. CASE k <= i + 1
  <2>1. k \in 1..M
    BY <1>1
  <2> QED
    BY <1>1, <2>1
<1>2. CASE k > i + 1 /\ k <= i + 1 + L
  <2>1. k - i - 1 \in 1..L /\ k = i + 1 + (k - i - 1)
    BY <1>2
  <2> QED
    BY <2>1
<1>3. CASE k > i + 1 + L
  <2>1. k - L \in 1..M /\ k - L > i + 1 /\ k = (k - L) + L
    BY <1>3
  <2> QED
    BY <2>1
<1> QED
  BY <1>1, <1>2, <1>3

\* The rows after an answer: the old ones, and the children behind the row at the
\* index that the click has read.
LEMMA ExpandedRows ==
  ASSUME TableCore, NEW q \in requests, Expanded(q)
  PROVE  /\ rows' \in Seq(Resources) /\ Len(rows') >= Len(rows)
         /\ \A m \in Resources : Shown(m)' <=> Shown(m) \/ (m \in db /\ Child(m, q.node))
         /\ \A m \in db : Child(m, q.node) => ~Shown(m)
         /\ RowsOnce'
         /\ overlap = {} => RowsInOrder'
<1> DEFINE n == q.node
           i == q.index
           ns == FindChildren(n)
           L == Len(ns)
           M == Len(rows)
           Pos(a) == IF a <= i + 1 THEN a ELSE a + L
<1>1. TableType /\ RowsShown /\ RowsAbove /\ RowsOnce /\ RequestsPending
  BY DEF TableCore
<1>2. /\ rows \in Seq(Resources) /\ M \in Nat /\ \A a \in 1..M : rows[a] \in Resources
      /\ i \in Nat /\ n \in Resources /\ db \in SUBSET Resources
  BY <1>1 DEF TableType
<1>3. i < M /\ fork[n] = "close" /\ Shown(n)
  BY <1>1 DEF RequestsPending, Expanded
<1>4. (\A m \in Resources : m \in Seq(Nat) /\ m # <<>>) /\ IsFiniteSet(db) /\ db \in SUBSET Seq(Nat)
  BY <1>1, <1>2, DbFacts
<1>5. /\ ns \in Seq(db)
      /\ \A k \in 1..L : Child(ns[k], n)
      /\ \A m \in db : Child(m, n) => \E k \in 1..L : ns[k] = m
      /\ \A j, k \in 1..L : j < k => Precedes(ns[j], ns[k])
  BY <1>2, <1>4, FindChildrenLists
<1>6. ns \in Seq(Resources) /\ L \in Nat /\ \A k \in 1..L : ns[k] \in db /\ ns[k] \in Resources
  BY <1>2, <1>5
<1>7. rows' = SetData(rows, i, ns)
  BY DEF Expanded
<1> HIDE DEF n, i, ns, L, M
<1>8. /\ rows' \in Seq(Resources) /\ Len(rows') = M + L
      /\ \A k \in 1..(i + 1) : rows'[k] = rows[k]
      /\ \A k \in 1..L : rows'[i + 1 + k] = ns[k]
      /\ \A k \in (i + 2)..M : rows'[k + L] = rows[k]
  <2>1. rows \in Seq(Resources) /\ ns \in Seq(Resources) /\ i \in Nat /\ i < Len(rows)
    BY <1>2, <1>3, <1>6 DEF M
  <2> DEFINE t == SetData(rows, i, ns)
  <2>2. /\ t \in Seq(Resources) /\ Len(t) = Len(rows) + Len(ns)
        /\ \A k \in 1..(i + 1) : t[k] = rows[k]
        /\ \A k \in 1..Len(ns) : t[i + 1 + k] = ns[k]
        /\ \A k \in (i + 2)..Len(rows) : t[k + Len(ns)] = rows[k]
    BY <2>1, SetDataInserts
  <2>3. rows' = t
    BY <1>7
  <2> HIDE DEF t
  <2> QED
    BY <2>2, <2>3 DEF L, M
<1>9. \A a \in 1..M : Pos(a) \in 1..(M + L) /\ rows'[Pos(a)] = rows[a]
  <2> TAKE a \in 1..M
  <2>1. CASE a <= i + 1
    <3>1. a \in 1..(i + 1) /\ Pos(a) = a /\ a \in 1..(M + L)
      BY <1>2, <1>6, <2>1
    <3> QED
      BY <3>1, <1>8
  <2>2. CASE ~(a <= i + 1)
    <3>1. a \in (i + 2)..M /\ Pos(a) = a + L /\ a + L \in 1..(M + L)
      BY <1>2, <1>6, <2>2
    <3> QED
      BY <3>1, <1>8
  <2> QED
    BY <2>1, <2>2
<1>10. \A b \in 1..L : i + 1 + b \in 1..(M + L)
  BY <1>2, <1>3, <1>6
<1>11. \A k \in 1..(M + L) : (\E a \in 1..M : k = Pos(a)) \/ (\E b \in 1..L : k = i + 1 + b)
  BY <1>2, <1>3, <1>6, Positions
<1>12. ASSUME NEW m \in db, Child(m, n) PROVE ~Shown(m)
  <2>1. m \in Resources /\ m \in Seq(Nat) /\ n \in Seq(Nat) /\ n # <<>>
    BY <1>2, <1>4
  <2>2. Len(m) > 1 /\ Front(m) = n
    BY <2>1, <1>12, FrontChild
  <2>3. Len(m) # 1
    BY <2>1, <2>2, Deeper
  <2>4. Shown(m) => fork[Front(m)] = "open"
    BY <2>1, <2>3, <1>1 DEF RowsShown
  <2>5. fork[Front(m)] = "close"
    BY <2>2, <1>3
  <2> QED
    BY <2>4, <2>5
<1>13. ASSUME NEW m \in Resources
       PROVE  Shown(m)' <=> Shown(m) \/ (m \in db /\ Child(m, n))
  <2>1. ASSUME Shown(m)' PROVE Shown(m) \/ (m \in db /\ Child(m, n))
    <3>1. PICK k \in 1..(M + L) : rows'[k] = m
      BY <2>1, <1>8, ShownAtPrime
    <3>2. CASE \E a \in 1..M : k = Pos(a)
      BY <3>1, <3>2, <1>9, ShownAt DEF M
    <3>3. CASE \E b \in 1..L : k = i + 1 + b
      BY <3>1, <3>3, <1>5, <1>6, <1>8
    <3> QED
      BY <3>2, <3>3, <1>11
  <2>2. ASSUME Shown(m) PROVE Shown(m)'
    BY <2>2, <1>8, <1>9, ShownAt, ShownAtPrime DEF M
  <2>3. ASSUME m \in db, Child(m, n) PROVE Shown(m)'
    <3>1. PICK k \in 1..L : ns[k] = m
      BY <2>3, <1>5
    <3> QED
      BY <3>1, <1>8, <1>10, ShownAtPrime
  <2> QED
    BY <2>1, <2>2, <2>3
<1>14. \A a \in 1..M : \A b \in 1..L : rows[a] # ns[b]
  BY <1>5, <1>6, <1>12, ShownAt DEF M
<1>15. \A b, c \in 1..L : ns[b] = ns[c] => b = c
  <2> SUFFICES ASSUME NEW b \in 1..L, NEW c \in 1..L, ns[b] = ns[c], b < c
               PROVE  FALSE
    BY <1>6
  <2>1. Precedes(ns[b], ns[b]) /\ ns[b] \in Seq(Nat)
    BY <1>4, <1>5, <1>6
  <2> QED
    BY <2>1, PrecedesNotItself
<1>16. RowsOnce'
  <2> SUFFICES ASSUME NEW j \in 1..(M + L), NEW k \in 1..(M + L), rows'[j] = rows'[k]
               PROVE  j = k
    BY <1>8 DEF RowsOnce
  <2>1. CASE (\E a \in 1..M : j = Pos(a)) /\ (\E a \in 1..M : k = Pos(a))
    BY <2>1, <1>1, <1>9 DEF RowsOnce, M
  <2>2. CASE (\E a \in 1..M : j = Pos(a)) /\ (\E b \in 1..L : k = i + 1 + b)
    BY <2>2, <1>8, <1>9, <1>14
  <2>3. CASE (\E b \in 1..L : j = i + 1 + b) /\ (\E a \in 1..M : k = Pos(a))
    BY <2>3, <1>8, <1>9, <1>14
  <2>4. CASE (\E b \in 1..L : j = i + 1 + b) /\ (\E b \in 1..L : k = i + 1 + b)
    BY <2>4, <1>8, <1>15
  <2> QED
    BY <2>1, <2>2, <2>3, <2>4, <1>11
<1>17. ASSUME overlap = {} PROVE RowsInOrder'
  <2>1. RowsInOrder /\ rows[i + 1] = n /\ i + 1 \in 1..M
    BY <1>2, <1>3, <1>17 DEF TableCore, IndexRight, n, i
  <2>2. \A b \in 1..L : ns[b] \in Seq(Nat) /\ Below(ns[b], n) /\ n \in Seq(Nat)
    BY <1>2, <1>4, <1>5, <1>6, StrictPrefixAt DEF Below, Child
  <2>3. \A a \in 1..M : rows[a] \in Seq(Nat) /\ Shown(rows[a])
    BY <1>2, <1>4, ShownAt DEF M
  <2> SUFFICES ASSUME NEW j \in 1..(M + L), NEW k \in 1..(M + L), j < k
               PROVE  Precedes(rows'[j], rows'[k])
    BY <1>8 DEF RowsInOrder
  <2>4. CASE (\E a \in 1..M : j = Pos(a)) /\ (\E a \in 1..M : k = Pos(a))
    <3>1. PICK a \in 1..M, c \in 1..M : j = Pos(a) /\ k = Pos(c)
      BY <2>4
    <3>2. a < c
      BY <3>1, <1>2, <1>6
    <3>3. rows'[j] = rows[a] /\ rows'[k] = rows[c]
      BY <3>1, <1>9
    <3> QED
      BY <3>2, <3>3, <2>1 DEF RowsInOrder, M
  <2>5. CASE (\E a \in 1..M : j = Pos(a)) /\ (\E b \in 1..L : k = i + 1 + b)
    <3>1. PICK a \in 1..M, b \in 1..L : j = Pos(a) /\ k = i + 1 + b
      BY <2>5
    <3>2. a <= i + 1
      BY <3>1, <1>2, <1>6
    <3>3. rows'[j] = rows[a] /\ rows'[k] = ns[b]
      BY <3>1, <1>8, <1>9
    <3>4. CASE a = i + 1
      BY <3>3, <3>4, <2>1, <2>2, PrecedesAt
    <3>5. CASE a < i + 1
      <4>1. Precedes(rows[a], n)
        BY <3>5, <2>1 DEF RowsInOrder, M
      <4> QED
        BY <4>1, <3>3, <2>2, <2>3, BeforeBelow
    <3> QED
      BY <3>2, <3>4, <3>5, <1>2
  <2>6. CASE (\E b \in 1..L : j = i + 1 + b) /\ (\E a \in 1..M : k = Pos(a))
    <3>1. PICK b \in 1..L, a \in 1..M : j = i + 1 + b /\ k = Pos(a)
      BY <2>6
    <3>2. i + 1 < a
      BY <3>1, <1>2, <1>6
    <3>3. rows'[j] = ns[b] /\ rows'[k] = rows[a]
      BY <3>1, <1>8, <1>9
    <3>4. Precedes(n, rows[a])
      BY <3>2, <2>1 DEF RowsInOrder, M
    <3>5. ~Below(rows[a], n)
      BY <1>2, <1>3, <2>3, NoRowsBelow
    <3> QED
      BY <3>3, <3>4, <3>5, <2>2, <2>3, BehindBelow
  <2>7. CASE (\E b \in 1..L : j = i + 1 + b) /\ (\E b \in 1..L : k = i + 1 + b)
    <3>1. PICK b \in 1..L, c \in 1..L : j = i + 1 + b /\ k = i + 1 + c
      BY <2>7
    <3>2. b < c
      BY <3>1, <1>2, <1>6
    <3> QED
      BY <3>1, <3>2, <1>5, <1>8
  <2> QED
    BY <2>4, <2>5, <2>6, <2>7, <1>11
<1> QED
  BY <1>2, <1>6, <1>8, <1>12, <1>13, <1>16, <1>17 DEF n, M

\* The answer of an expansion.
LEMMA ExpandedStep ==
  ASSUME TableCore, NEW q \in requests, Expanded(q),
         requests' = requests \ {q}, overlap' = overlap
  PROVE  TableCore'
<1> DEFINE n == q.node
           ns == FindChildren(n)
<1>1. TableType /\ RowsShown /\ RowsAbove /\ RowsOnce /\ ForksLoaded /\ RequestsPending
  BY DEF TableCore
<1>2. n \in Resources /\ db \in SUBSET Resources /\ db' = db /\ fork[n] = "close" /\ Shown(n)
  BY <1>1 DEF TableType, RequestsPending, Expanded
<1>3. (\A m \in Resources : m \in Seq(Nat) /\ m # <<>>) /\ IsFiniteSet(db) /\ db \in SUBSET Seq(Nat)
  BY <1>1, <1>2, DbFacts
<1>4. \A m \in Resources : Contains(ns, m) <=> m \in db /\ Child(m, n)
  <2>1. /\ ns \in Seq(db)
        /\ \A k \in 1..Len(ns) : Child(ns[k], n)
        /\ \A m \in db : Child(m, n) => \E k \in 1..Len(ns) : ns[k] = m
    BY <1>2, <1>3, FindChildrenLists
  <2> HIDE DEF ns
  <2>2. \A k \in 1..Len(ns) : ns[k] \in db
    BY <2>1
  <2> QED
    BY <2>1, <2>2 DEF Contains
<1>5. /\ rows' \in Seq(Resources) /\ Len(rows') >= Len(rows)
      /\ \A m \in Resources : Shown(m)' <=> Shown(m) \/ (m \in db /\ Child(m, n))
      /\ \A m \in db : Child(m, n) => ~Shown(m)
      /\ RowsOnce'
      /\ overlap = {} => RowsInOrder'
  BY ExpandedRows
<1>6. /\ fork' = [m \in Resources |-> IF m = n THEN "open"
                                     ELSE IF ~Contains(ns, m) THEN fork[m]
                                     ELSE IF HasChildren(m) THEN "close" ELSE "none"]
      /\ loaded' = [m \in Resources |-> IF m = n THEN TRUE
                                       ELSE IF Contains(ns, m) THEN ~HasChildren(m) ELSE loaded[m]]
  BY DEF Expanded
<1> HIDE DEF ns, n
<1>7. ~Child(n, n)
  BY <1>2, <1>3 DEF Child
<1>8. /\ fork'[n] = "open" /\ loaded'[n] = TRUE
      /\ \A m \in Resources : m \in db /\ Child(m, n) =>
           /\ fork'[m] = (IF HasChildren(m) THEN "close" ELSE "none")
           /\ loaded'[m] = ~HasChildren(m)
      /\ \A m \in Resources : Shown(m) /\ m # n => fork'[m] = fork[m] /\ loaded'[m] = loaded[m]
  BY <1>2, <1>4, <1>5, <1>6, <1>7
<1>9. TableType'
  <2>1. fork' \in [Resources -> {"none", "close", "open"}]
    BY <1>1, <1>6 DEF TableType
  <2>2. loaded' \in [Resources -> BOOLEAN]
    BY <1>1, <1>6 DEF TableType
  <2> QED
    BY <1>1, <1>2, <1>5, <2>1, <2>2 DEF TableType
<1>10. RowsShown'
  <2> SUFFICES ASSUME NEW m \in Resources
               PROVE  Shown(m)' <=>
                        /\ m \in db
                        /\ Len(m) = 1 \/ (Shown(Front(m))' /\ fork'[Front(m)] = "open")
    BY <1>2 DEF RowsShown
  <2>1. CASE m \notin db
    BY <2>1, <1>1, <1>5 DEF RowsShown
  <2>2. CASE m \in db /\ Len(m) = 1
    BY <2>2, <1>1, <1>5 DEF RowsShown
  <2>3. CASE m \in db /\ Len(m) # 1
    <3> DEFINE p == Front(m)
    <3>1. p \in db /\ p \in Resources /\ p \in Seq(Nat) /\ p # <<>> /\ Child(m, p)
      BY <2>3, <1>1, ParentInDb
    <3>2. Shown(m) <=> Shown(p) /\ fork[p] = "open"
      BY <2>3, <1>1 DEF RowsShown
    <3>3. Child(m, n) <=> p = n
      <4>1. m \in Seq(Nat) /\ n \in Seq(Nat) /\ n # <<>>
        BY <1>2, <1>3
      <4> QED
        BY <4>1, <3>1, FrontChild
    <3>4. CASE p = n
      BY <2>3, <3>3, <3>4, <1>2, <1>5, <1>8
    <3>5. CASE p # n /\ Shown(p)
      BY <2>3, <3>1, <3>2, <3>3, <3>5, <1>5, <1>8
    <3>6. CASE p # n /\ ~Shown(p)
      <4>1. ~Shown(m)'
        BY <2>3, <3>2, <3>3, <3>6, <1>5
      <4>2. Shown(p)' => fork'[p] # "open"
        BY <3>1, <3>6, <1>5, <1>8
      <4> QED
        BY <2>3, <4>1, <4>2
    <3> QED
      BY <3>4, <3>5, <3>6
  <2> QED
    BY <2>1, <2>2, <2>3
<1>11. RowsAbove'
  <2> SUFFICES ASSUME NEW x \in Resources, NEW y \in Resources, Shown(x)', Below(x, y)
               PROVE  Shown(y)'
    BY DEF RowsAbove
  <2>1. CASE Shown(x)
    BY <2>1, <1>1, <1>5 DEF RowsAbove
  <2>2. CASE Child(x, n)
    <3>1. n = y \/ Below(n, y)
      BY <2>2, <1>2, <1>3, BelowParent
    <3> QED
      BY <3>1, <1>1, <1>2, <1>5 DEF RowsAbove
  <2> QED
    BY <2>1, <2>2, <1>5
<1>12. ForksLoaded'
  <2> SUFFICES ASSUME NEW m \in Resources, Shown(m)'
               PROVE  /\ fork'[m] = "close" <=> ~loaded'[m]
                      /\ fork'[m] = "none" => ~HasChildren(m)'
    BY DEF ForksLoaded
  <2>1. HasChildren(m)' <=> HasChildren(m)
    BY <1>2 DEF HasChildren
  <2>2. CASE m = n
    BY <2>2, <1>8
  <2>3. CASE m # n /\ Shown(m)
    BY <2>1, <2>3, <1>1, <1>8 DEF ForksLoaded
  <2>4. CASE m \in db /\ Child(m, n)
    BY <2>1, <2>4, <1>8
  <2> QED
    BY <2>2, <2>3, <2>4, <1>5
<1>13. RequestsPending'
  <2>1. ASSUME NEW r \in requests', TRUE
        PROVE  /\ Shown(r.node)' /\ r.index < Len(rows')
               /\ r.op = "expand" => fork'[r.node] = "close"
               /\ r.op = "delete" => requests' = {r}
    <3>1. r \in requests /\ r # q /\ r.node \in Resources /\ r.index \in Nat /\ r.node # n
      BY <1>1 DEF TableType, RequestsPending, n
    <3>2. Shown(r.node) /\ r.index < Len(rows) /\ (r.op = "expand" => fork[r.node] = "close") /\ r.op # "delete"
      BY <1>1, <3>1 DEF RequestsPending
    <3>3. r.index < Len(rows')
      <4>1. Len(rows) \in Nat /\ Len(rows') \in Nat /\ r.index \in Nat
        BY <1>1, <1>5, <3>1 DEF TableType
      <4> QED
        BY <4>1, <3>2, <1>5
    <3> QED
      BY <3>1, <3>2, <3>3, <1>5, <1>8
  <2>2. \A r, t \in requests' : r.node = t.node => r = t
    BY <1>1 DEF RequestsPending
  <2> QED
    BY <2>1, <2>2 DEF RequestsPending
<1>14. ASSUME overlap' = {} PROVE RowsInOrder' /\ IndexRight' /\ ForksNeeded'
  <2>1. RowsInOrder' /\ IndexRight /\ ForksNeeded
    BY <1>5, <1>14 DEF TableCore
  <2>2. requests' = {}
    BY <2>1 DEF IndexRight
  <2>3. ForksNeeded'
    <3> SUFFICES ASSUME NEW m \in Resources, Shown(m)', fork'[m] # "none"
                 PROVE  HasChildren(m)
      BY <1>2 DEF ForksNeeded, HasChildren
    <3>1. CASE m = n
      BY <3>1, <2>1, <1>2 DEF ForksNeeded
    <3>2. CASE m # n /\ Shown(m)
      BY <3>2, <2>1, <1>8 DEF ForksNeeded
    <3>3. CASE m \in db /\ Child(m, n)
      BY <3>3, <1>8
    <3> QED
      BY <3>1, <3>2, <3>3, <1>5
  <2> QED
    BY <2>1, <2>2, <2>3 DEF IndexRight
<1> QED
  BY <1>5, <1>9, <1>10, <1>11, <1>12, <1>13, <1>14 DEF TableCore

\* A node does not come before those above it.
LEMMA NotBeforeAbove ==
  ASSUME NEW c \in Seq(Nat), NEW n \in Seq(Nat), Below(c, n)
  PROVE  ~Precedes(c, n)
<1>1. ~Below(n, c)
  BY DEF Below
<1>2. ASSUME Before(c, n) PROVE FALSE
  <2>1. PICK k \in 1..Len(c) : k <= Len(n) /\ c[k] < n[k]
    BY <1>2 DEF Before
  <2>2. c[k] = n[k] /\ n[k] \in Nat
    BY <2>1 DEF Below
  <2> QED
    BY <2>1, <2>2
<1> QED
  BY <1>1, <1>2, PrecedesAt

\* RemoveAt takes one row away.
LEMMA RemoveAtRemoves ==
  ASSUME NEW S, NEW rs \in Seq(S), NEW i \in 1..Len(rs)
  PROVE  LET t == RemoveAt(rs, i) IN
         /\ t \in Seq(S) /\ Len(t) = Len(rs) - 1
         /\ \A k \in 1..(i - 1) : t[k] = rs[k]
         /\ \A k \in i..(Len(rs) - 1) : t[k] = rs[k + 1]
<1> DEFINE a == SubSeq(rs, 1, i - 1)
           b == SubSeq(rs, i + 1, Len(rs))
           t == RemoveAt(rs, i)
<1>1. a \in Seq(S) /\ Len(a) = i - 1 /\ \A k \in 1..(i - 1) : a[k] = rs[k]
  OBVIOUS
<1>2. b \in Seq(S) /\ Len(b) = Len(rs) - i /\ \A k \in 1..Len(b) : b[k] = rs[i + k]
  OBVIOUS
<1>3. t = a \o b
  BY DEF RemoveAt
<1>4. Len(rs) \in Nat /\ i \in Nat
  OBVIOUS
<1> HIDE DEF a, b, t
<1>5. a \in Seq(S) /\ b \in Seq(S)
  BY <1>1, <1>2
<1>6. /\ t \in Seq(S) /\ Len(t) = Len(a) + Len(b)
      /\ \A k \in 1..Len(a) : t[k] = a[k]
      /\ \A k \in 1..Len(b) : t[Len(a) + k] = b[k]
  BY <1>3, <1>5
<1>7. Len(t) = Len(rs) - 1
  BY <1>1, <1>2, <1>4, <1>6
<1>8. \A k \in 1..(i - 1) : t[k] = rs[k]
  BY <1>1, <1>6
<1>9. ASSUME NEW k \in i..(Len(rs) - 1) PROVE t[k] = rs[k + 1]
  <2>1. k - (i - 1) \in 1..Len(b) /\ Len(a) + (k - (i - 1)) = k /\ i + (k - (i - 1)) = k + 1
    BY <1>1, <1>2, <1>4
  <2>2. t[Len(a) + (k - (i - 1))] = b[k - (i - 1)] /\ b[k - (i - 1)] = rs[i + (k - (i - 1))]
    BY <2>1, <1>2, <1>6
  <2> QED
    BY <2>1, <2>2
<1> QED
  BY <1>6, <1>7, <1>8, <1>9 DEF t

\* The table after a deletion, and the fork of the row above.
LEMMA DeletedRows ==
  ASSUME TableCore, NEW q \in requests, Deleted(q)
  PROVE  /\ rows' \in Seq(Resources)
         /\ \A m \in Resources : Shown(m)' <=> Shown(m) /\ m # q.node
         /\ RowsOnce'
         /\ overlap = {} => RowsInOrder'
         /\ fork' \in [Resources -> {"none", "close", "open"}]
         /\ \E i \in 1..Len(rows) :
              /\ rows[i] = q.node
              /\ LET Alone == i > 1 /\ \A x \in Resources : Shown(x)' => ~Below(x, rows[i - 1]) IN
                 /\ \A m \in Resources : \/ fork'[m] = fork[m]
                                         \/ Alone /\ m = rows[i - 1] /\ fork[m] = "open" /\ fork'[m] = "none"
                 /\ Alone => fork'[rows[i - 1]] # "open"
<1> DEFINE n == q.node
           M == Len(rows)
<1>1. TableType /\ RowsShown /\ RowsOnce /\ RequestsPending
  BY DEF TableCore
<1>2. /\ rows \in Seq(Resources) /\ M \in Nat /\ \A a \in 1..M : rows[a] \in Resources
      /\ n \in Resources /\ Shown(n)
      /\ \A m \in Resources : m \in Seq(Nat)
  BY <1>1, DbFacts DEF TableType, RequestsPending
<1>3. PICK i \in 1..M : rows[i] = n /\ rows' = RemoveAt(rows, i) /\ CloseFork(i, rows')
  <2>1. LET i == SelectInSeq(rows, LAMBDA m : m = n) IN i \in 1..M /\ rows[i] = n
    BY <1>1, <1>2, IndexRead
  <2> QED
    BY <2>1 DEF Deleted
<1> DEFINE f(k) == IF k < i THEN k ELSE k + 1
<1> HIDE DEF n, M
<1>4. /\ rows' \in Seq(Resources) /\ Len(rows') = M - 1
      /\ \A k \in 1..(i - 1) : rows'[k] = rows[k]
      /\ \A k \in i..(M - 1) : rows'[k] = rows[k + 1]
  BY <1>2, <1>3, RemoveAtRemoves DEF M
<1>5. \A k \in 1..(M - 1) : f(k) \in 1..M /\ f(k) # i /\ rows'[k] = rows[f(k)]
  <2> TAKE k \in 1..(M - 1)
  <2>1. CASE k < i
    <3>1. k \in 1..(i - 1) /\ f(k) = k /\ k \in 1..M /\ k # i
      BY <1>2, <2>1
    <3> QED
      BY <3>1, <1>4
  <2>2. CASE ~(k < i)
    <3>1. k \in i..(M - 1) /\ f(k) = k + 1 /\ k + 1 \in 1..M /\ k + 1 # i
      BY <1>2, <2>2
    <3> QED
      BY <3>1, <1>4
  <2> QED
    BY <2>1, <2>2
<1>6. \A j, k \in 1..(M - 1) : (f(j) = f(k) => j = k) /\ (j < k => f(j) < f(k))
  BY <1>2
<1>7. \A a \in 1..M : a # i => \E k \in 1..(M - 1) : f(k) = a
  <2> SUFFICES ASSUME NEW a \in 1..M, a # i PROVE \E k \in 1..(M - 1) : f(k) = a
    OBVIOUS
  <2>1. CASE a < i
    <3>1. a \in 1..(M - 1) /\ f(a) = a
      BY <1>2, <2>1
    <3> QED
      BY <3>1
  <2>2. CASE a > i
    <3>1. a - 1 \in 1..(M - 1) /\ f(a - 1) = a
      BY <1>2, <2>2
    <3> QED
      BY <3>1
  <2> QED
    BY <1>2, <2>1, <2>2
<1> HIDE DEF f
<1>8. ASSUME NEW m \in Resources PROVE Shown(m)' <=> Shown(m) /\ m # n
  <2>1. ASSUME Shown(m)' PROVE Shown(m) /\ m # n
    <3>1. PICK k \in 1..(M - 1) : rows'[k] = m
      BY <2>1, <1>4, ShownAtPrime
    <3>2. f(k) \in 1..M /\ f(k) # i /\ rows[f(k)] = m
      BY <3>1, <1>5
    <3> QED
      BY <3>2, <1>1, <1>3, ShownAt DEF RowsOnce, M
  <2>2. ASSUME Shown(m), m # n PROVE Shown(m)'
    <3>1. PICK a \in 1..M : rows[a] = m
      BY <2>2, ShownAt DEF M
    <3>2. PICK k \in 1..(M - 1) : f(k) = a
      BY <3>1, <2>2, <1>3, <1>7
    <3> QED
      BY <3>1, <3>2, <1>4, <1>5, ShownAtPrime
  <2> QED
    BY <2>1, <2>2
<1>9. RowsOnce'
  <2> SUFFICES ASSUME NEW j \in 1..(M - 1), NEW k \in 1..(M - 1), rows'[j] = rows'[k]
               PROVE  j = k
    BY <1>4 DEF RowsOnce
  <2>1. f(j) = f(k)
    BY <1>1, <1>5 DEF RowsOnce, M
  <2> QED
    BY <2>1, <1>6
<1>10. ASSUME overlap = {} PROVE RowsInOrder'
  <2> SUFFICES ASSUME NEW j \in 1..(M - 1), NEW k \in 1..(M - 1), j < k
               PROVE  Precedes(rows'[j], rows'[k])
    BY <1>4 DEF RowsInOrder
  <2>1. f(j) < f(k) /\ f(j) \in 1..M /\ f(k) \in 1..M /\ rows'[j] = rows[f(j)] /\ rows'[k] = rows[f(k)]
    BY <1>5, <1>6
  <2>2. RowsInOrder
    BY <1>10 DEF TableCore
  <2> QED
    BY <2>1, <2>2 DEF RowsInOrder, M
<1> DEFINE Alone == i > 1 /\ \A x \in Resources : Shown(x)' => ~Below(x, rows[i - 1])
<1>11. i > 1 => rows[i - 1] \in Resources /\ rows[i - 1] \in Seq(Nat)
  BY <1>2
<1>12. Alone <=> i > 1 /\ ~\E m \in ToSet(rows') : IsStrictPrefix(rows[i - 1], m)
  <2>1. ToSet(rows') = {m \in Resources : Shown(m)'}
    <3>1. DOMAIN rows' = 1..Len(rows') /\ \A k \in 1..Len(rows') : rows'[k] \in Resources
      BY <1>4
    <3> QED
      BY <3>1, ShownAtPrime DEF ToSet
  <2>2. i > 1 => \A m \in Resources : IsStrictPrefix(rows[i - 1], m) <=> Below(m, rows[i - 1])
    BY <1>2, <1>11, StrictPrefixAt DEF Below
  <2> QED
    BY <2>1, <2>2
<1>13. fork' = IF Alone THEN [fork EXCEPT ![rows[i - 1]] = IF @ = "open" THEN "none" ELSE @] ELSE fork
  BY <1>3, <1>12 DEF CloseFork
<1>14. fork \in [Resources -> {"none", "close", "open"}]
  BY <1>1 DEF TableType
<1>15. Alone => i > 1
  OBVIOUS
<1> HIDE DEF Alone
<1>16. /\ fork' \in [Resources -> {"none", "close", "open"}]
       /\ \A m \in Resources : \/ fork'[m] = fork[m]
                               \/ Alone /\ m = rows[i - 1] /\ fork[m] = "open" /\ fork'[m] = "none"
       /\ Alone => fork'[rows[i - 1]] # "open"
  BY <1>11, <1>13, <1>14, <1>15
<1> QED
  BY <1>3, <1>4, <1>8, <1>9, <1>10, <1>16 DEF Alone, n, M

\* The answer of a deletion.
LEMMA DeletedStep ==
  ASSUME TableCore, NEW q \in requests, Deleted(q),
         requests' = requests \ {q}, overlap' = overlap
  PROVE  TableCore'
<1> DEFINE n == q.node
<1>1. TableType /\ RowsShown /\ RowsAbove /\ RowsOnce /\ ForksLoaded /\ RequestsPending
  BY DEF TableCore
<1>2. /\ requests' = {} /\ n \in Resources /\ Shown(n)
      /\ db \in SUBSET Resources /\ db' = db \ {n} /\ loaded' = loaded /\ ~HasChildren(n)
  BY <1>1 DEF TableType, RequestsPending, Deleted
<1>3. \A m \in Resources : m \in Seq(Nat) /\ m # <<>> /\ Len(m) > 0
  BY <1>1, DbFacts
<1>4. /\ rows' \in Seq(Resources)
      /\ \A m \in Resources : Shown(m)' <=> Shown(m) /\ m # n
      /\ RowsOnce'
      /\ overlap = {} => RowsInOrder'
      /\ fork' \in [Resources -> {"none", "close", "open"}]
  BY DeletedRows
<1> DEFINE Alone(i) == i > 1 /\ \A x \in Resources : Shown(x)' => ~Below(x, rows[i - 1])
<1>5. PICK i \in 1..Len(rows) :
        /\ rows[i] = n
        /\ \A m \in Resources : \/ fork'[m] = fork[m]
                                \/ Alone(i) /\ m = rows[i - 1] /\ fork[m] = "open" /\ fork'[m] = "none"
        /\ Alone(i) => fork'[rows[i - 1]] # "open"
  BY DeletedRows
<1> HIDE DEF n
<1>6. \A x \in db : ~Below(x, n)
  <2> SUFFICES ASSUME NEW x \in db, Below(x, n) PROVE FALSE
    OBVIOUS
  <2>1. \E c \in db : Child(c, n)
    BY <1>1, <1>2, DbFacts
  <2> QED
    BY <2>1, <1>2 DEF HasChildren
<1>7. ASSUME NEW m \in db, Len(m) # 1
      PROVE  LET p == Front(m) IN
             /\ p \in db /\ p \in Resources /\ p \in Seq(Nat) /\ p # <<>> /\ Child(m, p)
             /\ p # n /\ Below(m, p)
             /\ Shown(m) <=> Shown(p) /\ fork[p] = "open"
  <2> DEFINE p == Front(m)
  <2>1. p \in db /\ p \in Resources /\ p \in Seq(Nat) /\ p # <<>> /\ Child(m, p)
    BY <1>1, <1>7, ParentInDb
  <2>2. m \in Resources /\ m \in Seq(Nat)
    BY <1>2, <1>3
  <2>3. Below(m, p)
    BY <2>1, <2>2, StrictPrefixAt DEF Below, Child
  <2>4. Shown(m) <=> Shown(p) /\ fork[p] = "open"
    BY <2>2, <1>1, <1>7 DEF RowsShown
  <2> QED
    BY <2>1, <2>3, <2>4, <1>6
<1>8. TableType'
  <2>1. ASSUME NEW m \in db', NEW k \in 1..Len(m) PROVE SubSeq(m, 1, k) \in db'
    <3>1. m \in db /\ m # n /\ m \in Seq(Nat) /\ SubSeq(m, 1, k) \in db /\ Len(m) \in Nat
      BY <2>1, <1>1, <1>2, <1>3 DEF TableType
    <3>2. ASSUME SubSeq(m, 1, k) = n PROVE FALSE
      <4>1. k # Len(m)
        <5>1. SubSeq(m, 1, Len(m)) = m
          BY <3>1
        <5> QED
          BY <5>1, <3>1, <3>2
      <4>2. k < Len(m)
        BY <4>1, <3>1
      <4>3. Len(SubSeq(m, 1, k)) = k /\ \A j \in 1..k : SubSeq(m, 1, k)[j] = m[j]
        BY <3>1
      <4>4. Below(m, n)
        BY <4>2, <4>3, <3>2 DEF Below
      <4> QED
        BY <4>4, <3>1, <1>6
    <3> QED
      BY <3>1, <3>2, <1>2
  <2>2. db' \in SUBSET Resources
    BY <1>2
  <2> QED
    BY <2>1, <2>2, <1>1, <1>2, <1>4 DEF TableType
<1>9. RowsShown'
  <2> SUFFICES ASSUME NEW m \in Resources
               PROVE  Shown(m)' <=>
                        /\ m \in db'
                        /\ Len(m) = 1 \/ (Shown(Front(m))' /\ fork'[Front(m)] = "open")
    BY DEF RowsShown
  <2>1. CASE m \notin db'
    BY <2>1, <1>1, <1>2, <1>4 DEF RowsShown
  <2>2. CASE m \in db' /\ Len(m) = 1
    BY <2>2, <1>1, <1>2, <1>4 DEF RowsShown
  <2>3. CASE m \in db' /\ Len(m) # 1
    <3> DEFINE p == Front(m)
    <3>1. m \in db /\ m # n
      BY <2>3, <1>2
    <3>2. /\ p \in Resources /\ p # n /\ Below(m, p)
          /\ Shown(m) <=> Shown(p) /\ fork[p] = "open"
      BY <3>1, <2>3, <1>7
    <3>3. Shown(m)' <=> Shown(m)
      BY <3>1, <1>4
    <3>4. Shown(p)' <=> Shown(p)
      BY <3>2, <1>4
    <3>5. fork'[p] = fork[p] \/ (Alone(i) /\ p = rows[i - 1] /\ fork[p] = "open" /\ fork'[p] = "none")
      BY <3>2, <1>5
    <3>6. CASE fork'[p] = fork[p]
      BY <2>3, <3>2, <3>3, <3>4, <3>6
    <3>7. CASE Alone(i) /\ p = rows[i - 1] /\ fork[p] = "open" /\ fork'[p] = "none"
      <4>1. ~Shown(m)'
        BY <3>2, <3>7
      <4> QED
        BY <2>3, <3>7, <4>1
    <3> QED
      BY <3>5, <3>6, <3>7
  <2> QED
    BY <2>1, <2>2, <2>3
<1>10. RowsAbove'
  <2> SUFFICES ASSUME NEW x \in Resources, NEW y \in Resources, Shown(x)', Below(x, y)
               PROVE  Shown(y)'
    BY DEF RowsAbove
  <2>1. Shown(x) /\ x \in db /\ Shown(y)
    BY <1>1, <1>4 DEF RowsAbove, RowsShown
  <2>2. y # n
    BY <2>1, <1>6
  <2> QED
    BY <2>1, <2>2, <1>4
<1>11. \A m \in Resources : HasChildren(m)' => HasChildren(m)
  BY <1>2 DEF HasChildren
<1>12. ForksLoaded'
  <2> SUFFICES ASSUME NEW m \in Resources, Shown(m)'
               PROVE  /\ fork'[m] = "close" <=> ~loaded[m]
                      /\ fork'[m] = "none" => ~HasChildren(m)'
    BY <1>2 DEF ForksLoaded
  <2>1. Shown(m) /\ (fork[m] = "close" <=> ~loaded[m]) /\ (fork[m] = "none" => ~HasChildren(m))
    BY <1>1, <1>4 DEF ForksLoaded
  <2>2. CASE fork'[m] = fork[m]
    BY <2>1, <2>2, <1>11
  <2>3. CASE Alone(i) /\ m = rows[i - 1] /\ fork[m] = "open" /\ fork'[m] = "none"
    <3>1. ASSUME NEW c \in db', Child(c, m) PROVE FALSE
      <4>1. c \in db /\ c # n /\ c \in Resources /\ c \in Seq(Nat) /\ m \in Seq(Nat) /\ m # <<>>
        BY <3>1, <1>2, <1>3
      <4>2. Len(c) > 1 /\ Front(c) = m
        BY <4>1, <3>1, FrontChild
      <4>3. Len(c) # 1
        BY <4>1, <4>2, Deeper
      <4>4. Shown(c) /\ Below(c, m)
        BY <4>1, <4>2, <4>3, <2>1, <2>3, <1>7
      <4> QED
        BY <4>1, <4>4, <2>3, <1>4
    <3> QED
      BY <3>1, <2>1, <2>3 DEF HasChildren
  <2> QED
    BY <2>2, <2>3, <1>5
<1>13. RequestsPending' /\ IndexRight'
  BY <1>2 DEF RequestsPending, IndexRight
<1>14. ASSUME overlap = {} PROVE ForksNeeded'
  <2>1. RowsInOrder /\ ForksNeeded
    BY <1>14 DEF TableCore
  <2> SUFFICES ASSUME NEW m \in Resources, Shown(m)', fork'[m] # "none", ~HasChildren(m)'
               PROVE  FALSE
    BY DEF ForksNeeded
  <2>2. Shown(m) /\ m # n /\ fork'[m] = fork[m]
    BY <1>4, <1>5
  <2>3. HasChildren(m)
    BY <2>1, <2>2 DEF ForksNeeded
  <2>4. \A c \in db : Child(c, m) => c = n
    BY <1>2 DEF HasChildren
  <2>5. n \in db /\ Child(n, m)
    BY <2>3, <2>4 DEF HasChildren
  <2>6. n \in Seq(Nat) /\ m \in Seq(Nat) /\ m # <<>>
    BY <1>2, <1>3
  <2>7. Below(n, m)
    BY <2>5, <2>6, StrictPrefixAt DEF Below, Child
  <2>8. ASSUME NEW x \in db, Below(x, m) PROVE x = n
    <3>1. PICK c \in db : Child(c, m) /\ (c = x \/ Below(x, c))
      BY <2>8, <1>1, DbFacts
    <3> QED
      BY <3>1, <2>4, <1>6
  <2>9. PICK j \in 1..Len(rows) : rows[j] = m
    BY <2>2, ShownAt
  <2>10. Len(rows) \in Nat /\ \A a \in 1..Len(rows) : rows[a] \in Resources
    BY <1>1 DEF TableType
  <2>11. j < i
    <3>1. j # i
      BY <2>2, <2>9, <1>5
    <3>2. ~(i < j)
      BY <2>1, <2>6, <2>7, <2>9, <1>5, NotBeforeAbove DEF RowsInOrder
    <3> QED
      BY <3>1, <3>2, <2>10
  <2>12. j = i - 1
    <3> SUFFICES ASSUME j # i - 1 PROVE FALSE
      OBVIOUS
    <3>1. i - 1 \in 1..Len(rows) /\ j < i - 1 /\ i - 1 < i
      BY <2>10, <2>11
    <3> DEFINE x == rows[i - 1]
    <3>2. x \in Resources /\ x \in Seq(Nat) /\ Shown(x)
      BY <3>1, <2>10, <1>3, ShownAt
    <3>3. Precedes(m, x) /\ Precedes(x, n)
      BY <3>1, <2>1, <2>9, <1>5 DEF RowsInOrder
    <3>4. Below(x, m)
      BY <3>2, <3>3, <2>6, <2>7, BetweenBelow
    <3>5. x \in db
      BY <3>2, <1>1 DEF RowsShown
    <3>6. x = n
      BY <3>4, <3>5, <2>8
    <3>7. i - 1 = i
      BY <3>1, <3>6, <1>1, <1>5 DEF RowsOnce
    <3> QED
      BY <3>1, <3>7
  <2>13. Alone(i) /\ m = rows[i - 1]
    <3>1. i > 1 /\ m = rows[i - 1]
      BY <2>9, <2>10, <2>12
    <3>2. ASSUME NEW x \in Resources, Shown(x)', Below(x, m) PROVE FALSE
      <4>1. x \in db /\ x # n
        BY <3>2, <1>1, <1>4 DEF RowsShown
      <4> QED
        BY <4>1, <3>2, <2>8
    <3> QED
      BY <3>1, <3>2
  <2>14. fork'[m] # "open"
    BY <2>13, <1>5
  <2>15. fork[m] = "open"
    <3>1. Len(n) > 1 /\ Front(n) = m
      BY <2>5, <2>6, FrontChild
    <3>2. Len(n) # 1
      BY <2>6, <3>1, Deeper
    <3> QED
      BY <3>1, <3>2, <2>5, <1>2, <1>7
  <2> QED
    BY <2>2, <2>14, <2>15
<1> QED
  BY <1>4, <1>8, <1>9, <1>10, <1>12, <1>13, <1>14 DEF TableCore

\* A request that is answered without an effect, or nothing at all.
LEMMA RestStep ==
  ASSUME TableCore, requests' \in SUBSET requests, overlap' = overlap,
         db' = db, rows' = rows, fork' = fork, loaded' = loaded
  PROVE  TableCore'
<1>1. TableType /\ RowsShown /\ RowsAbove /\ RowsOnce /\ ForksLoaded /\ RequestsPending
  BY DEF TableCore
<1>2. \A n : (Shown(n)' <=> Shown(n)) /\ (HasChildren(n)' <=> HasChildren(n))
  BY DEF Shown, HasChildren
<1>3. TableType'
  BY <1>1 DEF TableType
<1>4. RowsShown'
  BY <1>1, <1>2 DEF RowsShown
<1>5. RowsAbove' /\ RowsOnce'
  BY <1>1, <1>2 DEF RowsAbove, RowsOnce
<1>6. ForksLoaded'
  BY <1>1, <1>2 DEF ForksLoaded
<1>7. RequestsPending'
  BY <1>1, <1>2 DEF RequestsPending
<1>8. ASSUME overlap = {} PROVE RowsInOrder' /\ IndexRight' /\ ForksNeeded'
  <2>1. RowsInOrder /\ IndexRight /\ ForksNeeded
    BY <1>8 DEF TableCore
  <2>2. RowsInOrder'
    BY <2>1 DEF RowsInOrder
  <2>3. IndexRight'
    BY <2>1 DEF IndexRight
  <2>4. ForksNeeded'
    BY <2>1, <1>2 DEF ForksNeeded
  <2> QED
    BY <2>2, <2>3, <2>4
<1> QED
  BY <1>3, <1>4, <1>5, <1>6, <1>7, <1>8 DEF TableCore

\* A click on a fork that is shown; only the timer clicks while a request is in
\* flight, and never on an open fork.
LEMMA ClickForkStep ==
  ASSUME TableCore, overlap' \subseteq {"two"},
         NEW by \in {"user", "timer"}, NEW n \in Resources, Shown(n),
         requests = {} \/ ~loaded[n], ClickFork(by, n), db' = db
  PROVE  TableCore'
<1>1. TableType /\ ForksLoaded
  BY DEF TableCore
<1>2. fork[n] = "close" <=> ~loaded[n]
  BY <1>1 DEF ForksLoaded
<1>3. CASE fork[n] = "close"
  <2>1. Submit("expand", by, n) /\ rows' = rows /\ fork' = fork /\ loaded' = loaded
    BY <1>2, <1>3 DEF ClickFork
  <2> QED
    BY <2>1, <1>3, InvokeStep
<1>4. CASE fork[n] = "open"
  <2>1. fork[n] # "close"
    BY <1>4
  <2>2. requests = {}
    BY <2>1, <1>2
  <2>3. Collapse(n)
    BY <1>4, <2>1 DEF ClickFork
  <2> QED
    BY <2>2, <2>3, <1>4, CollapseStep
<1>5. CASE fork[n] # "close" /\ fork[n] # "open"
  <2>1. rows' = rows /\ fork' = fork /\ loaded' = loaded /\ requests' = requests /\ overlap' = overlap
    BY <1>5 DEF ClickFork
  <2> QED
    BY <2>1, RestStep
<1> QED
  BY <1>3, <1>4, <1>5

\* Overlaps are only added.
LEMMA OverlapGrows ==
  ASSUME [TableNext]_tableVars
  PROVE  overlap \subseteq overlap'
<1>1. \A o, b, n : Submit(o, b, n) => overlap \subseteq overlap'
  BY DEF Submit
<1>2. \A b, n : ClickFork(b, n) => overlap \subseteq overlap'
  BY <1>1 DEF ClickFork, Collapse
<1>3. \A n : UserFork(n) \/ UserDelete(n) => overlap \subseteq overlap'
  BY <1>1, <1>2 DEF UserFork, UserDelete
<1>4. Tick => overlap \subseteq overlap'
  BY <1>2 DEF Tick, Expand
<1>5. Answer => overlap \subseteq overlap'
  BY DEF Answer, Answered, Failure
<1>6. UNCHANGED tableVars => overlap \subseteq overlap'
  BY DEF tableVars
<1> QED
  BY <1>3, <1>4, <1>5, <1>6 DEF TableNext

\* Every step keeps the invariant.
LEMMA TableNextInv ==
  ASSUME TableInv, [TableNext]_tableVars
  PROVE  TableInv'
<1> SUFFICES ASSUME overlap' \subseteq {"two"} PROVE TableCore'
  BY DEF TableInv
<1>1. TableCore
  BY OverlapGrows DEF TableInv
<1>2. ASSUME NEW n \in Resources, UserFork(n) PROVE TableCore'
  <2>1. requests = {} /\ Shown(n) /\ ClickFork("user", n) /\ db' = db
    BY <1>2 DEF UserFork, Clickable, Masked
  <2> QED
    BY <1>1, <2>1, ClickForkStep
<1>3. ASSUME NEW n \in Resources, UserDelete(n) PROVE TableCore'
  <2>1. /\ Shown(n) /\ Submit("delete", "user", n)
        /\ db' = db /\ rows' = rows /\ fork' = fork /\ loaded' = loaded
    BY <1>3 DEF UserDelete, Clickable
  <2> QED
    BY <1>1, <2>1, InvokeStep
<1>4. CASE Tick
  <2> DEFINE id == SubSeq(Target, 1, index)
             Rest == rows' = rows /\ fork' = fork /\ loaded' = loaded /\ requests' = requests /\ overlap' = overlap
  <2>1. db' = db /\ (Rest \/ (Shown(id) /\ ~loaded[id] /\ ClickFork("timer", id)))
    BY <1>4 DEF Tick, Expand
  <2>2. CASE Rest
    BY <1>1, <2>1, <2>2, RestStep
  <2>3. CASE Shown(id) /\ ~loaded[id] /\ ClickFork("timer", id)
    <3> HIDE DEF id
    <3>1. id \in Resources
      BY <1>1, <2>3, ShownAt DEF TableCore, TableType
    <3> QED
      BY <1>1, <2>1, <2>3, <3>1, ClickForkStep
  <2> QED
    BY <2>1, <2>2, <2>3
<1>5. ASSUME NEW q \in requests, Answered(q) PROVE TableCore'
  <2>1. requests' = requests \ {q} /\ overlap' = overlap /\ (Expanded(q) \/ Deleted(q))
    BY <1>5 DEF Answered
  <2> QED
    BY <1>1, <2>1, ExpandedStep, DeletedStep
<1>6. ASSUME NEW q \in requests, Failure(q) PROVE TableCore'
  <2>1. /\ requests' = requests \ {q} /\ overlap' = overlap
        /\ db' = db /\ rows' = rows /\ fork' = fork /\ loaded' = loaded
    BY <1>6 DEF Failure
  <2> QED
    BY <1>1, <2>1, RestStep
<1>7. CASE UNCHANGED tableVars
  BY <1>1, <1>7, RestStep DEF tableVars
<1> QED
  BY <1>2, <1>3, <1>4, <1>5, <1>6, <1>7 DEF TableNext, Answer

\* For every tree of resources, all orders of clicks, ticks and answers: as long as
\* no two requests were in flight together the index that a click has read is that
\* of its row when the answer comes, and the table lists the nodes in the order of
\* the tree (_setData, the click handler of list.jsp).
THEOREM InTreeOrderAlways == TableSpec => []InTreeOrder
<1>1. TableInv => InTreeOrder
  <2> SUFFICES ASSUME TableInv, overlap = {}
               PROVE  \A i, j \in 1..Len(rows) : i < j => Precedes(rows[i], rows[j])
    BY DEF InTreeOrder
  <2>1. TableCore
    BY DEF TableInv
  <2> QED
    BY <2>1 DEF TableCore, RowsInOrder
<1> QED
  BY <1>1, TableInitInv, TableNextInv, PTL DEF TableSpec

\* For every tree of resources: also when the timer and the user expand two nodes
\* at once no row is lost or shown twice (_insertRow behind an index that the other
\* answer has moved).
THEOREM OpenedAreShownAlways == TableSpec => []OpenedAreShown
<1>1. TableInv => OpenedAreShown
  <2> SUFFICES ASSUME TableInv, overlap \subseteq {"two"}
               PROVE  /\ ToSet(rows) = {n \in db : Len(n) = 1 \/ (Shown(Front(n)) /\ fork[Front(n)] = "open")}
                      /\ IsInjective(rows)
    BY DEF OpenedAreShown
  <2>1. TableType /\ RowsShown /\ RowsOnce
    BY DEF TableInv, TableCore
  <2>2. rows \in Seq(Resources) /\ db \in SUBSET Resources /\ \A i \in 1..Len(rows) : rows[i] \in Resources
    BY <2>1 DEF TableType
  <2>3. \A m : m \in ToSet(rows) <=> Shown(m)
    BY ShownAt DEF ToSet
  <2>4. \A m : Shown(m) => m \in Resources
    BY <2>2, ShownAt
  <2>5. IsInjective(rows)
    BY <2>1, <2>2 DEF IsInjective, RowsOnce
  <2>6. ToSet(rows) = {n \in db : Len(n) = 1 \/ (Shown(Front(n)) /\ fork[Front(n)] = "open")}
    BY <2>1, <2>2, <2>3, <2>4 DEF RowsShown
  <2> QED
    BY <2>5, <2>6
<1> QED
  BY <1>1, TableInitInv, TableNextInv, PTL DEF TableSpec

\* For every tree of resources: a fork tells what is below its node, after
\* deletions too, although the row above the deleted one is taken for the parent
\* (the delete handler of list.jsp).
THEOREM ForksTellAlways == TableSpec => []ForksTell
<1>1. ASSUME TableInv PROVE ForksTell
  <2> SUFFICES ASSUME overlap = {}, NEW n \in ToSet(rows)
               PROVE  fork[n] = IF ~HasChildren(n) THEN "none"
                                ELSE IF \E m \in ToSet(rows) : Child(m, n) THEN "open" ELSE "close"
    BY DEF ForksTell
  <2>1. TableType /\ RowsShown /\ ForksLoaded /\ ForksNeeded
    <3>1. TableCore
      BY <1>1 DEF TableInv
    <3> QED
      BY <3>1 DEF TableCore
  <2>2. \A m : m \in ToSet(rows) <=> Shown(m)
    BY ShownAt DEF ToSet
  <2>3. \A m : Shown(m) => m \in Resources
    BY <2>1, ShownAt DEF TableType
  <2>4. n \in Resources /\ Shown(n) /\ db \in SUBSET Resources /\ fork[n] \in {"none", "close", "open"}
    BY <2>1, <2>2, <2>3 DEF TableType
  <2>5. fork[n] = "none" <=> ~HasChildren(n)
    BY <2>1, <2>4 DEF ForksLoaded, ForksNeeded
  <2>6. ASSUME NEW m \in Resources, Child(m, n)
        PROVE  Shown(m) <=> m \in db /\ fork[n] = "open"
    <3>1. m \in Seq(Nat) /\ n \in Seq(Nat) /\ n # <<>>
      BY <2>4, TreeAssumption
    <3>2. Len(m) > 1 /\ Front(m) = n
      BY <3>1, <2>6, FrontChild
    <3>3. Len(m) # 1
      BY <3>1, <3>2, Deeper
    <3> QED
      BY <3>2, <3>3, <2>1, <2>4 DEF RowsShown
  <2>7. ASSUME HasChildren(n)
        PROVE  fork[n] = "open" <=> \E m \in ToSet(rows) : Child(m, n)
    <3>1. PICK c \in db : Child(c, n)
      BY <2>7 DEF HasChildren
    <3> QED
      BY <3>1, <2>2, <2>3, <2>4, <2>6
  <2> QED
    BY <2>4, <2>5, <2>7
<1> QED
  BY <1>1, TableInitInv, TableNextInv, PTL DEF TableSpec
=============================================================================
