--------------------------- MODULE TreePathProofs ---------------------------
(***************************************************************************)
(* The level column always counts the ids of the path; the path column     *)
(* agrees with parent_id up to the first write that no longer fits the     *)
(* tables; and orphans have a parent that two calls named at once or that  *)
(* a late form named.  Any number of calls overlap, with any parents.      *)
(***************************************************************************)
EXTENDS TreePath, WellFoundedInduction, TLAPS

\* What updateDescendantsPath does to the length of a path it matches.
LEMMA RebaseLen ==
  ASSUME NEW S, NEW s \in Seq(S), NEW old \in Seq(S), NEW new \in Seq(S),
         NEW id \in S, Below(s, old, id)
  PROVE  /\ Rebase(s, old, new) \in Seq(S)
         /\ Len(Rebase(s, old, new)) = Len(s) + Len(new) - Len(old)
         /\ Len(old) + 1 <= Len(s)
<1>1. Len(old) + 1 <= Len(s) /\ Len(old) \in Nat /\ Len(s) \in Nat
  BY DEF Below, IsPrefix
<1>2. /\ SubSeq(s, Len(old) + 1, Len(s)) \in Seq(S)
      /\ Len(SubSeq(s, Len(old) + 1, Len(s))) = Len(s) - Len(old)
  BY <1>1
<1> QED
  BY <1>1, <1>2 DEF Rebase

\* The parameters of a running call are ids.
Parameters ==
  \A t \in Threads : /\ pc[t] \in {"create", "update"} => target[t] \in Ids
                     /\ pc[t] \in {"update", "delete"} => node[t] \in Nodes

LevelInv == TypeOK /\ Parameters /\ LevelMatchesPath

LEMMA InitLevel == Init => LevelInv
<1> SUFFICES ASSUME Init PROVE LevelInv
  OBVIOUS
<1>1. <<>> \in Seq(Ids)
  OBVIOUS
<1>2. spoilt \in BOOLEAN /\ contested \in SUBSET Nodes
  BY DEF Init
<1>3. TypeOK
  BY <1>1, <1>2 DEF Init, TypeOK
<1> QED
  BY <1>3 DEF Init, LevelInv, Parameters, LevelMatchesPath, Rows

LEMMA GeneratePathType ==
  ASSUME TypeOK, NEW p \in Ids
  PROVE  GeneratePath(p) \in Seq(Ids) /\ GetPath(p) \in Seq(Ids)
<1>1. GetPath(p) \in Seq(Ids)
  BY DEF TypeOK, GetPath, Rows
<1> QED
  BY <1>1 DEF GeneratePath

LEMMA BindLevel ==
  ASSUME LevelInv, NEW t \in Threads, NEW call \in {"create", "update", "delete"},
         NEW n \in Nodes \cup {None}, NEW p \in Ids \cup {None},
         NEW old \in Seq(Ids), NEW new \in Seq(Ids),
         call \in {"create", "update"} => p \in Ids,
         call \in {"update", "delete"} => n \in Nodes,
         Bind(t, call, n, p, old, new)
  PROVE  LevelInv'
<1> USE DEF LevelInv, TypeOK, columns
<1>1. TypeOK'
  BY DEF Bind
<1>2. Parameters'
  BY DEF Bind, Parameters
<1>3. LevelMatchesPath'
  BY DEF Bind, LevelMatchesPath, Rows
<1> QED
  BY <1>1, <1>2, <1>3

LEMMA CommitTyped ==
  ASSUME LevelInv, NEW t \in Threads, Commit(t)
  PROVE  /\ pc' \in [Threads -> {"idle", "create", "update", "delete"}]
         /\ node' \in [Threads -> Nodes \cup {None}]
         /\ target' \in [Threads -> Ids \cup {None}]
         /\ oldPath' \in [Threads -> Seq(Ids)]
         /\ newPath' \in [Threads -> Seq(Ids)]
         /\ contested' \in SUBSET Nodes /\ spoilt' \in BOOLEAN
         /\ Parameters'
<1>1. <<>> \in Seq(Ids)
  OBVIOUS
<1> QED
  BY <1>1 DEF LevelInv, TypeOK, Commit, Parameters

\* Every step keeps level and path in step.
LEMMA NextLevel == LevelInv /\ [Next]_vars => LevelInv'
<1> SUFFICES ASSUME LevelInv, [Next]_vars
             PROVE  LevelInv'
  OBVIOUS
<1> USE TreePathAssumption DEF LevelInv, TypeOK
<1>1. ASSUME NEW t \in Threads, NEW p \in Ids, CreateRead(t, p)
      PROVE  LevelInv'
  <2>1. <<>> \in Seq(Ids) /\ GeneratePath(p) \in Seq(Ids)
    BY GeneratePathType
  <2>2. Bind(t, "create", None, p, <<>>, GeneratePath(p))
    BY <1>1 DEF CreateRead
  <2> HIDE DEF LevelInv, TypeOK
  <2> QED
    BY <2>1, <2>2, BindLevel
<1>2. ASSUME NEW t \in Threads, NEW n \in Nodes, NEW p \in Ids, UpdateRead(t, n, p)
      PROVE  LevelInv'
  <2>1. GetPath(n) \in Seq(Ids) /\ GeneratePath(p) \in Seq(Ids)
    BY GeneratePathType DEF Ids
  <2>2. Bind(t, "update", n, p, GetPath(n), GeneratePath(p))
    BY <1>2 DEF UpdateRead
  <2> HIDE DEF LevelInv, TypeOK
  <2> QED
    BY <2>1, <2>2, BindLevel
<1>3. ASSUME NEW t \in Threads, NEW n \in Nodes, DeleteRead(t, n)
      PROVE  LevelInv'
  <2>1. <<>> \in Seq(Ids)
    OBVIOUS
  <2>2. Bind(t, "delete", n, None, <<>>, <<>>)
    BY <1>3 DEF DeleteRead
  <2> HIDE DEF LevelInv, TypeOK
  <2> QED
    BY <2>1, <2>2, BindLevel
<1>4. ASSUME NEW t \in Threads, CreateWrite(t)
      PROVE  LevelInv'
  <2>1. PICK n \in Nodes :
          /\ status' = [status EXCEPT ![n] = "row"]
          /\ parent' = [parent EXCEPT ![n] = target[t]]
          /\ path' = [path EXCEPT ![n] = newPath[t]]
          /\ level' = [level EXCEPT ![n] = Len(newPath[t])]
          /\ SetManagers(n)
    BY <1>4 DEF CreateWrite
  <2>2. target[t] \in Ids /\ newPath[t] \in Seq(Ids) /\ Len(newPath[t]) \in Nat
    BY <1>4 DEF CreateWrite, Parameters
  <2>3. Commit(t) /\ managed' \in SUBSET Nodes
    BY <1>4, <2>1 DEF CreateWrite, SetManagers
  <2>4. TypeOK' /\ Parameters'
    BY <2>1, <2>2, <2>3, CommitTyped
  <2>5. LevelMatchesPath'
    BY <2>1, <2>2 DEF LevelMatchesPath, Rows
  <2> QED
    BY <2>4, <2>5
<1>5. ASSUME NEW t \in Threads, UpdateWrite(t)
      PROVE  LevelInv'
  <2> DEFINE n == node[t]
             new == newPath[t]
             old == oldPath[t]
             f == [m \in Nodes |-> IF m \in Rows \cap {n} THEN new ELSE path[m]]
             l == [m \in Nodes |-> IF m \in Rows \cap {n} THEN Len(new) ELSE level[m]]
             hit == {m \in Rows : old # <<>> /\ Below(f[m], old, n)}
  <2>1. /\ n \in Nodes /\ target[t] \in Ids
        /\ new \in Seq(Ids) /\ old \in Seq(Ids) /\ Len(new) \in Nat /\ Len(old) \in Nat
    BY <1>5 DEF UpdateWrite, Parameters
  <2>2. Commit(t) /\ managed' \in SUBSET Nodes /\ UNCHANGED status
    BY <1>5, <2>1 DEF UpdateWrite, SetManagers
  <2>3. parent' \in [Nodes -> Ids \cup {None}]
    BY <1>5, <2>1 DEF UpdateWrite
  <2>4. /\ f \in [Nodes -> Seq(Ids)] /\ l \in [Nodes -> Nat]
        /\ \A m \in Rows : l[m] = Len(f[m])
    BY <2>1 DEF LevelMatchesPath, Rows
  <2>5. CASE old = new
    BY <1>5, <2>2, <2>3, <2>5, CommitTyped DEF UpdateWrite, UpdatePath, LevelMatchesPath, Rows
  <2>6. CASE old # new
    <3>1. /\ path' = [m \in Nodes |-> IF m \in hit THEN Rebase(f[m], old, new) ELSE f[m]]
          /\ level' = [m \in Nodes |-> IF m \in hit THEN l[m] + Len(new) - Len(old) ELSE l[m]]
      BY <1>5, <2>6 DEF UpdateWrite, UpdatePath, UpdateDescendantsPath
    <3> HIDE DEF f, l, new, old, n
    <3>2. ASSUME NEW m \in hit
          PROVE  /\ Rebase(f[m], old, new) \in Seq(Ids)
                 /\ Len(Rebase(f[m], old, new)) = l[m] + Len(new) - Len(old)
                 /\ l[m] + Len(new) - Len(old) \in Nat
      <4>1. m \in Nodes /\ m \in Rows /\ Below(f[m], old, n) /\ f[m] \in Seq(Ids) /\ n \in Ids
        BY <2>1, <2>4 DEF Rows, Ids
      <4>2. /\ Rebase(f[m], old, new) \in Seq(Ids)
            /\ Len(Rebase(f[m], old, new)) = Len(f[m]) + Len(new) - Len(old)
            /\ Len(old) + 1 <= Len(f[m])
        BY <4>1, <2>1, RebaseLen
      <4>3. Len(f[m]) = l[m] /\ l[m] \in Nat
        BY <4>1, <2>4
      <4> QED
        BY <4>2, <4>3, <2>1
    <3>3. path' \in [Nodes -> Seq(Ids)] /\ level' \in [Nodes -> Nat]
      BY <3>1, <3>2, <2>4
    <3>4. LevelMatchesPath'
      <4> SUFFICES ASSUME NEW m \in Rows
                   PROVE  level'[m] = Len(path'[m])
        BY <2>2 DEF LevelMatchesPath, Rows
      <4>1. m \in Nodes
        BY DEF Rows
      <4> QED
        BY <4>1, <3>1, <3>2, <2>4
    <3> QED
      BY <3>3, <3>4, <2>2, <2>3, CommitTyped
  <2> QED
    BY <2>5, <2>6
<1>6. ASSUME NEW t \in Threads, DeleteWrite(t)
      PROVE  LevelInv'
  <2>1. node[t] \in Nodes /\ Commit(t) /\ <<>> \in Seq(Ids)
    BY <1>6 DEF DeleteWrite, Parameters
  <2>2. TypeOK' /\ Parameters'
    BY <1>6, <2>1, CommitTyped DEF DeleteWrite
  <2>3. LevelMatchesPath'
    BY <1>6, <2>1 DEF DeleteWrite, LevelMatchesPath, Rows
  <2> QED
    BY <2>2, <2>3
<1>7. CASE UNCHANGED vars
  BY <1>7 DEF vars, columns, locals, history, Parameters, LevelMatchesPath, Rows
<1> QED
  BY <1>1, <1>2, <1>3, <1>4, <1>5, <1>6, <1>7 DEF Next, Known, Ids

LEMMA LevelInductive == Spec => []LevelInv
  BY InitLevel, NextLevel, PTL DEF Spec

\* The tree services are type correct: no level is ever negative, whatever the
\* parents are and however the calls interleave.
THEOREM TypeCorrect == Spec => []TypeOK
  BY LevelInductive, PTL DEF LevelInv

\* The level column counts the ids of the path column in every reachable state,
\* for any number of concurrent calls.
THEOREM LevelAlways == Spec => []LevelMatchesPath
  BY LevelInductive, PTL DEF LevelInv

-----------------------------------------------------------------------------
\* How the like pattern and the substring of updateDescendantsPath act on the
\* path of a child, which is the path of its parent and the parent's id.
LEMMA BelowAppend ==
  ASSUME NEW S, NEW s \in Seq(S), NEW old \in Seq(S), NEW x \in S, NEW id \in S
  PROVE  Below(Append(s, x), old, id) <=> Below(s, old, id) \/ (s = old /\ x = id)
<1> DEFINE u == Append(s, x)
           w == Append(old, id)
<1>1. /\ u \in Seq(S) /\ w \in Seq(S)
      /\ Len(u) = Len(s) + 1 /\ Len(w) = Len(old) + 1 /\ Len(s) \in Nat /\ Len(old) \in Nat
      /\ u[Len(s) + 1] = x /\ w[Len(old) + 1] = id
      /\ \A i \in 1..Len(s) : u[i] = s[i]
      /\ \A i \in 1..Len(old) : w[i] = old[i]
  OBVIOUS
<1>2. ASSUME NEW a \in Seq(S), NEW b \in Seq(S)
      PROVE  IsPrefix(a, b) <=> Len(a) <= Len(b) /\ \A i \in 1..Len(a) : a[i] = b[i]
  <2>1. CASE Len(a) <= Len(b)
    <3>1. /\ SubSeq(a, 1, Len(a)) \in Seq(S) /\ SubSeq(b, 1, Len(a)) \in Seq(S)
          /\ Len(SubSeq(a, 1, Len(a))) = Len(a) /\ Len(SubSeq(b, 1, Len(a))) = Len(a)
          /\ \A i \in 1..Len(a) : SubSeq(a, 1, Len(a))[i] = a[i] /\ SubSeq(b, 1, Len(a))[i] = b[i]
      BY <2>1
    <3> QED
      BY <2>1, <3>1 DEF IsPrefix
  <2> QED
    BY <2>1 DEF IsPrefix
<1>3. Below(u, old, id) <=> Len(w) <= Len(u) /\ \A i \in 1..Len(w) : w[i] = u[i]
  BY <1>1, <1>2 DEF Below
<1>4. Below(s, old, id) <=> Len(w) <= Len(s) /\ \A i \in 1..Len(w) : w[i] = s[i]
  BY <1>1, <1>2 DEF Below
<1> SUFFICES Below(u, old, id) <=> Below(s, old, id) \/ (s = old /\ x = id)
  OBVIOUS
<1> HIDE DEF u, w
<1>5. CASE Len(old) + 1 <= Len(s)
  <2>1. \A i \in 1..Len(w) : u[i] = s[i]
    BY <1>1, <1>5
  <2>2. s # old /\ Len(w) <= Len(s) /\ Len(w) <= Len(u)
    BY <1>1, <1>5
  <2> QED
    BY <1>3, <1>4, <2>1, <2>2
<1>6. CASE Len(old) = Len(s)
  <2>1. s = old <=> \A i \in 1..Len(s) : s[i] = old[i]
    BY <1>6
  <2>2. Below(u, old, id) <=> (\A i \in 1..Len(s) : w[i] = u[i]) /\ w[Len(s) + 1] = u[Len(s) + 1]
    BY <1>1, <1>3, <1>6
  <2> QED
    <3>1. Below(u, old, id) <=> (\A i \in 1..Len(s) : old[i] = s[i]) /\ id = x
      BY <1>1, <1>6, <2>2
    <3>2. ~Below(s, old, id)
      BY <1>1, <1>4, <1>6
    <3> QED
      BY <2>1, <3>1, <3>2
<1>7. CASE Len(old) > Len(s)
  <2>1. s # old /\ ~(Len(w) <= Len(s)) /\ ~(Len(w) <= Len(u))
    BY <1>1, <1>7
  <2> QED
    BY <1>3, <1>4, <2>1
<1> QED
  BY <1>1, <1>5, <1>6, <1>7

LEMMA RebaseAppend ==
  ASSUME NEW S, NEW s \in Seq(S), NEW old \in Seq(S), NEW new \in Seq(S), NEW x \in S,
         Len(old) <= Len(s)
  PROVE  /\ Rebase(Append(s, x), old, new) = Append(Rebase(s, old, new), x)
         /\ Rebase(old, old, new) = new
<1>1. SubSeq(Append(s, x), Len(old) + 1, Len(s) + 1) = Append(SubSeq(s, Len(old) + 1, Len(s)), x)
  <2> DEFINE a == SubSeq(Append(s, x), Len(old) + 1, Len(s) + 1)
             c == SubSeq(s, Len(old) + 1, Len(s))
             b == Append(c, x)
             k == Len(s) - Len(old)
  <2>1. k \in Nat /\ Len(old) \in Nat /\ Len(s) \in Nat
    OBVIOUS
  <2>2. /\ a \in Seq(S) /\ Len(a) = k + 1
        /\ \A i \in 1..k + 1 : a[i] = Append(s, x)[Len(old) + i]
    BY <2>1
  <2>3. c \in Seq(S) /\ Len(c) = k /\ \A i \in 1..k : c[i] = s[Len(old) + i]
    BY <2>1
  <2>4. b \in Seq(S) /\ Len(b) = k + 1 /\ b[k + 1] = x /\ \A i \in 1..k : b[i] = c[i]
    BY <2>1, <2>3
  <2>5. a[k + 1] = x /\ \A i \in 1..k : a[i] = s[Len(old) + i]
    BY <2>1, <2>2
  <2> HIDE DEF a, b, c, k
  <2>6. \A i \in 1..k + 1 : a[i] = b[i]
    BY <2>1, <2>3, <2>4, <2>5
  <2>7. a = b
    BY <2>1, <2>2, <2>4, <2>6
  <2> QED
    BY <2>7 DEF a, b, c
<1>2. SubSeq(s, Len(old) + 1, Len(s)) \in Seq(S)
  OBVIOUS
<1>3. \A r \in Seq(S) : new \o Append(r, x) = Append(new \o r, x)
  OBVIOUS
<1>4. SubSeq(old, Len(old) + 1, Len(old)) = <<>> /\ new \o <<>> = new
  OBVIOUS
<1>5. Len(Append(s, x)) = Len(s) + 1
  OBVIOUS
<1> QED
  BY <1>1, <1>2, <1>3, <1>4, <1>5 DEF Rebase

-----------------------------------------------------------------------------
\* The two halves of consistency: no row without its parent, and the path of
\* every row tells its parent.
Rooted == \A n \in Rows : parent[n] \in Rows \cup {Root}

Matching == \A n \in Rows : path[n] = GeneratePath(parent[n])

\* The inductive invariant: both halves, until the tables are spoilt.
PathInv == LevelInv /\ (~spoilt => Rooted /\ Matching)

\* updatePath moves the node and its whole subtree, and nothing else.
LEMMA MoveKeepsPaths ==
  ASSUME TypeOK, Rooted, Matching,
         NEW n \in Rows, NEW p \in Rows \cup {Root},
         ~Below(GeneratePath(p), path[n], n),
         UpdatePath(n, GeneratePath(p), path[n]),
         parent' = [m \in Nodes |-> IF m \in Rows \cap {n} THEN p ELSE parent[m]],
         UNCHANGED status
  PROVE  Matching'
<1> DEFINE old == path[n]
           new == GeneratePath(p)
           Gen(x) == Append(IF x \in Rows THEN path'[x] ELSE <<>>, x)
<1> USE TreePathAssumption DEF TypeOK
<1>1. /\ Rows \subseteq Nodes /\ Rows' = Rows /\ Nodes \subseteq Ids /\ Root \in Ids /\ Root \notin Rows
      /\ old \in Seq(Ids) /\ new \in Seq(Ids) /\ p \in Ids
  BY DEF Rows, Ids, GeneratePath, GetPath
<1>2. old # <<>> /\ parent'[n] = p /\ \A m \in Rows \ {n} : parent'[m] = parent[m]
  <2>1. old = GeneratePath(parent[n])
    BY DEF Matching
  <2>2. parent[n] \in Ids
    BY <1>1 DEF Rooted
  <2>3. ASSUME NEW s \in Seq(Ids), NEW x \in Ids PROVE Append(s, x) # <<>>
    <3> DEFINE u == Append(s, x)
               e == <<>>
    <3>1. Len(u) = Len(s) + 1 /\ Len(s) \in Nat
      OBVIOUS
    <3>2. Len(e) = 0
      OBVIOUS
    <3> HIDE DEF u, e
    <3>3. u # e
      BY <3>1, <3>2
    <3> QED
      BY <3>3 DEF u, e
  <2>4. <<>> \in Seq(Ids) /\ \A m \in Rows : path[m] \in Seq(Ids)
    BY <1>1
  <2>5. old # <<>>
    BY <2>1, <2>2, <2>3, <2>4 DEF GeneratePath, GetPath
  <2> QED
    BY <1>1, <2>5
<1>3. CASE old = new
  <2>1. path' = path
    BY <1>3 DEF UpdatePath
  <2> QED
    BY <1>1, <1>2, <1>3, <2>1 DEF Matching, GeneratePath, GetPath
<1>4. CASE old # new
  <2>1. path'[n] = new
    BY <1>1, <1>4 DEF UpdatePath, UpdateDescendantsPath
  <2>2. \A m \in Rows \ {n} :
          path'[m] = IF Below(path[m], old, n) THEN Rebase(path[m], old, new) ELSE path[m]
    <3> DEFINE f == [m \in Nodes |-> IF m \in Rows \cap {n} THEN new ELSE path[m]]
    <3>1. path' = [m \in Nodes |-> IF m \in Rows /\ old # <<>> /\ Below(f[m], old, n)
                                   THEN Rebase(f[m], old, new) ELSE f[m]]
      BY <1>4 DEF UpdatePath, UpdateDescendantsPath
    <3>2. \A m \in Rows \ {n} : f[m] = path[m] /\ m \in Nodes
      BY <1>1
    <3> HIDE DEF f, new, old
    <3> QED
      BY <1>2, <3>1, <3>2
  <2>3. new = Gen(p)
    <3>1. CASE p = Root
      BY <1>1, <3>1 DEF GeneratePath, GetPath
    <3>2. CASE p \in Rows
      <4>1. new = Append(path[p], p) /\ path[p] \in Seq(Ids) /\ n \in Ids
        BY <1>1, <3>2 DEF GeneratePath, GetPath
      <4>2. ~Below(path[p], old, n) /\ ~(path[p] = old /\ p = n)
        BY <1>1, <4>1, BelowAppend
      <4>3. path'[p] = path[p]
        BY <2>2, <3>2, <4>2
      <4> QED
        BY <3>2, <4>1, <4>3
    <3> QED
      BY <3>1, <3>2
  <2>4. ASSUME NEW m \in Rows, m # n
        PROVE  path'[m] = Gen(parent[m])
    <3> DEFINE q == parent[m]
    <3>1. q \in Rows \cup {Root} /\ path[m] = GeneratePath(q) /\ n \in Ids /\ q \in Ids
      BY <1>1 DEF Matching, Rooted
    <3> HIDE DEF q
    <3>2. CASE q = Root
      <4> DEFINE e == <<>>
      <4>1. path[m] = Append(e, Root) /\ e \in Seq(Ids) /\ Len(e) = 0
        BY <1>1, <3>1, <3>2 DEF GeneratePath, GetPath
      <4> HIDE DEF e
      <4>2. ~Below(e, old, n)
        BY <1>1, <4>1 DEF Below, IsPrefix
      <4>3. ~Below(path[m], old, n)
        <5>1. Root # n
          BY <1>1
        <5> HIDE DEF old, new
        <5>2. old \in Seq(Ids) /\ e \in Seq(Ids) /\ Root \in Ids /\ n \in Ids
          BY <1>1, <3>1, <4>1
        <5>3. Below(Append(e, Root), old, n) <=> Below(e, old, n) \/ (e = old /\ Root = n)
          BY ONLY <5>2, BelowAppend
        <5> QED
          BY ONLY <4>1, <4>2, <5>1, <5>3
      <4>4. path'[m] = path[m]
        BY <2>2, <2>4, <4>3
      <4> QED
        BY <1>1, <3>2, <4>1, <4>4 DEF q, e
    <3>3. CASE q = n
      <4>1. path[m] = Append(old, n)
        BY <3>1, <3>3 DEF GeneratePath, GetPath
      <4>2. Below(path[m], old, n)
        BY <1>1, <3>1, <4>1, BelowAppend
      <4>3. Rebase(path[m], old, new) = Append(new, n)
        BY <1>1, <3>1, <4>1, RebaseAppend, SMTT(30)
      <4> QED
        BY <2>1, <2>2, <2>4, <3>3, <4>2, <4>3 DEF q
    <3>4. CASE q \in Rows /\ q # n
      <4>1. path[m] = Append(path[q], q) /\ path[q] \in Seq(Ids)
        BY <1>1, <3>1, <3>4 DEF GeneratePath, GetPath
      <4>2. Below(path[m], old, n) <=> Below(path[q], old, n)
        BY <1>1, <3>1, <3>4, <4>1, BelowAppend
      <4>3. Below(path[q], old, n) => Rebase(path[m], old, new) = Append(Rebase(path[q], old, new), q)
        <5>1. ASSUME Below(path[q], old, n) PROVE Len(old) <= Len(path[q])
          <6>1. Len(Append(old, n)) = Len(old) + 1 /\ Len(old) \in Nat /\ Len(path[q]) \in Nat
            BY <1>1, <3>1, <4>1
          <6> QED
            BY <5>1, <6>1 DEF Below, IsPrefix
        <5> HIDE DEF old, new
        <5>2. path[q] \in Seq(Ids) /\ old \in Seq(Ids) /\ new \in Seq(Ids) /\ q \in Ids
          BY <1>1, <3>1, <4>1
        <5>3. Len(old) <= Len(path[q]) =>
                Rebase(Append(path[q], q), old, new) = Append(Rebase(path[q], old, new), q)
          BY ONLY <5>2, RebaseAppend
        <5> QED
          BY ONLY <4>1, <5>1, <5>3
      <4>4. path'[m] = Append(path'[q], q)
        BY <2>2, <2>4, <3>4, <4>1, <4>2, <4>3
      <4> QED
        BY <3>4, <4>4 DEF q
    <3> QED
      BY <3>1, <3>2, <3>3, <3>4
  <2>5. \A m \in Rows : path'[m] = Gen(parent'[m])
    <3> SUFFICES ASSUME NEW m \in Rows PROVE path'[m] = Gen(parent'[m])
      OBVIOUS
    <3> HIDE DEF Gen, new, old
    <3>1. CASE m = n
      BY <1>2, <2>1, <2>3, <3>1
    <3>2. CASE m # n
      BY <1>2, <2>4, <3>2
    <3> QED
      BY <3>1, <3>2
  <2> QED
    BY <1>1, <2>5 DEF Matching, GeneratePath, GetPath
<1> QED
  BY <1>3, <1>4


LEMMA InitPath == Init => PathInv
  BY InitLevel DEF Init, PathInv, Rooted, Matching, Rows

\* createDepartment adds a leaf.
LEMMA CreateKeepsPaths ==
  ASSUME TypeOK, Rooted, Matching, NEW t \in Threads, CreateWrite(t), Sound(t)
  PROVE  Rooted' /\ Matching'
<1> USE TreePathAssumption
<1>1. PICK n \in Nodes \ Known :
        /\ status' = [status EXCEPT ![n] = "row"]
        /\ parent' = [parent EXCEPT ![n] = target[t]]
        /\ path' = [path EXCEPT ![n] = newPath[t]]
  BY DEF CreateWrite
<1>2. /\ n \notin Rows /\ Rows' = Rows \cup {n} /\ Root \notin Rows /\ Root # n
      /\ path'[n] = newPath[t] /\ parent'[n] = target[t]
      /\ \A m \in Rows : path'[m] = path[m] /\ parent'[m] = parent[m]
  BY <1>1 DEF Known, Rows, TypeOK
<1>3. target[t] \in Rows \cup {Root} /\ newPath[t] = GeneratePath(target[t])
  BY DEF CreateWrite, Sound
<1>4. Rooted'
  BY <1>2, <1>3 DEF Rooted
<1>5. \A q \in Rows \cup {Root} : GeneratePath(q) = Append(IF q \in Rows' THEN path'[q] ELSE <<>>, q)
  BY <1>2 DEF GeneratePath, GetPath
<1>6. \A m \in Rows' : path'[m] = GeneratePath(parent'[m]) /\ parent'[m] \in Rows \cup {Root}
  BY <1>2, <1>3 DEF Rooted, Matching
<1>7. \A m \in Rows' : path'[m] = Append(IF parent'[m] \in Rows' THEN path'[parent'[m]] ELSE <<>>, parent'[m])
  BY <1>5, <1>6
<1> QED
  BY <1>4, <1>7 DEF Matching, GeneratePath, GetPath

\* updateDepartment of a row moves it; without the row it moves nothing.
LEMMA UpdateKeepsPaths ==
  ASSUME TypeOK, Rooted, Matching, NEW t \in Threads, UpdateWrite(t), Sound(t)
  PROVE  Rooted' /\ Matching'
<1>1. /\ UpdatePath(node[t], newPath[t], oldPath[t])
      /\ parent' = [m \in Nodes |-> IF m \in Rows \cap {node[t]} THEN target[t] ELSE parent[m]]
      /\ UNCHANGED status
  BY DEF UpdateWrite
<1>2. Rows' = Rows /\ Rows \subseteq Nodes
  BY <1>1 DEF Rows
<1>3. newPath[t] = GeneratePath(target[t]) /\ oldPath[t] = GetPath(node[t])
  BY DEF UpdateWrite, Sound
<1>4. CASE node[t] \in Rows
  <2>1. /\ target[t] \in Rows \cup {Root} /\ ~Below(newPath[t], oldPath[t], node[t])
        /\ oldPath[t] = path[node[t]]
    BY <1>3, <1>4 DEF UpdateWrite, Sound, GetPath
  <2>2. Matching'
    BY <1>1, <1>3, <1>4, <2>1, MoveKeepsPaths
  <2>3. Rooted'
    BY <1>1, <1>2, <1>4, <2>1 DEF Rooted
  <2> QED
    BY <2>2, <2>3
<1>5. CASE node[t] \notin Rows
  <2>1. oldPath[t] = <<>>
    BY <1>3, <1>5 DEF GetPath
  <2>2. path' = path
    <3>1. CASE oldPath[t] = newPath[t]
      BY <1>1, <3>1 DEF UpdatePath
    <3>2. CASE oldPath[t] # newPath[t]
      <4>1. Rows \cap {node[t]} = {}
        BY <1>5
      <4>2. path' = [m \in Nodes |-> path[m]]
        BY <1>1, <2>1, <3>2, <4>1 DEF UpdatePath, UpdateDescendantsPath
      <4> QED
        BY <4>2 DEF TypeOK
    <3> QED
      BY <3>1, <3>2
  <2>3. parent' = parent
    BY <1>1, <1>5 DEF TypeOK
  <2> QED
    BY <1>2, <2>2, <2>3 DEF Rooted, Matching, GeneratePath, GetPath
<1> QED
  BY <1>4, <1>5

\* deleteDepartment removes a leaf.
LEMMA DeleteKeepsPaths ==
  ASSUME TypeOK, Rooted, Matching, NEW t \in Threads, node[t] \in Nodes, DeleteWrite(t), Sound(t)
  PROVE  Rooted' /\ Matching'
<1> DEFINE n == node[t]
<1>1. ~HasChildren(n)
  BY DEF DeleteWrite, Sound
<1>2. /\ Rows' = Rows \ {n}
      /\ \A m \in Rows \ {n} : path'[m] = path[m] /\ parent'[m] = parent[m] /\ parent[m] # n
  BY <1>1 DEF DeleteWrite, Rows, TypeOK, HasChildren
<1>3. Rooted'
  BY <1>2 DEF Rooted
<1>4. Matching'
  BY <1>2 DEF Matching, GeneratePath, GetPath
<1> QED
  BY <1>3, <1>4

\* Reading changes no column and spoils nothing.
LEMMA ReadsKeepColumns ==
  ASSUME NEW t \in Threads, NEW n, NEW p, CreateRead(t, p) \/ UpdateRead(t, n, p) \/ DeleteRead(t, n)
  PROVE  UNCHANGED <<columns, spoilt>>
  BY DEF CreateRead, UpdateRead, DeleteRead, Bind

LEMMA NextPath == PathInv /\ [Next]_vars => PathInv'
<1> SUFFICES ASSUME PathInv, [Next]_vars
             PROVE  PathInv'
  OBVIOUS
<1>0. LevelInv' /\ TypeOK /\ Parameters
  BY NextLevel DEF PathInv, LevelInv
<1> SUFFICES ASSUME ~spoilt'
             PROVE  Rooted' /\ Matching'
  BY <1>0 DEF PathInv
<1>1. CASE UNCHANGED <<columns, spoilt>>
  BY <1>1 DEF PathInv, columns, Rooted, Matching, Rows, GeneratePath, GetPath
<1>2. ASSUME NEW t \in Threads, Commit(t)
      PROVE  Sound(t) /\ Rooted /\ Matching
  BY <1>2 DEF Commit, PathInv
<1>3. ASSUME NEW t \in Threads, CreateWrite(t)
      PROVE  Rooted' /\ Matching'
  BY <1>0, <1>2, <1>3, CreateKeepsPaths DEF CreateWrite
<1>4. ASSUME NEW t \in Threads, UpdateWrite(t)
      PROVE  Rooted' /\ Matching'
  BY <1>0, <1>2, <1>4, UpdateKeepsPaths DEF UpdateWrite
<1>5. ASSUME NEW t \in Threads, DeleteWrite(t)
      PROVE  Rooted' /\ Matching'
  BY <1>0, <1>2, <1>5, DeleteKeepsPaths DEF DeleteWrite, Parameters
<1>6. CASE UNCHANGED vars
  BY <1>1, <1>6 DEF vars, history
<1> QED
  BY <1>1, <1>3, <1>4, <1>5, <1>6, ReadsKeepColumns DEF Next

LEMMA PathInductive == Spec => []PathInv
  BY InitPath, NextPath, PTL DEF Spec

\* The path column of every row agrees with its parent_id, for a tree of any size
\* and any number of overlapping calls with any parents, up to the first write
\* that rests on outdated reads, makes a cycle or leaves an orphan.
THEOREM PathsConsistent == Spec => []PathMatchesParent
<1>1. PathInv => PathMatchesParent
  BY DEF PathInv, Matching, PathMatchesParent
<1> QED
  BY <1>1, PathInductive, PTL

-----------------------------------------------------------------------------
\* What running calls may rely on: an id that two of them name, or that had no
\* row, is contested; so a call's ids are rows, and what deleteDepartment deletes
\* has no children, or they are contested.
Naming ==
  /\ \A t, u \in Threads : t # u => Named(t) \cap Named(u) \subseteq contested
  /\ \A t \in Threads : Named(t) \subseteq Rows \cup contested
  /\ \A t \in Threads : pc[t] = "delete" => node[t] \in contested \/ ~HasChildren(node[t])

OrphanInv == LevelInv /\ Naming /\ NoOrphanNodes /\ NoOrphanManagers

LEMMA InitOrphan == Init => OrphanInv
  BY InitLevel, TreePathAssumption DEF Init, OrphanInv, Naming, Named, NoOrphanNodes, NoOrphanManagers, Rows

\* A call that begins contests the ids it shares with running calls.
LEMMA BindNaming ==
  ASSUME OrphanInv, NEW t \in Threads, NEW call \in {"create", "update", "delete"},
         NEW n, NEW p, NEW old, NEW new, Bind(t, call, n, p, old, new),
         call = "delete" => ~HasChildren(n)
  PROVE  Naming' /\ NoOrphanNodes' /\ NoOrphanManagers'
<1>0. TypeOK /\ Naming /\ NoOrphanNodes /\ NoOrphanManagers
  BY DEF OrphanInv, LevelInv
<1>1. /\ pc'[t] = call /\ node'[t] = n /\ target'[t] = p
      /\ \A u \in Threads \ {t} : pc'[u] = pc[u] /\ node'[u] = node[u] /\ target'[u] = target[u]
      /\ Rows' = Rows /\ parent' = parent /\ managed' = managed
      /\ contested \subseteq contested'
  BY <1>0 DEF Bind, TypeOK, columns, Rows
<1>2. /\ Named(t)' = Nodes \cap {n, p}
      /\ \A u \in Threads \ {t} : Named(u)' = Named(u)
  BY <1>1 DEF Named
<1>3. \A x \in Nodes \cap {n, p} :
        (x \notin Rows \/ \E u \in Threads \ {t} : x \in Named(u)) => x \in contested'
  BY DEF Bind
<1>4. \A u, v \in Threads : u # v => Named(u)' \cap Named(v)' \subseteq contested'
  <2> SUFFICES ASSUME NEW u \in Threads, NEW v \in Threads, u # v, NEW x \in Named(u)', x \in Named(v)'
               PROVE  x \in contested'
    OBVIOUS
  <2>1. CASE u = t
    BY <1>2, <1>3, <2>1
  <2>2. CASE v = t
    BY <1>2, <1>3, <2>2
  <2>3. CASE u # t /\ v # t
    <3>1. x \in Named(u) /\ x \in Named(v)
      BY <1>2, <2>3
    <3> QED
      BY <1>0, <1>1, <3>1 DEF Naming
  <2> QED
    BY <2>1, <2>2, <2>3
<1>5. \A u \in Threads : Named(u)' \subseteq Rows' \cup contested'
  <2> SUFFICES ASSUME NEW u \in Threads, NEW x \in Named(u)'
               PROVE  x \in Rows \cup contested'
    BY <1>1
  <2>1. CASE u = t
    BY <1>2, <1>3, <2>1
  <2>2. CASE u # t
    BY <1>0, <1>1, <1>2, <2>2 DEF Naming
  <2> QED
    BY <2>1, <2>2
<1>7. \A u \in Threads : pc'[u] = "delete" => node'[u] \in contested' \/ ~\E m \in Rows' : parent'[m] = node'[u]
  <2> SUFFICES ASSUME NEW u \in Threads, pc'[u] = "delete"
               PROVE  node'[u] \in contested' \/ ~\E m \in Rows : parent[m] = node'[u]
    BY <1>1 DEF HasChildren
  <2>1. CASE u = t
    BY <1>1, <2>1 DEF HasChildren
  <2>2. CASE u # t
    BY <1>0, <1>1, <2>2 DEF Naming, HasChildren
  <2> QED
    BY <2>1, <2>2
<1>8. NoOrphanNodes' /\ NoOrphanManagers'
  BY <1>0, <1>1 DEF NoOrphanNodes, NoOrphanManagers
<1> QED
  BY <1>1, <1>4, <1>5, <1>7, <1>8 DEF Naming, HasChildren

\* What a committed call leaves behind: it names nothing, others name the same.
LEMMA CommitNames ==
  ASSUME LevelInv, NEW t \in Threads, Commit(t)
  PROVE  /\ Named(t)' = {} /\ pc'[t] = "idle" /\ contested' = contested
         /\ \A u \in Threads \ {t} : Named(u)' = Named(u) /\ pc'[u] = pc[u] /\ node'[u] = node[u]
<1>1. /\ node'[t] = None /\ target'[t] = None /\ pc'[t] = "idle" /\ contested' = contested
      /\ \A u \in Threads \ {t} : pc'[u] = pc[u] /\ node'[u] = node[u] /\ target'[u] = target[u]
  BY DEF LevelInv, TypeOK, Commit
<1> QED
  BY <1>1, TreePathAssumption DEF Named

\* A write keeps what the other calls rely on if it takes away no row that
\* another call may count on, and gives children only to what it names.
LEMMA CommitNaming ==
  ASSUME OrphanInv, NEW t \in Threads, Commit(t),
         Rows \ Named(t) \subseteq Rows',
         \A m \in Rows' : (m \in Rows /\ parent'[m] = parent[m]) \/ parent'[m] \in Named(t) \cup {Root}
  PROVE  Naming'
<1>0. Naming /\ LevelInv /\ Parameters
  BY DEF OrphanInv, LevelInv
<1>1. /\ Named(t)' = {} /\ pc'[t] = "idle" /\ contested' = contested
      /\ \A u \in Threads \ {t} : Named(u)' = Named(u) /\ pc'[u] = pc[u] /\ node'[u] = node[u]
  BY <1>0, CommitNames
<1>2. \A u, v \in Threads : u # v => Named(u)' \cap Named(v)' \subseteq contested'
  BY <1>0, <1>1 DEF Naming
<1>3. \A u \in Threads : Named(u)' \subseteq Rows' \cup contested'
  <2> SUFFICES ASSUME NEW u \in Threads \ {t}, NEW x \in Named(u), x \notin contested
               PROVE  x \in Rows'
    BY <1>1
  <2>1. x \in Rows /\ x \notin Named(t)
    BY <1>0 DEF Naming
  <2> QED
    BY <2>1
<1>4. \A u \in Threads : pc'[u] = "delete" => node'[u] \in contested' \/ ~\E m \in Rows' : parent'[m] = node'[u]
  <2> SUFFICES ASSUME NEW u \in Threads \ {t}, pc[u] = "delete", node[u] \notin contested,
                      NEW m \in Rows', parent'[m] = node[u]
               PROVE  FALSE
    BY <1>1
  <2>1. node[u] \in Nodes /\ node[u] \in Named(u) /\ node[u] # Root
    BY <1>0, TreePathAssumption DEF Parameters, Named
  <2>2. node[u] \notin Named(t) /\ \A k \in Rows : parent[k] # node[u]
    BY <1>0, <2>1 DEF Naming, HasChildren
  <2> QED
    BY <2>1, <2>2
<1> QED
  BY <1>2, <1>3, <1>4 DEF Naming, HasChildren

LEMMA NextOrphan == OrphanInv /\ [Next]_vars => OrphanInv'
<1> SUFFICES ASSUME OrphanInv, [Next]_vars
             PROVE  OrphanInv'
  OBVIOUS
<1>0. LevelInv' /\ LevelInv /\ TypeOK /\ Parameters /\ Naming /\ NoOrphanNodes /\ NoOrphanManagers
  BY NextLevel DEF OrphanInv, LevelInv
<1> SUFFICES Naming' /\ NoOrphanNodes' /\ NoOrphanManagers'
  BY <1>0 DEF OrphanInv
<1>1. ASSUME NEW t \in Threads, NEW n, NEW p, CreateRead(t, p) \/ UpdateRead(t, n, p) \/ DeleteRead(t, n)
      PROVE  Naming' /\ NoOrphanNodes' /\ NoOrphanManagers'
  <2>1. CASE CreateRead(t, p)
    BY <2>1, BindNaming DEF CreateRead
  <2>2. CASE UpdateRead(t, n, p)
    BY <2>2, BindNaming DEF UpdateRead
  <2>3. CASE DeleteRead(t, n)
    BY <2>3, BindNaming DEF DeleteRead
  <2> QED
    BY <1>1, <2>1, <2>2, <2>3
<1>2. ASSUME NEW t \in Threads, CreateWrite(t)
      PROVE  Naming' /\ NoOrphanNodes' /\ NoOrphanManagers'
  <2>1. PICK n \in Nodes :
          /\ status' = [status EXCEPT ![n] = "row"]
          /\ parent' = [parent EXCEPT ![n] = target[t]]
          /\ SetManagers(n)
    BY <1>2 DEF CreateWrite
  <2>2. target[t] \in Ids /\ Commit(t)
    BY <1>0, <1>2 DEF CreateWrite, Parameters
  <2>3. target[t] \in Named(t) \cup {Root} /\ Named(t) \subseteq Rows \cup contested
    BY <1>0, <2>2 DEF Named, Ids, Naming
  <2>4. /\ Rows' = Rows \cup {n} /\ contested' = contested /\ parent'[n] = target[t]
        /\ \A m \in Rows \ {n} : parent'[m] = parent[m]
    BY <1>0, <2>1, <2>2 DEF TypeOK, Rows, Commit
  <2>5. Naming'
    BY <2>2, <2>3, <2>4, CommitNaming
  <2>6. NoOrphanNodes'
    BY <1>0, <2>3, <2>4 DEF NoOrphanNodes
  <2>7. NoOrphanManagers'
    BY <1>0, <2>1, <2>4 DEF NoOrphanManagers, SetManagers
  <2> QED
    BY <2>5, <2>6, <2>7
<1>3. ASSUME NEW t \in Threads, UpdateWrite(t)
      PROVE  Naming' /\ NoOrphanNodes' /\ NoOrphanManagers'
  <2>1. /\ parent' = [m \in Nodes |-> IF m \in Rows \cap {node[t]} THEN target[t] ELSE parent[m]]
        /\ SetManagers(node[t]) /\ Commit(t) /\ UNCHANGED status
    BY <1>3 DEF UpdateWrite
  <2>2. target[t] \in Ids /\ node[t] \in Nodes
    BY <1>0, <1>3 DEF UpdateWrite, Parameters
  <2>3. /\ target[t] \in Named(t) \cup {Root} /\ node[t] \in Named(t)
        /\ Named(t) \subseteq Rows \cup contested
    BY <1>0, <2>2 DEF Named, Ids, Naming
  <2>4. /\ Rows' = Rows /\ contested' = contested
        /\ \A m \in Rows : parent'[m] = parent[m] \/ parent'[m] = target[t]
    BY <2>1 DEF Rows, Commit
  <2>5. Naming'
    BY <2>1, <2>3, <2>4, CommitNaming
  <2>6. NoOrphanNodes'
    BY <1>0, <2>3, <2>4 DEF NoOrphanNodes
  <2>7. NoOrphanManagers'
    BY <1>0, <2>1, <2>3, <2>4 DEF NoOrphanManagers, SetManagers
  <2> QED
    BY <2>5, <2>6, <2>7
<1>4. ASSUME NEW t \in Threads, DeleteWrite(t)
      PROVE  Naming' /\ NoOrphanNodes' /\ NoOrphanManagers'
  <2>1. node[t] \in Nodes /\ Commit(t) /\ managed' = managed \ {node[t]}
    BY <1>0, <1>4 DEF DeleteWrite, Parameters
  <2>2. node[t] \in Named(t) /\ (node[t] \in contested \/ ~HasChildren(node[t]))
    BY <1>0, <1>4, <2>1 DEF DeleteWrite, Named, Naming
  <2>3. /\ Rows' = Rows \ {node[t]} /\ contested' = contested
        /\ \A m \in Rows' : parent'[m] = parent[m]
    BY <1>0, <1>4, <2>1 DEF DeleteWrite, TypeOK, Rows, Commit
  <2>4. Naming'
    BY <2>1, <2>2, <2>3, CommitNaming
  <2>5. NoOrphanNodes'
    BY <1>0, <2>2, <2>3 DEF NoOrphanNodes, HasChildren
  <2>6. NoOrphanManagers'
    BY <1>0, <2>1, <2>3 DEF NoOrphanManagers
  <2> QED
    BY <2>4, <2>5, <2>6
<1>5. CASE UNCHANGED vars
  BY <1>0, <1>5 DEF vars, columns, locals, history, Naming, Named, HasChildren, NoOrphanNodes, NoOrphanManagers, Rows
<1> QED
  BY <1>1, <1>2, <1>3, <1>4, <1>5 DEF Next

LEMMA OrphanInductive == Spec => []OrphanInv
  BY InitOrphan, NextOrphan, PTL DEF Spec

\* A row whose parent is gone has a parent that two calls named at once, or that
\* was named after its deletion: deleteDepartment's test for children is overtaken
\* by nothing else, for any number of concurrent calls.
THEOREM NoOrphanNodesAlways == Spec => []NoOrphanNodes
  BY OrphanInductive, PTL DEF OrphanInv

\* Managers of a department that is gone are left by the same calls only.
THEOREM NoOrphanManagersAlways == Spec => []NoOrphanManagers
  BY OrphanInductive, PTL DEF OrphanInv

-----------------------------------------------------------------------------
\* A set of natural numbers has a least member: the form in which the proofs
\* below use induction.
LEMMA LeastNat ==
  ASSUME NEW S \in SUBSET Nat, S # {}
  PROVE  \E m \in S : \A k \in S : m <= k
<1> DEFINE R == OpToRel(<, Nat)
<1>1. IsWellFoundedOn(R, Nat)
  BY NatLessThanWellFounded
<1>2. \A m, k \in Nat : k < m => <<k, m>> \in R
  BY DEF OpToRel
<1> HIDE DEF R
<1>3. PICK m \in S : \A k \in S : ~(<<k, m>> \in R)
  BY <1>1, WFMin
<1>4. ASSUME NEW k \in S PROVE m <= k
  <2>1. ~(k < m)
    BY <1>2, <1>3
  <2>2. k \in Nat /\ m \in Nat
    OBVIOUS
  <2> QED
    BY <2>1, <2>2
<1> QED
  BY <1>4

\* Every set of rows has one with a path that is not longer than the others.
LEMMA ShortestPath ==
  ASSUME TypeOK, NEW D \in SUBSET Rows, D # {}
  PROVE  \E m \in D : \A k \in D : Len(path[m]) <= Len(path[k])
<1> DEFINE S == {Len(path[m]) : m \in D}
<1>1. \A m \in D : Len(path[m]) \in Nat
  BY DEF TypeOK, Rows
<1>2. S \in SUBSET Nat /\ S # {}
  BY <1>1
<1>3. PICK l \in S : \A k \in S : l <= k
  BY <1>2, LeastNat
<1>4. PICK m \in D : l = Len(path[m])
  OBVIOUS
<1> QED
  BY <1>3, <1>4

\* Whatever holds of exactly the rows whose parent it holds of, or is n, holds of
\* exactly the rows below n.
LEMMA OffspringByParent ==
  ASSUME TypeOK, Matching, Rooted, NEW n \in Rows, NEW D \in SUBSET Rows,
         \A m \in Rows : m \in D <=> parent[m] \in D \cup {n}
  PROVE  D = Offspring(n)
<1>1. ASSUME NEW m \in Offspring(n) PROVE m \in D
  BY DEF Offspring
<1>2. ASSUME NEW S \in SUBSET Rows, \A k \in Rows : parent[k] \in S \cup {n} => k \in S
      PROVE  D \subseteq S
  <2> SUFFICES ASSUME D \ S # {} PROVE FALSE
    OBVIOUS
  <2>1. PICK m \in D \ S : \A k \in D \ S : Len(path[m]) <= Len(path[k])
    BY ShortestPath
  <2>2. parent[m] \in D
    BY <1>2
  <2>3. path[m] = Append(path[parent[m]], parent[m])
    BY <2>2 DEF Matching, GeneratePath, GetPath
  <2>4. path[parent[m]] \in Seq(Ids) /\ parent[m] \in Ids
    BY <2>2 DEF TypeOK, Rows, Ids
  <2>5. Len(path[m]) = Len(path[parent[m]]) + 1 /\ Len(path[parent[m]]) \in Nat
    BY <2>3, <2>4
  <2>6. parent[m] \in S
    BY <2>1, <2>2, <2>5
  <2> QED
    BY <1>2, <2>6
<1> QED
  BY <1>1, <1>2 DEF Offspring

\* getDescendants finds the rows whose parent is the node or was found.
LEMMA DescendantsByParent ==
  ASSUME TypeOK, Matching, Rooted, NEW n \in Rows, NEW m \in Rows
  PROVE  m \in GetDescendants(n) <=> parent[m] \in GetDescendants(n) \cup {n}
<1>1. /\ n \in Ids /\ path[n] \in Seq(Ids) /\ parent[m] \in Rows \cup {Root} /\ parent[m] \in Ids
      /\ Root \notin Rows /\ path[m] = GeneratePath(parent[m])
  BY TreePathAssumption DEF TypeOK, Rows, Ids, Rooted, Matching
<1>2. CASE parent[m] \in Rows
  <2>1. path[parent[m]] \in Seq(Ids) /\ path[m] = Append(path[parent[m]], parent[m])
    BY <1>1, <1>2 DEF TypeOK, Rows, GeneratePath, GetPath
  <2>2. Below(path[m], path[n], n) <=>
          Below(path[parent[m]], path[n], n) \/ (path[parent[m]] = path[n] /\ parent[m] = n)
    BY <1>1, <2>1, BelowAppend
  <2> QED
    BY <1>2, <2>2 DEF GetDescendants
<1>3. CASE parent[m] = Root
  <2>1. path[m] = Append(<<>>, Root)
    BY <1>1, <1>3 DEF GeneratePath, GetPath
  <2>2. Below(path[m], path[n], n) <=> Below(<<>>, path[n], n) \/ (<<>> = path[n] /\ Root = n)
    <3> DEFINE e == <<>>
    <3>1. e \in Seq(Ids) /\ Root \in Ids
      BY DEF Ids
    <3> HIDE DEF e
    <3>2. Below(Append(e, Root), path[n], n) <=> Below(e, path[n], n) \/ (e = path[n] /\ Root = n)
      BY <1>1, <3>1, BelowAppend
    <3> QED
      BY <2>1, <3>2 DEF e
  <2>3. ~Below(<<>>, path[n], n)
    <3> DEFINE e == <<>>
    <3>1. Len(Append(path[n], n)) = Len(path[n]) + 1 /\ Len(path[n]) \in Nat
      BY <1>1
    <3>2. Len(e) = 0
      OBVIOUS
    <3> HIDE DEF e
    <3>3. ~Below(e, path[n], n)
      BY <3>1, <3>2 DEF Below, IsPrefix
    <3> QED
      BY <3>3 DEF e
  <2> QED
    BY <1>1, <1>3, <2>2, <2>3 DEF GetDescendants
<1> QED
  BY <1>1, <1>2, <1>3

\* getAncestors finds the parent and what it finds of the parent.
LEMMA AncestorsByParent ==
  ASSUME TypeOK, Matching, Rooted, NEW n \in Rows, NEW m \in Rows
  PROVE  n \in GetAncestors(m) <=>
           parent[m] \in Rows /\ (parent[m] = n \/ n \in GetAncestors(parent[m]))
<1>1. /\ parent[m] \in Rows \cup {Root} /\ parent[m] \in Ids
      /\ Root \notin Rows /\ path[m] = GeneratePath(parent[m])
  BY TreePathAssumption DEF TypeOK, Rows, Ids, Rooted, Matching
<1>2. CASE parent[m] \in Rows
  <2> DEFINE q == path[parent[m]]
  <2>1. q \in Seq(Ids) /\ path[m] = Append(q, parent[m])
    BY <1>1, <1>2 DEF TypeOK, Rows, GeneratePath, GetPath
  <2>2. Len(q) \in Nat /\ Len(q) >= 1
    <3>1. \E s \in Seq(Ids), x \in Ids : q = Append(s, x)
      <4>1. q = GeneratePath(parent[parent[m]]) /\ parent[parent[m]] \in Ids
        BY <1>2 DEF Matching, Rooted, Rows, Ids
      <4>2. (IF parent[parent[m]] \in Rows THEN path[parent[parent[m]]] ELSE <<>>) \in Seq(Ids)
        BY DEF TypeOK, Rows
      <4> QED
        BY <4>1, <4>2 DEF GeneratePath, GetPath
    <3> HIDE DEF q
    <3> QED
      BY <3>1
  <2> HIDE DEF q
  <2>3. /\ Len(path[m]) = Len(q) + 1 /\ path[m][Len(q) + 1] = parent[m]
        /\ \A i \in 1..Len(q) : path[m][i] = q[i]
    BY <1>1, <2>1
  <2>4. (\E i \in 2..Len(path[m]) : path[m][i] = n) <=> parent[m] = n \/ (\E i \in 2..Len(q) : q[i] = n)
    BY <2>2, <2>3
  <2> QED
    BY <1>2, <2>4 DEF GetAncestors, q
<1>3. CASE parent[m] = Root
  <2>1. path[m] = <<Root>>
    BY <1>1, <1>3 DEF GeneratePath, GetPath
  <2> QED
    BY <1>1, <1>3, <2>1 DEF GetAncestors
<1> QED
  BY <1>1, <1>2, <1>3

\* Up to the first write that spoils the paths, the queries on the path column
\* find the family that parent_id tells: getDescendants the rows below a row,
\* getAncestors the rows above it, though INSTR never looks at the first id of a
\* path (TreeDao.xml).
THEOREM PathFindsFamilyAlways == Spec => []PathFindsFamily
<1>1. PathInv => PathFindsFamily
  <2> SUFFICES ASSUME PathInv, ~spoilt, NEW n \in Rows
               PROVE  \A m \in Rows : /\ m \in GetDescendants(n) <=> m \in Offspring(n)
                                      /\ n \in GetAncestors(m) <=> m \in Offspring(n)
    BY DEF PathFindsFamily
  <2>1. TypeOK /\ Matching /\ Rooted
    BY DEF PathInv, LevelInv
  <2>2. GetDescendants(n) = Offspring(n)
    <3>1. GetDescendants(n) \in SUBSET Rows
      BY DEF GetDescendants
    <3> QED
      BY <2>1, <3>1, DescendantsByParent, OffspringByParent
  <2> DEFINE D == {m \in Rows : n \in GetAncestors(m)}
  <2>3. D = Offspring(n)
    <3>1. \A m \in Rows : m \in D <=> parent[m] \in D \cup {n}
      BY <2>1, AncestorsByParent
    <3>2. D \in SUBSET Rows
      OBVIOUS
    <3> HIDE DEF D
    <3> QED
      BY <2>1, <3>1, <3>2, OffspringByParent
  <2> QED
    BY <2>2, <2>3
<1> QED
  BY <1>1, PathInductive, PTL

-----------------------------------------------------------------------------
\* The tree of the parent_id column, which is the tree of the path column.
Family == [n \in Nodes |-> IF n \in Rows THEN parent[n] ELSE None]

LEMMA FamilyOfPaths ==
  ASSUME TypeOK, Matching, Rooted
  PROVE  PathFamily = Family /\ \A n \in Nodes : Family[n] # None <=> n \in Rows
<1> USE TreePathAssumption
<1>1. ASSUME NEW n \in Rows
      PROVE  Last(path[n]) = parent[n] /\ parent[n] # None
  <2>1. n \in Nodes /\ parent[n] \in Ids /\ parent[n] # None
    BY DEF Rooted, Rows, Ids
  <2>2. path[n] = Append(IF parent[n] \in Rows THEN path[parent[n]] ELSE <<>>, parent[n])
    BY DEF Matching, GeneratePath, GetPath
  <2>3. (IF parent[n] \in Rows THEN path[parent[n]] ELSE <<>>) \in Seq(Ids)
    BY DEF TypeOK, Rows
  <2>4. \A q \in Seq(Ids), x \in Ids : Last(Append(q, x)) = x
    BY DEF Last
  <2> QED
    BY <2>1, <2>2, <2>3, <2>4
<1> QED
  BY <1>1 DEF Family, PathFamily, Rows

\* A parent that updateDepartment accepts from a careful caller is not in the
\* subtree of the node: the rows with the node in their path are closed under
\* children.
LEMMA OutsideSubtree ==
  ASSUME TypeOK, Matching, Rooted,
         NEW n \in Rows, NEW p \in Rows \cup {Root}, ~Below(GeneratePath(p), path[n], n)
  PROVE  p \notin T!Subtree(n)
<1> USE TreePathAssumption
<1> DEFINE S == {m \in Rows : m = n \/ Below(path[m], path[n], n)}
<1>1. n \in Nodes /\ n \in Ids /\ path[n] \in Seq(Ids) /\ Rows \subseteq Nodes
  BY DEF Rows, Ids, TypeOK
<1>2. ASSUME NEW m \in Rows
      PROVE  Below(GeneratePath(m), path[n], n) <=> m \in S
  <2>1. m \in Ids /\ path[m] \in Seq(Ids) /\ GeneratePath(m) = Append(path[m], m)
    BY DEF Rows, Ids, TypeOK, GeneratePath, GetPath
  <2>2. Below(GeneratePath(m), path[n], n) <=> Below(path[m], path[n], n) \/ (path[m] = path[n] /\ m = n)
    BY <1>1, <2>1, BelowAppend
  <2> QED
    BY <2>2
<1>3. p \notin S
  BY <1>2 DEF Rows
<1>4. ASSUME NEW x \in Nodes, PathFamily[x] \in S
      PROVE  x \in S
  <2>1. x \in Rows /\ parent[x] \in S
    BY <1>1, <1>4, FamilyOfPaths DEF Family
  <2>2. path[x] = GeneratePath(parent[x])
    BY <2>1 DEF Matching
  <2> QED
    BY <1>2, <2>1, <2>2
<1> HIDE DEF S
<1>5. S \in SUBSET Nodes /\ n \in S
  BY <1>1 DEF S
<1> QED
  BY <1>3, <1>4, <1>5 DEF T!Subtree, PathFamily

\* Up to the first write that spoils the paths the services implement the abstract
\* tree, however their calls overlap: reading is a stuttering step, writing is one
\* Add, Move or Remove of the tree that the paths tell, however many it rewrites.
THEOREM PathsImplementTree == Spec => ImplementsTree
<1> USE TreePathAssumption
<1>1. Init => T!Init
  BY DEF Init, T!Init, PathFamily, Rows
<1>0. (TypeOK /\ Matching /\ Rooted => PathFamily = Family)'
  <2>1. TypeOK /\ Matching /\ Rooted => PathFamily = Family
    BY FamilyOfPaths
  <2> QED
    BY <2>1, PTL
<1>2. PathInv /\ PathInv' /\ [Next]_vars => [~spoilt' => T!Next \/ UNCHANGED PathFamily]_vars
  <2> SUFFICES ASSUME PathInv, PathInv', Next, ~spoilt'
               PROVE  T!Next \/ PathFamily' = PathFamily
    OBVIOUS
  <2>a. /\ Rooted' /\ Matching' /\ TypeOK'
        /\ \A t \in Threads : Commit(t) => Rooted /\ Matching /\ Sound(t)
    BY DEF PathInv, LevelInv, Commit
  <2>b. CASE UNCHANGED columns
    BY <2>b DEF columns, PathFamily, Rows
  <2>c. SUFFICES ASSUME Rooted, Matching
                 PROVE  T!Next \/ PathFamily' = PathFamily
    <3>1. \A t \in Threads : CreateWrite(t) \/ UpdateWrite(t) \/ DeleteWrite(t) => Commit(t)
      BY DEF CreateWrite, UpdateWrite, DeleteWrite
    <3>2. ASSUME NEW t \in Threads, NEW n, NEW p, CreateRead(t, p) \/ UpdateRead(t, n, p) \/ DeleteRead(t, n)
          PROVE  UNCHANGED columns
      BY <3>2, ReadsKeepColumns
    <3> QED
      BY <2>a, <2>b, <3>1, <3>2 DEF Next
  <2>0. /\ TypeOK /\ Matching /\ Rooted
        /\ PathFamily = Family /\ PathFamily' = Family'
        /\ \A n \in Nodes : PathFamily[n] # None <=> n \in Rows
        /\ Rows \subseteq Nodes
    BY <1>0, <2>a, <2>c, FamilyOfPaths DEF PathInv, LevelInv, Rows
  <2>2. ASSUME NEW t \in Threads, CreateWrite(t)
        PROVE  T!Next
    <3>1. PICK n \in Nodes \ Known : status' = [status EXCEPT ![n] = "row"] /\ parent' = [parent EXCEPT ![n] = target[t]]
      BY <2>2 DEF CreateWrite
    <3>2. PICK p \in Rows \cup {Root} : p = target[t]
      BY <2>a, <2>2 DEF CreateWrite, Sound
    <3>3. Rows' = Rows \cup {n} /\ n \notin Rows
      BY <2>0, <3>1 DEF Rows, Known, TypeOK
    <3>4. PathFamily' = [PathFamily EXCEPT ![n] = p]
      BY <2>0, <3>1, <3>2, <3>3 DEF Family, TypeOK
    <3>5. T!Add(n, p)
      BY <2>0, <3>1, <3>2, <3>3, <3>4 DEF T!Add, T!Present, PathFamily
    <3> QED
      BY <2>0, <3>1, <3>2, <3>5 DEF T!Next
  <2>3. ASSUME NEW t \in Threads, UpdateWrite(t)
        PROVE  T!Next \/ PathFamily' = PathFamily
    <3>a. Sound(t) /\ pc[t] = "update"
      BY <2>a, <2>3 DEF UpdateWrite
    <3>b. CASE node[t] \notin Rows
      <4>1. parent' = [m \in Nodes |-> IF m \in Rows \cap {node[t]} THEN target[t] ELSE parent[m]] /\ Rows' = Rows
        BY <2>3 DEF UpdateWrite, Rows
      <4>2. \A m \in Rows : parent'[m] = parent[m]
        BY <2>0, <3>b, <4>1
      <4> QED
        BY <2>0, <4>1, <4>2 DEF Family
    <3>c. SUFFICES ASSUME node[t] \in Rows
                   PROVE  T!Next
      BY <3>b
    <3>1. PICK n \in Rows, p \in Rows \cup {Root} :
            n = node[t] /\ p = target[t] /\ ~Below(GeneratePath(p), path[n], n)
      BY <3>a, <3>c DEF Sound, GetPath
    <3>2. parent' = [m \in Nodes |-> IF m \in Rows \cap {n} THEN p ELSE parent[m]] /\ Rows' = Rows
      BY <2>3, <3>1 DEF UpdateWrite, Rows
    <3>3. PathFamily' = [PathFamily EXCEPT ![n] = p]
      BY <2>0, <3>1, <3>2 DEF Family
    <3>4. p \notin T!Subtree(n)
      BY <2>0, <3>1, OutsideSubtree
    <3>5. T!Move(n, p)
      BY <2>0, <3>1, <3>3, <3>4 DEF T!Move, T!Present, PathFamily
    <3> QED
      BY <2>0, <3>1, <3>5 DEF T!Next
  <2>4. ASSUME NEW t \in Threads, DeleteWrite(t)
        PROVE  T!Next \/ PathFamily' = PathFamily
    <3>1. PICK n \in Nodes : n = node[t] /\ ~HasChildren(n)
      BY <2>a, <2>4 DEF DeleteWrite, Sound, PathInv, LevelInv, Parameters
    <3>2. Rows' = Rows \ {n} /\ \A m \in Rows \ {n} : parent'[m] = parent[m]
      BY <2>0, <2>4, <3>1 DEF DeleteWrite, Rows, TypeOK
    <3>3. PathFamily' = [PathFamily EXCEPT ![n] = None]
      BY <2>0, <3>1, <3>2 DEF Family
    <3>4. CASE n \in Rows
      <4>1. \A m \in Nodes : PathFamily[m] # n
        BY <2>0, <3>1 DEF Family, HasChildren
      <4>2. T!Remove(n)
        BY <2>0, <3>3, <3>4, <4>1 DEF T!Remove, T!Present, PathFamily
      <4> QED
        BY <3>1, <4>2 DEF T!Next
    <3>5. CASE n \notin Rows
      BY <2>0, <3>1, <3>3, <3>5 DEF Family
    <3> QED
      BY <3>4, <3>5
  <2>5. ASSUME NEW t \in Threads, NEW n, NEW p, CreateRead(t, p) \/ UpdateRead(t, n, p) \/ DeleteRead(t, n)
        PROVE  UNCHANGED columns
    BY <2>5, ReadsKeepColumns
  <2> QED
    BY <2>b, <2>2, <2>3, <2>4, <2>5 DEF Next
<1> QED
  BY <1>1, <1>2, PathInductive, PTL DEF Spec, ImplementsTree
=============================================================================
