------------------------------ MODULE TreePath ------------------------------
(***************************************************************************)
(* The materialised path of a tree table: AbstractTreeService and TreeDao, *)
(* driven by DepartmentServiceImpl (ResourceServiceImpl and                *)
(* RegionServiceImpl call them the same way).                              *)
(*                                                                         *)
(* The string "0/7/9/" is the sequence <<0, 7, 9>>: every id is followed   *)
(* by a slash, so LIKE 'x/y/%' is the prefix relation, substring drops     *)
(* leading ids and the number of slashes is the length.                    *)
(*                                                                         *)
(* A service call is one transaction.  Its reads come first and see one    *)
(* snapshot (repeatable read); its updates see the latest committed rows,  *)
(* hold their locks until the commit and are one step.                     *)
(***************************************************************************)
EXTENDS Integers, Sequences, SequencesExt

CONSTANTS
  Threads,       \* threads that run service calls
  Nodes,         \* ids the auto-increment column can hand out
  Root,          \* parent_id 0 of a top department
  None,          \* an unset local variable
  MaxPath        \* bound on the length of a path

ASSUME TreePathAssumption ==
  /\ Root \notin Nodes
  /\ None \notin Nodes \cup {Root}
  /\ MaxPath \in Nat

VARIABLES
  status,    \* node -> unused, row, deleted (ids are not reused)
  parent,    \* column parent_id
  path,      \* column path; <<>> for no row
  level,     \* column level
  managed,   \* departments with rows in s_manager
  pc,        \* the call of each thread: idle, create, update, delete
  node,      \* parameter id of the call
  target,    \* parameter parent_id of the call
  oldPath,   \* local variable oldPath; <<>> is null
  newPath,   \* local variable newPath
  contested, \* history: ids that two running calls named at once, or that a
             \* call named when their row was gone already
  spoilt     \* history: some call wrote what no longer fitted the tables

columns == <<status, parent, path, level, managed>>
locals == <<pc, node, target, oldPath, newPath>>
history == <<contested, spoilt>>
vars == <<columns, locals, history>>

Ids == Nodes \cup {Root}
Rows == {n \in Nodes : status[n] = "row"}

TypeOK ==
  /\ status \in [Nodes -> {"unused", "row", "deleted"}]
  /\ parent \in [Nodes -> Ids \cup {None}]
  /\ path \in [Nodes -> Seq(Ids)]
  /\ level \in [Nodes -> Nat]
  /\ managed \in SUBSET Nodes
  /\ pc \in [Threads -> {"idle", "create", "update", "delete"}]
  /\ node \in [Threads -> Nodes \cup {None}]
  /\ target \in [Threads -> Ids \cup {None}]
  /\ oldPath \in [Threads -> Seq(Ids)]
  /\ newPath \in [Threads -> Seq(Ids)]
  /\ contested \in SUBSET Nodes
  /\ spoilt \in BOOLEAN

Init ==
  /\ status = [n \in Nodes |-> "unused"]
  /\ parent = [n \in Nodes |-> None]
  /\ path = [n \in Nodes |-> <<>>]
  /\ level = [n \in Nodes |-> 0]
  /\ managed = {}
  /\ pc = [t \in Threads |-> "idle"]
  /\ node = [t \in Threads |-> None]
  /\ target = [t \in Threads |-> None]
  /\ oldPath = [t \in Threads |-> <<>>]
  /\ newPath = [t \in Threads |-> <<>>]
  /\ contested = {}
  /\ spoilt = FALSE

(***************************************************************************)
(* TreeDao                                                                 *)
(***************************************************************************)

\* The path column of a row, null without one.
GetPath(n) == IF n \in Rows THEN path[n] ELSE <<>>

\* CONCAT(IFNULL((SELECT path ... WHERE id = parent_id), ''), parent_id, '/')
GeneratePath(p) == Append(GetPath(p), p)

\* path LIKE concat(old_path, id, '/%')
Below(s, old, id) == IsPrefix(Append(old, id), s)

\* concat(new_path, substring(path, length(old_path) + 1))
Rebase(s, old, new) == new \o SubSeq(s, Len(old) + 1, Len(s))

\* path LIKE concat((SELECT path ... WHERE id = n), n, '/%')
GetDescendants(n) == {m \in Rows : Below(path[m], path[n], n)}

\* Mutant: the query of the descendants, as in select_ancestor_sql.
GetAncestorsCopied(n) == GetDescendants(n)

\* INSTR(path of n, '/m/') > 0: the first id of a path has no slash before it.
GetAncestors(n) == {m \in Rows : \E i \in 2..Len(path[n]) : path[n][i] = m}

HasChildren(n) == \E m \in Rows : parent[m] = n

\* Mutant: the like pattern ends with the old path of the moved node itself.
UpdateDescendantsPathOfSiblings(f, l, id, new, old) ==
  LET hit == {m \in Rows : old # <<>> /\ IsPrefix(old, f[m])} IN
  /\ path' = [m \in Nodes |-> IF m \in hit THEN Rebase(f[m], old, new) ELSE f[m]]
  /\ level' = [m \in Nodes |-> IF m \in hit THEN l[m] + Len(new) - Len(old) ELSE l[m]]

\* Mutant: the level is not moved with the path.
UpdateDescendantsPathOnly(f, l, id, new, old) ==
  LET hit == {m \in Rows : old # <<>> /\ Below(f[m], old, id)} IN
  /\ path' = [m \in Nodes |-> IF m \in hit THEN Rebase(f[m], old, new) ELSE f[m]]
  /\ level' = l

\* Mutant: the slashes of the new path are not counted.
UpdateDescendantsPathMinus(f, l, id, new, old) ==
  LET hit == {m \in Rows : old # <<>> /\ Below(f[m], old, id)} IN
  /\ path' = [m \in Nodes |-> IF m \in hit THEN Rebase(f[m], old, new) ELSE f[m]]
  /\ level' = [m \in Nodes |-> IF m \in hit THEN l[m] - Len(old) ELSE l[m]]

\* updateDescendantsPath, on the paths f and levels l that updatePath has left.
UpdateDescendantsPath(f, l, id, new, old) ==
  LET hit == {m \in Rows : old # <<>> /\ Below(f[m], old, id)} IN
  /\ path' = [m \in Nodes |-> IF m \in hit THEN Rebase(f[m], old, new) ELSE f[m]]
  /\ level' = [m \in Nodes |-> IF m \in hit THEN l[m] + Len(new) - Len(old) ELSE l[m]]

\* AbstractTreeService.updatePath: TreeDao.updatePath, then the descendants.
UpdatePath(id, new, old) ==
  IF old = new THEN UNCHANGED <<path, level>>
  ELSE LET written == Rows \cap {id} IN
       UpdateDescendantsPath([m \in Nodes |-> IF m \in written THEN new ELSE path[m]],
                             [m \in Nodes |-> IF m \in written THEN Len(new) ELSE level[m]],
                             id, new, old)

(***************************************************************************)
(* DepartmentServiceImpl                                                   *)
(***************************************************************************)

\* The departments that a running call is about.
Named(t) == Nodes \cap {node[t], target[t]}

\* What the call of t has read is still so, it does not put a node below itself
\* or below a parent that is gone, and it does not delete a parent.
Sound(t) ==
  LET n == node[t] IN
  /\ pc[t] \in {"create", "update"} => newPath[t] = GeneratePath(target[t])
  /\ pc[t] = "create" => target[t] \in Rows \cup {Root}
  /\ pc[t] = "update" =>
       /\ oldPath[t] = GetPath(n)
       /\ n \in Rows => target[t] \in Rows \cup {Root} /\ ~Below(newPath[t], oldPath[t], n)
  /\ pc[t] = "delete" => ~HasChildren(n)

Bind(t, call, n, p, old, new) ==
  /\ pc[t] = "idle"
  /\ pc' = [pc EXCEPT ![t] = call]
  /\ node' = [node EXCEPT ![t] = n]
  /\ target' = [target EXCEPT ![t] = p]
  /\ oldPath' = [oldPath EXCEPT ![t] = old]
  /\ newPath' = [newPath EXCEPT ![t] = new]
  /\ contested' = contested \cup {x \in Nodes \cap {n, p} :
       x \notin Rows \/ \E u \in Threads \ {t} : x \in Named(u)}
  /\ UNCHANGED <<columns, spoilt>>

Commit(t) ==
  /\ pc' = [pc EXCEPT ![t] = "idle"]
  /\ node' = [node EXCEPT ![t] = None]
  /\ target' = [target EXCEPT ![t] = None]
  /\ oldPath' = [oldPath EXCEPT ![t] = <<>>]
  /\ newPath' = [newPath EXCEPT ![t] = <<>>]
  /\ spoilt' = (spoilt \/ ~Sound(t))
  /\ UNCHANGED contested

Known == {n \in Nodes : status[n] # "unused"}

\* clearManagers(id), then addManagers(id, manager_ids) with some or no managers.
SetManagers(id) ==
  \E some \in BOOLEAN : managed' = IF some THEN managed \cup {id} ELSE managed \ {id}

\* createDepartment: insertDepartment, and createPath's read of the parent.
CreateRead(t, p) ==
  Bind(t, "create", None, p, <<>>, GeneratePath(p))

\* createPath's updatePath and addManagers; the row becomes visible.
CreateWrite(t) ==
  /\ pc[t] = "create"
  /\ Len(newPath[t]) <= MaxPath
  /\ \E n \in Nodes \ Known :
       /\ status' = [status EXCEPT ![n] = "row"]
       /\ parent' = [parent EXCEPT ![n] = target[t]]
       /\ path' = [path EXCEPT ![n] = newPath[t]]
       /\ level' = [level EXCEPT ![n] = Len(newPath[t])]
       /\ SetManagers(n)
  /\ Commit(t)

\* updateDepartment: getPath(id) and generatePath(parent_id).
UpdateRead(t, n, p) ==
  Bind(t, "update", n, p, GetPath(n), GeneratePath(p))

\* updatePath, DepartmentDao.updateDepartment, clearManagers and addManagers.
UpdateWrite(t) ==
  LET n == node[t] IN
  /\ pc[t] = "update"
  /\ UpdatePath(n, newPath[t], oldPath[t])
  /\ \A m \in Nodes : Len(path'[m]) <= MaxPath
  /\ parent' = [m \in Nodes |-> IF m \in Rows \cap {n} THEN target[t] ELSE parent[m]]
  /\ SetManagers(n)
  /\ Commit(t)
  /\ UNCHANGED status

\* Mutant: the children are not looked for.
DeleteReadUnchecked(t, n) ==
  Bind(t, "delete", n, None, <<>>, <<>>)

\* deleteDepartment: it refuses a department with children (or with staff, who
\* are not modelled).
DeleteRead(t, n) ==
  /\ ~HasChildren(n)
  /\ Bind(t, "delete", n, None, <<>>, <<>>)

\* Mutant: the managers of the department are kept.
DeleteWriteKeep(t) ==
  /\ pc[t] = "delete"
  /\ status' = [status EXCEPT ![node[t]] = "deleted"]
  /\ parent' = [parent EXCEPT ![node[t]] = None]
  /\ path' = [path EXCEPT ![node[t]] = <<>>]
  /\ level' = [level EXCEPT ![node[t]] = 0]
  /\ Commit(t)
  /\ UNCHANGED managed

\* DepartmentDao.deleteDepartment and clearManagers.
DeleteWrite(t) ==
  /\ pc[t] = "delete"
  /\ status' = [status EXCEPT ![node[t]] = "deleted"]
  /\ parent' = [parent EXCEPT ![node[t]] = None]
  /\ path' = [path EXCEPT ![node[t]] = <<>>]
  /\ level' = [level EXCEPT ![node[t]] = 0]
  /\ managed' = managed \ {node[t]}
  /\ Commit(t)

Next ==
  \E t \in Threads :
    \/ \E p \in Known \cup {Root} : CreateRead(t, p)
    \/ \E n \in Known, p \in Known \cup {Root} : UpdateRead(t, n, p)
    \/ \E n \in Known : DeleteRead(t, n)
    \/ CreateWrite(t) \/ UpdateWrite(t) \/ DeleteWrite(t)

Spec == Init /\ [][Next]_vars

(***************************************************************************)
(* Properties                                                              *)
(***************************************************************************)

\* The level of a row is the number of ids in its path, however the calls
\* interleave and whatever parents they are given: updatePath and
\* updateDescendantsPath move both columns by the same amount.
LevelMatchesPath == \A n \in Rows : level[n] = Len(path[n])

\* No row is left whose parent is gone, although deleteDepartment looks for
\* children before it deletes and nothing holds the parent meanwhile: a missing
\* parent was named by two calls at once, or by a form sent after its deletion.
NoOrphanNodes == \A n \in Rows : parent[n] \in Rows \cup {Root} \cup contested

\* s_manager holds managers of existing departments only, with the same
\* exception: updateDepartment sets them without asking whether its row is there.
NoOrphanManagers == managed \subseteq Rows \cup contested

\* The path of every row is what generatePath makes of its parent, until a call
\* writes a path computed from rows that changed since it read them, puts a node
\* below itself or below a parent that is gone, or deletes a parent; overlapping
\* calls that do none of this leave the paths in order.
PathMatchesParent == ~spoilt => \A n \in Rows : path[n] = GeneratePath(parent[n])

\* The rows below n: the least set that has the children of n and of its members.
Offspring(n) ==
  {m \in Rows : \A S \in SUBSET Rows :
     (\A k \in Rows : parent[k] \in S \cup {n} => k \in S) => m \in S}

\* getDescendants and getAncestors, which look at the path column only, return
\* what following parent_id gives, under the same condition.
PathFindsFamily ==
  ~spoilt => \A m, n \in Rows : /\ m \in GetDescendants(n) <=> m \in Offspring(n)
                                /\ n \in GetAncestors(m) <=> m \in Offspring(n)

\* The tree that the path column tells: the parent is the last id of the path.
PathFamily == [n \in Nodes |-> IF n \in Rows THEN Last(path[n]) ELSE None]

T == INSTANCE Tree WITH parent <- PathFamily

\* Up to such a write, service calls change the tree of the paths as Tree says,
\* overlapping or not: rewriting the paths of all descendants is one move of the
\* node, and nothing else in the tree changes its place (createPath, updatePath,
\* deleteDepartment).
ImplementsTree == T!Init /\ [][~spoilt' => T!Next \/ UNCHANGED PathFamily]_vars
=============================================================================
