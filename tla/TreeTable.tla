------------------------------ MODULE TreeTable ------------------------------
(***************************************************************************)
(* The tree of resources shown as a table (resource/list.jsp with          *)
(* jquery.table.js).  The rows below a node are fetched when its fork is   *)
(* clicked and inserted behind the row index that the click has read; a    *)
(* timer clicks the forks on the way to the node that was just edited.     *)
(*                                                                         *)
(* A node is its place in the tree: the sequence of the priorities of its  *)
(* ancestors and its own.  The mask of app.js keeps the user, not the      *)
(* timer, from clicking while a request is in flight.  The loop that       *)
(* inserts rows is given by the table it leaves; MCTreeTable compares this *)
(* with the insertions one by one.                                         *)
(***************************************************************************)
EXTENDS Integers, FiniteSets, SequencesExt

CONSTANTS
  Resources,  \* the resources of the portal
  Target      \* the resource to expand to

ASSUME TreeAssumption ==
  /\ IsFiniteSet(Resources) /\ Target \in Resources
  /\ \A n \in Resources : n \in Seq(Nat) /\ n # <<>> /\ \A k \in 1..Len(n) : SubSeq(n, 1, k) \in Resources

VARIABLES
  db,         \* rows of s_resource
  rows,       \* the tr elements of tbody
  fork,       \* node -> class of its fork: none, close, open
  loaded,     \* node -> data("loaded") of its tree-ctrl
  requests,   \* requests in flight, with the row index that the click has read
  index,      \* expandTo: index of ids
  current,    \* expandTo: the id it has clicked last
  overlap,    \* history: which requests were in flight together
  touched     \* history: the user has clicked or a request has failed

tableVars == <<db, rows, fork, loaded, requests, index, current, overlap, touched>>

Child(m, n) == Len(m) = Len(n) + 1 /\ IsStrictPrefix(n, m)
HasChildren(n) == \E m \in db : Child(m, n)
Shown(n) == Contains(rows, n)

\* The order of a table that shows every node behind its parent and its smaller
\* siblings with all that is below them.
Precedes(m, n) ==
  \/ IsStrictPrefix(m, n)
  \/ \E k \in 1..Len(m) : /\ k <= Len(n) /\ m[k] < n[k]
                          /\ SubSeq(m, 1, k - 1) = SubSeq(n, 1, k - 1)

Request == [op : {"expand", "delete"}, by : {"user", "timer"}, node : Resources, index : 0..Cardinality(Resources)]
Pairs == {"two", "one", "delete"}

TableTypeOK ==
  /\ db \subseteq Resources
  /\ rows \in Seq(Resources)
  /\ fork \in [Resources -> {"none", "close", "open"}]
  /\ loaded \in [Resources -> BOOLEAN]
  /\ requests \subseteq Request
  /\ index \in 1..Len(Target)
  /\ current \in {<<>>} \cup Resources
  /\ overlap \subseteq Pairs
  /\ touched \in BOOLEAN

\* The numbers of the finite set I, the smallest first.
Ascending(I) == [k \in 1..Cardinality(I) |-> CHOOSE i \in I : Cardinality({j \in I : j <= i}) = k]

\* The rows at the positions I.
RowsAt(I) == [k \in 1..Cardinality(I) |-> rows[Ascending(I)[k]]]

\* Mutant: the largest priority comes first.
FindChildrenDescending(n) ==
  LET P == {p \in {Last(m) : m \in db} : Append(n, p) \in db} IN
  [k \in 1..Cardinality(P) |-> Append(n, Ascending(P)[Cardinality(P) + 1 - k])]

\* The answer of find.json for the node n: ORDER BY priority.
FindChildren(n) ==
  LET P == {p \in {Last(m) : m \in db} : Append(n, p) \in db} IN
  [k \in 1..Cardinality(P) |-> Append(n, Ascending(P)[k])]

\* list(): the resources of the first level, each with a closed fork if it has
\* children.
TableInit ==
  /\ db = Resources
  /\ rows = FindChildren(<<>>)
  /\ fork = [n \in Resources |-> IF HasChildren(n) THEN "close" ELSE "none"]
  /\ loaded = [n \in Resources |-> ~HasChildren(n)]
  /\ requests = {}
  /\ index = 1
  /\ current = <<>>
  /\ overlap = {}
  /\ touched = FALSE

(***************************************************************************)
(* jquery.table.js                                                         *)
(***************************************************************************)

\* Mutant: the rows are inserted before the row at the index.
SetDataBefore(rs, i, ns) ==
  IF i < Len(rs) THEN SubSeq(rs, 1, i) \o ns \o SubSeq(rs, i + 1, Len(rs)) ELSE rs \o ns

\* _setData(rows, index) with an index, which counts from 0: behind that row, or at
\* the end.  There is no row Len(rs) to insert behind, and the test for the end
\* misses that case: the first row is lost.
SetData(rs, i, ns) ==
  IF i < Len(rs) THEN SubSeq(rs, 1, i + 1) \o ns \o SubSeq(rs, i + 2, Len(rs))
  ELSE rs \o SubSeq(ns, IF i = Len(rs) THEN 2 ELSE 1, Len(ns))

(***************************************************************************)
(* list.jsp                                                                *)
(***************************************************************************)

\* Which kind of overlap a new request makes: with a deletion, of one node, of two.
Overlap(op, n) ==
  {IF op = "delete" \/ q.op = "delete" THEN "delete"
   ELSE IF q.node = n THEN "one" ELSE "two" : q \in requests}

Submit(op, by, n) ==
  /\ requests' = requests \cup {[op |-> op, by |-> by, node |-> n,
                               index |-> SelectInSeq(rows, LAMBDA m : m = n) - 1]}
  /\ overlap' = overlap \cup Overlap(op, n)

\* Mutant: the rows of the next level only are removed.
CollapseChildren(n) ==
  /\ fork' = [fork EXCEPT ![n] = "close"]
  /\ loaded' = [loaded EXCEPT ![n] = FALSE]
  /\ rows' = RowsAt({i \in 1..Len(rows) : ~Child(rows[i], n)})
  /\ UNCHANGED <<requests, overlap>>

\* The rows of class row<id> are those of all descendants.
Collapse(n) ==
  /\ fork' = [fork EXCEPT ![n] = "close"]
  /\ loaded' = [loaded EXCEPT ![n] = FALSE]
  /\ rows' = RowsAt({i \in 1..Len(rows) : ~IsStrictPrefix(n, rows[i])})
  /\ UNCHANGED <<requests, overlap>>

\* The click handler of a fork.
ClickFork(by, n) ==
  CASE fork[n] = "close" /\ ~loaded[n] -> Submit("expand", by, n) /\ UNCHANGED <<rows, fork, loaded>>
    [] fork[n] = "open" -> Collapse(n)
    [] OTHER -> UNCHANGED <<rows, fork, loaded, requests, overlap>>

\* The mask of app.js, which is up from ajaxSend to ajaxStop.
Masked == requests # {}

\* Once a node has been shown twice the rows are not followed any further.
Followed == "one" \notin overlap

\* expandTo runs for the first time while the page loads.
Clickable(n) ==
  /\ Followed /\ ~Masked /\ Shown(n)
  /\ Len(Target) > 1 => current # <<>> \/ index > 1

UserFork(n) ==
  /\ Clickable(n)
  /\ ClickFork("user", n)
  /\ touched' = TRUE
  /\ UNCHANGED <<db, index, current>>

\* The user confirms that the node shall be deleted.
UserDelete(n) ==
  /\ Clickable(n)
  /\ Submit("delete", "user", n)
  /\ touched' = TRUE
  /\ UNCHANGED <<db, rows, fork, loaded, index, current>>

\* Mutant: a node that has been clicked is not looked at again.
ExpandNext ==
  LET id == SubSeq(Target, 1, index) IN
  /\ current' = id
  /\ IF Shown(id) /\ ~loaded[id] THEN ClickFork("timer", id) ELSE UNCHANGED <<rows, fork, loaded, requests, overlap>>
  /\ index' = index + 1

\* One run of expand() of expandTo.  A node that is not in the table has no data.
Expand ==
  LET id == SubSeq(Target, 1, index) IN
  IF Shown(id) /\ loaded[id]
  THEN index' = index + 1 /\ UNCHANGED <<current, rows, fork, loaded, requests, overlap>>
  ELSE /\ current' = id
       /\ IF id # current /\ Shown(id) THEN ClickFork("timer", id)
                                       ELSE UNCHANGED <<rows, fork, loaded, requests, overlap>>
       /\ UNCHANGED index

\* setTimeout(expand, 100), without end; the ids are those of the ancestors.
Tick ==
  /\ Followed /\ index < Len(Target)
  /\ Expand
  /\ UNCHANGED <<db, touched>>

\* The answer of find.json: the rows come with their forks, then the fork that was
\* clicked is opened.
Expanded(q) ==
  LET ns == FindChildren(q.node) IN
  /\ q.op = "expand"
  /\ rows' = SetData(rows, q.index, ns)
  /\ fork' = [m \in Resources |-> IF m = q.node THEN "open"
                              ELSE IF ~Contains(ns, m) THEN fork[m]
                              ELSE IF HasChildren(m) THEN "close" ELSE "none"]
  /\ loaded' = [m \in Resources |-> IF m = q.node THEN TRUE
                                ELSE IF Contains(ns, m) THEN ~HasChildren(m) ELSE loaded[m]]
  /\ UNCHANGED db

\* Mutant: the fork of the row above is left alone.
CloseForkNever(i, rs) == UNCHANGED fork

\* The row i is removed and rs are left: the row above is taken for the parent,
\* and if it has nothing below it any more its fork goes.
CloseFork(i, rs) ==
  fork' = IF i > 1 /\ ~\E m \in ToSet(rs) : IsStrictPrefix(rows[i - 1], m)
          THEN [fork EXCEPT ![rows[i - 1]] = IF @ = "open" THEN "none" ELSE @]
          ELSE fork

\* The answer of delete: ResourceServiceImpl.deleteResource refuses a node with
\* children.
Deleted(q) ==
  LET i == SelectInSeq(rows, LAMBDA m : m = q.node)
      rs == RemoveAt(rows, i) IN
  /\ q.op = "delete" /\ ~HasChildren(q.node)
  /\ db' = db \ {q.node}
  /\ rows' = rs
  /\ CloseFork(i, rs)
  /\ UNCHANGED loaded

Answered(q) ==
  /\ q \in requests
  /\ requests' = requests \ {q}
  /\ Expanded(q) \/ Deleted(q)
  /\ UNCHANGED <<index, current, overlap, touched>>

\* An error or a refusal: only a message is shown.
Failure(q) ==
  /\ q \in requests
  /\ requests' = requests \ {q}
  /\ touched' = TRUE
  /\ UNCHANGED <<db, rows, fork, loaded, index, current, overlap>>

Answer == \E q \in requests : Answered(q) \/ Failure(q)

TableNext ==
  \/ \E n \in Resources : UserFork(n) \/ UserDelete(n)
  \/ Tick
  \/ Answer

\* The browser runs a timer that is due, and every request is answered.
TableSpec == TableInit /\ [][TableNext]_tableVars /\ WF_tableVars(Tick) /\ WF_tableVars(Answer)

(***************************************************************************)
(* Properties                                                              *)
(***************************************************************************)

\* The index that a click has read is still that of its row when the answer is
\* inserted: the table lists the nodes in the order of the tree as long as no two
\* requests were in flight together.
InTreeOrder ==
  overlap = {} => \A i, j \in 1..Len(rows) : i < j => Precedes(rows[i], rows[j])

\* Also when the timer and the user expand two nodes at once no row is lost or
\* shown twice: the table holds the first level and the children of the open
\* nodes it shows.
OpenedAreShown ==
  overlap \subseteq {"two"} =>
    /\ ToSet(rows) = {n \in db : Len(n) = 1 \/ (Shown(Front(n)) /\ fork[Front(n)] = "open")}
    /\ IsInjective(rows)

\* A fork tells what is below its node, after deletions too: open with rows,
\* closed with rows that are not shown, none without.
ForksTell ==
  overlap = {} =>
    \A n \in ToSet(rows) : fork[n] = IF ~HasChildren(n) THEN "none"
                                    ELSE IF \E m \in ToSet(rows) : Child(m, n) THEN "open" ELSE "close"

\* expandTo reaches the node that was edited unless the user or a failure
\* interferes, although it clicks each fork only once.
TargetShown == <>(Shown(Target) \/ touched)
=============================================================================
