---------------------------- MODULE MCTreeTable ----------------------------
(***************************************************************************)
(* An instance of TreeTable for TLC: three levels, siblings before and     *)
(* behind every node on the way to the target.                             *)
(***************************************************************************)
EXTENDS TreeTable

const_Resources == {<<1>>, <<2>>, <<1, 1>>, <<1, 2>>, <<2, 1>>, <<2, 2>>, <<2, 1, 1>>, <<2, 2, 1>>}
const_Target == <<2, 1, 1>>

\* _insertRow(i, row): behind row i, or at the end.
InsertRow(rs, i, n) ==
  IF i > Len(rs) THEN Append(rs, n)
  ELSE IF i = Len(rs) THEN rs
  ELSE InsertAt(rs, i + 2, n)

\* The table that SetData names is what the loop of _setData leaves, at every index
\* of the table, at its end and beyond.
InsertionsAgree ==
  \A n \in Resources, i \in 0..(Len(rows) + 1) :
    LET ns == FindChildren(n) IN
    SetData(rows, i, ns) = FoldLeftDomain(LAMBDA rs, k : InsertRow(rs, i + k - 1, ns[k]), rows, ns)
=============================================================================
