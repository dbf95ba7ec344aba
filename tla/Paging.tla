------------------------------- MODULE Paging -------------------------------
(***************************************************************************)
(* Lists shown page by page: PageInterceptor selects the rows of a page    *)
(* and counts or estimates the total, pagination-bar.jsp draws the links   *)
(* (Table.paginate of jquery.table.js draws the same), and the list pages  *)
(* (staff, portals, operators, corporations, dictionary) ask for the next  *)
(* page.  The select and the count are two statements; others change the   *)
(* table at any time.                                                      *)
(***************************************************************************)
EXTENDS Integers, FiniteSets

CONSTANTS
  PageSizes,    \* rowList of the bar
  DefaultSize,  \* the page size of PageQuery.defaultPageParam
  MaxRows       \* bound: rows of the table

ASSUME PagingAssumption ==
  /\ PageSizes \subseteq Nat \ {0} /\ DefaultSize \in PageSizes
  /\ MaxRows \in Nat

VARIABLES
  rows,      \* number of rows of the table; a row is its rank
  counted,   \* count_total of the query
  query,     \* the address of the page: page number and size
  selected,  \* the rows that the select has returned
  page,      \* the page on the screen
  stage,     \* sent, selected, shown
  walk,      \* history: the rows seen on pages 1, 2, ... of a table nobody changed
  most       \* history: the largest number of rows since the last select

vars == <<rows, counted, query, selected, page, stage, walk, most>>

CeilDiv(a, b) == (a + b - 1) \div b

(***************************************************************************)
(* PageInterceptor                                                         *)
(***************************************************************************)

\* limit (pageNo - 1) * pageSize, pageSize
PageRows(q) == {i \in 1..rows : (q.no - 1) * q.size < i /\ i <= q.no * q.size}

\* Mutant: a full page is not taken for a sign of more rows.
TotalCountOfFull(q, n) ==
  IF counted THEN rows
  ELSE IF n = q.size THEN q.no * q.size ELSE q.no * (q.size - 1) + n

\* The total that goes with n selected rows.
TotalCount(q, n) ==
  IF counted THEN rows
  ELSE IF n = q.size THEN q.no * q.size + 1 ELSE q.no * (q.size - 1) + n

Page(q, rs) ==
  LET total == TotalCount(q, Cardinality(rs)) IN
  [no |-> q.no, size |-> q.size, rows |-> rs, total |-> total, pages |-> CeilDiv(total, q.size)]

(***************************************************************************)
(* pagination-bar.jsp                                                      *)
(***************************************************************************)

\* The page in the middle of the five numbered links.
MidPageNo(no, pages) == IF no < 3 THEN 3 ELSE IF no > pages - 2 THEN pages - 2 ELSE no

Nav(no, pages) == {k \in MidPageNo(no, pages) - 2 .. MidPageNo(no, pages) + 2 : 1 <= k /\ k <= pages}

\* Mutant: off by one.
HasNextLast(no, pages) == no <= pages

HasNext(no, pages) == no # pages

Links(no, pages) ==
  Nav(no, pages)
    \cup (IF no # 1 THEN {1, no - 1} ELSE {})
    \cup (IF HasNext(no, pages) THEN {no + 1, pages} ELSE {})

\* getPageNo of the list pages: the active link, or 1 if there is none.
GetPageNo(no, pages) == IF no \in Nav(no, pages) THEN no ELSE 1

(***************************************************************************)
(* The list pages                                                          *)
(***************************************************************************)

TypeOK ==
  /\ rows \in 0..MaxRows
  /\ counted \in BOOLEAN
  /\ query \in [no : Nat \ {0}, size : PageSizes]
  /\ selected \subseteq 1..MaxRows
  /\ page \in [no : Nat \ {0}, size : PageSizes, rows : SUBSET (1..MaxRows), total : Nat, pages : Nat]
  /\ stage \in {"sent", "selected", "shown"}
  /\ walk \in [on : BOOLEAN, seen : SUBSET (1..MaxRows), twice : BOOLEAN]
  /\ most \in 0..MaxRows

NoWalk == [on |-> FALSE, seen |-> {}, twice |-> FALSE]

Init ==
  /\ rows \in 0..MaxRows
  /\ counted \in BOOLEAN
  /\ query = [no |-> 1, size |-> DefaultSize]
  /\ selected = {}
  /\ page = [no |-> 1, size |-> DefaultSize, rows |-> {}, total |-> 0, pages |-> 0]
  /\ stage = "sent"
  /\ walk = NoWalk
  /\ most = rows

\* doQuery
Ask(no, size) ==
  /\ query' = [no |-> no, size |-> size]
  /\ stage' = "sent"
  /\ UNCHANGED <<rows, counted, selected, page, walk, most>>

\* Without rows there is no bar.
HasBar == stage = "shown" /\ page.total > 0

\* Bound: from a page beyond the last one Next leads on without end.
MaxPage == MaxRows + 1

\* A link is clicked.
Turn ==
  /\ HasBar
  /\ \E k \in Links(page.no, page.pages) : k <= MaxPage /\ Ask(k, page.size)

ChangeSize ==
  /\ HasBar
  /\ \E size \in PageSizes : Ask(GetPageNo(page.no, page.pages), size)

\* btnQuery: without a bar the size is empty and the server takes its default.
Search ==
  /\ stage = "shown"
  /\ Ask(1, IF HasBar THEN page.size ELSE DefaultSize)

\* A row of the page is deleted and the page is loaded again.
DeleteRow ==
  /\ HasBar /\ rows > 0 /\ page.rows # {}
  /\ rows' = rows - 1
  /\ stage' = "sent"
  /\ walk' = NoWalk
  /\ UNCHANGED <<counted, query, selected, page, most>>

\* Somebody else changes the table.
Change ==
  /\ \E n \in {rows - 1, rows + 1} \cap 0..MaxRows : rows' = n
  /\ walk' = NoWalk
  /\ most' = IF rows' > most THEN rows' ELSE most
  /\ UNCHANGED <<counted, query, selected, page, stage>>

Select ==
  /\ stage = "sent"
  /\ selected' = PageRows(query)
  /\ stage' = "selected"
  /\ most' = rows
  /\ UNCHANGED <<rows, counted, query, page, walk>>

\* The walk starts with page 1 and goes on with the page after the one shown.
Walk(q, rs) ==
  IF q.no = 1 /\ rs = PageRows(q) THEN [on |-> TRUE, seen |-> rs, twice |-> FALSE]
  ELSE IF walk.on /\ q.no = page.no + 1 /\ q.size = page.size
       THEN [on |-> TRUE, seen |-> walk.seen \cup rs, twice |-> walk.twice \/ walk.seen \cap rs # {}]
  ELSE NoWalk

Count ==
  /\ stage = "selected"
  /\ page' = Page(query, selected)
  /\ walk' = Walk(query, selected)
  /\ stage' = "shown"
  /\ UNCHANGED <<rows, counted, query, selected, most>>

Next == Turn \/ ChangeSize \/ Search \/ DeleteRow \/ Change \/ Select \/ Count

Spec == Init /\ [][Next]_vars

(***************************************************************************)
(* Properties                                                              *)
(***************************************************************************)

\* Whoever turns the pages of a table that nobody changes (no insertion and no
\* deletion), from the first one to the one without a next page, has seen every
\* row exactly once, whether the total is counted or estimated; with a counted
\* total there is no next page once every row was seen.
WalkSeesAll ==
  (walk.on /\ HasBar) =>
    /\ ~walk.twice
    /\ HasNext(page.no, page.pages) \/ walk.seen = 1..rows
    /\ counted /\ HasNext(page.no, page.pages) => walk.seen # 1..rows

\* From a page with rows every link leads to a page that had rows at some time
\* since the select, whatever is inserted and deleted before and after the count.
\* The one exception is the link to the page after it, which may find nothing if
\* the total is estimated, or if so many rows went between the select and the
\* count that the page shown lies beyond the last one.
LinksLead ==
  (HasBar /\ page.rows # {}) =>
    \A k \in Links(page.no, page.pages) :
      \/ k <= CeilDiv(most, page.size)
      \/ k = page.no + 1 /\ (~counted \/ page.no > page.pages)
=============================================================================
