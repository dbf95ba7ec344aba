---------------------------- MODULE PagingProofs ----------------------------
(***************************************************************************)
(* The links of the pagination bar, and what a walk along them shows, for  *)
(* every number of rows and every page size.                               *)
(***************************************************************************)
EXTENDS Paging, FiniteSetTheorems, TLAPS

\* The number of pages: some page if there is a row.
LEMMA CeilDivPositive ==
  ASSUME NEW a \in Nat, NEW b \in Nat \ {0}
  PROVE  CeilDiv(a, b) \in Nat /\ (a > 0 => CeilDiv(a, b) >= 1)
  BY DEF CeilDiv

\* The product of two naturals is a natural.
LEMMA ProductNat ==
  ASSUME NEW a \in Nat, NEW b \in Nat
  PROVE  a * b \in Nat
  OBVIOUS

\* The total of a page is a natural number, counted or estimated.
LEMMA TotalNat ==
  ASSUME TypeOK, NEW q \in [no : Nat \ {0}, size : PageSizes], NEW n \in Nat
  PROVE  TotalCount(q, n) \in Nat
<1>1. q.no \in Nat /\ q.size \in Nat /\ q.size - 1 \in Nat
  <2>1. q.no \in Nat /\ q.size \in PageSizes
    OBVIOUS
  <2>2. q.size \in Nat /\ q.size # 0
    BY <2>1, PagingAssumption
  <2> QED
    BY <2>1, <2>2
<1>2. q.no * q.size \in Nat /\ q.no * (q.size - 1) \in Nat
  BY <1>1, ProductNat
<1>3. rows \in Nat
  BY PagingAssumption DEF TypeOK
<1> QED
  BY <1>2, <1>3 DEF TotalCount

\* A page that is put together from selected rows has its type, and pages if it
\* has a total.
LEMMA PageTyped ==
  ASSUME TypeOK
  PROVE  /\ Page(query, selected) \in [no : Nat \ {0}, size : PageSizes, rows : SUBSET (1..MaxRows), total : Nat, pages : Nat]
         /\ Page(query, selected).total > 0 => Page(query, selected).pages >= 1
<1>1. Cardinality(selected) \in Nat
  <2>1. IsFiniteSet(1..MaxRows)
    BY FS_Interval, PagingAssumption
  <2>2. IsFiniteSet(selected)
    BY <2>1, FS_Subset DEF TypeOK
  <2> QED
    BY <2>2, FS_CardinalityType
<1>2. query \in [no : Nat \ {0}, size : PageSizes]
  BY DEF TypeOK
<1> DEFINE total == TotalCount(query, Cardinality(selected))
<1>3. total \in Nat
  BY <1>1, <1>2, TotalNat
<1>4. query.size \in Nat \ {0}
  BY <1>2, PagingAssumption
<1> HIDE DEF total
<1>5. CeilDiv(total, query.size) \in Nat /\ (total > 0 => CeilDiv(total, query.size) >= 1)
  BY <1>3, <1>4, CeilDivPositive
<1>6. Page(query, selected) = [no |-> query.no, size |-> query.size, rows |-> selected,
                               total |-> total, pages |-> CeilDiv(total, query.size)]
  BY DEF Page, total
<1> QED
  BY <1>2, <1>3, <1>5, <1>6 DEF TypeOK

\* The links of a bar are page numbers.
LEMMA LinksPositive ==
  ASSUME NEW no \in Nat \ {0}, NEW pages \in Nat \ {0}, NEW k \in Links(no, pages)
  PROVE  k \in Nat \ {0} /\ (k <= pages \/ no > pages)
  BY DEF Links, Nav, MidPageNo, HasNext

LEMMA GetPageNoTyped ==
  ASSUME NEW no \in Nat \ {0}, NEW pages \in Nat
  PROVE  GetPageNo(no, pages) \in Nat \ {0}
  BY DEF GetPageNo

\* What the steps preserve.
PInv == TypeOK /\ (page.total > 0 => page.pages >= 1)

\* The numbers that a bar is made of.
LEMMA NumbersTyped ==
  ASSUME TypeOK
  PROVE  /\ query.no \in Nat \ {0} /\ query.size \in Nat \ {0}
         /\ page.no \in Nat \ {0} /\ page.size \in Nat \ {0} /\ page.pages \in Nat
         /\ rows \in Nat /\ most \in Nat
<1>1. rows \in 0..MaxRows /\ most \in 0..MaxRows
  BY DEF TypeOK
<1>2. query.no \in Nat \ {0} /\ query.size \in PageSizes
  BY DEF TypeOK
<1>3. page.no \in Nat \ {0} /\ page.size \in PageSizes /\ page.pages \in Nat
  BY DEF TypeOK
<1>4. rows \in Nat /\ most \in Nat
  BY <1>1
<1>5. query.size \in Nat \ {0} /\ page.size \in Nat \ {0}
  BY <1>2, <1>3, PagingAssumption, Zenon
<1> QED
  BY <1>2, <1>3, <1>4, <1>5, Zenon

\* The address that is asked for has its type.
LEMMA AskTyped ==
  ASSUME PInv, NEW no \in Nat \ {0}, NEW size \in PageSizes, Ask(no, size)
  PROVE  PInv'
  BY DEF PInv, TypeOK, Ask

LEMMA WalkTyped ==
  ASSUME TypeOK
  PROVE  Walk(query, selected) \in [on : BOOLEAN, seen : SUBSET (1..MaxRows), twice : BOOLEAN]
<1>1. walk.seen \subseteq 1..MaxRows /\ walk.twice \in BOOLEAN /\ selected \subseteq 1..MaxRows
  BY DEF TypeOK
<1>2. (walk.twice \/ walk.seen \cap selected # {}) \in BOOLEAN
  BY Zenon
<1>3. NoWalk \in [on : BOOLEAN, seen : SUBSET (1..MaxRows), twice : BOOLEAN]
  BY DEF NoWalk
<1> QED
  BY <1>1, <1>2, <1>3 DEF Walk

\* Types, and pages whenever there is a total: kept by every step, whatever the
\* table does between the select and the count.
THEOREM TypeCorrect == Spec => []PInv
<1>1. Init => PInv
  BY PagingAssumption DEF Init, PInv, TypeOK, NoWalk
<1>2. PInv /\ [Next]_vars => PInv'
  <2> SUFFICES ASSUME PInv, [Next]_vars PROVE PInv'
    OBVIOUS
  <2> USE PagingAssumption
  <2>0. TypeOK /\ page.no \in Nat \ {0} /\ page.pages \in Nat /\ page.size \in PageSizes
    BY DEF PInv, TypeOK
  <2>1. CASE Turn
    <3>1. PICK k \in Links(page.no, page.pages) : Ask(k, page.size)
      BY <2>1 DEF Turn
    <3>2. page.pages \in Nat \ {0}
      BY <2>0, <2>1 DEF Turn, HasBar, PInv, TypeOK
    <3>3. k \in Nat \ {0}
      BY <2>0, <3>2, LinksPositive
    <3> QED
      BY <2>0, <3>1, <3>3, AskTyped
  <2>2. CASE ChangeSize
    <3>1. PICK size \in PageSizes : Ask(GetPageNo(page.no, page.pages), size)
      BY <2>2 DEF ChangeSize
    <3> QED
      BY <2>0, <3>1, GetPageNoTyped, AskTyped
  <2>3. CASE Search
    <3>1. Ask(1, page.size) \/ Ask(1, DefaultSize)
      BY <2>3 DEF Search
    <3>2. 1 \in Nat \ {0}
      OBVIOUS
    <3> QED
      BY <2>0, <3>1, <3>2, AskTyped
  <2>4. CASE DeleteRow
    BY <2>4 DEF DeleteRow, PInv, TypeOK, NoWalk
  <2>5. CASE Change
    BY <2>5 DEF Change, PInv, TypeOK, NoWalk
  <2>6. CASE Select
    <3>1. selected' \subseteq 1..MaxRows
      BY <2>0, <2>6 DEF Select, PageRows, TypeOK
    <3> QED
      BY <2>6, <3>1 DEF Select, PInv, TypeOK
  <2>7. CASE Count
    <3>1. page' \in [no : Nat \ {0}, size : PageSizes, rows : SUBSET (1..MaxRows), total : Nat, pages : Nat]
      BY <2>0, <2>7, PageTyped DEF Count
    <3>2. page'.total > 0 => page'.pages >= 1
      BY <2>0, <2>7, PageTyped DEF Count
    <3>3. walk' \in [on : BOOLEAN, seen : SUBSET (1..MaxRows), twice : BOOLEAN]
      BY <2>0, <2>7, WalkTyped DEF Count
    <3> QED
      BY <2>7, <3>1, <3>2, <3>3 DEF Count, PInv, TypeOK
  <2>8. CASE UNCHANGED vars
    BY <2>8 DEF vars, PInv, TypeOK
  <2> QED
    BY <2>1, <2>2, <2>3, <2>4, <2>5, <2>6, <2>7, <2>8 DEF Next
<1> QED
  BY <1>1, <1>2, PTL DEF Spec

-----------------------------------------------------------------------------
(***************************************************************************)
(* WalkSeesAll.  While nobody changes the table, what was seen is the rows *)
(* up to the page shown, the next page that can be asked for exists, and   *)
(* what is selected stays what the page has (WInv).                        *)
(***************************************************************************)

LEMMA ProductSteps ==
  ASSUME NEW k \in Nat, NEW b \in Nat
  PROVE  (k + 1) * b = k * b + b /\ (k - 1) * b = k * b - b
  OBVIOUS

LEMMA ProductMonotonic ==
  ASSUME NEW k \in Nat, NEW c \in Nat, NEW b \in Nat, k >= c
  PROVE  k * b >= c * b
<1>1. k * b = c * b + (k - c) * b
  OBVIOUS
<1>2. k - c \in Nat /\ (k - c) * b >= 0
  OBVIOUS
<1>3. c * b \in Nat /\ (k - c) * b \in Nat
  BY <1>2, ProductNat
<1> QED
  BY <1>1, <1>2, <1>3

\* k pages of b rows hold a rows exactly if k is at least the number of pages.
LEMMA EnoughPages ==
  ASSUME NEW a \in Nat, NEW b \in Nat \ {0}, NEW k \in Nat
  PROVE  k >= CeilDiv(a, b) <=> k * b >= a
<1> DEFINE c == (a + b - 1) \div b
<1>1. a + b - 1 \in Nat
  OBVIOUS
<1>2. c \in Nat /\ c * b <= a + b - 1 /\ a + b - 1 < c * b + b
  BY <1>1
<1>3. CeilDiv(a, b) = c
  BY DEF CeilDiv
<1> HIDE DEF c
<1>4. c * b \in Nat /\ k * b \in Nat
  BY <1>2, ProductNat
<1>5. c * b >= a
  BY <1>2, <1>4
<1>6. ASSUME k >= c PROVE k * b >= a
  BY <1>2, <1>4, <1>5, <1>6, ProductMonotonic
<1>7. ASSUME ~(k >= c) PROVE ~(k * b >= a)
  <2>1. c >= k + 1 /\ k + 1 \in Nat
    BY <1>2, <1>7
  <2>2. c * b >= (k + 1) * b
    BY <1>2, <2>1, ProductMonotonic
  <2>3. (k + 1) * b = k * b + b
    BY ProductSteps
  <2> QED
    BY <1>2, <1>4, <2>2, <2>3
<1> QED
  BY <1>3, <1>6, <1>7

\* A walk has seen the rows up to the end of the page on the screen; that page and
\* its total are those of the table; and the page which is on its way is the next
\* one that the total promises.
WInv ==
  walk.on =>
    /\ ~walk.twice
    /\ walk.seen = {i \in 1..rows : i <= page.no * page.size}
    /\ page.rows = PageRows(page)
    /\ page.total = TotalCount(page, Cardinality(page.rows))
    /\ page.pages = CeilDiv(page.total, page.size)
    /\ counted /\ rows > 0 => page.no <= page.pages
    /\ stage = "selected" => selected = PageRows(query)
    /\ stage # "shown" /\ counted /\ query.no = page.no + 1 /\ query.size = page.size
         => query.no <= page.pages

\* Asking for a page that is not the next one, or for one that exists.
LEMMA AskKeepsWalk ==
  ASSUME WInv, NEW no, NEW size, Ask(no, size), stage = "shown",
         walk.on /\ counted /\ no = page.no + 1 /\ size = page.size => no <= page.pages
  PROVE  WInv'
<1>1. query'.no = no /\ query'.size = size /\ stage' = "sent" /\ UNCHANGED <<rows, counted, page, walk>>
  BY DEF Ask
<1>2. PageRows(page)' = PageRows(page) /\ TotalCount(page, Cardinality(page.rows))' = TotalCount(page, Cardinality(page.rows))
  BY <1>1 DEF PageRows, TotalCount
<1> QED
  BY <1>1, <1>2 DEF WInv, CeilDiv

\* The page that Count shows.
LEMMA CountShows ==
  ASSUME Count
  PROVE  /\ page'.no = query.no /\ page'.size = query.size /\ page'.rows = selected
         /\ page'.total = TotalCount(query, Cardinality(selected))
         /\ page'.pages = CeilDiv(page'.total, page'.size)
         /\ page'.total = TotalCount(page, Cardinality(page.rows))'
         /\ PageRows(page)' = PageRows(query)
<1>1. /\ page'.no = query.no /\ page'.size = query.size /\ page'.rows = selected
      /\ page'.total = TotalCount(query, Cardinality(selected))
      /\ page'.pages = CeilDiv(page'.total, page'.size)
  BY DEF Count, Page
<1>2. UNCHANGED <<rows, counted>>
  BY DEF Count
<1>3. TotalCount(page, Cardinality(page.rows))' = TotalCount(query, Cardinality(selected))
  BY <1>1, <1>2 DEF TotalCount
<1>4. PageRows(page)' = PageRows(query)
  BY <1>1, <1>2 DEF PageRows
<1> QED
  BY <1>1, <1>3, <1>4

LEMMA CountKeepsWalk ==
  ASSUME PInv, WInv, Count
  PROVE  WInv'
<1> SUFFICES ASSUME walk'.on PROVE WInv'
  BY DEF WInv
<1>0. /\ query.no \in Nat \ {0} /\ query.size \in Nat \ {0} /\ rows \in Nat
      /\ page.no \in Nat \ {0} /\ page.size \in Nat \ {0}
  BY NumbersTyped DEF PInv
<1>1. /\ stage = "selected" /\ stage' = "shown" /\ UNCHANGED <<rows, counted, query, selected>>
      /\ walk' = Walk(query, selected)
  BY DEF Count
<1>2. \/ query.no = 1 /\ selected = PageRows(query) /\ walk' = [on |-> TRUE, seen |-> selected, twice |-> FALSE]
      \/ /\ walk.on /\ query.no = page.no + 1 /\ query.size = page.size
         /\ walk' = [on |-> TRUE, seen |-> walk.seen \cup selected,
                     twice |-> walk.twice \/ walk.seen \cap selected # {}]
  BY <1>1 DEF Walk, NoWalk
<1>3. selected = PageRows(query)
  BY <1>1, <1>2 DEF WInv
<1>4. page'.rows = PageRows(page)'
  BY <1>3, CountShows
<1>5. ~walk'.twice /\ walk'.seen = {i \in 1..rows : i <= query.no * query.size}
  <2>1. CASE query.no = 1 /\ walk' = [on |-> TRUE, seen |-> selected, twice |-> FALSE]
    <3>1. (query.no - 1) * query.size = 0 /\ query.no * query.size = query.size
      BY <1>0, <2>1
    <3> QED
      BY <1>0, <1>3, <2>1, <3>1 DEF PageRows
  <2>2. CASE /\ walk.on /\ query.no = page.no + 1 /\ query.size = page.size
             /\ walk' = [on |-> TRUE, seen |-> walk.seen \cup selected,
                         twice |-> walk.twice \/ walk.seen \cap selected # {}]
    <3> DEFINE a == page.no * page.size
    <3>1. query.no * query.size = a + query.size /\ (query.no - 1) * query.size = a /\ a \in Nat
      <4>1. page.no \in Nat /\ page.size \in Nat
        BY <1>0
      <4>2. (page.no + 1) * page.size = a + page.size /\ a \in Nat
        BY <4>1, ProductSteps, ProductNat
      <4>3. query.no - 1 = page.no
        BY <1>0, <2>2
      <4> QED
        BY <2>2, <4>2, <4>3
    <3>2. walk.seen = {i \in 1..rows : i <= a} /\ ~walk.twice
      BY <2>2 DEF WInv
    <3> HIDE DEF a
    <3>3. selected = {i \in 1..rows : a < i /\ i <= a + query.size}
      BY <1>3, <3>1 DEF PageRows
    <3>4. walk.seen \cap selected = {}
      BY <1>0, <3>1, <3>2, <3>3
    <3>5. walk.seen \cup selected = {i \in 1..rows : i <= a + query.size}
      BY <1>0, <3>1, <3>2, <3>3
    <3> QED
      BY <2>2, <3>1, <3>2, <3>4, <3>5
  <2> QED
    BY <1>2, <2>1, <2>2
<1>6. ASSUME counted, rows > 0
      PROVE  query.no <= page'.pages
  <2>1. page'.pages = CeilDiv(rows, query.size)
    BY <1>6, CountShows DEF TotalCount
  <2>2. CASE query.no = 1
    BY <1>0, <1>6, <2>1, <2>2, CeilDivPositive
  <2>3. CASE walk.on /\ query.no = page.no + 1 /\ query.size = page.size
    <3>1. page.pages = CeilDiv(rows, page.size) /\ query.no <= page.pages
      BY <1>1, <1>6, <2>3 DEF WInv, TotalCount
    <3> QED
      BY <2>1, <2>3, <3>1
  <2> QED
    BY <1>2, <2>2, <2>3
<1> QED
  BY <1>1, <1>4, <1>5, <1>6, CountShows DEF WInv, CeilDiv

LEMMA NextWalk == PInv /\ WInv /\ [Next]_vars => WInv'
<1> SUFFICES ASSUME PInv, WInv, [Next]_vars PROVE WInv'
  OBVIOUS
<1>0. page.no \in Nat \ {0} /\ page.pages \in Nat /\ page.total \in Nat /\ rows \in Nat
  BY PagingAssumption DEF PInv, TypeOK
<1>1. CASE Turn
  <2>1. PICK k \in Links(page.no, page.pages) : Ask(k, page.size)
    BY <1>1 DEF Turn
  <2>2. stage = "shown" /\ page.total > 0 /\ page.pages \in Nat \ {0}
    BY <1>0, <1>1 DEF Turn, HasBar, PInv
  <2>3. k <= page.pages \/ page.no > page.pages
    BY <1>0, <2>2, LinksPositive
  <2>4. walk.on /\ counted => page.no <= page.pages
    BY <2>2 DEF WInv, TotalCount
  <2>5. walk.on /\ counted => k <= page.pages
    BY <1>0, <2>3, <2>4
  <2> QED
    BY <2>1, <2>2, <2>5, AskKeepsWalk
<1>2. CASE ChangeSize
  <2>1. PICK size \in PageSizes : Ask(GetPageNo(page.no, page.pages), size)
    BY <1>2 DEF ChangeSize
  <2>2. GetPageNo(page.no, page.pages) # page.no + 1
    BY <1>0 DEF GetPageNo
  <2>3. stage = "shown"
    BY <1>2 DEF ChangeSize, HasBar
  <2> QED
    BY <2>1, <2>2, <2>3, AskKeepsWalk
<1>3. CASE Search
  <2>1. \E size : Ask(1, size)
    BY <1>3 DEF Search
  <2>2. 1 # page.no + 1 /\ stage = "shown"
    BY <1>0, <1>3 DEF Search
  <2> QED
    BY <2>1, <2>2, AskKeepsWalk
<1>4. CASE DeleteRow \/ Change
  <2>1. walk' = NoWalk
    BY <1>4 DEF DeleteRow, Change
  <2> QED
    BY <2>1 DEF WInv, NoWalk
<1>5. CASE Select
  <2>1. /\ selected' = PageRows(query) /\ stage = "sent" /\ stage' = "selected"
        /\ UNCHANGED <<rows, counted, query, page, walk>>
    BY <1>5 DEF Select
  <2>2. /\ PageRows(page)' = PageRows(page) /\ PageRows(query)' = PageRows(query)
        /\ TotalCount(page, Cardinality(page.rows))' = TotalCount(page, Cardinality(page.rows))
    BY <2>1 DEF PageRows, TotalCount
  <2> QED
    BY <2>1, <2>2 DEF WInv, CeilDiv
<1>6. CASE Count
  BY <1>6, CountKeepsWalk
<1>7. CASE UNCHANGED vars
  <2>1. UNCHANGED <<rows, counted, query, selected, page, stage, walk>>
    BY <1>7 DEF vars
  <2>2. /\ PageRows(page)' = PageRows(page) /\ PageRows(query)' = PageRows(query)
        /\ TotalCount(page, Cardinality(page.rows))' = TotalCount(page, Cardinality(page.rows))
    BY <2>1 DEF PageRows, TotalCount
  <2> QED
    BY <2>1, <2>2 DEF WInv, CeilDiv
<1> QED
  BY <1>1, <1>2, <1>3, <1>4, <1>5, <1>6, <1>7 DEF Next

\* A page in the middle of the table is full.
LEMMA FullPage ==
  ASSUME NEW q \in [no : Nat \ {0}, size : Nat \ {0}, rows : SUBSET Int, total : Nat, pages : Nat],
         rows \in Nat, rows >= q.no * q.size
  PROVE  Cardinality(PageRows(q)) = q.size
<1> DEFINE a == (q.no - 1) * q.size
           b == q.no * q.size
<1>1. q.no \in Nat /\ q.size \in Nat /\ q.size > 0 /\ q.no - 1 \in Nat
  OBVIOUS
<1>2. a = b - q.size /\ a \in Nat /\ b \in Nat
  BY <1>1, ProductSteps, ProductNat
<1>3. PageRows(q) = {i \in 1..rows : a < i /\ i <= b}
  BY DEF PageRows
<1>4. rows >= b
  OBVIOUS
<1> HIDE DEF a, b
<1>5. PageRows(q) = (a + 1)..b
  BY <1>2, <1>3, <1>4
<1>6. Cardinality((a + 1)..b) = q.size
  <2>1. a + 1 \in Int /\ b \in Int /\ ~(a + 1 > b) /\ b - (a + 1) + 1 = q.size
    BY <1>1, <1>2
  <2> QED
    BY <2>1, FS_Interval
<1> QED
  BY <1>5, <1>6

\* For every number of rows, page size and way of counting: whoever turns the
\* pages of a table that nobody changes, from the first to the one without a next page, has
\* seen every row exactly once (PageInterceptor, pagination-bar.jsp).
THEOREM WalkSeesAllAlways == Spec => []WalkSeesAll
<1>1. Init => WInv
  BY DEF Init, WInv, NoWalk
<1>2. PInv /\ WInv => WalkSeesAll
  <2> SUFFICES ASSUME PInv, WInv, walk.on, HasBar
               PROVE  /\ ~walk.twice
                      /\ HasNext(page.no, page.pages) \/ walk.seen = 1..rows
                      /\ counted /\ HasNext(page.no, page.pages) => walk.seen # 1..rows
    BY DEF WalkSeesAll
  <2> DEFINE a == page.no * page.size
  <2>1. /\ page.no \in Nat \ {0} /\ page.size \in Nat \ {0} /\ rows \in Nat /\ page.pages \in Nat
        /\ page.total \in Nat /\ page.rows \in SUBSET Int /\ page.no \in Nat /\ page.size \in Nat
    <3>1. TypeOK
      BY DEF PInv
    <3>2. rows \in 0..MaxRows
      BY <3>1 DEF TypeOK
    <3>3. /\ page.no \in Nat \ {0} /\ page.size \in PageSizes
          /\ page.pages \in Nat /\ page.total \in Nat /\ page.rows \subseteq 1..MaxRows
      BY <3>1 DEF TypeOK
    <3>4. rows \in Nat
      BY <3>2
    <3>5. page.size \in Nat \ {0}
      BY <3>3, PagingAssumption, Zenon
    <3>6. page.rows \in SUBSET Int
      BY <3>3
    <3>7. page.no \in Nat /\ page.size \in Nat
      BY <3>3, <3>5
    <3> QED
      BY <3>3, <3>4, <3>5, <3>6, <3>7, Zenon
  <2>2. /\ ~walk.twice
        /\ walk.seen = {i \in 1..rows : i <= a}
        /\ page.rows = PageRows(page)
        /\ page.total = TotalCount(page, Cardinality(page.rows))
        /\ page.pages = CeilDiv(page.total, page.size)
        /\ counted /\ rows > 0 => page.no <= page.pages
    BY DEF WInv
  <2>3. page.no >= page.pages <=> a >= page.total
    BY <2>1, <2>2, EnoughPages
  <2>4. a \in Nat
    BY <2>1, ProductNat
  <2>5. ASSUME page.no = page.pages PROVE a >= rows
    <3>1. CASE counted
      BY <2>1, <2>2, <2>3, <2>5, <3>1 DEF TotalCount
    <3>2. CASE ~counted
      <4>1. a >= page.total
        BY <2>1, <2>3, <2>5
      <4>2. Cardinality(page.rows) # page.size
        <5>1. ASSUME Cardinality(page.rows) = page.size PROVE page.total = a + 1
          BY <2>2, <3>2, <5>1 DEF TotalCount
        <5> QED
          BY <2>4, <4>1, <5>1
      <4>3. page \in [no : Nat \ {0}, size : Nat \ {0}, rows : SUBSET Int, total : Nat, pages : Nat]
        BY <2>1 DEF PInv, TypeOK
      <4>4. ~(rows >= a)
        BY <2>1, <2>2, <4>2, <4>3, FullPage
      <4> QED
        BY <2>1, <2>4, <4>4
    <3> QED
      BY <3>1, <3>2
  <2>6. ASSUME counted, page.no # page.pages PROVE a < rows
    <3>1. page.total = rows /\ rows > 0
      BY <2>2, <2>6 DEF TotalCount, HasBar
    <3>2. ~(page.no >= page.pages)
      BY <2>1, <2>2, <2>6, <3>1
    <3> QED
      BY <2>1, <2>3, <2>4, <3>1, <3>2
  <2> HIDE DEF a
  <2>7. a >= rows => walk.seen = 1..rows
    BY <2>1, <2>2, <2>4
  <2>8. a < rows => walk.seen # 1..rows
    <3> SUFFICES ASSUME a < rows PROVE rows \in 1..rows /\ rows \notin walk.seen
      OBVIOUS
    <3> QED
      BY <2>1, <2>2, <2>4
  <2> QED
    BY <2>2, <2>5, <2>6, <2>7, <2>8 DEF HasNext
<1> QED
  BY <1>1, <1>2, NextWalk, TypeCorrect, PTL DEF Spec

-----------------------------------------------------------------------------
(***************************************************************************)
(* LinksLead.  The rows selected lie within the largest table since the    *)
(* select, and so does a counted total; an estimated one promises at most  *)
(* the page after the one shown (LInv).                                    *)
(***************************************************************************)

LEMMA FewerPages ==
  ASSUME NEW a \in Nat, NEW c \in Nat, NEW b \in Nat \ {0}, a <= c
  PROVE  CeilDiv(a, b) <= CeilDiv(c, b)
<1> DEFINE k == CeilDiv(c, b)
<1>1. k \in Nat /\ CeilDiv(a, b) \in Nat
  BY CeilDivPositive
<1>2. k >= k
  BY <1>1
<1>3. k * b >= c
  BY <1>1, <1>2, EnoughPages
<1>4. k * b >= a
  BY <1>1, <1>3, ProductNat
<1>5. k >= CeilDiv(a, b)
  BY <1>1, <1>4, EnoughPages
<1> QED
  BY <1>1, <1>5

\* A page that has a row lies among the pages of the table.
LEMMA PageOfRow ==
  ASSUME NEW no \in Nat \ {0}, NEW b \in Nat \ {0}, NEW n \in Nat, NEW i \in 1..n, (no - 1) * b < i
  PROVE  no <= CeilDiv(n, b)
<1> DEFINE k == no - 1
<1>1. k \in Nat /\ no = k + 1
  OBVIOUS
<1>2. k * b < i /\ k * b \in Nat
  BY <1>1, ProductNat
<1>3. ~(k * b >= n)
  BY <1>2
<1>4. ~(k >= CeilDiv(n, b))
  BY <1>1, <1>3, EnoughPages
<1>5. CeilDiv(n, b) \in Nat
  BY CeilDivPositive
<1> QED
  BY <1>1, <1>4, <1>5

LInv ==
  /\ stage # "sent" => rows <= most
  /\ stage = "selected" =>
       /\ selected # {} => query.no <= CeilDiv(most, query.size)
       /\ Cardinality(selected) <= query.size
  /\ stage = "shown" =>
       /\ page.rows # {} => page.no <= CeilDiv(most, page.size)
       /\ counted => page.pages <= CeilDiv(most, page.size)
       /\ ~counted => page.pages <= page.no + 1

\* A page holds no more rows than its size.
LEMMA PageNotOver ==
  ASSUME TypeOK
  PROVE  Cardinality(PageRows(query)) <= query.size
<1>0. query.no \in Nat \ {0} /\ query.size \in Nat \ {0} /\ rows \in Nat
  BY NumbersTyped
<1>1. query.no \in Nat /\ query.no - 1 \in Nat /\ query.size \in Nat /\ query.size > 0 /\ rows \in Nat
  BY <1>0
<1> DEFINE a == (query.no - 1) * query.size
           b == query.no * query.size
<1>2. a = b - query.size /\ a \in Nat /\ b \in Nat
  BY <1>1, ProductSteps, ProductNat
<1>3. PageRows(query) \subseteq (a + 1)..b
  BY <1>1, <1>2 DEF PageRows
<1> HIDE DEF a, b
<1>4. IsFiniteSet((a + 1)..b) /\ Cardinality((a + 1)..b) = query.size
  <2>1. a + 1 \in Int /\ b \in Int /\ b - (a + 1) + 1 = query.size
    BY <1>1, <1>2
  <2>2. ~(a + 1 > b)
    BY <1>1, <1>2
  <2> QED
    BY <2>1, <2>2, FS_Interval
<1>5. Cardinality(PageRows(query)) <= Cardinality((a + 1)..b)
  BY <1>3, <1>4, FS_Subset
<1> QED
  BY <1>4, <1>5

\* The estimate promises at most one page after the one it goes with.
LEMMA EstimateNear ==
  ASSUME NEW no \in Nat \ {0}, NEW b \in Nat \ {0}, NEW n \in Nat, n <= b
  PROVE  CeilDiv(IF n = b THEN no * b + 1 ELSE no * (b - 1) + n, b) <= no + 1
<1> DEFINE t == IF n = b THEN no * b + 1 ELSE no * (b - 1) + n
<1>1. no \in Nat /\ b \in Nat /\ b - 1 \in Nat /\ no + 1 \in Nat /\ b >= 1
  OBVIOUS
<1>2. no * b \in Nat /\ no * (b - 1) \in Nat
  BY <1>1, ProductNat
<1>3. (no + 1) * b = no * b + b
  BY <1>1, ProductSteps
<1>4. no * (b - 1) = no * b - no
  OBVIOUS
<1>5. t \in Nat /\ (no + 1) * b >= t
  BY <1>1, <1>2, <1>3, <1>4
<1> HIDE DEF t
<1>6. no + 1 >= CeilDiv(t, b) /\ CeilDiv(t, b) \in Nat
  BY <1>1, <1>5, EnoughPages, CeilDivPositive
<1>7. CeilDiv(t, b) <= no + 1
  BY <1>1, <1>6
<1> QED
  BY <1>7 DEF t

LEMMA SelectLeads ==
  ASSUME PInv, Select
  PROVE  LInv'
<1>1. /\ selected' = PageRows(query) /\ stage' = "selected" /\ most' = rows
      /\ UNCHANGED <<rows, counted, query, page>>
  BY DEF Select
<1>2. query.no \in Nat \ {0} /\ query.size \in Nat \ {0} /\ rows \in Nat
  BY NumbersTyped DEF PInv
<1>3. PageRows(query) # {} => query.no <= CeilDiv(rows, query.size)
  BY <1>2, PageOfRow DEF PageRows
<1>4. Cardinality(PageRows(query)) <= query.size
  BY PageNotOver DEF PInv
<1> QED
  BY <1>1, <1>2, <1>3, <1>4 DEF LInv, CeilDiv

LEMMA CountLeads ==
  ASSUME PInv, LInv, Count
  PROVE  LInv'
<1>1. /\ stage = "selected" /\ stage' = "shown" /\ UNCHANGED <<rows, counted, query, selected, most>>
  BY DEF Count
<1>2. query.no \in Nat \ {0} /\ query.size \in Nat \ {0} /\ rows \in Nat /\ most \in Nat
  BY NumbersTyped DEF PInv
<1>3. /\ page'.no = query.no /\ page'.size = query.size /\ page'.rows = selected
      /\ page'.total = TotalCount(query, Cardinality(selected))
      /\ page'.pages = CeilDiv(page'.total, query.size)
  BY CountShows
<1>4. /\ rows <= most
      /\ selected # {} => query.no <= CeilDiv(most, query.size)
      /\ Cardinality(selected) <= query.size
  BY <1>1 DEF LInv
<1>5. ASSUME counted PROVE page'.pages <= CeilDiv(most, query.size)
  <2>1. page'.pages = CeilDiv(rows, query.size)
    BY <1>3, <1>5 DEF TotalCount
  <2> QED
    BY <1>2, <1>4, <2>1, FewerPages
<1>6. ASSUME ~counted PROVE page'.pages <= query.no + 1
  <2>1. Cardinality(selected) \in Nat
    <3>1. IsFiniteSet(1..MaxRows)
      BY FS_Interval, PagingAssumption
    <3>2. IsFiniteSet(selected)
      BY <3>1, FS_Subset DEF PInv, TypeOK
    <3> QED
      BY <3>2, FS_CardinalityType
  <2>2. page'.total = IF Cardinality(selected) = query.size THEN query.no * query.size + 1
                      ELSE query.no * (query.size - 1) + Cardinality(selected)
    BY <1>3, <1>6 DEF TotalCount
  <2> QED
    BY <1>2, <1>3, <1>4, <2>1, <2>2, EstimateNear
<1>7. CeilDiv(most, page.size)' = CeilDiv(most, query.size)
  BY <1>1, <1>3 DEF CeilDiv
<1> QED
  BY <1>1, <1>3, <1>4, <1>5, <1>6, <1>7 DEF LInv

LEMMA ChangeLeads ==
  ASSUME PInv, LInv, Change
  PROVE  LInv'
<1>1. /\ rows' \in Nat /\ most' \in Nat /\ most <= most' /\ rows' <= most'
      /\ UNCHANGED <<counted, query, selected, page, stage>>
  BY PagingAssumption DEF Change, PInv, TypeOK
<1>2. most \in Nat /\ query.size \in Nat \ {0} /\ page.size \in Nat \ {0}
  BY NumbersTyped DEF PInv
<1>3. query.no \in Nat /\ page.no \in Nat /\ page.pages \in Nat
  BY DEF PInv, TypeOK
<1>4. /\ CeilDiv(most, query.size) <= CeilDiv(most', query.size)
      /\ CeilDiv(most, page.size) <= CeilDiv(most', page.size)
  BY <1>1, <1>2, FewerPages
<1>5. /\ CeilDiv(most, query.size) \in Nat /\ CeilDiv(most', query.size) \in Nat
      /\ CeilDiv(most, page.size) \in Nat /\ CeilDiv(most', page.size) \in Nat
  BY <1>1, <1>2, CeilDivPositive
<1>6. /\ CeilDiv(most, query.size)' = CeilDiv(most', query.size)
      /\ CeilDiv(most, page.size)' = CeilDiv(most', page.size)
  BY <1>1 DEF CeilDiv
<1> QED
  BY <1>1, <1>3, <1>4, <1>5, <1>6 DEF LInv

\* From a page with rows the bar leads to pages that had rows since the select,
\* or one page further, for every table, page size and interleaving of changes
\* with the select and the count (PageInterceptor, pagination-bar.jsp).
THEOREM LinksLeadAlways == Spec => []LinksLead
<1>1. Init => LInv
  BY DEF Init, LInv
<1>2. PInv /\ LInv /\ [Next]_vars => LInv'
  <2> SUFFICES ASSUME PInv, LInv, [Next]_vars PROVE LInv'
    OBVIOUS
  <2>1. CASE Turn \/ ChangeSize \/ Search \/ DeleteRow
    <3>1. stage' = "sent"
      BY <2>1 DEF Turn, ChangeSize, Search, DeleteRow, Ask
    <3> QED
      BY <3>1 DEF LInv
  <2>2. CASE Change
    BY <2>2, ChangeLeads
  <2>3. CASE Select
    BY <2>3, SelectLeads
  <2>4. CASE Count
    BY <2>4, CountLeads
  <2>5. CASE UNCHANGED vars
    BY <2>5 DEF vars, LInv, CeilDiv
  <2> QED
    BY <2>1, <2>2, <2>3, <2>4, <2>5 DEF Next
<1>3. PInv /\ LInv => LinksLead
  <2> SUFFICES ASSUME PInv, LInv, HasBar, page.rows # {}, NEW k \in Links(page.no, page.pages)
               PROVE  k <= CeilDiv(most, page.size) \/ (k = page.no + 1 /\ (~counted \/ page.no > page.pages))
    BY DEF LinksLead
  <2>1. page.no \in Nat \ {0} /\ page.pages \in Nat /\ CeilDiv(most, page.size) \in Nat
    BY NumbersTyped, CeilDivPositive DEF PInv
  <2>2. /\ page.no <= CeilDiv(most, page.size)
        /\ counted => page.pages <= CeilDiv(most, page.size)
        /\ ~counted => page.pages <= page.no + 1
    BY DEF LInv, HasBar
  <2>3. /\ k \in Int /\ (k <= page.pages \/ k <= page.no \/ (k = page.no + 1 /\ page.no # page.pages))
    BY <2>1 DEF Links, Nav, MidPageNo, HasNext
  <2> QED
    BY <2>1, <2>2, <2>3
<1> QED
  BY <1>1, <1>2, <1>3, TypeCorrect, PTL DEF Spec
=============================================================================
