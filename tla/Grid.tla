-------------------------------- MODULE Grid --------------------------------
(***************************************************************************)
(* A grid of the web pages (flexigrid.js with the options the views give   *)
(* it) and the action that answers its requests (json_hash).  The user     *)
(* sorts, turns pages, hides and moves columns; dialogs and buttons reload *)
(* the grid when their own request has ended; other users change the rows. *)
(* The flag loading keeps a second request from being sent.                *)
(***************************************************************************)
EXTENDS Naturals, Sequences, FiniteSets, SequencesExt

CONSTANTS
  NumCols,        \* columns; the number of a column is its axis
  SortCols,       \* columns with a name, which can be sorted by
  NumRows,        \* rows that may exist, each known by its number
  FirstDbs,       \* the sets of rows there may be at first
  RpOptions,      \* rows per page the user can choose
  FirstRp,
  None,
  MaxChanges      \* bound: rows added and removed

ASSUME GridAssumption ==
  /\ NumCols \in Nat \ {0} /\ SortCols \subseteq 1..NumCols /\ 1 \in SortCols
  /\ NumRows \in Nat \ {0} /\ MaxChanges \in Nat
  /\ FirstDbs \subseteq SUBSET (1..NumRows)
  /\ RpOptions \subseteq Nat \ {0} /\ FirstRp \in RpOptions

Cols == 1..NumCols
Rows == 1..NumRows

VARIABLES
  db,             \* the rows the server has
  changes,
  header,         \* the headers from left to right: [axis, hide]
  boxes,          \* the column menu from top to bottom: [axis, checked]
  page, pages, newp, rp,   \* p.page, p.pages, p.newp, p.rp
  sort,           \* p.sortname and p.sortorder
  loading,
  pager,          \* the text of the pager
  reqs,           \* requests under way
  body,           \* the rows shown, and the cells that every one of them has
  shown,          \* the changes the answer shown last had seen
  sameRp,         \* p.rp was not changed while that answer was under way
  failed          \* a request failed

columns == <<header, boxes>>
paging  == <<page, pages, newp, rp, sort>>
request == <<loading, pager, reqs, failed>>
vars    == <<db, changes, columns, paging, request, body, shown, sameRp>>

Lesser(i, j) == IF i < j THEN i ELSE j
Flip(order)  == IF order = "asc" THEN "desc" ELSE "asc"

-----------------------------------------------------------------------------
(* The server.                                                             *)

\* The order of two rows; a second column orders them the other way round.
Precedes(s, i, j) == IF (s.order = "asc") = (s.name % 2 = 1) THEN i < j ELSE j < i

\* All the rows, in order.
InOrder(s) ==
  CHOOSE all \in [1..Cardinality(db) -> db] :
    \A i, j \in 1..Cardinality(db) : i < j => Precedes(s, all[i], all[j])

\* The rows of one page; a page beyond the last is empty.
PageOf(n, k, s) ==
  SubSeq(InOrder(s), (n - 1) * k + 1, Lesser(n * k, Cardinality(db)))

ChangeRow(row) ==
  /\ changes < MaxChanges /\ changes' = changes + 1
  /\ db' = IF row \in db THEN db \ {row} ELSE db \cup {row}
  /\ UNCHANGED <<columns, paging, request, body, shown, sameRp>>

\* json_hash: the page asked for is sent back as it is.
Serve(r) ==
  /\ r.answer = None
  /\ reqs' = (reqs \ {r}) \cup
       {[r EXCEPT !.answer = [page |-> r.page, total |-> Cardinality(db),
                              rows |-> PageOf(r.page, r.rp, r.sort), seen |-> changes]]}
  /\ UNCHANGED <<db, changes, columns, paging, loading, pager, failed, body, shown, sameRp>>

-----------------------------------------------------------------------------
(* The request.                                                            *)

\* Mutant: another request is sent while one is under way.
PopulateAlways(np, k, s) ==
  /\ loading' = TRUE /\ pager' = [text |-> "processing"]
  /\ page' = Lesser(page, pages)
  /\ reqs' = reqs \cup {[page |-> np, rp |-> k, sort |-> s, answer |-> None]}

\* populate, with the page, the rows per page and the order to ask for: while
\* a request is under way, nothing is sent and nothing remembered.
Populate(np, k, s) ==
  IF loading THEN UNCHANGED <<loading, pager, page, reqs>>
  ELSE /\ loading' = TRUE /\ pager' = [text |-> "processing"]
       /\ page' = Lesser(page, pages)
       /\ reqs' = reqs \cup {[page |-> np, rp |-> k, sort |-> s, answer |-> None]}

\* $.ajax is given no error handler: loading stays set, the text stays "Processing".
RequestFails(r) ==
  /\ reqs' = reqs \ {r} /\ failed' = TRUE
  /\ UNCHANGED <<db, changes, columns, paging, loading, pager, body, shown, sameRp>>

\* buildpager.
Items(n, t) ==
  LET from == (n - 1) * rp + 1
  IN [text |-> "items", from |-> from, to |-> Lesser(from + rp - 1, t), total |-> t]

\* The cells of a new row: one for every header, hidden if the column is.
NewCells == [i \in DOMAIN header |-> [axis |-> header[i].axis, hidden |-> header[i].hide]]

\* Mutant: an empty list returns before the flag is reset.
AddDataLate(a) ==
  IF a.total = 0
  THEN /\ body' = [rows |-> <<>>, cells |-> <<>>] /\ pages' = 1 /\ page' = 1
       /\ pager' = [text |-> "no items"]
       /\ UNCHANGED loading
  ELSE /\ pages' = (a.total + rp - 1) \div rp /\ page' = a.page
       /\ pager' = Items(a.page, a.total)
       /\ body' = [rows |-> a.rows, cells |-> NewCells]
       /\ loading' = FALSE

\* Mutant: an empty list leaves the table as it is.
AddDataKeepsRows(a) ==
  /\ loading' = FALSE
  /\ IF a.total = 0
     THEN /\ pages' = 1 /\ page' = 1 /\ pager' = [text |-> "no items"]
          /\ UNCHANGED body
     ELSE /\ pages' = (a.total + rp - 1) \div rp /\ page' = a.page
          /\ pager' = Items(a.page, a.total)
          /\ body' = [rows |-> a.rows, cells |-> NewCells]

\* addData: everything but the rows is computed with what p holds by now.
AddData(a) ==
  /\ loading' = FALSE
  /\ IF a.total = 0
     THEN /\ body' = [rows |-> <<>>, cells |-> <<>>] /\ pages' = 1 /\ page' = 1
          /\ pager' = [text |-> "no items"]
     ELSE /\ pages' = (a.total + rp - 1) \div rp /\ page' = a.page
          /\ pager' = Items(a.page, a.total)
          /\ body' = [rows |-> a.rows, cells |-> NewCells]

Answer(r) ==
  /\ r.answer # None
  /\ AddData(r.answer)
  /\ reqs' = reqs \ {r}
  /\ shown' = r.answer.seen /\ sameRp' = (r.rp = rp)
  /\ UNCHANGED <<db, changes, columns, newp, rp, sort, failed>>

-----------------------------------------------------------------------------
(* What the user does.                                                     *)

Rest == <<db, changes, columns, failed, body, shown, sameRp>>

\* flexReload and the reload button.
Reload ==
  /\ Populate(newp, rp, sort)
  /\ UNCHANGED <<Rest, pages, newp, rp, sort>>

\* Mutant: the buttons look at nothing.
PageButtonsUnguarded == 1..pages \cup {page - 1, page + 1}

\* The pages a button or the page field stores in p.newp.  "Previous" on the
\* first page and "next" on the last leave there what was there.
PageButtons ==
  1..pages
    \cup (IF page > 1 THEN {page - 1} ELSE {newp})
    \cup (IF page < pages THEN {page + 1} ELSE {newp})

ChangePage ==
  /\ ~loading
  /\ newp' \in PageButtons
  /\ IF newp' = page THEN UNCHANGED <<loading, pager, page, reqs>>
                     ELSE Populate(newp', rp, sort)
  /\ UNCHANGED <<Rest, pages, rp, sort>>

NewSort(c) ==
  [name |-> c, order |-> IF sort.name = c THEN Flip(sort.order) ELSE sort.order]

\* Mutant: the order changes while the answer in the old order is under way.
ChangeSortAlways(c) ==
  /\ \E i \in DOMAIN header : header[i].axis = c /\ ~header[i].hide
  /\ sort' = NewSort(c)
  /\ Populate(newp, rp, sort')
  /\ UNCHANGED <<Rest, pages, newp, rp>>

ChangeSort(c) ==
  /\ ~loading
  /\ \E i \in DOMAIN header : header[i].axis = c /\ ~header[i].hide
  /\ sort' = NewSort(c)
  /\ Populate(newp, rp, sort')
  /\ UNCHANGED <<Rest, pages, newp, rp>>

\* The rows-per-page menu asks nobody whether a request is under way.
ChangeRp(k) ==
  /\ k # rp
  /\ newp' = 1 /\ rp' = k
  /\ Populate(1, k, sort)
  /\ UNCHANGED <<Rest, pages, sort>>

\* The column menu: the last visible column stays.
ToggleCol(c) ==
  LET n == CHOOSE i \in DOMAIN header : header[i].axis = c
      hide == ~header[n].hide
  IN /\ hide => Cardinality({i \in DOMAIN boxes : boxes[i].checked}) > 1
     /\ header' = [header EXCEPT ![n].hide = hide]
     /\ boxes' = [i \in DOMAIN boxes |->
                    IF boxes[i].axis = c THEN [boxes[i] EXCEPT !.checked = ~hide] ELSE boxes[i]]
     /\ body' = IF body.rows = <<>> THEN body ELSE [body EXCEPT !.cells[n].hidden = hide]
     /\ UNCHANGED <<db, changes, paging, request, shown, sameRp>>

\* Before number to if it comes from the right, after it otherwise: the element
\* ends up in place to.
Moved(s, from, to) == InsertAt(RemoveAt(s, from), to, s[from])

\* Mutant: always before.
SwitchColBefore(s, from, to) ==
  IF from > to THEN Moved(s, from, to) ELSE InsertAt(RemoveAt(s, from), to - 1, s[from])

\* switchCol: the cells of a row, or the lines of the column menu.
SwitchCol(s, from, to) == Moved(s, from, to)

\* A header is dragged onto another.  What dragStart remembers is not changed
\* until dragEnd: all the user does in between is the drag.
MoveCol(from, to) ==
  /\ from # to /\ ~header[from].hide /\ ~header[to].hide
  /\ header' = Moved(header, from, to)
  /\ boxes' = SwitchCol(boxes, from, to)
  /\ body' = IF body.rows = <<>> THEN body
             ELSE [body EXCEPT !.cells = SwitchCol(body.cells, from, to)]
  /\ UNCHANGED <<db, changes, paging, request, shown, sameRp>>

-----------------------------------------------------------------------------
\* The grid populates itself when it is created.
Init ==
  /\ db \in FirstDbs /\ changes = 0
  /\ header = [i \in Cols |-> [axis |-> i, hide |-> FALSE]]
  /\ boxes = [i \in Cols |-> [axis |-> i, checked |-> TRUE]]
  /\ page = 1 /\ pages = 1 /\ newp = 1 /\ rp = FirstRp
  /\ sort = [name |-> 1, order |-> "asc"]
  /\ loading = TRUE /\ pager = [text |-> "processing"]
  /\ reqs = {[page |-> 1, rp |-> rp, sort |-> sort, answer |-> None]}
  /\ body = [rows |-> <<>>, cells |-> <<>>]
  /\ shown = 0 /\ sameRp = TRUE /\ failed = FALSE

Next ==
  \/ \E row \in Rows : ChangeRow(row)
  \/ \E r \in reqs : Serve(r) \/ Answer(r) \/ RequestFails(r)
  \/ Reload \/ ChangePage
  \/ \E c \in SortCols : ChangeSort(c)
  \/ \E c \in Cols : ToggleCol(c)
  \/ \E k \in RpOptions : ChangeRp(k)
  \/ \E i, j \in Cols : MoveCol(i, j)

Spec == Init /\ [][Next]_vars

\* The server answers, and the browser calls the handler.
Fairness == WF_reqs(\E r \in reqs : Serve(r) \/ Answer(r))

FairSpec == Spec /\ Fairness

-----------------------------------------------------------------------------
(* Properties.                                                             *)

\* The variables have their types; in particular no page below the first is asked for.
TypeOK ==
  /\ db \subseteq Rows /\ changes \in 0..MaxChanges /\ shown \in 0..MaxChanges
  /\ header \in [Cols -> [axis : Cols, hide : BOOLEAN]]
  /\ boxes \in [Cols -> [axis : Cols, checked : BOOLEAN]]
  /\ page \in 1..NumRows /\ pages \in 1..NumRows /\ newp \in 1..NumRows
  /\ rp \in RpOptions
  /\ sort \in [name : Cols, order : {"asc", "desc"}]
  /\ \A r \in reqs : r.page \in 1..NumRows /\ r.rp \in RpOptions
  /\ body.rows \in Seq(Rows)
  /\ {loading, sameRp, failed} \subseteq BOOLEAN

\* Every cell is under its own header and hidden exactly if the header is, the
\* column menu lists the columns in the order of the headers and ticks those that
\* are shown, and one is: whatever columns were moved and hidden, before,
\* during or after the request that brought the rows.
CellsUnderHeaders ==
  /\ body.rows # <<>> => body.cells = NewCells
  /\ boxes = [i \in Cols |-> [axis |-> header[i].axis, checked |-> ~header[i].hide]]
  /\ \E i \in Cols : ~header[i].hide

\* At rest the rows are as many as the pager says, on the page it says, and in
\* the order the header shows, unless the rows per page were changed under the
\* answer (the menu's own reload was dropped then).
PagerDescribesBody ==
  ~loading /\ sameRp =>
    /\ \A i, j \in DOMAIN body.rows : i < j => Precedes(sort, body.rows[i], body.rows[j])
    /\ pager.text = "no items" => body.rows = <<>>
    /\ pager.text = "items" =>
         /\ Len(body.rows) = (IF pager.to >= pager.from THEN pager.to - pager.from + 1 ELSE 0)
         /\ pager.from = (page - 1) * rp + 1
         /\ page < pages => Len(body.rows) = rp

\* The grid never goes back to rows older than those it showed.
NeverOlder == [][shown' >= shown]_vars

\* A grid that is loading comes to rest, unless a request failed.
LoadingEnds == loading ~> (~loading \/ failed)

\* A request that reaches the server after the last change makes the grid
\* show the rows there are, on the page it shows and in its order.
UpToDate ==
  (changes = MaxChanges /\ \E r \in reqs : r.answer = None) ~>
    (failed \/ \E k \in RpOptions : body.rows = PageOf(page, k, sort))
=============================================================================
