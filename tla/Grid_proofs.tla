---------------------------- MODULE Grid_proofs -----------------------------
(***************************************************************************)
(* The grid, for any number of columns, rows and changes: it never shows   *)
(* older rows than before, every cell stays under its own header, the      *)
(* pages it asks for exist in the types, and its pager describes the rows  *)
(* it shows.                                                               *)
(***************************************************************************)
EXTENDS Grid, FiniteSetTheorems, FunctionTheorems, SequenceTheorems, TLAPS

(***************************************************************************)
(* The flag loading admits one request at a time, so that the answers      *)
(* cannot overtake each other.                                             *)
(***************************************************************************)
Fields == {"page", "rp", "sort", "answer"}

Seen(n) == n \in Nat /\ shown <= n /\ n <= changes

OneRequest ==
  /\ \A r \in reqs : loading /\ DOMAIN r = Fields /\ (r.answer # None => Seen(r.answer.seen))
  /\ \A r, q \in reqs : r = q

Counted == shown \in Nat /\ changes \in Nat /\ shown <= changes

RInv == Counted /\ OneRequest

\* No request is under way initially.
LEMMA RequestsInit == Init => RInv
BY DEF Init, RInv, Counted, OneRequest, Fields

\* What is sent is the only request, and it has no answer yet.
LEMMA Sent ==
  ASSUME RInv, NEW np, NEW k, NEW s, Populate(np, k, s),
         UNCHANGED <<changes, shown>>
  PROVE  RInv'
<1>1. CASE loading
  BY <1>1 DEF Populate, RInv, Counted, OneRequest, Seen
<1>2. CASE ~loading
  <2>1. reqs = {}
    BY <1>2 DEF RInv, OneRequest
  <2>2. loading' /\ reqs' = {[page |-> np, rp |-> k, sort |-> s, answer |-> None]}
    BY <1>2, <2>1 DEF Populate
  <2> QED
    BY <2>2 DEF RInv, Counted, OneRequest, Fields
<1> QED
  BY <1>1, <1>2

\* Steps that touch no request preserve RInv.
LEMMA Kept ==
  ASSUME RInv, UNCHANGED <<changes, shown, loading, reqs>>
  PROVE  RInv'
BY DEF RInv, Counted, OneRequest, Seen

\* The server's answer has seen all changes so far.
LEMMA Served ==
  ASSUME RInv, NEW r \in reqs, Serve(r)
  PROVE  RInv'
<1>1. reqs = {r} /\ loading /\ DOMAIN r = Fields
  BY DEF RInv, OneRequest
<1> DEFINE a == [page |-> r.page, total |-> Cardinality(db),
                 rows |-> PageOf(r.page, r.rp, r.sort), seen |-> changes]
           q == [r EXCEPT !.answer = a]
<1>2. reqs' = {q} /\ UNCHANGED <<changes, shown, loading>>
  BY <1>1 DEF Serve
<1>3. DOMAIN q = Fields /\ q.answer = a /\ a.seen = changes
  BY <1>1 DEF Fields
<1> HIDE DEF q, a
<1> QED
  BY <1>1, <1>2, <1>3 DEF RInv, Counted, OneRequest, Seen

\* addData of the only answer shows nothing older than is shown.
LEMMA Answered ==
  ASSUME RInv, NEW r \in reqs, Answer(r)
  PROVE  RInv' /\ shown' >= shown
<1>1. reqs' = {} /\ shown' = r.answer.seen /\ changes' = changes /\ Seen(r.answer.seen)
  BY DEF RInv, OneRequest, Answer
<1> QED
  BY <1>1 DEF RInv, Counted, OneRequest, Seen

\* Every step preserves RInv, and none shows older rows.
LEMMA RequestsStep == RInv /\ [Next]_vars => RInv' /\ (shown' >= shown)
<1> SUFFICES ASSUME RInv, [Next]_vars
             PROVE  RInv' /\ shown' >= shown
  OBVIOUS
<1>0. shown \in Nat
  BY DEF RInv, Counted
<1>1. ASSUME NEW row \in Rows, ChangeRow(row)
      PROVE  RInv' /\ shown' >= shown
  <2>1. changes' = changes + 1 /\ UNCHANGED <<shown, loading, reqs>>
    BY <1>1 DEF ChangeRow, request
  <2> QED
    BY <2>1 DEF RInv, Counted, OneRequest, Seen
<1>2. ASSUME NEW r \in reqs, Serve(r)
      PROVE  RInv' /\ shown' >= shown
  BY <1>0, <1>2, Served DEF Serve
<1>3. ASSUME NEW r \in reqs, Answer(r)
      PROVE  RInv' /\ shown' >= shown
  BY <1>3, Answered
<1>4. ASSUME NEW r \in reqs, RequestFails(r)
      PROVE  RInv' /\ shown' >= shown
  <2>1. reqs' \subseteq reqs /\ UNCHANGED <<changes, shown, loading>>
    BY <1>4 DEF RequestFails
  <2> QED
    BY <2>1, <1>0 DEF RInv, Counted, OneRequest, Seen
<1>5. CASE Reload
  BY <1>0, <1>5, Sent DEF Reload, Rest
<1>6. CASE ChangePage
  <2>1. UNCHANGED <<changes, shown>>
    BY <1>6 DEF ChangePage, Rest
  <2>2. UNCHANGED <<loading, reqs>> \/ Populate(newp', rp, sort)
    BY <1>6 DEF ChangePage
  <2> QED
    BY <1>0, <2>1, <2>2, Sent, Kept
<1>7. ASSUME NEW c \in SortCols, ChangeSort(c)
      PROVE  RInv' /\ shown' >= shown
  <2>1. UNCHANGED <<changes, shown>> /\ Populate(newp, rp, sort')
    BY <1>7 DEF ChangeSort, Rest
  <2> QED
    BY <1>0, <2>1, Sent
<1>8. ASSUME NEW c \in Cols, ToggleCol(c)
      PROVE  RInv' /\ shown' >= shown
  BY <1>0, <1>8, Kept DEF ToggleCol, request
<1>9. ASSUME NEW k \in RpOptions, ChangeRp(k)
      PROVE  RInv' /\ shown' >= shown
  BY <1>0, <1>9, Sent DEF ChangeRp, Rest
<1>10. ASSUME NEW i \in Cols, NEW j \in Cols, MoveCol(i, j)
       PROVE  RInv' /\ shown' >= shown
  BY <1>0, <1>10, Kept DEF MoveCol, request
<1>11. CASE UNCHANGED vars
  BY <1>0, <1>11, Kept DEF vars, request
<1> QED
  BY <1>1, <1>2, <1>3, <1>4, <1>5, <1>6, <1>7, <1>8, <1>9, <1>10, <1>11 DEF Next

\* The grid never goes back to rows older than those it showed: no answer is
\* under way when another request is sent (p.loading in populate).
THEOREM RowsNeverOlder == Spec => NeverOlder
<1>1. Init => RInv
  BY RequestsInit
<1>2. RInv /\ [Next]_vars => RInv'
  BY RequestsStep
<1>3. RInv /\ [Next]_vars => [shown' >= shown]_vars
  BY RequestsStep
<1> QED
  BY <1>1, <1>2, <1>3, PTL DEF Spec, NeverOlder

-----------------------------------------------------------------------------
(***************************************************************************)
(* Moving an element of a sequence: where each element of the result was   *)
(* before depends on the two places only, and so headers, lines of the     *)
(* menu and cells that are moved alike stay in step.                       *)
(***************************************************************************)
LEMMA RemoveAtIs ==
  ASSUME NEW S, NEW s \in Seq(S), NEW i \in 1..Len(s)
  PROVE  /\ RemoveAt(s, i) \in Seq(S) /\ Len(RemoveAt(s, i)) = Len(s) - 1
         /\ \A k \in 1..(Len(s) - 1) : RemoveAt(s, i)[k] = IF k < i THEN s[k] ELSE s[k + 1]
<1> DEFINE a == SubSeq(s, 1, i - 1)
           b == SubSeq(s, i + 1, Len(s))
           c == a \o b
<1>0. Len(s) \in Nat /\ \A k \in 1..Len(s) : s[k] \in S
  OBVIOUS
<1>1. a \in Seq(S) /\ Len(a) = i - 1 /\ \A k \in 1..(i - 1) : a[k] = s[k]
  BY <1>0, SubSeqProperties
<1>2. b \in Seq(S) /\ Len(b) = Len(s) - i /\ \A k \in 1..(Len(s) - i) : b[k] = s[i + k]
  BY <1>0, SubSeqProperties
<1>3. RemoveAt(s, i) = c
  BY DEF RemoveAt
<1> HIDE DEF a, b
<1>4. /\ c \in Seq(S) /\ Len(c) = Len(a) + Len(b)
      /\ \A k \in 1..Len(a) + Len(b) : c[k] = IF k <= Len(a) THEN a[k] ELSE b[k - Len(a)]
  BY <1>1, <1>2, ConcatProperties
<1> HIDE DEF c
<1>5. Len(c) = Len(s) - 1
  BY <1>0, <1>1, <1>2, <1>4
<1>6. ASSUME NEW k \in 1..(Len(s) - 1)
      PROVE  c[k] = IF k < i THEN s[k] ELSE s[k + 1]
  <2>1. c[k] = IF k <= i - 1 THEN a[k] ELSE b[k - (i - 1)]
    BY <1>0, <1>1, <1>2, <1>4
  <2>2. CASE k < i
    BY <1>0, <1>1, <2>1, <2>2
  <2>3. CASE ~(k < i)
    <3>1. k - (i - 1) \in 1..(Len(s) - i) /\ i + (k - (i - 1)) = k + 1
      BY <1>0, <2>3
    <3> QED
      BY <1>0, <1>2, <2>1, <2>3, <3>1
  <2> QED
    BY <2>2, <2>3
<1> QED
  BY <1>3, <1>4, <1>5, <1>6

\* InsertAt shifts what follows by one position.
LEMMA InsertAtIs ==
  ASSUME NEW S, NEW s \in Seq(S), NEW e \in S, NEW i \in 1..(Len(s) + 1)
  PROVE  /\ InsertAt(s, i, e) \in Seq(S) /\ Len(InsertAt(s, i, e)) = Len(s) + 1
         /\ \A k \in 1..(Len(s) + 1) :
              InsertAt(s, i, e)[k] = IF k < i THEN s[k] ELSE IF k = i THEN e ELSE s[k - 1]
<1> DEFINE a == SubSeq(s, 1, i - 1)
           b == SubSeq(s, i, Len(s))
           c == a \o <<e>>
           d == c \o b
<1>0. Len(s) \in Nat /\ \A k \in 1..Len(s) : s[k] \in S
  OBVIOUS
<1>1. a \in Seq(S) /\ Len(a) = i - 1 /\ \A k \in 1..(i - 1) : a[k] = s[k]
  BY <1>0, SubSeqProperties
<1>2. b \in Seq(S) /\ Len(b) = Len(s) - i + 1
        /\ \A k \in 1..(Len(s) - i + 1) : b[k] = s[i + k - 1]
  BY <1>0, SubSeqProperties
<1>3. InsertAt(s, i, e) = d
  BY DEF InsertAt
<1> HIDE DEF a, b
<1>4. c \in Seq(S) /\ Len(c) = i /\ c[i] = e /\ \A k \in 1..(i - 1) : c[k] = s[k]
  <2>1. <<e>> \in Seq(S) /\ Len(<<e>>) = 1 /\ <<e>>[1] = e
    OBVIOUS
  <2>2. /\ c \in Seq(S) /\ Len(c) = Len(a) + 1
        /\ \A k \in 1..Len(a) + 1 : c[k] = IF k <= Len(a) THEN a[k] ELSE <<e>>[k - Len(a)]
    BY <1>1, <2>1, ConcatProperties
  <2> HIDE DEF c
  <2>3. c[i] = <<e>>[i - (i - 1)] /\ i - (i - 1) = 1
    BY <1>0, <1>1, <2>2
  <2> QED
    BY <1>0, <1>1, <2>1, <2>2, <2>3
<1> HIDE DEF c
<1>5. /\ d \in Seq(S) /\ Len(d) = Len(c) + Len(b)
      /\ \A k \in 1..Len(c) + Len(b) : d[k] = IF k <= Len(c) THEN c[k] ELSE b[k - Len(c)]
  BY <1>2, <1>4, ConcatProperties
<1> HIDE DEF d
<1>6. Len(d) = Len(s) + 1
  BY <1>0, <1>2, <1>4, <1>5
<1>7. ASSUME NEW k \in 1..(Len(s) + 1)
      PROVE  d[k] = IF k < i THEN s[k] ELSE IF k = i THEN e ELSE s[k - 1]
  <2>1. d[k] = IF k <= i THEN c[k] ELSE b[k - i]
    BY <1>0, <1>2, <1>4, <1>5
  <2>2. CASE k <= i
    BY <1>0, <1>4, <2>1, <2>2
  <2>3. CASE ~(k <= i)
    <3>1. k - i \in 1..(Len(s) - i + 1) /\ i + (k - i) - 1 = k - 1
      BY <1>0, <2>3
    <3> QED
      BY <1>0, <1>2, <2>1, <2>3, <3>1
  <2> QED
    BY <2>2, <2>3
<1> QED
  BY <1>3, <1>5, <1>6, <1>7

\* The place the element in place k of the result had.
Was(from, to, k) ==
  IF k = to THEN from
  ELSE IF from <= k /\ k < to THEN k + 1
  ELSE IF to < k /\ k <= from THEN k - 1
  ELSE k

\* What a drag does, position by position.
LEMMA MovedIs ==
  ASSUME NEW s, s = [i \in Cols |-> s[i]], NEW from \in Cols, NEW to \in Cols
  PROVE  Moved(s, from, to) = [k \in Cols |-> s[Was(from, to, k)]]
<1> DEFINE S == {s[i] : i \in Cols}
           n == NumCols
           e == s[from]
           r == RemoveAt(s, from)
           m == InsertAt(r, to, e)
<1>0. n \in Nat /\ Cols = 1..n
  BY GridAssumption DEF Cols
<1> HIDE DEF n
<1>1. s \in Seq(S) /\ Len(s) = n /\ from \in 1..n /\ to \in 1..n /\ e \in S
  <2>1. s = [i \in 1..n |-> s[i]]
    BY <1>0
  <2>2. (\A i \in 1..n : s[i] \in S) /\ e \in S
    BY <1>0
  <2> HIDE DEF S, e
  <2>3. s \in [1..n -> S]
    BY <2>1, <2>2
  <2> QED
    BY <1>0, <2>2, <2>3
<1> HIDE DEF S
<1>2. /\ r \in Seq(S) /\ Len(r) = n - 1
      /\ \A k \in 1..(n - 1) : r[k] = IF k < from THEN s[k] ELSE s[k + 1]
  BY <1>1, RemoveAtIs
<1> HIDE DEF r, e
<1>3. r \in Seq(S) /\ to \in 1..(Len(r) + 1) /\ Len(r) + 1 = n
  BY <1>0, <1>1, <1>2
<1>4. /\ m \in Seq(S) /\ Len(m) = Len(r) + 1
      /\ \A k \in 1..(Len(r) + 1) :
           m[k] = IF k < to THEN r[k] ELSE IF k = to THEN e ELSE r[k - 1]
  <2>1. r \in Seq(S) /\ to \in 1..(Len(r) + 1) /\ e \in S
    BY <1>1, <1>3
  <2> QED
    BY ONLY <2>1, InsertAtIs
<1>5. Moved(s, from, to) = m
  BY DEF Moved, r, e
<1> HIDE DEF m
<1>6. m \in Seq(S) /\ Len(m) = n
  BY <1>3, <1>4
<1>7. ASSUME NEW k \in Cols
      PROVE  m[k] = s[Was(from, to, k)]
  <2>0. k \in 1..n /\ k \in Int /\ from \in Int /\ to \in Int
    BY <1>0, <1>1
  <2>1. m[k] = IF k < to THEN r[k] ELSE IF k = to THEN e ELSE r[k - 1]
    BY <1>3, <1>4, <2>0
  <2>2. CASE k < to
    <3>1. k \in 1..(n - 1)
      BY <1>0, <1>1, <2>0, <2>2
    <3>2. m[k] = IF k < from THEN s[k] ELSE s[k + 1]
      BY <1>2, <2>1, <2>2, <3>1
    <3>3. Was(from, to, k) = IF k < from THEN k ELSE k + 1
      BY <2>0, <2>2 DEF Was
    <3> QED
      BY <3>2, <3>3
  <2>3. CASE k = to
    BY <2>0, <2>1, <2>3 DEF Was, e
  <2>4. CASE k > to
    <3>1. k - 1 \in 1..(n - 1) /\ (k - 1) + 1 = k
      BY <1>0, <1>1, <2>0, <2>4
    <3>2. r[k - 1] = IF k - 1 < from THEN s[k - 1] ELSE s[k]
      BY <1>2, <3>1
    <3>3. m[k] = r[k - 1]
      BY <2>0, <2>1, <2>4
    <3>4. Was(from, to, k) = IF k - 1 < from THEN k - 1 ELSE k
      BY <2>0, <2>4 DEF Was
    <3> QED
      BY <3>2, <3>3, <3>4
  <2> QED
    BY <2>0, <2>2, <2>3, <2>4
<1>8. m = [k \in Cols |-> m[k]]
  BY <1>0, <1>6
<1> QED
  BY <1>5, <1>7, <1>8

\* The position an element had before a drag is a position,
LEMMA WasIn ==
  ASSUME NEW from \in Cols, NEW to \in Cols, NEW k \in Cols
  PROVE  Was(from, to, k) \in Cols
BY GridAssumption DEF Was, Cols

\* no two elements had the same,
LEMMA WasInjective ==
  ASSUME NEW from \in Cols, NEW to \in Cols, NEW i \in Cols, NEW j \in Cols,
         Was(from, to, i) = Was(from, to, j)
  PROVE  i = j
BY GridAssumption DEF Was, Cols

\* and the drag back undoes the drag.
LEMMA WasInverse ==
  ASSUME NEW from \in Cols, NEW to \in Cols, NEW k \in Cols
  PROVE  Was(from, to, Was(to, from, k)) = k
BY GridAssumption DEF Was, Cols

-----------------------------------------------------------------------------
(***************************************************************************)
(* Headers, menu and cells.                                                *)
(***************************************************************************)
Header == [axis : Cols, hide : BOOLEAN]
Box    == [axis : Cols, checked : BOOLEAN]
Cell   == [axis : Cols, hidden : BOOLEAN]

\* Every column has one header.
HeadersFit(h) ==
  /\ h \in [Cols -> Header]
  /\ \A i, j \in Cols : h[i].axis = h[j].axis => i = j
  /\ \A c \in Cols : \E i \in Cols : h[i].axis = c

MenuFits(h, b) ==
  /\ b \in [Cols -> Box]
  /\ \A i \in Cols : b[i].axis = h[i].axis /\ (b[i].checked <=> ~h[i].hide)

CellsFit(h, c) ==
  /\ c \in [Cols -> Cell]
  /\ \A i \in Cols : c[i].axis = h[i].axis /\ (c[i].hidden <=> h[i].hide)

CInv ==
  /\ HeadersFit(header)
  /\ MenuFits(header, boxes)
  /\ DOMAIN body = {"rows", "cells"}
  /\ body.rows # <<>> => CellsFit(header, body.cells)
  /\ \E i \in Cols : ~header[i].hide

\* The invariant says in particular that cells are under their headers.
LEMMA CInvImplies == CInv => CellsUnderHeaders
<1> SUFFICES ASSUME CInv PROVE CellsUnderHeaders
  OBVIOUS
<1>0. /\ header \in [Cols -> Header] /\ DOMAIN header = Cols
      /\ \A i \in Cols : header[i].hide \in BOOLEAN
  BY DEF CInv, HeadersFit, Header
<1>1. ASSUME body.rows # <<>>
      PROVE  body.cells = NewCells
  <2>1. CellsFit(header, body.cells)
    BY <1>1 DEF CInv
  <2>2. ASSUME NEW i \in Cols
        PROVE  body.cells[i] = [axis |-> header[i].axis, hidden |-> header[i].hide]
    <3>1. /\ body.cells[i] \in Cell /\ body.cells[i].axis = header[i].axis
          /\ body.cells[i].hidden <=> header[i].hide
      BY <2>1 DEF CellsFit
    <3>2. body.cells[i].hidden \in BOOLEAN /\ header[i].hide \in BOOLEAN
      BY <1>0, <3>1 DEF Cell
    <3>3. body.cells[i].hidden = header[i].hide
      BY <3>1, <3>2
    <3> QED
      BY <3>1, <3>3 DEF Cell
  <2>3. body.cells = [i \in Cols |-> body.cells[i]]
    BY <2>1 DEF CellsFit
  <2> QED
    BY <1>0, <2>2, <2>3 DEF NewCells
<1>2. boxes = [i \in Cols |-> [axis |-> header[i].axis, checked |-> ~header[i].hide]]
  <2>1. MenuFits(header, boxes)
    BY DEF CInv
  <2>2. ASSUME NEW i \in Cols
        PROVE  boxes[i] = [axis |-> header[i].axis, checked |-> ~header[i].hide]
    <3>1. /\ boxes[i] \in Box /\ boxes[i].axis = header[i].axis
          /\ boxes[i].checked <=> ~header[i].hide
      BY <2>1 DEF MenuFits
    <3>2. boxes[i].checked \in BOOLEAN
      BY <3>1 DEF Box
    <3>3. boxes[i].checked = ~header[i].hide
      BY <3>1, <3>2
    <3> QED
      BY <3>1, <3>3 DEF Box
  <2>3. boxes = [i \in Cols |-> boxes[i]]
    BY <2>1 DEF MenuFits
  <2> QED
    BY <2>2, <2>3
<1> QED
  BY <1>1, <1>2 DEF CInv, CellsUnderHeaders

\* Initially the columns are in their own order and visible.
LEMMA ColumnsInit == Init => CInv
<1> SUFFICES ASSUME Init PROVE CInv
  OBVIOUS
<1>1. /\ header = [i \in Cols |-> [axis |-> i, hide |-> FALSE]] /\ 1 \in Cols
      /\ boxes = [i \in Cols |-> [axis |-> i, checked |-> TRUE]]
  BY GridAssumption DEF Init, Cols
<1>2. HeadersFit(header)
  BY <1>1 DEF HeadersFit, Header
<1>3. MenuFits(header, boxes)
  BY <1>1 DEF MenuFits, Box
<1>4. body = [rows |-> <<>>, cells |-> <<>>]
  BY DEF Init
<1> QED
  BY <1>1, <1>2, <1>3, <1>4 DEF CInv

\* Moving a column moves its line of the menu and its cells alike.
LEMMA ColumnMoved ==
  ASSUME CInv, NEW from \in Cols, NEW to \in Cols, MoveCol(from, to)
  PROVE  CInv'
<1> DEFINE W(k) == Was(from, to, k)
           B(k) == Was(to, from, k)
<1>0. NumCols \in Nat /\ Cols = 1..NumCols
  BY GridAssumption DEF Cols
<1>1. /\ \A k \in Cols : W(k) \in Cols
      /\ \A i, j \in Cols : W(i) = W(j) => i = j
      /\ \A k \in Cols : W(B(k)) = k
  <2>1. \A k \in Cols : W(k) \in Cols
    BY WasIn
  <2>2. \A i, j \in Cols : W(i) = W(j) => i = j
    BY WasInjective
  <2>3. \A k \in Cols : W(B(k)) = k
    BY WasInverse
  <2> QED
    BY <2>1, <2>2, <2>3
<1>2. \A k \in Cols : B(k) \in Cols
  BY WasIn
<1>3. header \in [Cols -> Header] /\ boxes \in [Cols -> Box]
  BY DEF CInv, HeadersFit, MenuFits
<1>4. header' = [k \in Cols |-> header[W(k)]]
  <2>1. header' = Moved(header, from, to)
    BY DEF MoveCol
  <2>2. Moved(header, from, to) = [k \in Cols |-> header[Was(from, to, k)]]
    BY <1>3, MovedIs
  <2> QED
    BY <2>1, <2>2
<1>5. boxes' = [k \in Cols |-> boxes[W(k)]]
  <2>1. boxes' = Moved(boxes, from, to)
    BY DEF MoveCol, SwitchCol
  <2>2. Moved(boxes, from, to) = [k \in Cols |-> boxes[Was(from, to, k)]]
    BY <1>3, MovedIs
  <2> QED
    BY <2>1, <2>2
<1> HIDE DEF W, B
<1>6. HeadersFit(header')
  <2>1. header' \in [Cols -> Header]
    BY <1>1, <1>3, <1>4
  <2>2. ASSUME NEW i \in Cols, NEW j \in Cols, header'[i].axis = header'[j].axis
        PROVE  i = j
    BY <1>1, <1>4, <2>2 DEF CInv, HeadersFit
  <2>3. ASSUME NEW c \in Cols
        PROVE  \E i \in Cols : header'[i].axis = c
    <3>1. PICK i \in Cols : header[i].axis = c
      BY DEF CInv, HeadersFit
    <3>2. header'[B(i)] = header[i] /\ B(i) \in Cols
      BY <1>1, <1>2, <1>4
    <3> QED
      BY <3>1, <3>2
  <2> QED
    BY <2>1, <2>2, <2>3 DEF HeadersFit
<1>7. MenuFits(header', boxes')
  BY <1>1, <1>3, <1>4, <1>5 DEF CInv, MenuFits
<1>8. DOMAIN body' = {"rows", "cells"} /\ (body'.rows # <<>> => CellsFit(header', body'.cells))
  <2>1. CASE body.rows = <<>>
    <3>1. body' = body
      BY <2>1 DEF MoveCol
    <3> QED
      BY <2>1, <3>1 DEF CInv
  <2>2. CASE body.rows # <<>>
    <3> DEFINE moved == SwitchCol(body.cells, from, to)
    <3>0. CellsFit(header, body.cells)
      BY <2>2 DEF CInv
    <3>1. body' = [body EXCEPT !.cells = moved]
      BY <2>2 DEF MoveCol
    <3>2. moved = [k \in Cols |-> body.cells[W(k)]]
      <4> DEFINE cells == body.cells
      <4>1. moved = Moved(cells, from, to)
        BY DEF SwitchCol
      <4>2. cells \in [Cols -> Cell]
        BY <3>0 DEF CellsFit
      <4> HIDE DEF moved, cells
      <4>3. Moved(cells, from, to) = [k \in Cols |-> cells[Was(from, to, k)]]
        BY <4>2, MovedIs
      <4> QED
        BY <4>1, <4>3 DEF W, cells
    <3> HIDE DEF moved
    <3>3. DOMAIN body' = {"rows", "cells"} /\ body'.cells = moved
      BY <3>1 DEF CInv
    <3>4. CellsFit(header', moved)
      BY <1>1, <1>3, <1>4, <3>0, <3>2 DEF CellsFit
    <3> QED
      BY <3>3, <3>4
  <2> QED
    BY <2>1, <2>2
<1>9. \E i \in Cols : ~header'[i].hide
  <2>1. PICK i \in Cols : ~header[i].hide
    BY DEF CInv
  <2>2. header'[B(i)] = header[i] /\ B(i) \in Cols
    BY <1>1, <1>2, <1>4
  <2> QED
    BY <2>1, <2>2
<1> QED
  BY <1>6, <1>7, <1>8, <1>9 DEF CInv

\* A column that is hidden is not the last one shown.
LEMMA ColumnToggled ==
  ASSUME CInv, NEW c \in Cols, ToggleCol(c)
  PROVE  CInv'
<1> DEFINE n    == CHOOSE i \in DOMAIN header : header[i].axis = c
           hide == ~header[n].hide
           T    == {i \in DOMAIN boxes : boxes[i].checked}
<1>0. NumCols \in Nat /\ Cols = 1..NumCols
  BY GridAssumption DEF Cols
<1>1. header \in [Cols -> Header] /\ boxes \in [Cols -> Box] /\ DOMAIN header = Cols /\ DOMAIN boxes = Cols
  BY DEF CInv, HeadersFit, MenuFits
<1>2. n \in Cols /\ header[n].axis = c
  BY <1>1 DEF CInv, HeadersFit
<1>3. /\ hide => Cardinality(T) > 1
      /\ header' = [header EXCEPT ![n].hide = hide]
      /\ boxes' = [i \in DOMAIN boxes |->
                     IF boxes[i].axis = c THEN [boxes[i] EXCEPT !.checked = ~hide] ELSE boxes[i]]
      /\ body' = IF body.rows = <<>> THEN body ELSE [body EXCEPT !.cells[n].hidden = hide]
  BY DEF ToggleCol
<1>4. hide \in BOOLEAN
  OBVIOUS
<1>5. \A i \in Cols : boxes[i].axis = header[i].axis /\ (boxes[i].checked <=> ~header[i].hide)
  BY DEF CInv, MenuFits
<1>6. \A i \in Cols : header[i].axis = c <=> i = n
  BY <1>2 DEF CInv, HeadersFit
<1> HIDE DEF n, hide, T
<1>7. /\ DOMAIN header' = Cols
      /\ \A i \in Cols : i # n => header'[i] = header[i]
      /\ header'[n] = [header[n] EXCEPT !.hide = hide]
  BY <1>1, <1>2, <1>3
<1>8. header'[n] \in Header /\ header'[n].axis = c /\ (header'[n].hide <=> hide)
  BY <1>1, <1>2, <1>4, <1>7 DEF Header
<1>9. \A i \in Cols : header'[i].axis = header[i].axis
  BY <1>2, <1>7, <1>8
<1>10. HeadersFit(header')
  <2>1. header' \in [Cols -> Header]
    <3>1. \A i \in Cols : header'[i] \in Header
      BY <1>1, <1>7, <1>8
    <3>2. header' = [i \in Cols |-> header'[i]]
      BY <1>1, <1>3, <1>7
    <3> QED
      BY <3>1, <3>2
  <2>2. \A i, j \in Cols : header'[i].axis = header'[j].axis => i = j
    BY <1>9 DEF CInv, HeadersFit
  <2>3. \A d \in Cols : \E i \in Cols : header'[i].axis = d
    BY <1>9 DEF CInv, HeadersFit
  <2> QED
    BY <2>1, <2>2, <2>3 DEF HeadersFit
<1>11. MenuFits(header', boxes')
  <2>1. ASSUME NEW i \in Cols
        PROVE  /\ boxes'[i] \in Box /\ boxes'[i].axis = header'[i].axis
               /\ boxes'[i].checked <=> ~header'[i].hide
    <3>1. CASE i = n
      <4>1. boxes'[n] = [boxes[n] EXCEPT !.checked = ~hide]
        BY <1>1, <1>2, <1>3, <1>5
      <4>2. boxes'[n] \in Box /\ boxes'[n].axis = c /\ (boxes'[n].checked <=> ~hide)
        BY <1>1, <1>2, <1>4, <1>5, <4>1 DEF Box
      <4> QED
        BY <1>8, <3>1, <4>2
    <3>2. CASE i # n
      <4>1. boxes'[i] = boxes[i]
        BY <1>1, <1>3, <1>5, <1>6, <3>2
      <4> QED
        BY <1>1, <1>5, <1>7, <3>2, <4>1
    <3> QED
      BY <3>1, <3>2
  <2>2. boxes' = [i \in Cols |-> boxes'[i]]
    BY <1>1, <1>3
  <2> QED
    BY <2>1, <2>2 DEF MenuFits
<1>12. DOMAIN body' = {"rows", "cells"} /\ (body'.rows # <<>> => CellsFit(header', body'.cells))
  <2>1. CASE body.rows = <<>>
    BY <1>3, <2>1 DEF CInv
  <2>2. CASE body.rows # <<>>
    <3> DEFINE cells == body.cells
               new   == [cells EXCEPT ![n] = [cells[n] EXCEPT !.hidden = hide]]
    <3>1. CellsFit(header, cells)
      BY <2>2 DEF CInv
    <3>2. body' = [body EXCEPT !.cells = new]
      BY <1>3, <2>2
    <3>3. DOMAIN body' = {"rows", "cells"} /\ body'.cells = new
      BY <3>2 DEF CInv
    <3> HIDE DEF cells
    <3>4. cells[n] \in Cell /\ cells[n].axis = c
      BY <1>2, <3>1 DEF CellsFit
    <3>5. /\ new[n] = [cells[n] EXCEPT !.hidden = hide]
          /\ \A i \in Cols : i # n => new[i] = cells[i]
          /\ new = [i \in Cols |-> new[i]]
      BY <1>2, <3>1 DEF CellsFit
    <3> HIDE DEF new
    <3>6. new[n] \in Cell /\ new[n].axis = c /\ (new[n].hidden <=> hide)
      BY <1>4, <3>4, <3>5 DEF Cell
    <3>7. ASSUME NEW i \in Cols
          PROVE  new[i] \in Cell /\ new[i].axis = header'[i].axis /\ (new[i].hidden <=> header'[i].hide)
      <4>1. CASE i = n
        BY <1>8, <3>6, <4>1
      <4>2. CASE i # n
        BY <1>7, <3>1, <3>5, <4>2 DEF CellsFit
      <4> QED
        BY <4>1, <4>2
    <3>8. CellsFit(header', new)
      BY <3>5, <3>7 DEF CellsFit
    <3> QED
      BY <3>3, <3>8
  <2> QED
    BY <2>1, <2>2
<1>13. \E i \in Cols : ~header'[i].hide
  <2>1. CASE ~hide
    BY <1>2, <1>8, <2>1
  <2>2. CASE hide
    <3>1. T \subseteq Cols /\ \A i \in T : ~header[i].hide
      <4>1. T = {i \in Cols : boxes[i].checked}
        BY <1>1 DEF T
      <4> QED
        BY <1>5, <4>1
    <3>2. IsFiniteSet({n}) /\ Cardinality({n}) = 1
      BY FS_Singleton
    <3>3. T \subseteq {n} => Cardinality(T) <= 1
      BY <3>2, FS_Subset
    <3>4. IsFiniteSet(Cols)
      BY <1>0, FS_Interval
    <3>5. Cardinality(T) \in Nat
      BY <3>1, <3>4, FS_Subset, FS_CardinalityType
    <3>6. PICK i \in T : i # n
      BY <1>3, <2>2, <3>3, <3>5
    <3>7. header'[i] = header[i]
      BY <1>7, <3>1, <3>6
    <3> QED
      BY <3>1, <3>6, <3>7
  <2> QED
    BY <2>1, <2>2
<1> QED
  BY <1>10, <1>11, <1>12, <1>13 DEF CInv

\* New rows get a cell for every header, hidden if the column is.
LEMMA RowsAdded ==
  ASSUME CInv, NEW r \in reqs, Answer(r)
  PROVE  CInv'
<1>1. header' = header /\ boxes' = boxes
  BY DEF Answer, columns
<1>2. \/ body' = [rows |-> <<>>, cells |-> <<>>]
      \/ body' = [rows |-> r.answer.rows, cells |-> NewCells]
  BY DEF Answer, AddData
<1>3. CellsFit(header, NewCells)
  BY DEF CInv, HeadersFit, Header, NewCells, CellsFit, Cell
<1>4. DOMAIN body' = {"rows", "cells"} /\ (body'.rows # <<>> => CellsFit(header, body'.cells))
  BY <1>2, <1>3
<1> QED
  BY <1>1, <1>4 DEF CInv

\* Steps that leave the columns alone preserve CInv.
LEMMA ColumnsKept ==
  ASSUME CInv, UNCHANGED <<header, boxes, body>>
  PROVE  CInv'
BY DEF CInv

\* Every step preserves CInv.
LEMMA ColumnsStep == CInv /\ [Next]_vars => CInv'
<1> SUFFICES ASSUME CInv, [Next]_vars
             PROVE  CInv'
  OBVIOUS
<1>1. ASSUME NEW row \in Rows, ChangeRow(row) PROVE CInv'
  BY <1>1, ColumnsKept DEF ChangeRow, columns
<1>2. ASSUME NEW r \in reqs, Serve(r) PROVE CInv'
  BY <1>2, ColumnsKept DEF Serve, columns
<1>3. ASSUME NEW r \in reqs, Answer(r) PROVE CInv'
  BY <1>3, RowsAdded
<1>4. ASSUME NEW r \in reqs, RequestFails(r) PROVE CInv'
  BY <1>4, ColumnsKept DEF RequestFails, columns
<1>5. CASE Reload
  BY <1>5, ColumnsKept DEF Reload, Rest, columns
<1>6. CASE ChangePage
  BY <1>6, ColumnsKept DEF ChangePage, Rest, columns
<1>7. ASSUME NEW c \in SortCols, ChangeSort(c) PROVE CInv'
  BY <1>7, ColumnsKept DEF ChangeSort, Rest, columns
<1>8. ASSUME NEW c \in Cols, ToggleCol(c) PROVE CInv'
  BY <1>8, ColumnToggled
<1>9. ASSUME NEW k \in RpOptions, ChangeRp(k) PROVE CInv'
  BY <1>9, ColumnsKept DEF ChangeRp, Rest, columns
<1>10. ASSUME NEW i \in Cols, NEW j \in Cols, MoveCol(i, j) PROVE CInv'
  BY <1>10, ColumnMoved
<1>11. CASE UNCHANGED vars
  BY <1>11, ColumnsKept DEF vars, columns
<1> QED
  BY <1>1, <1>2, <1>3, <1>4, <1>5, <1>6, <1>7, <1>8, <1>9, <1>10, <1>11 DEF Next

\* Every cell is under its own header and hidden exactly if it is, the column menu
\* agrees with the headers, and one column is shown, whatever columns are moved
\* and hidden while rows come in (toggleCol, dragEnd, addData).
THEOREM CellsStayUnderHeaders == Spec => []CellsUnderHeaders
<1>1. Init => CInv
  BY ColumnsInit
<1>2. CInv /\ [Next]_vars => CInv'
  BY ColumnsStep
<1>3. CInv => CellsUnderHeaders
  BY CInvImplies
<1> QED
  BY <1>1, <1>2, <1>3, PTL DEF Spec

-----------------------------------------------------------------------------
(***************************************************************************)
(* The server's pages: that the rows can be put in order, how many of them *)
(* a page has, and how many pages there are.                               *)
(***************************************************************************)

\* There is a sequence of all the rows in order: each row in the place after
\* the rows that precede it.
LEMMA InOrderIs ==
  ASSUME db \subseteq Rows, NEW s
  PROVE  /\ Cardinality(db) \in 0..NumRows
         /\ InOrder(s) \in [1..Cardinality(db) -> db]
         /\ \A i, j \in 1..Cardinality(db) :
              i < j => Precedes(s, InOrder(s)[i], InOrder(s)[j])
<1> DEFINE N == Cardinality(db)
           Before(x) == {y \in db : Precedes(s, y, x)}
           rank == [x \in db |-> Cardinality(Before(x)) + 1]
<1>1. IsFiniteSet(Rows) /\ Cardinality(Rows) = NumRows
  BY FS_Interval, GridAssumption DEF Rows
<1>2. IsFiniteSet(db) /\ N \in Nat /\ N <= NumRows
  BY <1>1, FS_Subset, FS_CardinalityType
<1>3. \A x \in db : x \in Int
  BY DEF Rows
<1>4. ASSUME NEW x \in db, NEW y \in db
      PROVE  /\ ~Precedes(s, x, x)
             /\ x # y => Precedes(s, x, y) \/ Precedes(s, y, x)
             /\ \A z \in db : Precedes(s, x, y) /\ Precedes(s, y, z) => Precedes(s, x, z)
  BY <1>3 DEF Precedes
<1>5. ASSUME NEW x \in db
      PROVE  IsFiniteSet(Before(x)) /\ Cardinality(Before(x)) \in Nat /\ x \notin Before(x)
  BY <1>2, <1>4, FS_Subset, FS_CardinalityType
<1>6. ASSUME NEW x \in db, NEW T \in SUBSET db, Before(x) \cup {x} \subseteq T
      PROVE  Cardinality(Before(x)) + 1 <= Cardinality(T)
  <2>1. IsFiniteSet(T)
    BY <1>2, FS_Subset
  <2>2. Cardinality(Before(x) \cup {x}) = Cardinality(Before(x)) + 1
    BY <1>5, FS_AddElement
  <2>3. Cardinality(Before(x) \cup {x}) <= Cardinality(T)
    BY <1>6, <2>1, FS_Subset
  <2> QED
    BY <2>2, <2>3
<1>7. \A x \in db : rank[x] \in 1..N
  <2> SUFFICES ASSUME NEW x \in db PROVE rank[x] \in 1..N
    OBVIOUS
  <2>1. Cardinality(Before(x)) + 1 <= N
    BY <1>6
  <2>2. rank[x] = Cardinality(Before(x)) + 1
    OBVIOUS
  <2> HIDE DEF rank, Before
  <2> QED
    BY <1>2, <1>5, <2>1, <2>2
<1>8. ASSUME NEW x \in db, NEW y \in db, Precedes(s, x, y) PROVE rank[x] < rank[y]
  <2>1. Before(x) \cup {x} \subseteq Before(y)
    BY <1>4, <1>8
  <2>2. Cardinality(Before(x)) + 1 <= Cardinality(Before(y))
    BY <1>6, <2>1
  <2>3. rank[x] = Cardinality(Before(x)) + 1 /\ rank[y] = Cardinality(Before(y)) + 1
    OBVIOUS
  <2>4. Cardinality(Before(x)) \in Nat /\ Cardinality(Before(y)) \in Nat
    BY <1>5
  <2> HIDE DEF rank, Before
  <2> QED
    BY <2>2, <2>3, <2>4
<1>9. rank \in [db -> 1..N]
  BY <1>7
<1> HIDE DEF rank, Before
<1>10. rank \in Surjection(db, 1..N)
  <2>1. rank \in Injection(db, 1..N)
    <3>1. ASSUME NEW x \in db, NEW y \in db, rank[x] = rank[y] PROVE x = y
      BY <1>4, <1>7, <1>8, <3>1
    <3> QED
      BY <1>9, <3>1, Fun_IsInj
  <2>2. IsFiniteSet(1..N) /\ Cardinality(1..N) = N
    BY <1>2, FS_Interval
  <2> QED
    BY <2>1, <2>2, FS_Injection
<1>11. \A i \in 1..N : \E x \in db : rank[x] = i
  BY <1>10 DEF Surjection
<1> DEFINE q == [i \in 1..N |-> CHOOSE x \in db : rank[x] = i]
<1>12. \A i \in 1..N : q[i] \in db /\ rank[q[i]] = i
  BY <1>11
<1>13. q \in [1..N -> db]
  BY <1>12
<1> HIDE DEF q
<1>14. ASSUME NEW i \in 1..N, NEW j \in 1..N, i < j PROVE Precedes(s, q[i], q[j])
  <2>1. q[i] \in db /\ q[j] \in db /\ rank[q[i]] = i /\ rank[q[j]] = j
    BY <1>12
  <2>2. q[i] # q[j]
    BY <1>14, <2>1
  <2>3. ~Precedes(s, q[j], q[i])
    BY <1>8, <1>14, <2>1
  <2> QED
    BY <1>4, <2>1, <2>2, <2>3
<1>15. \E all \in [1..N -> db] : \A i, j \in 1..N : i < j => Precedes(s, all[i], all[j])
  BY <1>13, <1>14
<1>16. /\ InOrder(s) \in [1..N -> db]
       /\ \A i, j \in 1..N : i < j => Precedes(s, InOrder(s)[i], InOrder(s)[j])
  BY <1>15 DEF InOrder
<1> QED
  BY <1>2, <1>16, GridAssumption

\* The rows of a page of k rows, of t rows in all.
Cut(n, k, t) == IF (n - 1) * k < t THEN Lesser(n * k, t) - (n - 1) * k ELSE 0

\* A page consists of rows, as many as that, in order.
LEMMA PageOfIs ==
  ASSUME db \subseteq Rows, NEW n \in Nat \ {0}, NEW k \in Nat \ {0}, NEW s
  PROVE  /\ PageOf(n, k, s) \in Seq(Rows)
         /\ Len(PageOf(n, k, s)) = Cut(n, k, Cardinality(db))
         /\ \A i, j \in DOMAIN PageOf(n, k, s) :
              i < j => Precedes(s, PageOf(n, k, s)[i], PageOf(n, k, s)[j])
<1> DEFINE all == InOrder(s)
           t == Cardinality(db)
           low == (n - 1) * k
           high == Lesser(n * k, t)
           rows == SubSeq(all, low + 1, high)
<1>1. /\ t \in Nat /\ all \in [1..t -> db]
      /\ \A i, j \in 1..t : i < j => Precedes(s, all[i], all[j])
  BY InOrderIs, GridAssumption
<1>2. low \in Nat /\ n * k \in Nat /\ n * k = low + k
  OBVIOUS
<1>3. high \in Nat /\ high <= t /\ high <= low + k /\ (low < t <=> low < high)
  <2> HIDE DEF low, t
  <2> QED
    BY <1>1, <1>2 DEF Lesser
<1>4. PageOf(n, k, s) = rows
  BY DEF PageOf
<1>5. Cut(n, k, t) = IF low < high THEN high - low ELSE 0
  BY <1>3 DEF Cut
<1> HIDE DEF low, high, all, t
<1>6. \A i \in low + 1 .. high : i \in 1..t /\ all[i] \in Rows
  BY <1>1, <1>2, <1>3
<1>7. /\ rows \in Seq(Rows)
      /\ Len(rows) = IF low + 1 <= high THEN high - (low + 1) + 1 ELSE 0
      /\ \A i \in 1 .. high - (low + 1) + 1 : rows[i] = all[low + 1 + i - 1]
  <2> HIDE DEF rows
  <2>1. low + 1 \in Int /\ high \in Int
    BY <1>2, <1>3
  <2> QED
    BY <1>6, <2>1, SubSeqProperties DEF rows
<1> HIDE DEF rows
<1>8. Len(rows) = Cut(n, k, t)
  BY <1>2, <1>3, <1>5, <1>7
<1>9. \A i \in DOMAIN rows : low + i \in 1..t /\ i \in Nat /\ rows[i] = all[low + i]
  <2> SUFFICES ASSUME NEW i \in DOMAIN rows
               PROVE  low + i \in 1..t /\ i \in Nat /\ rows[i] = all[low + i]
    OBVIOUS
  <2>1. i \in 1..Len(rows)
    BY <1>7
  <2>2. i \in 1 .. high - (low + 1) + 1 /\ low + 1 + i - 1 = low + i
    BY <1>2, <1>3, <1>7, <2>1
  <2> QED
    BY <1>1, <1>2, <1>3, <1>7, <2>1, <2>2
<1>10. ASSUME NEW i \in DOMAIN rows, NEW j \in DOMAIN rows, i < j
       PROVE  Precedes(s, rows[i], rows[j])
  <2>1. low + i < low + j
    BY <1>2, <1>9, <1>10
  <2> QED
    BY <1>1, <1>9, <2>1
<1> QED
  BY <1>4, <1>7, <1>8, <1>10 DEF t

\* How many pages there are, and that all but the last are full.
LEMMA PagesOf ==
  ASSUME NEW t \in Nat \ {0}, NEW k \in Nat \ {0}
  PROVE  LET q == (t + k - 1) \div k IN
         /\ q \in 1..t
         /\ \A n \in Nat \ {0} : n < q => Cut(n, k, t) = k
<1> DEFINE q == (t + k - 1) \div k
           r == (t + k - 1) % k
<1>1. q \in Int /\ r \in 0..(k - 1) /\ t + k - 1 = k * q + r
  OBVIOUS
<1> HIDE DEF q, r
<1>2. q >= 1
  <2> SUFFICES ASSUME q <= 0 PROVE FALSE
    BY <1>1
  <2>1. k * q <= 0
    BY <1>1
  <2> QED
    BY <1>1, <2>1
<1>3. q <= t
  <2> SUFFICES ASSUME q >= t + 1 PROVE FALSE
    BY <1>1
  <2>1. k * q >= k * (t + 1)
    BY <1>1
  <2>2. k * (t + 1) = k * t + k /\ k * t >= t
    OBVIOUS
  <2> QED
    BY <1>1, <2>1, <2>2
<1>4. ASSUME NEW n \in Nat \ {0}, n < q PROVE Cut(n, k, t) = k
  <2>1. n * k <= (q - 1) * k
    BY <1>1, <1>4
  <2>2. (q - 1) * k = k * q - k /\ (n - 1) * k = n * k - k /\ n * k \in Nat
    BY <1>1
  <2>3. n * k < t
    BY <1>1, <2>1, <2>2
  <2> DEFINE m == n * k
             l == (n - 1) * k
  <2>4. m < t /\ l = m - k /\ m \in Nat
    BY <2>2, <2>3
  <2>5. Cut(n, k, t) = IF l < t THEN Lesser(m, t) - l ELSE 0
    BY DEF Cut
  <2> HIDE DEF m, l
  <2> QED
    BY <2>4, <2>5 DEF Lesser
<1> QED
  BY <1>1, <1>2, <1>3, <1>4 DEF q

-----------------------------------------------------------------------------
(***************************************************************************)
(* The rows shown and what is said about them.  The order does not change  *)
(* while a request is under way, so the answer comes in the order of the   *)
(* headers; the rows per page may, and that is what sameRp is about.       *)
(***************************************************************************)
Sorted(rows, s) ==
  \A i, j \in DOMAIN rows : i < j => Precedes(s, rows[i], rows[j])

AnswerFits(r, a) ==
  /\ a.page = r.page /\ a.total \in 0..NumRows
  /\ a.rows \in Seq(Rows) /\ Sorted(a.rows, r.sort) /\ Len(a.rows) = Cut(r.page, r.rp, a.total)

RequestsFit ==
  \A r \in reqs :
    /\ r.page \in 1..NumRows /\ r.rp \in RpOptions /\ r.sort = sort
    /\ r.answer # None => AnswerFits(r, r.answer)

PagingFits ==
  /\ page \in 1..NumRows /\ pages \in 1..NumRows /\ newp \in 1..NumRows
  /\ rp \in RpOptions /\ sort \in [name : Cols, order : {"asc", "desc"}]
  /\ {loading, sameRp, failed} \subseteq BOOLEAN

RowsFit ==
  /\ db \subseteq Rows /\ changes \in 0..MaxChanges
  /\ body.rows \in Seq(Rows)

PInv == RInv /\ CInv /\ RequestsFit /\ PagingFits /\ RowsFit /\ PagerDescribesBody

\* The types follow from the parts of PInv.
LEMMA PInvImplies == PInv => TypeOK
<1> SUFFICES ASSUME PInv PROVE TypeOK
  OBVIOUS
<1>1. shown \in 0..MaxChanges
  BY GridAssumption DEF PInv, RInv, Counted, RowsFit
<1>2. header \in [Cols -> [axis : Cols, hide : BOOLEAN]]
  BY DEF PInv, CInv, HeadersFit, Header
<1>3. boxes \in [Cols -> [axis : Cols, checked : BOOLEAN]]
  BY DEF PInv, CInv, MenuFits, Box
<1>4. \A r \in reqs : r.page \in 1..NumRows /\ r.rp \in RpOptions
  BY DEF PInv, RequestsFit
<1> QED
  BY <1>1, <1>2, <1>3, <1>4 DEF PInv, PagingFits, RowsFit, TypeOK

\* Initially nothing is loaded or shown.
LEMMA PagesInit == Init => PInv
<1> SUFFICES ASSUME Init PROVE PInv
  OBVIOUS
<1>1. RInv /\ CInv
  BY RequestsInit, ColumnsInit
<1>2. PagingFits
  <2>1. page \in 1..NumRows /\ pages \in 1..NumRows /\ newp \in 1..NumRows /\ rp \in RpOptions
    BY GridAssumption DEF Init
  <2>2. sort \in [name : Cols, order : {"asc", "desc"}]
    BY GridAssumption DEF Init, Cols
  <2>3. {loading, sameRp, failed} \subseteq BOOLEAN
    BY DEF Init
  <2> QED
    BY <2>1, <2>2, <2>3 DEF PagingFits
<1>3. RowsFit
  BY GridAssumption DEF Init, RowsFit, Rows
<1>4. RequestsFit
  <2>1. reqs = {[page |-> 1, rp |-> rp, sort |-> sort, answer |-> None]}
    BY DEF Init
  <2> DEFINE r == [page |-> 1, rp |-> rp, sort |-> sort, answer |-> None]
  <2>2. r.page = 1 /\ r.rp = rp /\ r.sort = sort /\ r.answer = None
    OBVIOUS
  <2>3. 1 \in 1..NumRows
    BY GridAssumption
  <2> HIDE DEF r
  <2> QED
    BY <1>2, <2>1, <2>2, <2>3 DEF RequestsFit, PagingFits, r
<1>5. PagerDescribesBody
  BY DEF Init, PagerDescribesBody
<1> QED
  BY <1>1, <1>2, <1>3, <1>4, <1>5 DEF PInv

\* Another page, order or number of rows is asked for, or nothing happens as
\* a request is under way.
LEMMA Asked ==
  ASSUME PInv, (RInv /\ CInv)', NEW np \in 1..NumRows, Populate(np, rp', sort'),
         UNCHANGED <<db, changes, body, shown, sameRp, failed, pages>>,
         newp' \in 1..NumRows, rp' \in RpOptions,
         sort' \in [name : Cols, order : {"asc", "desc"}], loading => sort' = sort
  PROVE  PInv'
<1>1. page' \in 1..NumRows /\ loading' = TRUE
  BY DEF Populate, Lesser, PInv, PagingFits
<1>2. PagingFits' /\ RowsFit'
  BY <1>1 DEF PInv, PagingFits, RowsFit
<1>3. RequestsFit'
  <2>1. CASE loading
    BY <2>1 DEF Populate, PInv, RequestsFit, AnswerFits
  <2>2. CASE ~loading
    <3>1. reqs = {}
      BY <2>2 DEF PInv, RInv, OneRequest
    <3>2. reqs' = {[page |-> np, rp |-> rp', sort |-> sort', answer |-> None]}
      BY <2>2, <3>1 DEF Populate
    <3> QED
      BY <3>2 DEF RequestsFit
  <2> QED
    BY <2>1, <2>2
<1>4. PagerDescribesBody'
  BY <1>1 DEF PagerDescribesBody
<1> QED
  BY <1>2, <1>3, <1>4 DEF PInv

\* The server's answer fits the request, whatever changes there were before.
LEMMA PageServed ==
  ASSUME PInv, (RInv /\ CInv)', NEW r \in reqs, Serve(r)
  PROVE  PInv'
<1> DEFINE a == [page |-> r.page, total |-> Cardinality(db),
                 rows |-> PageOf(r.page, r.rp, r.sort), seen |-> changes]
           q == [r EXCEPT !.answer = a]
<1>1. reqs = {r} /\ DOMAIN r = Fields
  BY DEF PInv, RInv, OneRequest
<1>2. reqs' = {q} /\ UNCHANGED <<db, changes, columns, paging, loading, pager, failed, body, shown, sameRp>>
  BY <1>1 DEF Serve
<1>3. /\ r.page \in 1..NumRows /\ r.rp \in RpOptions /\ r.sort = sort
      /\ r.page \in Nat \ {0} /\ r.rp \in Nat \ {0} /\ db \subseteq Rows
  <2>1. r.page \in 1..NumRows /\ r.rp \in RpOptions /\ r.sort = sort /\ db \subseteq Rows
    BY DEF PInv, RequestsFit, RowsFit
  <2>2. r.page \in Nat \ {0}
    BY <2>1, GridAssumption
  <2>3. r.rp \in Nat \ {0}
    BY <2>1, GridAssumption
  <2> QED
    BY <2>1, <2>2, <2>3
<1>4. /\ q.page = r.page /\ q.rp = r.rp /\ q.sort = r.sort /\ q.answer = a
  BY <1>1 DEF Fields
<1>5. AnswerFits(q, a)
  <2>1. /\ a.page = r.page /\ a.total = Cardinality(db) /\ a.rows = PageOf(r.page, r.rp, r.sort)
    OBVIOUS
  <2>2. Cardinality(db) \in 0..NumRows
    BY <1>3, InOrderIs
  <2>3. /\ PageOf(r.page, r.rp, r.sort) \in Seq(Rows)
        /\ Len(PageOf(r.page, r.rp, r.sort)) = Cut(r.page, r.rp, Cardinality(db))
        /\ Sorted(PageOf(r.page, r.rp, r.sort), r.sort)
    BY <1>3, PageOfIs DEF Sorted
  <2> HIDE DEF a, q
  <2> QED
    BY <1>4, <2>1, <2>2, <2>3 DEF AnswerFits
<1> HIDE DEF a, q
<1>6. RequestsFit'
  <2>1. sort' = sort
    BY <1>2 DEF paging
  <2>2. q.page \in 1..NumRows /\ q.rp \in RpOptions /\ q.sort = sort' /\ AnswerFits(q, q.answer)
    BY <1>3, <1>4, <1>5, <2>1
  <2> QED
    BY <1>2, <2>2 DEF RequestsFit
<1>7. (PagingFits /\ RowsFit /\ PagerDescribesBody)'
  BY <1>2 DEF PInv, PagingFits, RowsFit, PagerDescribesBody, paging
<1> QED
  BY <1>6, <1>7 DEF PInv

\* An answer is shown.  If the rows per page are those asked for, the pager's
\* numbers are those of the page.
LEMMA PageShown ==
  ASSUME PInv, (RInv /\ CInv)', NEW r \in reqs, Answer(r)
  PROVE  PInv'
<1> DEFINE a == r.answer
<1>1. AnswerFits(r, a) /\ r.page \in 1..NumRows /\ r.rp \in RpOptions /\ r.sort = sort
  BY DEF Answer, PInv, RequestsFit
<1>2. /\ AddData(a) /\ reqs' = {} /\ sameRp' = (r.rp = rp)
      /\ UNCHANGED <<db, changes, columns, newp, rp, sort, failed>>
  BY DEF Answer, PInv, RInv, OneRequest
<1>3. loading' = FALSE
  BY <1>2 DEF AddData
<1> HIDE DEF a
<1>4. RequestsFit'
  BY <1>2 DEF RequestsFit
<1>5. page' \in 1..NumRows /\ pages' \in 1..NumRows /\ body'.rows \in Seq(Rows) /\ PagerDescribesBody'
  <2>1. CASE a.total = 0
    <3>1. /\ body' = [rows |-> <<>>, cells |-> <<>>] /\ pages' = 1 /\ page' = 1
          /\ pager' = [text |-> "no items"]
      BY <1>2, <2>1 DEF AddData
    <3>2. body'.rows = <<>> /\ pager'.text = "no items"
      BY <3>1
    <3>3. <<>> \in Seq(Rows) /\ DOMAIN <<>> = {}
      OBVIOUS
    <3>4. PagerDescribesBody'
      BY <3>2, <3>3 DEF PagerDescribesBody
    <3>5. page' \in 1..NumRows /\ pages' \in 1..NumRows
      <4>1. pages' = 1 /\ page' = 1
        BY <1>2, <2>1 DEF AddData
      <4>2. 1 \in 1..NumRows
        BY GridAssumption
      <4> QED
        BY <4>1, <4>2
    <3>6. body'.rows \in Seq(Rows)
      BY <3>2, <3>3
    <3> QED
      BY <3>4, <3>5, <3>6
  <2>2. CASE a.total # 0
    <3> DEFINE t == a.total
               q == (t + rp - 1) \div rp
    <3>1. t \in Nat \ {0} /\ t <= NumRows
      BY <1>1, <2>2, GridAssumption DEF AnswerFits
    <3>2. rp \in Nat \ {0}
      BY GridAssumption DEF PInv, PagingFits
    <3>3. q \in 1..t /\ \A n \in Nat \ {0} : n < q => Cut(n, rp, t) = rp
      BY <3>1, <3>2, PagesOf
    <3>4. pages' = q /\ page' = a.page /\ pager' = Items(a.page, t) /\ body'.rows = a.rows
      BY <1>2, <2>2 DEF AddData
    <3> HIDE DEF q
    <3>5. page' = r.page /\ page' \in 1..NumRows /\ pages' \in 1..NumRows /\ page' \in Nat \ {0}
      BY <1>1, <3>1, <3>3, <3>4, GridAssumption DEF AnswerFits
    <3>6. body'.rows \in Seq(Rows) /\ Sorted(body'.rows, sort)
      BY <1>1, <3>4 DEF AnswerFits
    <3>7. ASSUME sameRp' PROVE Len(body'.rows) = Cut(page', rp, t)
      BY <1>1, <1>2, <3>4, <3>5, <3>7 DEF AnswerFits
    <3>8. /\ pager'.text = "items" /\ pager'.total = t
          /\ pager'.from = (page' - 1) * rp + 1
          /\ pager'.to = Lesser(pager'.from + rp - 1, t)
      BY <3>4 DEF Items
    <3>9. Cut(page', rp, t) = IF pager'.to >= pager'.from THEN pager'.to - pager'.from + 1 ELSE 0
      <4> DEFINE low == (page' - 1) * rp
                 high == page' * rp
      <4>1. low \in Nat /\ high = low + rp
        BY <3>2, <3>5
      <4>2. Cut(page', rp, t) = IF low < t THEN Lesser(high, t) - low ELSE 0
        BY DEF Cut
      <4>3. pager'.from = low + 1 /\ pager'.to = Lesser(pager'.from + rp - 1, t)
        BY <3>8
      <4> HIDE DEF low, high
      <4> QED
        BY <3>1, <3>2, <4>1, <4>2, <4>3 DEF Lesser
    <3>10. PagerDescribesBody'
      <4> SUFFICES ASSUME sameRp'
                   PROVE  /\ Sorted(body'.rows, sort')
                          /\ Len(body'.rows) = (IF pager'.to >= pager'.from
                                                THEN pager'.to - pager'.from + 1 ELSE 0)
                          /\ pager'.from = (page' - 1) * rp' + 1
                          /\ page' < pages' => Len(body'.rows) = rp'
        BY <3>8 DEF PagerDescribesBody, Sorted
      <4>1. page' < pages' => Cut(page', rp, t) = rp
        BY <3>3, <3>4, <3>5
      <4> QED
        BY <1>2, <3>6, <3>7, <3>8, <3>9, <4>1
    <3> QED
      BY <3>5, <3>6, <3>10
  <2> QED
    BY <2>1, <2>2
<1>6. PagingFits' /\ RowsFit'
  <2>1. (r.rp = rp) \in BOOLEAN
    OBVIOUS
  <2>2. {loading', sameRp', failed'} \subseteq BOOLEAN
    BY <1>2, <1>3, <2>1 DEF PInv, PagingFits
  <2> QED
    BY <1>2, <1>5, <2>2 DEF PInv, PagingFits, RowsFit
<1> QED
  BY <1>4, <1>5, <1>6 DEF PInv

\* A step that leaves the pages alone; cells may be moved or hidden.
LEMMA PagesKept ==
  ASSUME PInv, (RInv /\ CInv)', UNCHANGED <<paging, loading, pager, shown, sameRp>>,
         reqs' \subseteq reqs, body'.rows = body.rows, failed' \in BOOLEAN,
         db' \subseteq Rows, changes' \in 0..MaxChanges
  PROVE  PInv'
<1>1. RequestsFit'
  <2>1. sort' = sort
    BY DEF paging
  <2> QED
    BY <2>1 DEF PInv, RequestsFit, AnswerFits, Sorted
<1>2. PagingFits'
  BY DEF PInv, PagingFits, paging
<1>3. RowsFit'
  BY DEF PInv, RowsFit
<1>4. PagerDescribesBody'
  BY DEF PInv, PagerDescribesBody, paging
<1> QED
  BY <1>1, <1>2, <1>3, <1>4 DEF PInv

\* Every step preserves PInv.
LEMMA PagesStep == PInv /\ [Next]_vars => PInv'
<1> SUFFICES ASSUME PInv, [Next]_vars PROVE PInv'
  OBVIOUS
<1>0. (RInv /\ CInv)'
  BY RequestsStep, ColumnsStep DEF PInv
<1>a. /\ db \subseteq Rows /\ changes \in 0..MaxChanges /\ failed \in BOOLEAN /\ TRUE \in BOOLEAN
      /\ page \in 1..NumRows /\ pages \in 1..NumRows /\ newp \in 1..NumRows
      /\ rp \in RpOptions /\ sort \in [name : Cols, order : {"asc", "desc"}]
  BY DEF PInv, PagingFits, RowsFit
<1>1. ASSUME NEW row \in Rows, ChangeRow(row) PROVE PInv'
  <2>1. /\ UNCHANGED <<paging, loading, pager, shown, sameRp, reqs, body, failed>>
        /\ db' \subseteq Rows
    BY <1>a, <1>1 DEF ChangeRow, request
  <2>2. changes' \in 0..MaxChanges
    BY <1>a, <1>1, GridAssumption DEF ChangeRow
  <2> QED
    BY <1>0, <1>a, <2>1, <2>2, PagesKept
<1>2. ASSUME NEW r \in reqs, Serve(r) \/ Answer(r) PROVE PInv'
  BY <1>0, <1>2, PageServed, PageShown
<1>3. ASSUME NEW r \in reqs, RequestFails(r) PROVE PInv'
  <2>1. /\ UNCHANGED <<db, changes, paging, loading, pager, shown, sameRp, body>>
        /\ reqs' \subseteq reqs /\ failed' = TRUE
    BY <1>3 DEF RequestFails
  <2> QED
    BY <1>0, <1>a, <2>1, PagesKept
<1>4. CASE Reload
  <2>1. /\ Populate(newp, rp', sort')
        /\ UNCHANGED <<db, changes, body, shown, sameRp, failed, pages, newp, rp, sort>>
    BY <1>4 DEF Reload, Rest
  <2> QED
    BY <1>0, <1>a, <2>1, Asked
<1>5. CASE ChangePage
  <2>1. /\ UNCHANGED <<db, changes, columns, body, shown, sameRp, failed, pages, rp, sort>>
        /\ newp' \in PageButtons
    BY <1>5 DEF ChangePage, Rest
  <2>2. newp' \in 1..NumRows
    BY <1>a, <2>1, GridAssumption DEF PageButtons
  <2>3. CASE newp' = page
    <3>1. UNCHANGED <<loading, pager, page, reqs>>
      BY <1>5, <2>3 DEF ChangePage
    <3>2. RequestsFit' /\ RowsFit' /\ PagerDescribesBody'
      BY <2>1, <3>1 DEF PInv, RequestsFit, AnswerFits, RowsFit, PagerDescribesBody
    <3>3. PagingFits'
      BY <2>1, <2>2, <3>1 DEF PInv, PagingFits
    <3> QED
      BY <1>0, <3>2, <3>3 DEF PInv
  <2>4. CASE newp' # page
    <3>1. Populate(newp', rp', sort')
      BY <1>5, <2>1, <2>4 DEF ChangePage
    <3> QED
      BY <1>0, <1>a, <2>1, <2>2, <3>1, Asked
  <2> QED
    BY <2>3, <2>4
<1>6. ASSUME NEW c \in SortCols, ChangeSort(c) PROVE PInv'
  <2>1. /\ Populate(newp, rp', sort') /\ ~loading
        /\ UNCHANGED <<db, changes, body, shown, sameRp, failed, pages, newp, rp>>
        /\ sort' = NewSort(c)
    BY <1>6 DEF ChangeSort, Rest
  <2>2. NewSort(c) \in [name : Cols, order : {"asc", "desc"}]
    BY <1>a, GridAssumption DEF NewSort, Flip, Cols
  <2> QED
    BY <1>0, <1>a, <2>1, <2>2, Asked
<1>7. ASSUME NEW c \in Cols, ToggleCol(c) PROVE PInv'
  <2>1. UNCHANGED <<db, changes, paging, request, shown, sameRp>>
    BY <1>7 DEF ToggleCol
  <2>2. body'.rows = body.rows
    <3> DEFINE n == CHOOSE i \in DOMAIN header : header[i].axis = c
               hide == ~header[n].hide
    <3>1. body' = IF body.rows = <<>> THEN body ELSE [body EXCEPT !.cells[n].hidden = hide]
      BY <1>7 DEF ToggleCol
    <3> HIDE DEF n, hide
    <3> QED
      BY <3>1 DEF PInv, CInv
  <2> QED
    BY <1>0, <1>a, <2>1, <2>2, PagesKept DEF request
<1>8. ASSUME NEW k \in RpOptions, ChangeRp(k) PROVE PInv'
  <2>1. /\ Populate(1, rp', sort') /\ rp' = k /\ newp' = 1
        /\ UNCHANGED <<db, changes, body, shown, sameRp, failed, pages, sort>>
    BY <1>8 DEF ChangeRp, Rest
  <2>2. 1 \in 1..NumRows
    BY GridAssumption
  <2> QED
    BY <1>0, <1>a, <2>1, <2>2, Asked
<1>9. ASSUME NEW i \in Cols, NEW j \in Cols, MoveCol(i, j) PROVE PInv'
  <2>1. UNCHANGED <<db, changes, paging, request, shown, sameRp>>
    BY <1>9 DEF MoveCol
  <2>2. body'.rows = body.rows
    BY <1>9 DEF MoveCol, PInv, CInv
  <2> QED
    BY <1>0, <1>a, <2>1, <2>2, PagesKept DEF request
<1>10. CASE UNCHANGED vars
  BY <1>0, <1>a, <1>10, PagesKept DEF vars, request
<1> QED
  BY <1>1, <1>2, <1>3, <1>4, <1>5, <1>6, <1>7, <1>8, <1>9, <1>10 DEF Next

\* The grid's variables have their types; in particular no page below the
\* first or above the number of rows is ever asked for or shown.
THEOREM GridTypeCorrect == Spec => []TypeOK
<1> QED
  BY PagesInit, PagesStep, PInvImplies, PTL DEF Spec

\* At rest the rows are those the pager tells of, in the order the headers
\* show, whatever was sorted, turned, added or removed before and whenever the
\* answer came, unless the rows per page were changed under it.
THEOREM PagerTellsTheRows == Spec => []PagerDescribesBody
<1>1. PInv => PagerDescribesBody
  BY DEF PInv
<1> QED
  BY <1>1, PagesInit, PagesStep, PTL DEF Spec
=============================================================================
