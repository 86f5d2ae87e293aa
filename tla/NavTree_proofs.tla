-------------------------- MODULE NavTree_proofs ---------------------------
(***************************************************************************)
(* The navigation tree is a tree after any answers in any order, for any   *)
(* number of pools and of requests under way: every node hangs under a     *)
(* node, and the pool the user is looking at is among them.                *)
(***************************************************************************)
EXTENDS NavTree, FiniteSetTheorems, WellFoundedInduction, TLAPS

(***************************************************************************)
(* The pools the server answers with.                                      *)
(***************************************************************************)
\* A pool's ancestors form a chain, and those above one of them are above it.
Nested(list) ==
  \A p \in DOMAIN list :
    /\ p \notin list[p].above
    /\ \A q \in DOMAIN list \cap list[p].above :
         /\ list[q].above \subseteq list[p].above
         /\ \A r \in DOMAIN list \cap list[p].above :
              q = r \/ q \in list[r].above \/ r \in list[q].above

Forest(list) ==
  /\ DOMAIN list \subseteq AllPools
  /\ \A p \in DOMAIN list : list[p].above \subseteq AllPools
  /\ Nested(list)

Above(list, p) == list[p].above \cap DOMAIN list
Depth(list, p) == Cardinality(Above(list, p))

\* Sets of pools have a size.
LEMMA PoolsFinite ==
  ASSUME NEW S \in SUBSET AllPools
  PROVE  IsFiniteSet(S) /\ Cardinality(S) \in Nat
<1>1. IsFiniteSet(Pools \cup {Root}) /\ IsFiniteSet((Pools \cup {Root}) \cup {Smart})
  BY NavTreeAssumption, FS_AddElement
<1>2. AllPools = (Pools \cup {Root}) \cup {Smart}
  BY DEF AllPools
<1>3. IsFiniteSet(S)
  BY <1>1, <1>2, FS_Subset
<1> QED
  BY <1>3, FS_CardinalityType

\* The depth of a pool is a number.
LEMMA DepthIs ==
  ASSUME NEW list, Forest(list), NEW p \in DOMAIN list
  PROVE  IsFiniteSet(Above(list, p)) /\ Depth(list, p) \in Nat
<1>1. Above(list, p) \in SUBSET AllPools
  BY DEF Above, Forest
<1> QED
  BY <1>1, PoolsFinite DEF Depth

\* What is above a pool has less above it.
LEMMA Higher ==
  ASSUME NEW list, Forest(list), NEW p \in DOMAIN list, NEW q \in Above(list, p)
  PROVE  /\ q \in DOMAIN list /\ q # p
         /\ Above(list, q) \subseteq Above(list, p)
         /\ Depth(list, q) < Depth(list, p)
<1>1. q \in DOMAIN list \cap list[p].above
  BY DEF Above
<1>2. list[q].above \subseteq list[p].above /\ q \notin list[q].above /\ p \notin list[p].above
  BY <1>1 DEF Forest, Nested
<1>3. Above(list, q) \in SUBSET Above(list, p) /\ q \notin Above(list, q)
  BY <1>2 DEF Above
<1>4. /\ Depth(list, q) <= Depth(list, p)
      /\ Depth(list, q) = Depth(list, p) => Above(list, q) = Above(list, p)
  BY <1>3, DepthIs, FS_Subset DEF Depth
<1>5. Depth(list, q) # Depth(list, p)
  BY <1>3, <1>4
<1>6. Depth(list, q) \in Nat /\ Depth(list, p) \in Nat
  BY <1>1, DepthIs
<1> QED
  BY <1>1, <1>2, <1>3, <1>4, <1>5, <1>6

\* Two pools above a third one are not at the same depth.
LEMMA OneAtADepth ==
  ASSUME NEW list, Forest(list), NEW p \in DOMAIN list,
         NEW q \in Above(list, p), NEW r \in Above(list, p), Depth(list, q) = Depth(list, r)
  PROVE  q = r
<1>1. q \in DOMAIN list \cap list[p].above /\ r \in DOMAIN list \cap list[p].above
  BY DEF Above
<1>2. q = r \/ q \in Above(list, r) \/ r \in Above(list, q)
  BY <1>1 DEF Forest, Nested, Above
<1>3. Depth(list, q) \in Nat /\ Depth(list, r) \in Nat
  BY <1>1, DepthIs
<1>4. q \notin Above(list, r)
  BY <1>1, <1>3, Higher
<1>5. r \notin Above(list, q)
  BY <1>1, <1>3, Higher
<1> QED
  BY <1>2, <1>4, <1>5

\* There is one at every depth less than its own.
LEMMA AtEveryDepth ==
  ASSUME NEW list, Forest(list), NEW p \in DOMAIN list, NEW i \in Nat, i < Depth(list, p)
  PROVE  \E q \in Above(list, p) : Depth(list, q) = i
<1> DEFINE S == Above(list, p)
           n == Depth(list, p)
           T == (0..(n - 1)) \ {i}
           f == [q \in S |-> Depth(list, q)]
<1>1. n \in Nat /\ IsFiniteSet(S) /\ n = Cardinality(S)
  BY DepthIs DEF Depth
<1>2. i \in 0..(n - 1) /\ 0 \in Int /\ n - 1 \in Int /\ ~(0 > n - 1) /\ (n - 1) - 0 + 1 = n
  BY <1>1
<1>3. IsFiniteSet(0..(n - 1)) /\ Cardinality(0..(n - 1)) = n
  BY <1>2, FS_Interval
<1>4. IsFiniteSet(T) /\ Cardinality(T) = n - 1
  BY <1>2, <1>3, FS_RemoveElement
<1>5. Cardinality(T) < Cardinality(S)
  BY <1>1, <1>4
<1> SUFFICES ASSUME ~ \E q \in S : Depth(list, q) = i PROVE FALSE
  OBVIOUS
<1>6. ASSUME NEW q \in S PROVE Depth(list, q) \in T
  <2>1. Depth(list, q) < n /\ q \in DOMAIN list
    BY Higher
  <2>2. Depth(list, q) \in Nat
    BY <2>1, DepthIs
  <2> QED
    BY <1>1, <2>1, <2>2
<1>7. f \in [S -> T]
  BY <1>6
<1> HIDE DEF T, f
<1>8. \E x, y \in S : x # y /\ f[x] = f[y]
  BY <1>1, <1>4, <1>5, <1>7, FS_PigeonHole
<1>9. \A x \in S : f[x] = Depth(list, x)
  BY DEF f
<1> QED
  BY <1>8, <1>9, OneAtADepth

-----------------------------------------------------------------------------
(***************************************************************************)
(* The nodes.  Node: what a node is made of.  A path leads to a node from  *)
(* the top, and each of its steps is a node of the tree.                   *)
(***************************************************************************)
Keys == AllPools \X (1..MaxRequests)
Node == [pool : AllPools, copy : 1..MaxRequests, label : Names, item : Names, path : Seq(Keys)]

Tree(d) ==
  /\ \A n \in d, m \in d : Key(n) = Key(m) => n = m
  /\ \A n \in d : \A i \in DOMAIN n.path :
       \E m \in d : Key(m) = n.path[i] /\ m.path = SubSeq(n.path, 1, i - 1)

\* A set of naturals has a least element.
LEMMA LeastNumber ==
  ASSUME NEW S \in SUBSET Nat, S # {}
  PROVE  \E x \in S : \A y \in S : x <= y
<1>1. PICK x \in S : \A y \in S : ~(<<y, x>> \in OpToRel(<, Nat))
  BY WFMin, NatLessThanWellFounded
<1>2. ASSUME NEW y \in S PROVE x <= y
  <2>1. x \in Nat /\ y \in Nat /\ <<y, x>> \in Nat \X Nat
    OBVIOUS
  <2>2. ~(<<y, x>>[1] < <<y, x>>[2])
    BY <1>1, <2>1 DEF OpToRel
  <2> QED BY <2>1, <2>2
<1> QED BY <1>2

\* The selector '#id' finds a node of the pool.
LEMMA FirstIs ==
  ASSUME NEW d \in SUBSET Node, NEW p \in Shown(d)
  PROVE  First(d, p) \in d /\ First(d, p).pool = p
<1> DEFINE S == {n.copy : n \in Copies(d, p)}
<1>1. S \in SUBSET Nat /\ S # {}
  BY DEF Shown, Copies, Node
<1>2. \E x \in S : \A y \in S : x <= y
  BY <1>1, LeastNumber
<1>3. \E n \in Copies(d, p) : \A m \in Copies(d, p) : n.copy <= m.copy
  BY <1>2
<1>4. First(d, p) \in Copies(d, p)
  BY <1>3 DEF First
<1> QED
  BY <1>4 DEF Copies

\* The last copy of a pool is a node of it, and no other has a higher number.
LEMMA LastIs ==
  ASSUME NEW d \in SUBSET Node, NEW p \in Shown(d)
  PROVE  /\ Last(d, p) \in d /\ Last(d, p).pool = p
         /\ \A n \in d : n.pool = p => n.copy <= Last(d, p).copy
<1> DEFINE S == {MaxRequests - n.copy : n \in Copies(d, p)}
<1>1. MaxRequests \in Nat /\ \A n \in Copies(d, p) : n.copy \in 1..MaxRequests
  BY NavTreeAssumption DEF Copies, Node
<1>2. S \in SUBSET Nat /\ S # {}
  BY <1>1 DEF Shown, Copies
<1>3. \E x \in S : \A y \in S : x <= y
  BY <1>2, LeastNumber
<1>4. \E n \in Copies(d, p) : \A m \in Copies(d, p) : MaxRequests - n.copy <= MaxRequests - m.copy
  BY <1>3
<1>5. \E n \in Copies(d, p) : \A m \in Copies(d, p) : n.copy >= m.copy
  BY <1>1, <1>4
<1>6. Last(d, p) \in Copies(d, p) /\ \A m \in Copies(d, p) : Last(d, p).copy >= m.copy
  BY <1>5 DEF Last
<1>7. \A n \in d : n.pool = p => n \in Copies(d, p)
  BY DEF Copies
<1> QED
  BY <1>1, <1>6, <1>7 DEF Copies

\* No node is on its own way from the top.
LEMMA NotUnderItself ==
  ASSUME NEW d \in SUBSET Node, Tree(d), NEW n \in d, NEW m \in d, m.path = n.path
  PROVE  \A i \in DOMAIN m.path : m.path[i] # Key(n)
<1> SUFFICES ASSUME NEW i \in DOMAIN m.path, m.path[i] = Key(n) PROVE FALSE
  OBVIOUS
<1>1. PICK k \in d : Key(k) = m.path[i] /\ k.path = SubSeq(m.path, 1, i - 1)
  BY DEF Tree
<1>2. k = n
  BY <1>1 DEF Tree
<1>3. m.path \in Seq(Keys) /\ i \in 1..Len(m.path) /\ Len(m.path) \in Nat
  BY DEF Node
<1>4. Len(SubSeq(m.path, 1, i - 1)) = i - 1
  BY <1>3
<1> QED
  BY <1>1, <1>2, <1>3, <1>4

\* The steps of a path have paths that are parts of it.
LEMMA PartOfPath ==
  ASSUME NEW s \in Seq(Keys), NEW i \in DOMAIN s
  PROVE  /\ DOMAIN SubSeq(s, 1, i - 1) \subseteq DOMAIN s
         /\ \A j \in DOMAIN SubSeq(s, 1, i - 1) : SubSeq(s, 1, i - 1)[j] = s[j]
<1>1. Len(s) \in Nat /\ i \in 1..Len(s) /\ DOMAIN s = 1..Len(s)
  OBVIOUS
<1>2. SubSeq(s, 1, i - 1) = [j \in 1..(i - 1) |-> s[j]]
  BY <1>1
<1> QED
  BY <1>1, <1>2

-----------------------------------------------------------------------------
(***************************************************************************)
(* Removals.  Good: a state of the loop over response.deleted.             *)
(***************************************************************************)
Good(s) == s.dom \in SUBSET Node /\ Tree(s.dom) /\ s.next \subseteq Shown(s.dom) \cup {None}

\* What is left when a node is removed is a tree.
LEMMA RemoveFits ==
  ASSUME NEW d \in SUBSET Node, Tree(d), NEW n \in d
  PROVE  Remove(d, n) \subseteq d /\ Tree(Remove(d, n))
<1> DEFINE e == Remove(d, n)
<1>1. \A m \in d : m \in e <=> (m # n /\ \A i \in DOMAIN m.path : m.path[i] # Key(n))
  BY DEF Remove
<1>2. e \subseteq d
  BY DEF Remove
<1> HIDE DEF e
<1>3. ASSUME NEW m \in e, NEW i \in DOMAIN m.path
      PROVE  \E k \in e : Key(k) = m.path[i] /\ k.path = SubSeq(m.path, 1, i - 1)
  <2>1. m \in d /\ m.path \in Seq(Keys)
    BY <1>2 DEF Node
  <2>2. PICK k \in d : Key(k) = m.path[i] /\ k.path = SubSeq(m.path, 1, i - 1)
    BY <2>1 DEF Tree
  <2>3. k # n
    BY <1>1, <2>1, <2>2
  <2>4. \A j \in DOMAIN k.path : j \in DOMAIN m.path /\ k.path[j] = m.path[j]
    BY <2>1, <2>2, PartOfPath
  <2>5. k \in e
    BY <1>1, <2>1, <2>3, <2>4
  <2> QED
    BY <2>2, <2>5
<1>4. Tree(e)
  BY <1>2, <1>3 DEF Tree
<1> QED
  BY <1>2, <1>4 DEF e

\* What a removal hands the selection to is still there.
LEMMA HeirStays ==
  ASSUME NEW d \in SUBSET Node, Tree(d), NEW n \in d
  PROVE  /\ Under(n) \in Shown(Remove(d, n)) \cup {None}
         /\ \A m \in d : m # n /\ m.path = n.path => m \in Remove(d, n)
<1>1. ASSUME NEW m \in d, m # n, m.path = n.path PROVE m \in Remove(d, n)
  BY <1>1, NotUnderItself DEF Remove
<1>2. Under(n) \in Shown(Remove(d, n)) \cup {None}
  <2>1. CASE n.path = <<>>
    BY <2>1 DEF Under
  <2>2. CASE n.path # <<>>
    <3> DEFINE i == Len(n.path)
    <3>1. n.path \in Seq(Keys) /\ i \in DOMAIN n.path
      BY <2>2 DEF Node
    <3>2. PICK k \in d : Key(k) = n.path[i] /\ k.path = SubSeq(n.path, 1, i - 1)
      BY <3>1 DEF Tree
    <3>3. \A j \in DOMAIN n.path : n.path[j] # Key(n)
      BY NotUnderItself
    <3>4. \A j \in DOMAIN k.path : k.path[j] # Key(n)
      BY <3>1, <3>2, <3>3, PartOfPath
    <3>5. k \in Remove(d, n)
      BY <3>1, <3>2, <3>3, <3>4 DEF Remove
    <3>6. Under(n) = k.pool
      BY <2>2, <3>2 DEF Under, Key
    <3> QED
      BY <3>5, <3>6 DEF Shown
  <2> QED
    BY <2>1, <2>2
<1> QED
  BY <1>1, <1>2

\* One removal leaves a tree and hands the selection to one of its nodes.
LEMMA DeleteOneGood ==
  ASSUME NEW s, Good(s), NEW p
  PROVE  Good(DeleteOne(s, p)) /\ DeleteOne(s, p).dom \subseteq s.dom
<1>1. CASE p \notin Shown(s.dom)
  BY <1>1 DEF DeleteOne
<1>2. CASE p \in Shown(s.dom)
  <2> DEFINE n == First(s.dom, p)
             siblings == {m \in s.dom \ {n} : m.path = n.path}
             next == IF siblings = {} THEN {Under(n)} ELSE Shown(siblings)
             e == Remove(s.dom, n)
  <2>1. s.dom \in SUBSET Node /\ Tree(s.dom)
    BY DEF Good
  <2>2. n \in s.dom
    BY <1>2, <2>1, FirstIs
  <2>3. DeleteOne(s, p) = [dom |-> e, next |-> next]
    BY <1>2 DEF DeleteOne
  <2> HIDE DEF n
  <2>4. e \subseteq s.dom /\ Tree(e)
    BY <2>1, <2>2, RemoveFits
  <2>5. siblings \subseteq e /\ Under(n) \in Shown(e) \cup {None}
    BY <2>1, <2>2, HeirStays
  <2> HIDE DEF siblings, e
  <2>6. next \subseteq Shown(e) \cup {None}
    BY <2>5 DEF Shown
  <2> QED
    BY <2>1, <2>3, <2>4, <2>6 DEF Good
<1> QED
  BY <1>1, <1>2

\* The loop over response.deleted, up to its i-th entry.
DeleteTrace(f, s, order, n) ==
  f = [i \in 0..n |-> IF i = 0 THEN s ELSE DeleteOne(f[i - 1], order[i])]

\* The loop over any number of entries has a trace.
LEMMA DeleteTraces ==
  ASSUME NEW s, NEW order, NEW n \in Nat
  PROVE  \E f : DeleteTrace(f, s, order, n)
<1> DEFINE D == {k \in 0..n : ~ \E f : DeleteTrace(f, s, order, k)}
<1> SUFFICES ASSUME D # {} PROVE FALSE
  BY n \in 0..n
<1>1. D \in SUBSET Nat
  OBVIOUS
<1> HIDE DEF D
<1>2. PICK k \in D : \A j \in D : k <= j
  BY <1>1, LeastNumber
<1>3. k \in 0..n /\ ~ \E f : DeleteTrace(f, s, order, k)
  BY DEF D
<1>4. CASE k = 0
  <2> DEFINE f == [i \in 0..0 |-> s]
  <2>1. \A i \in 0..0 : i = 0
    OBVIOUS
  <2>2. DeleteTrace(f, s, order, 0)
    BY <2>1 DEF DeleteTrace
  <2> QED
    BY <1>3, <1>4, <2>2
<1>5. CASE k # 0
  <2>1. k - 1 \in 0..n /\ ~(k <= k - 1)
    BY <1>3, <1>5
  <2>2. k - 1 \notin D
    BY <1>2, <2>1
  <2>3. PICK f : DeleteTrace(f, s, order, k - 1)
    BY <2>1, <2>2 DEF D
  <2> DEFINE g == [i \in 0..k |-> IF i = k THEN DeleteOne(f[k - 1], order[k]) ELSE f[i]]
  <2>4. \A i \in 0..(k - 1) : f[i] = IF i = 0 THEN s ELSE DeleteOne(f[i - 1], order[i])
    BY <2>3 DEF DeleteTrace
  <2>5. ASSUME NEW i \in 0..k
        PROVE  g[i] = IF i = 0 THEN s ELSE DeleteOne(g[i - 1], order[i])
    <3>1. CASE i = k
      <4>1. k - 1 \in 0..k /\ k - 1 # k
        BY <1>3, <1>5
      <4> QED
        BY <1>5, <3>1, <4>1
    <3>2. CASE i = 0
      <4>1. 0 \in 0..(k - 1)
        BY <1>3, <1>5
      <4> QED
        BY <1>5, <2>4, <3>2, <4>1
    <3>3. CASE i # k /\ i # 0
      <4>1. i \in 0..(k - 1) /\ i - 1 \in 0..k /\ i - 1 # k
        BY <1>3, <3>3
      <4>2. g[i] = f[i] /\ g[i - 1] = f[i - 1]
        BY <3>3, <4>1
      <4> QED
        BY <2>4, <3>3, <4>1, <4>2
    <3> QED
      BY <3>1, <3>2, <3>3
  <2>6. g = [i \in 0..k |-> g[i]]
    OBVIOUS
  <2> HIDE DEF g
  <2>7. DeleteTrace(g, s, order, k)
    BY <2>5, <2>6 DEF DeleteTrace
  <2> QED
    BY <1>3, <2>7
<1> QED
  BY <1>4, <1>5

\* The states the loop goes through.
LEMMA DeleteAllIs ==
  ASSUME NEW s, NEW order, Cardinality(DOMAIN order) \in Nat
  PROVE  LET n == Cardinality(DOMAIN order)
         IN \E f : /\ f[0] = s /\ f[n] = DeleteAll(s, order)
                   /\ \A i \in 1..n : f[i] = DeleteOne(f[i - 1], order[i])
<1> DEFINE n == Cardinality(DOMAIN order)
           after == CHOOSE f : DeleteTrace(f, s, order, n)
<1>1. DeleteAll(s, order) = after[n]
  BY DEF DeleteAll, DeleteTrace
<1>2. DeleteTrace(after, s, order, n)
  BY DeleteTraces
<1> HIDE DEF after
<1>3. \A i \in 0..n : after[i] = IF i = 0 THEN s ELSE DeleteOne(after[i - 1], order[i])
  BY <1>2 DEF DeleteTrace
<1>4. 0 \in 0..n /\ \A i \in 1..n : i \in 0..n /\ i # 0
  OBVIOUS
<1> QED
  BY <1>1, <1>3, <1>4

\* All removals leave a tree and a selection in it.
LEMMA DeleteAllGood ==
  ASSUME NEW s, Good(s), NEW order, Cardinality(DOMAIN order) \in Nat
  PROVE  Good(DeleteAll(s, order)) /\ DeleteAll(s, order).dom \subseteq s.dom
<1> DEFINE n == Cardinality(DOMAIN order)
<1>1. PICK f : /\ f[0] = s /\ f[n] = DeleteAll(s, order)
               /\ \A i \in 1..n : f[i] = DeleteOne(f[i - 1], order[i])
  BY DeleteAllIs
<1> DEFINE D == {k \in 0..n : ~(Good(f[k]) /\ f[k].dom \subseteq s.dom)}
<1>2. D = {}
  <2> SUFFICES ASSUME D # {} PROVE FALSE
    OBVIOUS
  <2>1. D \in SUBSET Nat
    OBVIOUS
  <2> HIDE DEF D
  <2>2. PICK k \in D : \A j \in D : k <= j
    BY <2>1, LeastNumber
  <2>3. k \in 0..n /\ ~(Good(f[k]) /\ f[k].dom \subseteq s.dom)
    BY DEF D
  <2>4. k # 0
    BY <1>1, <2>3
  <2>5. k - 1 \in 0..n /\ ~(k <= k - 1) /\ k \in 1..n
    BY <2>3, <2>4
  <2>6. Good(f[k - 1]) /\ f[k - 1].dom \subseteq s.dom
    BY <2>2, <2>5 DEF D
  <2> QED
    BY <1>1, <2>3, <2>5, <2>6, DeleteOneGood
<1>3. n \in 0..n
  OBVIOUS
<1> QED
  BY <1>1, <1>2, <1>3

\* What is gone from d was to be deleted, or its parent is gone too.
Single(d) == \A n \in d, m \in d : n.pool = m.pool => n = m

Pruned(d, e, S) ==
  /\ e \subseteq d
  /\ \A n \in d \ e : n.pool \in S \/ Under(n) \in Shown(d) \ Shown(e)

\* Where no pool is shown twice, a removal takes the pool away, and with it only
\* what hangs under it.
LEMMA DeleteOnePrunes ==
  ASSUME NEW d, Single(d), NEW S, NEW s, Good(s), Pruned(d, s.dom, S), NEW p \in S
  PROVE  Pruned(d, DeleteOne(s, p).dom, S) /\ p \notin Shown(DeleteOne(s, p).dom)
<1>1. CASE p \notin Shown(s.dom)
  BY <1>1 DEF DeleteOne
<1>2. CASE p \in Shown(s.dom)
  <2> DEFINE a == First(s.dom, p)
             e == Remove(s.dom, a)
  <2>1. s.dom \in SUBSET Node /\ Tree(s.dom) /\ s.dom \subseteq d
    BY DEF Good, Pruned
  <2>2. a \in s.dom /\ a.pool = p
    BY <1>2, <2>1, FirstIs
  <2>3. DeleteOne(s, p).dom = e
    BY <1>2 DEF DeleteOne
  <2> HIDE DEF a
  <2>4. e \subseteq s.dom /\ a \notin e
    BY DEF Remove
  <2>5. ASSUME NEW n \in s.dom PROVE n \in e <=> (n # a /\ \A i \in DOMAIN n.path : n.path[i] # Key(a))
    BY DEF Remove
  <2> HIDE DEF e
  <2>6. ASSUME NEW n \in d \ e PROVE n.pool \in S \/ Under(n) \in Shown(d) \ Shown(e)
    <3>1. CASE n \notin s.dom
      BY <2>4, <3>1 DEF Pruned, Shown
    <3>2. CASE n = a
      BY <2>2, <3>2
    <3>3. CASE n \in s.dom /\ n # a
      <4> DEFINE z == Len(n.path)
      <4>1. PICK i \in DOMAIN n.path : n.path[i] = Key(a)
        BY <2>5, <3>3
      <4>2. n.path \in Seq(Keys) /\ z \in Nat /\ i \in 1..z /\ z \in DOMAIN n.path
        BY <2>1, <3>3 DEF Node
      <4>3. PICK k \in s.dom : Key(k) = n.path[z] /\ k.path = SubSeq(n.path, 1, z - 1)
        BY <2>1, <3>3, <4>2 DEF Tree
      <4>4. k \notin e
        <5>1. CASE i = z
          BY <2>1, <2>2, <2>4, <4>1, <4>3, <5>1 DEF Tree
        <5>2. CASE i # z
          <6>1. k.path = [j \in 1..(z - 1) |-> n.path[j]] /\ i \in 1..(z - 1)
            BY <4>2, <4>3, <5>2
          <6> QED
            BY <2>5, <4>1, <6>1
        <5> QED
          BY <5>1, <5>2
      <4>5. n.path # <<>>
        BY <4>2
      <4>6. Under(n) = k.pool
        BY <4>3, <4>5 DEF Under, Key
      <4>7. k.pool \in Shown(d) /\ k.pool \notin Shown(e)
        BY <2>1, <2>4, <4>4 DEF Shown, Single
      <4> QED
        BY <4>6, <4>7
    <3> QED
      BY <3>1, <3>2, <3>3
  <2>7. p \notin Shown(e)
    BY <2>1, <2>2, <2>4 DEF Shown, Single
  <2>8. e \subseteq d
    BY <2>1, <2>4
  <2> QED
    BY <2>3, <2>6, <2>7, <2>8 DEF Pruned
<1> QED
  BY <1>1, <1>2

\* The whole loop takes away the pools of the answer and what hangs under them.
LEMMA DeleteAllPrunes ==
  ASSUME NEW s, Good(s), Single(s.dom), NEW S \in SUBSET AllPools, NEW order \in Orders(S),
         Cardinality(DOMAIN order) \in Nat
  PROVE  /\ Pruned(s.dom, DeleteAll(s, order).dom, S)
         /\ \A p \in S : p \notin Shown(DeleteAll(s, order).dom)
<1> DEFINE n == Cardinality(DOMAIN order)
           c == Cardinality(S)
<1>1. PICK f : /\ f[0] = s /\ f[n] = DeleteAll(s, order)
               /\ \A i \in 1..n : f[i] = DeleteOne(f[i - 1], order[i])
  BY DeleteAllIs
<1>2. /\ IsFiniteSet(S) /\ c \in Nat /\ order \in [1..c -> S]
      /\ \A i, j \in 1..c : order[i] = order[j] => i = j
  BY PoolsFinite DEF Orders
<1>3. n = c
  <2>1. DOMAIN order = 1..c /\ 1 \in Int /\ c \in Int /\ (IF 1 > c THEN 0 ELSE c - 1 + 1) = c
    BY <1>2
  <2> QED
    BY <2>1, FS_Interval
<1>4. \A p \in S : \E i \in 1..n : order[i] = p
  <2>1. order \in Injection(1..c, S)
    BY <1>2 DEF Injection, IsInjective
  <2>2. Cardinality(1..c) = c
    BY <1>2, <1>3
  <2>3. order \in Surjection(1..c, S)
    BY <1>2, <2>1, <2>2, FS_Injection
  <2> QED
    BY <1>3, <2>3 DEF Surjection
<1> DEFINE Done(k) == /\ Good(f[k]) /\ Pruned(s.dom, f[k].dom, S)
                      /\ \A j \in 1..k : order[j] \notin Shown(f[k].dom)
           D == {k \in 0..n : ~Done(k)}
<1> HIDE DEF n
<1>5. n \in Nat
  BY DEF n
<1>6. D = {}
  <2> SUFFICES ASSUME D # {} PROVE FALSE
    OBVIOUS
  <2>1. D \in SUBSET Nat
    BY <1>5
  <2> HIDE DEF D
  <2>2. PICK k \in D : \A j \in D : k <= j
    BY <2>1, LeastNumber
  <2>3. k \in 0..n /\ ~Done(k)
    BY DEF D
  <2>4. k # 0
    <3>1. Done(0)
      BY <1>1 DEF Pruned
    <3> QED
      BY <2>3, <3>1
  <2>5. k - 1 \in 0..n /\ ~(k <= k - 1) /\ k \in 1..n
    BY <1>5, <2>3, <2>4
  <2>6. Done(k - 1)
    BY <2>2, <2>5 DEF D
  <2>7. f[k] = DeleteOne(f[k - 1], order[k]) /\ order[k] \in S
    BY <1>1, <1>2, <1>3, <2>5
  <2>8. Good(f[k]) /\ f[k].dom \subseteq f[k - 1].dom
    BY <2>6, <2>7, DeleteOneGood
  <2>9. Pruned(s.dom, f[k].dom, S) /\ order[k] \notin Shown(f[k].dom)
    BY <2>6, <2>7, DeleteOnePrunes
  <2>10. \A j \in 1..k : j = k \/ j \in 1..(k - 1)
    BY <2>5
  <2>11. \A j \in 1..k : order[j] \notin Shown(f[k].dom)
    BY <2>6, <2>8, <2>9, <2>10 DEF Shown
  <2> QED
    BY <2>3, <2>8, <2>9, <2>11
<1>7. Done(n)
  <2>1. n \in 0..n
    BY <1>5
  <2> QED
    BY <1>6, <2>1
<1> QED
  BY <1>1, <1>4, <1>7

-----------------------------------------------------------------------------
(***************************************************************************)
(* The first answer: the whole tree.                                       *)
(***************************************************************************)
ListOK(list) ==
  /\ Forest(list)
  /\ \A p \in DOMAIN list :
       list[p] \in [name : Names, parent : AllPools \cup {None}, above : SUBSET AllPools,
                    state : {"new", "changed", "unchanged"}]

At(list, p, i)  == CHOOSE q \in Above(list, p) : Depth(list, q) = i
PathTo(list, p) == [i \in 1..Depth(list, p) |-> <<At(list, p, i - 1), 1>>]

\* At finds the pool of the depth asked for.
LEMMA AtIs ==
  ASSUME NEW list, Forest(list), NEW p \in DOMAIN list, NEW i \in Nat, i < Depth(list, p)
  PROVE  At(list, p, i) \in Above(list, p) /\ Depth(list, At(list, p, i)) = i
BY AtEveryDepth DEF At

\* The path of the pool i steps down is the first i steps.
LEMMA PathAbove ==
  ASSUME NEW list, Forest(list), NEW p \in DOMAIN list, NEW i \in 1..Depth(list, p)
  PROVE  PathTo(list, At(list, p, i - 1)) = SubSeq(PathTo(list, p), 1, i - 1)
<1> DEFINE q == At(list, p, i - 1)
           n == Depth(list, p)
<1>1. n \in Nat
  BY DepthIs
<1>2. i - 1 \in Nat /\ i - 1 < n
  BY <1>1
<1>3. q \in Above(list, p) /\ Depth(list, q) = i - 1
  BY <1>2, AtIs
<1> HIDE DEF q
<1>4. q \in DOMAIN list /\ Above(list, q) \subseteq Above(list, p)
  BY <1>3, Higher
<1>5. ASSUME NEW j \in 1..(i - 1) PROVE At(list, q, j - 1) = At(list, p, j - 1)
  <2>1. j - 1 \in Nat /\ j - 1 < i - 1 /\ j - 1 < n
    BY <1>1
  <2>2. At(list, q, j - 1) \in Above(list, p) /\ Depth(list, At(list, q, j - 1)) = j - 1
    BY <1>3, <1>4, <2>1, AtIs
  <2>3. At(list, p, j - 1) \in Above(list, p) /\ Depth(list, At(list, p, j - 1)) = j - 1
    BY <2>1, AtIs
  <2> QED
    BY <2>2, <2>3, OneAtADepth
<1>6. \A j \in 1..(i - 1) : j \in 1..n
  BY <1>1
<1>7. PathTo(list, q) = [j \in 1..(i - 1) |-> <<At(list, p, j - 1), 1>>]
  BY <1>3, <1>5 DEF PathTo
<1>8. \A j \in 1..(i - 1) : PathTo(list, p)[j] = <<At(list, p, j - 1), 1>>
  BY <1>6 DEF PathTo
<1>9. SubSeq(PathTo(list, p), 1, i - 1) = [j \in 1..(i - 1) |-> PathTo(list, p)[j]]
  BY <1>2
<1> QED
  BY <1>7, <1>8, <1>9 DEF q

\* The path to a pool is a sequence of keys, one for each pool above it.
LEMMA PathOK ==
  ASSUME NEW list, Forest(list), NEW p \in DOMAIN list
  PROVE  PathTo(list, p) \in Seq(Keys) /\ DOMAIN PathTo(list, p) = 1..Depth(list, p)
<1>1. Depth(list, p) \in Nat /\ 1 \in 1..MaxRequests
  BY DepthIs, NavTreeAssumption
<1>2. ASSUME NEW i \in 1..Depth(list, p) PROVE <<At(list, p, i - 1), 1>> \in Keys
  <2>1. i - 1 \in Nat /\ i - 1 < Depth(list, p)
    BY <1>1
  <2>2. At(list, p, i - 1) \in AllPools
    BY <2>1, AtIs DEF Above, Forest
  <2> QED
    BY <1>1, <2>2 DEF Keys
<1> QED
  BY <1>1, <1>2 DEF PathTo

\* The tree drawn from the first answer is a tree, with one copy of each pool.
LEMMA RecursiveFits ==
  ASSUME NEW list, ListOK(list)
  PROVE  /\ RecursiveTree(list) \in SUBSET Node /\ Tree(RecursiveTree(list))
         /\ \A n \in RecursiveTree(list) : n.copy = 1
<1> DEFINE d == RecursiveTree(list)
           Leaf(p) == [pool |-> p, copy |-> 1, label |-> list[p].name, item |-> list[p].name,
                       path |-> PathTo(list, p)]
<1>0. Forest(list)
  BY DEF ListOK
<1>1. d = {Leaf(p) : p \in DOMAIN list}
  BY DEF RecursiveTree, PathTo, At, Depth, Above
<1> HIDE DEF d
<1>2. ASSUME NEW p \in DOMAIN list PROVE Leaf(p) \in Node /\ Leaf(p).path \in Seq(Keys)
  BY <1>0, NavTreeAssumption, PathOK DEF ListOK, Forest, Node
<1>3. ASSUME NEW p \in DOMAIN list, NEW i \in DOMAIN Leaf(p).path
      PROVE  \E m \in d : Key(m) = Leaf(p).path[i] /\ m.path = SubSeq(Leaf(p).path, 1, i - 1)
  <2> DEFINE q == At(list, p, i - 1)
  <2>1. i \in 1..Depth(list, p)
    BY <1>0, PathOK
  <2>2. i - 1 \in Nat /\ i - 1 < Depth(list, p)
    BY <1>0, <2>1, DepthIs
  <2>3. q \in DOMAIN list
    BY <1>0, <2>2, AtIs DEF Above
  <2>4. Leaf(p).path[i] = <<q, 1>>
    BY <2>1 DEF PathTo
  <2>5. PathTo(list, q) = SubSeq(PathTo(list, p), 1, i - 1)
    BY <1>0, <2>1, PathAbove
  <2> HIDE DEF q
  <2>6. Leaf(q) \in d /\ Key(Leaf(q)) = <<q, 1>> /\ Leaf(q).path = PathTo(list, q)
    BY <1>1, <2>3 DEF Key
  <2> QED
    BY <2>4, <2>5, <2>6
<1>4. d \in SUBSET Node
  BY <1>1, <1>2
<1>5. \A n \in d, m \in d : Key(n) = Key(m) => n = m
  BY <1>1 DEF Key
<1>6. \A n \in d : \A i \in DOMAIN n.path :
        \E m \in d : Key(m) = n.path[i] /\ m.path = SubSeq(n.path, 1, i - 1)
  BY <1>1, <1>3
<1>7. \A n \in d : n.copy = 1
  BY <1>1
<1> QED
  BY <1>4, <1>5, <1>6, <1>7 DEF d, Tree

-----------------------------------------------------------------------------
(***************************************************************************)
(* Later answers: changed names, and new pools level by level.             *)
(***************************************************************************)
LEMMA UpdateFits ==
  ASSUME NEW list, ListOK(list), NEW d \in SUBSET Node, Tree(d)
  PROVE  LET e == UpdateChanged(d, list)
         IN /\ e \in SUBSET Node /\ Tree(e)
            /\ \A n \in e : \E m \in d : Key(m) = Key(n)
            /\ \A m \in d : \E n \in e : Key(m) = Key(n)
<1> DEFINE Updated(n) ==
             IF n.pool \in DOMAIN list /\ list[n.pool].state = "changed"
             THEN [n EXCEPT !.item = list[n.pool].name,
                            !.label = IF n = First(d, n.pool) THEN list[n.pool].name ELSE @]
             ELSE n
           e == UpdateChanged(d, list)
<1>1. e = {Updated(n) : n \in d}
  BY DEF UpdateChanged
<1>2. ASSUME NEW n \in d
      PROVE  Updated(n) \in Node /\ Key(Updated(n)) = Key(n) /\ Updated(n).path = n.path
  <2>1. n \in Node
    OBVIOUS
  <2>2. n.pool \in DOMAIN list => list[n.pool].name \in Names
    BY DEF ListOK
  <2> QED
    BY <2>1, <2>2 DEF Node, Key
<1> HIDE DEF Updated, e
<1>3. e \in SUBSET Node
  BY <1>1, <1>2
<1>4. \A n \in e : \E m \in d : n = Updated(m) /\ Key(m) = Key(n) /\ m.path = n.path
  BY <1>1, <1>2
<1>5. \A m \in d : \E n \in e : n = Updated(m) /\ Key(m) = Key(n) /\ m.path = n.path
  BY <1>1, <1>2
<1>6. \A n \in e, m \in e : Key(n) = Key(m) => n = m
  BY <1>4 DEF Tree
<1>7. ASSUME NEW n \in e, NEW i \in DOMAIN n.path
      PROVE  \E m \in e : Key(m) = n.path[i] /\ m.path = SubSeq(n.path, 1, i - 1)
  <2>1. PICK k \in d : k.path = n.path
    BY <1>4
  <2>2. PICK m \in d : Key(m) = n.path[i] /\ m.path = SubSeq(n.path, 1, i - 1)
    BY <2>1 DEF Tree
  <2> QED
    BY <1>5, <2>2
<1> QED
  BY <1>3, <1>4, <1>5, <1>6, <1>7 DEF Tree, e

IsNew(list, p) == p \in DOMAIN list /\ list[p].state = "new"

\* There is room for another copy of each new pool.
HasRoom(d, list) == \A n \in d : IsNew(list, n.pool) => n.copy + 1 <= MaxRequests

\* e: what d has become when the pools of the first k levels are added.  No
\* pool is added twice.
Grown(d, e, list, k) ==
  /\ e \in SUBSET Node /\ Tree(e)
  /\ Shown(d) \subseteq Shown(e)
  /\ \A n \in e :
       \/ \E m \in d : Key(m) = Key(n)
       \/ /\ IsNew(list, n.pool) /\ Cardinality(list[n.pool].above) <= k
          /\ n.copy = 1 \/ \E m \in d : m.pool = n.pool /\ n.copy = m.copy + 1

\* A pool has a number of pools above it.
LEMMA SizeAbove ==
  ASSUME NEW list, ListOK(list), NEW p \in DOMAIN list
  PROVE  Cardinality(list[p].above) \in Nat
BY PoolsFinite DEF ListOK, Forest

\* The node made for a new pool.
NewNode(e, list, p) ==
  LET up == First(e, list[p].parent)
  IN [pool |-> p, label |-> list[p].name, item |-> list[p].name,
      copy |-> IF p \in Shown(e) THEN Last(e, p).copy + 1 ELSE 1,
      path |-> Append(up.path, Key(up))]

\* A new node has a key of its own and hangs under a node; and if the pool is
\* shown already, only because d showed it.
LEMMA NewNodeOK ==
  ASSUME NEW list, ListOK(list), NEW d \in SUBSET Node, HasRoom(d, list),
         NEW e, NEW k \in Nat \ {0}, Grown(d, e, list, k - 1),
         NEW p \in Level(list, k), list[p].parent \in Shown(e)
  PROVE  LET n == NewNode(e, list, p)
         IN /\ n \in Node /\ n.pool = p
            /\ IsNew(list, p) /\ Cardinality(list[p].above) <= k
            /\ n.copy = 1 \/ \E m \in d : m.pool = p /\ n.copy = m.copy + 1
            /\ \A m \in e : Key(m) # Key(n)
            /\ \A i \in DOMAIN n.path :
                 \E m \in e : Key(m) = n.path[i] /\ m.path = SubSeq(n.path, 1, i - 1)
<1> DEFINE n == NewNode(e, list, p)
           up == First(e, list[p].parent)
           last == Last(e, p)
           c == IF p \in Shown(e) THEN last.copy + 1 ELSE 1
<1>1. e \in SUBSET Node /\ Tree(e)
  BY DEF Grown
<1>2. IsNew(list, p) /\ Cardinality(list[p].above) = k /\ p \in AllPools /\ list[p].name \in Names
  BY DEF Level, IsNew, ListOK, Forest
<1>3. up \in e
  BY <1>1, FirstIs
<1>4. ASSUME p \in Shown(e)
      PROVE  /\ last.copy \in 1..MaxRequests /\ last.copy + 1 \in 1..MaxRequests
             /\ \E m \in d : m.pool = p /\ m.copy = last.copy
             /\ \A m \in e : m.pool = p => m.copy <= last.copy
  <2>1. last \in e /\ last.pool = p /\ \A m \in e : m.pool = p => m.copy <= last.copy
    BY <1>1, <1>4, LastIs
  <2>2. ~(Cardinality(list[p].above) <= k - 1)
    BY <1>2
  <2>3. PICK m \in d : Key(m) = Key(last)
    BY <2>1, <2>2 DEF Grown
  <2>4. m.pool = p /\ m.copy = last.copy
    BY <2>1, <2>3 DEF Key
  <2>5. m.copy \in 1..MaxRequests /\ MaxRequests \in Nat
    BY NavTreeAssumption DEF Node
  <2>6. m.copy + 1 <= MaxRequests
    BY <1>2, <2>4 DEF HasRoom
  <2> QED
    BY <2>1, <2>4, <2>5, <2>6
<1> HIDE DEF up, last
<1>5. c \in 1..MaxRequests
  BY <1>4, NavTreeAssumption
<1>6. c = 1 \/ \E m \in d : m.pool = p /\ c = m.copy + 1
  BY <1>4
<1>7. \A m \in e : m.pool = p => m.copy # c
  <2> SUFFICES ASSUME NEW m \in e, m.pool = p PROVE m.copy # c
    OBVIOUS
  <2>1. p \in Shown(e)
    BY DEF Shown
  <2>2. m.copy <= last.copy /\ m.copy \in Nat /\ last.copy \in Nat
    BY <1>1, <1>4, <2>1 DEF Node
  <2> QED
    BY <2>1, <2>2
<1> HIDE DEF c
<1>8. n = [pool |-> p, label |-> list[p].name, item |-> list[p].name, copy |-> c,
           path |-> Append(up.path, Key(up))]
  BY DEF NewNode, up, last, c
<1>9. /\ up \in Node /\ up.path \in Seq(Keys) /\ Key(up) \in Keys
  BY <1>1, <1>3 DEF Node, Key, Keys
<1>10. Append(up.path, Key(up)) \in Seq(Keys)
  BY <1>9
<1> HIDE DEF n
<1>11. n \in Node
  BY <1>2, <1>5, <1>8, <1>10 DEF Node
<1>12. \A m \in e : Key(m) # Key(n)
  BY <1>7, <1>8 DEF Key
<1>13. ASSUME NEW i \in DOMAIN n.path
       PROVE  \E m \in e : Key(m) = n.path[i] /\ m.path = SubSeq(n.path, 1, i - 1)
  <2> DEFINE s == up.path
             t == Append(s, Key(up))
  <2>1. /\ Len(s) \in Nat /\ DOMAIN t = 1..(Len(s) + 1) /\ t[Len(s) + 1] = Key(up)
        /\ \A j \in 1..Len(s) : t[j] = s[j]
    BY <1>9
  <2>2. i \in 1..(Len(s) + 1) /\ n.path = t
    BY <1>8, <2>1
  <2>3. SubSeq(t, 1, i - 1) = [j \in 1..(i - 1) |-> t[j]]
    BY <2>2, <2>1
  <2>4. SubSeq(s, 1, i - 1) = [j \in 1..(i - 1) |-> s[j]]
    BY <2>2, <2>1
  <2>5. \A j \in 1..(i - 1) : j \in 1..Len(s)
    BY <2>1, <2>2
  <2>6. SubSeq(t, 1, i - 1) = SubSeq(s, 1, i - 1)
    BY <2>1, <2>3, <2>4, <2>5
  <2>7. CASE i = Len(s) + 1
    <3>1. SubSeq(s, 1, i - 1) = s
      BY <1>9, <2>1, <2>7
    <3> QED
      BY <1>3, <2>1, <2>2, <2>6, <2>7, <3>1
  <2>8. CASE i # Len(s) + 1
    <3>1. i \in DOMAIN s /\ t[i] = s[i]
      BY <1>9, <2>1, <2>2, <2>8
    <3>2. PICK m \in e : Key(m) = s[i] /\ m.path = SubSeq(s, 1, i - 1)
      BY <1>1, <1>3, <3>1 DEF Tree
    <3> QED
      BY <2>2, <2>6, <3>1, <3>2
  <2> QED
    BY <2>7, <2>8
<1>14. n.pool = p /\ n.copy = c
  BY <1>8
<1>15. Cardinality(list[p].above) <= k
  BY <1>2
<1>16. n.copy = 1 \/ \E m \in d : m.pool = p /\ n.copy = m.copy + 1
  BY <1>6, <1>14
<1> QED
  BY <1>2, <1>11, <1>12, <1>13, <1>14, <1>15, <1>16 DEF n

\* One more level.
LEMMA AppendFits ==
  ASSUME NEW list, ListOK(list), NEW d \in SUBSET Node, HasRoom(d, list),
         NEW e, NEW k \in Nat \ {0}, Grown(d, e, list, k - 1)
  PROVE  Grown(d, AppendLevel(e, list, k), list, k)
<1> DEFINE f == AppendLevel(e, list, k)
           A == {p \in Level(list, k) : list[p].parent \in Shown(e)}
<1>1. \A n \in f : n \in e \/ \E p \in A : n = NewNode(e, list, p)
  BY DEF AppendLevel, AppendNew, NewNode
<1>2. e \subseteq f
  BY DEF AppendLevel
<1> HIDE DEF f
<1>3. ASSUME NEW p \in A
      PROVE  LET n == NewNode(e, list, p)
             IN /\ n \in Node /\ n.pool = p
                /\ IsNew(list, p) /\ Cardinality(list[p].above) <= k
                /\ n.copy = 1 \/ \E m \in d : m.pool = p /\ n.copy = m.copy + 1
                /\ \A m \in e : Key(m) # Key(n)
                /\ \A i \in DOMAIN n.path :
                     \E m \in e : Key(m) = n.path[i] /\ m.path = SubSeq(n.path, 1, i - 1)
  BY NewNodeOK
<1>4. e \in SUBSET Node /\ Tree(e) /\ Shown(d) \subseteq Shown(e)
  BY DEF Grown
<1>5. f \in SUBSET Node
  BY <1>1, <1>3, <1>4
<1>6. ASSUME NEW n \in f, NEW m \in f, Key(n) = Key(m) PROVE n = m
  <2>1. n.pool = m.pool
    BY <1>6 DEF Key
  <2>2. n \in e /\ m \in e => n = m
    BY <1>4, <1>6 DEF Tree
  <2>3. \A p \in A : n = NewNode(e, list, p) => n.pool = p /\ m \notin e
    BY <1>3, <1>6
  <2>4. \A p \in A : m = NewNode(e, list, p) => m.pool = p /\ n \notin e
    BY <1>3, <1>6
  <2> QED
    BY <1>1, <2>1, <2>2, <2>3, <2>4
<1>7. ASSUME NEW n \in f, NEW i \in DOMAIN n.path
      PROVE  \E m \in f : Key(m) = n.path[i] /\ m.path = SubSeq(n.path, 1, i - 1)
  <2>1. CASE n \in e
    BY <1>2, <1>4, <2>1 DEF Tree
  <2>2. CASE n \notin e
    BY <1>1, <1>2, <1>3, <2>2
  <2> QED
    BY <2>1, <2>2
<1>8. Tree(f)
  BY <1>6, <1>7 DEF Tree
<1>9. Shown(d) \subseteq Shown(f)
  BY <1>2, <1>4 DEF Shown
<1>10. ASSUME NEW n \in f
       PROVE  \/ \E m \in d : Key(m) = Key(n)
              \/ /\ IsNew(list, n.pool) /\ Cardinality(list[n.pool].above) <= k
                 /\ n.copy = 1 \/ \E m \in d : m.pool = n.pool /\ n.copy = m.copy + 1
  <2>1. CASE n \in e
    <3>1. \/ \E m \in d : Key(m) = Key(n)
          \/ /\ IsNew(list, n.pool) /\ Cardinality(list[n.pool].above) <= k - 1
             /\ n.copy = 1 \/ \E m \in d : m.pool = n.pool /\ n.copy = m.copy + 1
      BY <2>1 DEF Grown
    <3>2. IsNew(list, n.pool) => Cardinality(list[n.pool].above) \in Nat
      BY SizeAbove DEF IsNew
    <3>3. IsNew(list, n.pool) /\ Cardinality(list[n.pool].above) <= k - 1
            => Cardinality(list[n.pool].above) <= k
      BY <3>2
    <3> QED
      BY <3>1, <3>3
  <2>2. CASE n \notin e
    BY <1>1, <1>3, <2>2
  <2> QED
    BY <2>1, <2>2
<1> QED
  BY <1>5, <1>8, <1>9, <1>10 DEF Grown, f

\* processChildren, up to its n-th level.
GrowTrace(f, d, list, n) ==
  f = [k \in 0..n |-> IF k = 0 THEN UpdateChanged(d, list) ELSE AppendLevel(f[k - 1], list, k)]

\* processChildren has a trace down to any level.
LEMMA GrowTraces ==
  ASSUME NEW d, NEW list, NEW n \in Nat
  PROVE  \E f : GrowTrace(f, d, list, n)
<1> DEFINE D == {k \in 0..n : ~ \E f : GrowTrace(f, d, list, k)}
           s == UpdateChanged(d, list)
<1> SUFFICES ASSUME D # {} PROVE FALSE
  BY n \in 0..n
<1>1. D \in SUBSET Nat
  OBVIOUS
<1> HIDE DEF D
<1>2. PICK k \in D : \A j \in D : k <= j
  BY <1>1, LeastNumber
<1>3. k \in 0..n /\ ~ \E f : GrowTrace(f, d, list, k)
  BY DEF D
<1>4. CASE k = 0
  <2> DEFINE f == [i \in 0..0 |-> s]
  <2>1. \A i \in 0..0 : i = 0
    OBVIOUS
  <2>2. GrowTrace(f, d, list, 0)
    BY <2>1 DEF GrowTrace
  <2> QED
    BY <1>3, <1>4, <2>2
<1>5. CASE k # 0
  <2>1. k - 1 \in 0..n /\ ~(k <= k - 1)
    BY <1>3, <1>5
  <2>2. k - 1 \notin D
    BY <1>2, <2>1
  <2>3. PICK f : GrowTrace(f, d, list, k - 1)
    BY <2>1, <2>2 DEF D
  <2> DEFINE g == [i \in 0..k |-> IF i = k THEN AppendLevel(f[k - 1], list, k) ELSE f[i]]
  <2> HIDE DEF s
  <2>4. \A i \in 0..(k - 1) : f[i] = IF i = 0 THEN s ELSE AppendLevel(f[i - 1], list, i)
    BY <2>3 DEF GrowTrace, s
  <2>5. ASSUME NEW i \in 0..k
        PROVE  g[i] = IF i = 0 THEN s ELSE AppendLevel(g[i - 1], list, i)
    <3>1. CASE i = k
      <4>1. k - 1 \in 0..k /\ k - 1 # k
        BY <1>3, <1>5
      <4> QED
        BY <1>5, <3>1, <4>1
    <3>2. CASE i = 0
      <4>1. 0 \in 0..(k - 1)
        BY <1>3, <1>5
      <4> QED
        BY <1>5, <2>4, <3>2, <4>1
    <3>3. CASE i # k /\ i # 0
      <4>1. i \in 0..(k - 1) /\ i - 1 \in 0..k /\ i - 1 # k
        BY <1>3, <3>3
      <4>2. g[i] = f[i] /\ g[i - 1] = f[i - 1]
        BY <3>3, <4>1
      <4> QED
        BY <2>4, <3>3, <4>1, <4>2
    <3> QED
      BY <3>1, <3>2, <3>3
  <2>6. g = [i \in 0..k |-> g[i]]
    OBVIOUS
  <2> HIDE DEF g
  <2>7. GrowTrace(g, d, list, k)
    BY <2>5, <2>6 DEF GrowTrace, s
  <2> QED
    BY <1>3, <2>7
<1> QED
  BY <1>4, <1>5

\* The states processChildren goes through.
LEMMA ProcessChildrenIs ==
  ASSUME NEW d, NEW list
  PROVE  LET n == Cardinality(Pools)
         IN /\ n \in Nat
            /\ \E f : /\ f[0] = UpdateChanged(d, list) /\ f[n] = ProcessChildren(d, list)
                      /\ \A k \in 1..n : f[k] = AppendLevel(f[k - 1], list, k)
<1> DEFINE n == Cardinality(Pools)
           after == CHOOSE f : GrowTrace(f, d, list, n)
<1>1. n \in Nat
  BY NavTreeAssumption, FS_CardinalityType
<1>2. ProcessChildren(d, list) = after[n]
  BY DEF ProcessChildren, GrowTrace
<1>3. GrowTrace(after, d, list, n)
  BY <1>1, GrowTraces
<1> HIDE DEF after
<1>4. \A k \in 0..n :
        after[k] = IF k = 0 THEN UpdateChanged(d, list) ELSE AppendLevel(after[k - 1], list, k)
  BY <1>3 DEF GrowTrace
<1>5. 0 \in 0..n /\ \A i \in 1..n : i \in 0..n /\ i # 0
  BY <1>1
<1> QED
  BY <1>1, <1>2, <1>4, <1>5

\* All levels.
LEMMA ProcessChildrenFits ==
  ASSUME NEW list, ListOK(list), NEW d \in SUBSET Node, Tree(d), HasRoom(d, list)
  PROVE  Grown(d, ProcessChildren(d, list), list, Cardinality(Pools))
<1> DEFINE n == Cardinality(Pools)
<1>1. n \in Nat
  BY ProcessChildrenIs
<1>2. PICK f : /\ f[0] = UpdateChanged(d, list) /\ f[n] = ProcessChildren(d, list)
               /\ \A k \in 1..n : f[k] = AppendLevel(f[k - 1], list, k)
  BY ProcessChildrenIs
<1> DEFINE D == {k \in 0..n : ~Grown(d, f[k], list, k)}
<1>3. Grown(d, UpdateChanged(d, list), list, 0)
  <2> DEFINE e == UpdateChanged(d, list)
  <2>1. /\ e \in SUBSET Node /\ Tree(e)
        /\ \A m \in e : \E j \in d : Key(j) = Key(m)
        /\ \A j \in d : \E m \in e : Key(j) = Key(m)
    BY UpdateFits
  <2> HIDE DEF e
  <2>2. Shown(d) \subseteq Shown(e)
    BY <2>1 DEF Shown, Key
  <2> QED
    BY <2>1, <2>2 DEF Grown, e
<1>4. D = {}
  <2> SUFFICES ASSUME D # {} PROVE FALSE
    OBVIOUS
  <2>1. D \in SUBSET Nat
    OBVIOUS
  <2> HIDE DEF D
  <2>2. PICK k \in D : \A j \in D : k <= j
    BY <2>1, LeastNumber
  <2>3. k \in 0..n /\ ~Grown(d, f[k], list, k)
    BY DEF D
  <2>4. k # 0
    BY <1>2, <1>3, <2>3
  <2>5. k - 1 \in 0..n /\ ~(k <= k - 1) /\ k \in Nat \ {0} /\ k \in 1..n
    BY <1>1, <2>3, <2>4
  <2>6. Grown(d, f[k - 1], list, k - 1)
    BY <2>2, <2>5 DEF D
  <2> QED
    BY <1>2, <2>3, <2>5, <2>6, AppendFits
<1>5. n \in 0..n
  BY <1>1
<1> QED
  BY <1>2, <1>4, <1>5

-----------------------------------------------------------------------------
(***************************************************************************)
(* The invariant.  A pool is shown at most once for every request: copies  *)
(* are made by answers to requests that did not know of it, and these are  *)
(* Pending.                                                                *)
(***************************************************************************)
Pending(r, p) == {s \in Slots : r[s] # None /\ p \notin DOMAIN r[s].items}

PoolsInv ==
  /\ Forest(pools)
  /\ \A p \in DOMAIN pools :
       /\ pools[p] \in [name : Names, parent : AllPools \cup {None}, above : SUBSET AllPools]
       /\ pools[p].above \subseteq used \cup {Root, Smart}
  /\ DOMAIN pools \subseteq used \cup {Root, Smart}
  /\ used \subseteq Pools /\ granted \subseteq AllPools /\ changes \in 0..MaxChanges

PageInv ==
  /\ dom \in SUBSET Node /\ Tree(dom)
  /\ loaded \in BOOLEAN /\ overlapped \in BOOLEAN
  /\ ~loaded => dom = {}
  /\ current \in Shown(dom) \cup {None}

AnswerOK(r) ==
  /\ ListOK(r.answer.pools) /\ r.answer.deleted \in SUBSET AllPools
  /\ \A p \in AllPools : IsNew(r.answer.pools, p) => p \notin DOMAIN r.items

ReqOK(r) ==
  /\ DOMAIN r = {"items", "answer"} /\ DOMAIN r.items \subseteq AllPools
  /\ r.answer # None => AnswerOK(r)

ReqsInv ==
  DOMAIN reqs = Slots /\ \A s \in Slots : reqs[s] # None => ReqOK(reqs[s])

RoomInv ==
  \A n \in dom : n.copy + Cardinality(Pending(reqs, n.pool)) <= MaxRequests

TreeInv == PoolsInv /\ PageInv /\ ReqsInv /\ RoomInv

\* There are MaxRequests slots.
LEMMA SlotsFinite ==
  IsFiniteSet(Slots) /\ Cardinality(Slots) = MaxRequests /\ MaxRequests \in Nat
<1>1. MaxRequests \in Nat /\ 1 \in Int /\ MaxRequests \in Int
      /\ (IF 1 > MaxRequests THEN 0 ELSE MaxRequests - 1 + 1) = MaxRequests
  BY NavTreeAssumption
<1> QED
  BY <1>1, FS_Interval DEF Slots

\* What is pending is a number of slots.
LEMMA PendingIs ==
  ASSUME NEW r, NEW p
  PROVE  /\ IsFiniteSet(Pending(r, p)) /\ Cardinality(Pending(r, p)) \in Nat
         /\ Cardinality(Pending(r, p)) <= MaxRequests
<1>1. Pending(r, p) \in SUBSET Slots
  BY DEF Pending
<1> QED
  BY <1>1, SlotsFinite, FS_Subset, FS_CardinalityType

\* Fewer slots are fewer.
LEMMA NoMorePending ==
  ASSUME NEW r, NEW q, NEW p, Pending(q, p) \subseteq Pending(r, p)
  PROVE  Cardinality(Pending(q, p)) <= Cardinality(Pending(r, p))
<1>1. Pending(q, p) \in SUBSET Pending(r, p)
  OBVIOUS
<1> QED
  BY <1>1, PendingIs, FS_Subset

\* When a request has ended there are fewer than there can be.
LEMMA OneFewer ==
  ASSUME NEW r, NEW q, NEW p, NEW s \in Slots, s \notin Pending(q, p)
  PROVE  /\ Cardinality(Pending(q, p)) + 1 <= MaxRequests
         /\ Pending(q, p) \subseteq Pending(r, p) /\ s \in Pending(r, p) =>
              Cardinality(Pending(q, p)) + 1 <= Cardinality(Pending(r, p))
<1>1. /\ IsFiniteSet(Slots \ {s}) /\ Cardinality(Slots \ {s}) = MaxRequests - 1
      /\ MaxRequests \in Nat
  BY SlotsFinite, FS_RemoveElement
<1>2. Pending(q, p) \in SUBSET (Slots \ {s})
  BY DEF Pending
<1>3. Cardinality(Pending(q, p)) <= Cardinality(Slots \ {s}) /\ Cardinality(Pending(q, p)) \in Nat
  BY <1>1, <1>2, FS_Subset, PendingIs
<1>4. ASSUME Pending(q, p) \subseteq Pending(r, p), s \in Pending(r, p)
      PROVE  Cardinality(Pending(q, p)) + 1 <= Cardinality(Pending(r, p))
  <2>1. IsFiniteSet(Pending(r, p)) /\ Cardinality(Pending(r, p)) \in Nat
    BY PendingIs
  <2>2. /\ IsFiniteSet(Pending(r, p) \ {s})
        /\ Cardinality(Pending(r, p) \ {s}) = Cardinality(Pending(r, p)) - 1
    BY <1>4, <2>1, FS_RemoveElement
  <2>3. Pending(q, p) \in SUBSET (Pending(r, p) \ {s})
    BY <1>4
  <2>4. Cardinality(Pending(q, p)) <= Cardinality(Pending(r, p) \ {s})
    BY <2>2, <2>3, FS_Subset
  <2> QED
    BY <1>3, <2>1, <2>2, <2>4
<1> QED
  BY <1>1, <1>3, <1>4

-----------------------------------------------------------------------------
\* The invariant holds before the first request.
LEMMA TreeInit == Init => TreeInv
<1> SUFFICES ASSUME Init PROVE TreeInv
  OBVIOUS
<1>1. DOMAIN pools = {Root, Smart}
      /\ \A p \in {Root, Smart} : pools[p] = [name |-> FirstName, parent |-> None, above |-> {}]
  BY DEF Init
<1>2. PoolsInv
  <2>1. Forest(pools)
    BY <1>1 DEF Forest, Nested, AllPools
  <2>2. granted \subseteq AllPools /\ changes \in 0..MaxChanges /\ used \subseteq Pools
    BY NavTreeAssumption DEF Init, AllPools
  <2> QED
    BY <1>1, <2>1, <2>2, NavTreeAssumption DEF PoolsInv, AllPools
<1>3. PageInv
  BY DEF Init, PageInv, Tree
<1>4. ReqsInv
  BY DEF Init, ReqsInv
<1>5. RoomInv
  BY DEF Init, RoomInv
<1> QED
  BY <1>2, <1>3, <1>4, <1>5 DEF TreeInv

\* Administration: the pools stay nested.
LEMMA CreatePoolPools ==
  ASSUME PoolsInv, NEW p \in Pools, NEW up \in AllPools, CreatePool(p, up)
  PROVE  PoolsInv'
<1> DEFINE new == [name |-> FirstName, parent |-> up, above |-> pools[up].above \cup {up}]
<1>1. /\ p \in Pools \ used /\ up \in DOMAIN pools /\ p \in AllPools
      /\ DOMAIN pools' = DOMAIN pools \cup {p}
      /\ \A q \in DOMAIN pools : q # p /\ pools'[q] = pools[q]
      /\ pools'[p] = new
      /\ used' = used \cup {p} /\ granted' \subseteq AllPools /\ changes' \in 0..MaxChanges
  <2>1. p \in Pools \ used /\ p \in AllPools /\ up \in DOMAIN pools
    BY DEF CreatePool, AllPools
  <2>2. p \notin DOMAIN pools
    BY <2>1, NavTreeAssumption DEF PoolsInv
  <2>3. changes' \in 0..MaxChanges
    BY NavTreeAssumption DEF CreatePool, Change, PoolsInv
  <2>4. granted' \subseteq AllPools
    BY <2>1 DEF CreatePool, PoolsInv
  <2> QED
    BY <2>1, <2>2, <2>3, <2>4 DEF CreatePool
<1>2. /\ pools[up].above \subseteq AllPools /\ up \notin pools[up].above
      /\ pools[up].above \subseteq used \cup {Root, Smart} /\ up \in used \cup {Root, Smart}
  BY <1>1 DEF PoolsInv, Forest, Nested
<1>3. p \notin used \cup {Root, Smart}
  BY <1>1, NavTreeAssumption
<1>4. \A q \in DOMAIN pools : p \notin pools[q].above
  BY <1>3 DEF PoolsInv
<1>5. new \in [name : Names, parent : AllPools \cup {None}, above : SUBSET AllPools]
  BY <1>1, <1>2, NavTreeAssumption
<1>6. new.above = pools[up].above \cup {up} /\ p \notin new.above
  BY <1>2, <1>3
<1> HIDE DEF new
<1>7. Nested(pools')
  <2> SUFFICES ASSUME NEW c \in DOMAIN pools'
               PROVE  /\ c \notin pools'[c].above
                      /\ \A q \in DOMAIN pools' \cap pools'[c].above :
                           /\ pools'[q].above \subseteq pools'[c].above
                           /\ \A r \in DOMAIN pools' \cap pools'[c].above :
                                q = r \/ q \in pools'[r].above \/ r \in pools'[q].above
    BY DEF Nested
  <2>1. CASE c # p
    BY <1>1, <1>4, <2>1 DEF PoolsInv, Forest, Nested
  <2>2. CASE c = p
    <3>1. pools'[c].above = pools[up].above \cup {up} /\ p \notin pools'[c].above
      BY <1>1, <1>6, <2>2
    <3>2. ASSUME NEW q \in DOMAIN pools' \cap pools'[c].above
          PROVE  /\ q \in DOMAIN pools /\ pools'[q] = pools[q]
                 /\ q = up \/ q \in pools[up].above
      BY <1>1, <3>1
    <3>3. ASSUME NEW q \in DOMAIN pools, q = up \/ q \in pools[up].above,
                 NEW r \in DOMAIN pools, r = up \/ r \in pools[up].above
          PROVE  /\ pools[q].above \subseteq pools[up].above
                 /\ q = r \/ q \in pools[r].above \/ r \in pools[q].above
      BY <1>1, <3>3 DEF PoolsInv, Forest, Nested
    <3>4. c \notin pools'[c].above
      BY <2>2, <3>1
    <3>5. ASSUME NEW q \in DOMAIN pools' \cap pools'[c].above
          PROVE  /\ pools'[q].above \subseteq pools'[c].above
                 /\ \A r \in DOMAIN pools' \cap pools'[c].above :
                      q = r \/ q \in pools'[r].above \/ r \in pools'[q].above
      <4>1. pools'[q] = pools[q] /\ q \in DOMAIN pools /\ (q = up \/ q \in pools[up].above)
        BY <3>2
      <4>2. pools[q].above \subseteq pools[up].above
        BY <1>1, <3>3, <4>1
      <4>3. ASSUME NEW r \in DOMAIN pools' \cap pools'[c].above
            PROVE  q = r \/ q \in pools'[r].above \/ r \in pools'[q].above
        <5>1. pools'[r] = pools[r] /\ r \in DOMAIN pools /\ (r = up \/ r \in pools[up].above)
          BY <3>2
        <5> QED
          BY <3>3, <4>1, <5>1
      <4> QED
        BY <3>1, <4>1, <4>2, <4>3
    <3> QED
      BY <3>4, <3>5
  <2> QED
    BY <2>1, <2>2
<1>8. Forest(pools')
  BY <1>1, <1>5, <1>7 DEF PoolsInv, Forest
<1>9. /\ DOMAIN pools' \subseteq used' \cup {Root, Smart} /\ used' \subseteq Pools
  BY <1>1 DEF PoolsInv
<1>10. ASSUME NEW q \in DOMAIN pools'
       PROVE /\ pools'[q] \in [name : Names, parent : AllPools \cup {None}, above : SUBSET AllPools]
             /\ pools'[q].above \subseteq used' \cup {Root, Smart}
  BY <1>1, <1>2, <1>5, <1>6 DEF PoolsInv
<1> QED
  BY <1>1, <1>8, <1>9, <1>10 DEF PoolsInv

\* A new name changes nothing in the nested set.
LEMMA RenamePoolPools ==
  ASSUME PoolsInv, NEW p \in AllPools, NEW name \in Names, RenamePool(p, name)
  PROVE  PoolsInv'
<1>1. /\ DOMAIN pools' = DOMAIN pools
      /\ \A q \in DOMAIN pools :
           /\ pools'[q].above = pools[q].above
           /\ pools'[q] \in [name : Names, parent : AllPools \cup {None}, above : SUBSET AllPools]
      /\ used' = used /\ granted' = granted
  BY DEF RenamePool, PoolsInv
<1>2. changes' \in 0..MaxChanges
  BY NavTreeAssumption DEF RenamePool, Change, PoolsInv
<1>3. Forest(pools')
  BY <1>1 DEF PoolsInv, Forest, Nested
<1> QED
  BY <1>1, <1>2, <1>3 DEF PoolsInv

\* Nor does the removal of a leaf.
LEMMA DestroyPoolPools ==
  ASSUME PoolsInv, NEW p \in Pools, DestroyPool(p)
  PROVE  PoolsInv'
<1>1. /\ DOMAIN pools' = DOMAIN pools \ {p}
      /\ \A q \in DOMAIN pools' : pools'[q] = pools[q]
      /\ used' = used /\ granted' \subseteq granted
  BY DEF DestroyPool
<1>2. changes' \in 0..MaxChanges
  BY NavTreeAssumption DEF DestroyPool, Change, PoolsInv
<1>3. Forest(pools')
  BY <1>1 DEF PoolsInv, Forest, Nested
<1> QED
  BY <1>1, <1>2, <1>3 DEF PoolsInv

\* Nor do permissions.
LEMMA GrantsPools ==
  ASSUME PoolsInv, NEW p \in AllPools, Grant(p) \/ Revoke(p)
  PROVE  PoolsInv'
<1>1. pools' = pools /\ used' = used /\ granted' \subseteq AllPools
  BY DEF Grant, Revoke, PoolsInv
<1>2. changes' \in 0..MaxChanges
  BY NavTreeAssumption DEF Grant, Revoke, Change, PoolsInv
<1> QED
  BY <1>1, <1>2 DEF PoolsInv

\* What other users do leaves page and requests alone.
LEMMA AdministrationStep == TreeInv /\ Administration => TreeInv'
<1> SUFFICES ASSUME TreeInv, Administration PROVE TreeInv'
  OBVIOUS
<1>1. PoolsInv'
  <2>1. ASSUME NEW p \in Pools, NEW up \in AllPools, CreatePool(p, up) PROVE PoolsInv'
    BY <2>1, CreatePoolPools DEF TreeInv
  <2>2. ASSUME NEW p \in AllPools, NEW name \in Names, RenamePool(p, name) PROVE PoolsInv'
    BY <2>2, RenamePoolPools DEF TreeInv
  <2>3. ASSUME NEW p \in Pools, DestroyPool(p) PROVE PoolsInv'
    BY <2>3, DestroyPoolPools DEF TreeInv
  <2>4. ASSUME NEW p \in AllPools, Grant(p) \/ Revoke(p) PROVE PoolsInv'
    BY <2>4, GrantsPools DEF TreeInv
  <2> QED
    BY <2>1, <2>2, <2>3, <2>4 DEF Administration
<1>2. dom' = dom /\ loaded' = loaded /\ current' = current /\ overlapped' = overlapped /\ reqs' = reqs
  BY DEF Administration, CreatePool, RenamePool, DestroyPool, Grant, Revoke, page
<1> QED
  BY <1>1, <1>2 DEF TreeInv, PageInv, ReqsInv, RoomInv

-----------------------------------------------------------------------------
(* The requests.                                                           *)

\* Requests change, nothing is pending that was not, and the page stays.
LEMMA RoomStays ==
  ASSUME TreeInv, dom' = dom, \A n \in dom : Pending(reqs', n.pool) \subseteq Pending(reqs, n.pool)
  PROVE  RoomInv'
<1> SUFFICES ASSUME NEW n \in dom
             PROVE  n.copy + Cardinality(Pending(reqs', n.pool)) <= MaxRequests
  BY DEF RoomInv
<1>1. Cardinality(Pending(reqs', n.pool)) <= Cardinality(Pending(reqs, n.pool))
  BY NoMorePending
<1>2. /\ Cardinality(Pending(reqs', n.pool)) \in Nat /\ Cardinality(Pending(reqs, n.pool)) \in Nat
      /\ MaxRequests \in Nat
  BY PendingIs, SlotsFinite
<1>3. n.copy \in Nat /\ n.copy + Cardinality(Pending(reqs, n.pool)) <= MaxRequests
  BY DEF TreeInv, RoomInv, PageInv, Node
<1> QED
  BY <1>1, <1>2, <1>3

\* A new request knows of every pool that is shown.
LEMMA ProcessTreeStep == TreeInv /\ ProcessTree => TreeInv'
<1> SUFFICES ASSUME TreeInv, ProcessTree PROVE TreeInv'
  OBVIOUS
<1> DEFINE t == NextSlot
           r == [items |-> [p \in Shown(dom) |-> Last(dom, p).item], answer |-> None]
<1>1. /\ reqs' = [reqs EXCEPT ![t] = r] /\ overlapped' = (overlapped \/ Busy # {})
      /\ pools' = pools /\ used' = used /\ granted' = granted /\ changes' = changes
      /\ dom' = dom /\ loaded' = loaded /\ current' = current
  BY DEF ProcessTree, server
<1> HIDE DEF t
<1>2. Shown(dom) \subseteq AllPools
  BY DEF TreeInv, PageInv, Shown, Node
<1>3. ReqOK(r)
  BY <1>2 DEF ReqOK
<1>4. DOMAIN reqs' = Slots /\ \A s \in Slots : reqs'[s] = IF s = t THEN r ELSE reqs[s]
  BY <1>1 DEF TreeInv, ReqsInv
<1>5. DOMAIN r.items = Shown(dom)
  OBVIOUS
<1> HIDE DEF r
<1>6. ReqsInv'
  BY <1>3, <1>4 DEF TreeInv, ReqsInv
<1>7. \A n \in dom : Pending(reqs', n.pool) \subseteq Pending(reqs, n.pool)
  BY <1>4, <1>5 DEF Pending, Shown
<1>8. RoomInv'
  BY <1>1, <1>7, RoomStays
<1>9. overlapped' \in BOOLEAN
  BY <1>1 DEF TreeInv, PageInv
<1>10. PoolsInv' /\ PageInv'
  BY <1>1, <1>9 DEF TreeInv, PoolsInv, PageInv
<1> QED
  BY <1>6, <1>8, <1>10 DEF TreeInv

\* An answer lists a part of the nested set; new is what was not submitted.
LEMMA FilteredListOK ==
  ASSUME PoolsInv, NEW items, DOMAIN items \subseteq AllPools
  PROVE  /\ ListOK(FilteredList(items).pools) /\ FilteredList(items).deleted \in SUBSET AllPools
         /\ \A p \in AllPools : IsNew(FilteredList(items).pools, p) => p \notin DOMAIN items
<1> DEFINE list == FilteredList(items).pools
           Item(p) == [name |-> pools[p].name, parent |-> pools[p].parent,
                       above |-> pools[p].above, state |-> StateOf(items, p)]
<1>1. list = [p \in Visible |-> Item(p)] /\ FilteredList(items).deleted = Deleted(items)
  BY DEF FilteredList
<1>2. Visible \subseteq DOMAIN pools
  BY DEF Visible
<1>3. \A p : StateOf(items, p) \in {"new", "changed", "unchanged"}
  BY DEF StateOf
<1>4. ASSUME NEW p \in DOMAIN pools
      PROVE  /\ Item(p) \in [name : Names, parent : AllPools \cup {None}, above : SUBSET AllPools,
                             state : {"new", "changed", "unchanged"}]
             /\ Item(p).above = pools[p].above /\ Item(p).state = StateOf(items, p)
  BY <1>3 DEF PoolsInv
<1> HIDE DEF list, Item
<1>5. DOMAIN list = Visible /\ \A p \in Visible : list[p] = Item(p)
  BY <1>1
<1>6. \A p \in DOMAIN list : p \in DOMAIN pools /\ list[p].above = pools[p].above
  BY <1>2, <1>4, <1>5
<1>7. Nested(list)
  BY <1>6 DEF PoolsInv, Forest, Nested
<1>8. Forest(list)
  BY <1>6, <1>7 DEF PoolsInv, Forest
<1>9. ListOK(list)
  BY <1>2, <1>4, <1>5, <1>8 DEF ListOK
<1>10. \A p \in DOMAIN list : list[p].state = StateOf(items, p)
  BY <1>2, <1>4, <1>5
<1>11. \A p : IsNew(list, p) => p \notin DOMAIN items
  BY <1>10 DEF IsNew, StateOf
<1>12. Deleted(items) \in SUBSET AllPools
  BY DEF Deleted
<1> QED
  BY <1>1, <1>9, <1>11, <1>12 DEF list

\* An answer keeps the invariant.
LEMMA ServeStep == ASSUME TreeInv, NEW s \in Slots, Serve(s) PROVE TreeInv'
<1> DEFINE r == reqs[s]
           a == FilteredList(r.items)
           q == [r EXCEPT !.answer = a]
<1>1. /\ s \in Busy /\ reqs' = [reqs EXCEPT ![s] = q]
      /\ pools' = pools /\ used' = used /\ granted' = granted /\ changes' = changes
      /\ dom' = dom /\ loaded' = loaded /\ current' = current /\ overlapped' = overlapped
  BY DEF Serve, server, page
<1>2. r # None /\ ReqOK(r)
  BY <1>1 DEF Busy, TreeInv, ReqsInv
<1>3. /\ ListOK(a.pools) /\ a.deleted \in SUBSET AllPools
      /\ \A p \in AllPools : IsNew(a.pools, p) => p \notin DOMAIN r.items
  BY <1>2, FilteredListOK DEF ReqOK, TreeInv
<1> HIDE DEF a
<1>4. DOMAIN q = {"items", "answer"} /\ q.items = r.items /\ q.answer = a
  BY <1>2 DEF ReqOK
<1>5. DOMAIN reqs' = Slots /\ \A t \in Slots : reqs'[t] = IF t = s THEN q ELSE reqs[t]
  BY <1>1 DEF TreeInv, ReqsInv
<1> HIDE DEF q
<1>6. ReqOK(q)
  BY <1>2, <1>3, <1>4 DEF ReqOK, AnswerOK
<1>7. ReqsInv'
  BY <1>5, <1>6 DEF TreeInv, ReqsInv
<1>8. \A n \in dom : Pending(reqs', n.pool) \subseteq Pending(reqs, n.pool)
  BY <1>2, <1>4, <1>5 DEF Pending
<1>9. RoomInv'
  BY <1>1, <1>8, RoomStays
<1>10. PoolsInv' /\ PageInv'
  BY <1>1 DEF TreeInv, PoolsInv, PageInv
<1> QED
  BY <1>7, <1>9, <1>10 DEF TreeInv

\* Slot s is free again.
LEMMA SlotFree ==
  ASSUME ReqsInv, NEW s \in Slots, reqs' = [reqs EXCEPT ![s] = None]
  PROVE  /\ ReqsInv'
         /\ \A p : Pending(reqs', p) \subseteq Pending(reqs, p) /\ s \notin Pending(reqs', p)
<1>1. DOMAIN reqs' = Slots /\ \A t \in Slots : reqs'[t] = IF t = s THEN None ELSE reqs[t]
  BY DEF ReqsInv
<1>2. ReqsInv'
  BY <1>1 DEF ReqsInv
<1> QED
  BY <1>1, <1>2 DEF Pending

\* So does a request without an answer.
LEMMA RequestFailsStep == ASSUME TreeInv, NEW s \in Slots, RequestFails(s) PROVE TreeInv'
<1>1. /\ reqs' = [reqs EXCEPT ![s] = None]
      /\ pools' = pools /\ used' = used /\ granted' = granted /\ changes' = changes
      /\ dom' = dom /\ loaded' = loaded /\ current' = current /\ overlapped' = overlapped
  BY DEF RequestFails, server, page
<1>2. ReqsInv' /\ \A p : Pending(reqs', p) \subseteq Pending(reqs, p)
  BY <1>1, SlotFree DEF TreeInv
<1>3. RoomInv'
  BY <1>1, <1>2, RoomStays
<1>4. PoolsInv' /\ PageInv'
  BY <1>1 DEF TreeInv, PoolsInv, PageInv
<1> QED
  BY <1>2, <1>3, <1>4 DEF TreeInv

\* So does a click, on a node that is shown.
LEMMA ClickStep == ASSUME TreeInv, NEW p \in AllPools, Click(p) PROVE TreeInv'
<1>1. /\ p \in Shown(dom) /\ current' = p /\ reqs' = reqs
      /\ pools' = pools /\ used' = used /\ granted' = granted /\ changes' = changes
      /\ dom' = dom /\ loaded' = loaded /\ overlapped' = overlapped
  BY DEF Click, server
<1> QED
  BY <1>1 DEF TreeInv, PoolsInv, PageInv, ReqsInv, RoomInv

\* What the success handler makes of the page: the removals, then the rest.
LEMMA SuccessIs ==
  ASSUME TreeInv, NEW s \in Slots, Success(s)
  PROVE  \E rest :
           /\ Good(rest) /\ rest.dom \subseteq dom
           /\ Single(dom) => /\ Pruned(dom, rest.dom, reqs[s].answer.deleted)
                             /\ \A p \in reqs[s].answer.deleted : p \notin Shown(rest.dom)
           /\ dom' = (IF loaded THEN ProcessChildren(rest.dom, reqs[s].answer.pools)
                                ELSE RecursiveTree(reqs[s].answer.pools))
           /\ current' \in rest.next
<1> DEFINE a == reqs[s].answer
           start == [dom |-> dom, next |-> {current}]
<1>1. reqs[s] # None /\ a # None
  BY DEF Success, Busy
<1>2. a.deleted \in SUBSET AllPools
  BY <1>1 DEF TreeInv, ReqsInv, ReqOK, AnswerOK
<1>3. PICK update \in Updates(a) : dom' = update.dom /\ current' \in update.next
  BY DEF Success
<1>4. PICK rest \in {DeleteAll(start, order) : order \in Orders(a.deleted)} :
        update = [dom |-> IF loaded THEN ProcessChildren(rest.dom, a.pools) ELSE RecursiveTree(a.pools),
                  next |-> rest.next]
  BY <1>3 DEF Updates
<1>5. PICK order \in Orders(a.deleted) : rest = DeleteAll(start, order)
  BY <1>4
<1>6. DOMAIN order = 1..Cardinality(a.deleted) /\ Cardinality(a.deleted) \in Nat
  BY <1>2, <1>5, PoolsFinite DEF Orders
<1>7. Cardinality(DOMAIN order) \in Nat
  BY <1>6, FS_Interval
<1>8. Good(start) /\ start.dom = dom
  BY DEF TreeInv, PageInv, Good
<1> HIDE DEF start
<1>9. Good(rest) /\ rest.dom \subseteq dom
  BY <1>5, <1>7, <1>8, DeleteAllGood
<1>10. ASSUME Single(dom)
       PROVE  Pruned(dom, rest.dom, a.deleted) /\ \A p \in a.deleted : p \notin Shown(rest.dom)
  BY <1>2, <1>5, <1>7, <1>8, <1>10, DeleteAllPrunes
<1> QED
  BY <1>3, <1>4, <1>9, <1>10

\* An applied answer keeps the invariant: its request was pending for each new pool,
\* so that there was room for one more copy.
LEMMA SuccessStep == ASSUME TreeInv, NEW s \in Slots, Success(s) PROVE TreeInv'
<1> DEFINE list == reqs[s].answer.pools
<1>1. /\ reqs' = [reqs EXCEPT ![s] = None] /\ reqs[s] # None /\ reqs[s].answer # None
      /\ loaded' = TRUE /\ overlapped' = overlapped
      /\ pools' = pools /\ used' = used /\ granted' = granted /\ changes' = changes
  BY DEF Success, Busy, server
<1>2. /\ ListOK(list)
      /\ \A p \in AllPools : IsNew(list, p) => p \notin DOMAIN reqs[s].items
  BY <1>1 DEF TreeInv, ReqsInv, ReqOK, AnswerOK
<1>3. ReqsInv' /\ \A p : Pending(reqs', p) \subseteq Pending(reqs, p) /\ s \notin Pending(reqs', p)
  BY <1>1, SlotFree DEF TreeInv
<1>4. PICK rest :
        /\ Good(rest) /\ rest.dom \subseteq dom
        /\ dom' = (IF loaded THEN ProcessChildren(rest.dom, list) ELSE RecursiveTree(list))
        /\ current' \in rest.next
  BY SuccessIs
<1> HIDE DEF list
<1>5. MaxRequests \in Nat /\ \A p : Cardinality(Pending(reqs, p)) \in Nat
                               /\ Cardinality(Pending(reqs', p)) \in Nat
  BY SlotsFinite, PendingIs
<1>6. \A n \in dom : n.copy \in Nat /\ n.pool \in AllPools
                     /\ n.copy + Cardinality(Pending(reqs, n.pool)) <= MaxRequests
  BY DEF TreeInv, PageInv, RoomInv, Node
<1>7. PoolsInv'
  BY <1>1 DEF TreeInv, PoolsInv
<1>8. overlapped' \in BOOLEAN /\ loaded' = TRUE
  BY <1>1 DEF TreeInv, PageInv
<1>9. CASE ~loaded
  <2>1. dom' = RecursiveTree(list) /\ current' = None
    BY <1>4, <1>9 DEF TreeInv, PageInv, Good, Shown
  <2>2. /\ dom' \in SUBSET Node /\ Tree(dom')
        /\ \A n \in dom' : n.copy = 1
    BY <1>2, <2>1, RecursiveFits
  <2>3. PageInv'
    BY <1>8, <2>1, <2>2 DEF PageInv, Tree
  <2>4. ASSUME NEW n \in dom' PROVE n.copy + Cardinality(Pending(reqs', n.pool)) <= MaxRequests
    <3>1. Cardinality(Pending(reqs', n.pool)) + 1 <= MaxRequests /\ n.copy = 1
      BY <1>3, <2>2, OneFewer
    <3> QED
      BY <1>5, <3>1
  <2>5. RoomInv'
    BY <2>4 DEF RoomInv
  <2> QED
    BY <1>3, <1>7, <2>3, <2>5 DEF TreeInv
<1>10. CASE loaded
  <2> DEFINE d == rest.dom
             n0 == Cardinality(Pools)
  <2>1. d \in SUBSET Node /\ Tree(d) /\ d \subseteq dom /\ dom' = ProcessChildren(d, list)
    BY <1>4, <1>10 DEF Good
  <2>2. ASSUME NEW p \in AllPools, IsNew(list, p) PROVE s \in Pending(reqs, p)
    BY <1>1, <1>2, <2>2 DEF Pending
  <2>3. ASSUME NEW p \in AllPools, IsNew(list, p)
        PROVE  /\ Cardinality(Pending(reqs', p)) + 1 <= Cardinality(Pending(reqs, p))
               /\ Cardinality(Pending(reqs', p)) + 1 <= MaxRequests
    BY <1>3, <2>2, <2>3, OneFewer
  <2>4. HasRoom(d, list)
    <3> SUFFICES ASSUME NEW n \in d, IsNew(list, n.pool) PROVE n.copy + 1 <= MaxRequests
      BY DEF HasRoom
    <3>1. Cardinality(Pending(reqs', n.pool)) + 1 <= Cardinality(Pending(reqs, n.pool))
      BY <1>6, <2>1, <2>3
    <3>2. n.copy \in Nat /\ n.copy + Cardinality(Pending(reqs, n.pool)) <= MaxRequests
      BY <1>6, <2>1
    <3> QED
      BY <1>5, <3>1, <3>2
  <2>5. Grown(d, dom', list, n0)
    BY <1>2, <2>1, <2>4, ProcessChildrenFits
  <2>6. dom' \in SUBSET Node /\ Tree(dom') /\ Shown(d) \subseteq Shown(dom')
    BY <2>5 DEF Grown
  <2>7. current' \in Shown(dom') \cup {None}
    BY <1>4, <2>6 DEF Good
  <2>8. PageInv'
    BY <1>8, <2>6, <2>7 DEF PageInv, Tree, Shown
  <2>9. ASSUME NEW n \in dom' PROVE n.copy + Cardinality(Pending(reqs', n.pool)) <= MaxRequests
    <3>1. n.copy \in Nat /\ n.pool \in AllPools
      BY <2>6 DEF Node
    <3>2. CASE \E m \in d : Key(m) = Key(n)
      <4>1. PICK m \in d : m.pool = n.pool /\ m.copy = n.copy
        BY <3>2 DEF Key
      <4>2. n.copy + Cardinality(Pending(reqs, n.pool)) <= MaxRequests
        BY <1>6, <2>1, <4>1
      <4>3. Cardinality(Pending(reqs', n.pool)) <= Cardinality(Pending(reqs, n.pool))
        BY <1>3, NoMorePending
      <4> QED
        BY <1>5, <3>1, <4>2, <4>3
    <3>3. CASE IsNew(list, n.pool) /\ n.copy = 1
      BY <1>5, <2>3, <3>1, <3>3
    <3>4. CASE IsNew(list, n.pool) /\ \E m \in d : m.pool = n.pool /\ n.copy = m.copy + 1
      <4>1. PICK m \in d : m.pool = n.pool /\ n.copy = m.copy + 1
        BY <3>4
      <4>2. m.copy \in Nat /\ m.copy + Cardinality(Pending(reqs, n.pool)) <= MaxRequests
        BY <1>6, <2>1, <4>1
      <4>3. Cardinality(Pending(reqs', n.pool)) + 1 <= Cardinality(Pending(reqs, n.pool))
        BY <2>3, <3>1, <3>4
      <4> QED
        BY <1>5, <4>1, <4>2, <4>3
    <3> QED
      BY <2>5, <3>2, <3>3, <3>4 DEF Grown
  <2>10. RoomInv'
    BY <2>9 DEF RoomInv
  <2> QED
    BY <1>3, <1>7, <2>8, <2>10 DEF TreeInv
<1>11. loaded \in BOOLEAN
  BY DEF TreeInv, PageInv
<1> QED
  BY <1>9, <1>10, <1>11

\* The invariant is kept by every step.
LEMMA TreeStep == TreeInv /\ [Next]_vars => TreeInv'
<1> SUFFICES ASSUME TreeInv, [Next]_vars PROVE TreeInv'
  OBVIOUS
<1>1. ASSUME Administration PROVE TreeInv'
  BY <1>1, AdministrationStep
<1>2. ASSUME ProcessTree PROVE TreeInv'
  BY <1>2, ProcessTreeStep
<1>3. ASSUME NEW s \in Slots, Serve(s) PROVE TreeInv'
  BY <1>3, ServeStep
<1>4. ASSUME NEW s \in Slots, RequestFails(s) PROVE TreeInv'
  BY <1>4, RequestFailsStep
<1>5. ASSUME NEW s \in Slots, Success(s) PROVE TreeInv'
  BY <1>5, SuccessStep
<1>6. ASSUME NEW p \in AllPools, Click(p) PROVE TreeInv'
  BY <1>6, ClickStep
<1>7. ASSUME UNCHANGED vars PROVE TreeInv'
  BY <1>7 DEF vars, server, page, TreeInv, PoolsInv, PageInv, ReqsInv, RoomInv
<1> QED
  BY <1>1, <1>2, <1>3, <1>4, <1>5, <1>6, <1>7 DEF Next

\* It implies the types.
LEMMA TypesFollow == TreeInv => TypeOK
<1> SUFFICES ASSUME TreeInv PROVE TypeOK
  OBVIOUS
<1>1. /\ DOMAIN pools \subseteq AllPools
      /\ \A p \in DOMAIN pools : pools[p] \in [name : Names, parent : AllPools \cup {None},
                                               above : SUBSET AllPools]
      /\ used \subseteq Pools /\ granted \subseteq AllPools /\ changes \in 0..MaxChanges
  BY DEF TreeInv, PoolsInv, Forest
<1>2. \A n \in dom : /\ n.pool \in AllPools /\ n.copy \in 1..MaxRequests
                     /\ n.label \in Names /\ n.item \in Names
                     /\ n.path \in Seq(AllPools \X (1..MaxRequests))
  BY DEF TreeInv, PageInv, Node, Keys
<1>3. loaded \in BOOLEAN /\ overlapped \in BOOLEAN /\ current \in AllPools \cup {None}
  BY <1>2 DEF TreeInv, PageInv, Shown
<1> QED
  BY <1>1, <1>2, <1>3 DEF TypeOK

\* It implies that every node hangs under a node and the selected pool is shown.
LEMMA ShownFollows == TreeInv => CurrentIsShown
<1> SUFFICES ASSUME TreeInv PROVE CurrentIsShown
  OBVIOUS
<1>1. ASSUME NEW n \in dom, n.path # <<>>
      PROVE  \E m \in dom : n.path = Append(m.path, Key(m))
  <2> DEFINE s == n.path
             i == Len(s)
  <2>1. s \in Seq(Keys) /\ i \in DOMAIN s /\ i \in Nat
    BY <1>1 DEF TreeInv, PageInv, Node
  <2>2. PICK m \in dom : Key(m) = s[i] /\ m.path = SubSeq(s, 1, i - 1)
    BY <2>1 DEF TreeInv, PageInv, Tree
  <2>3. s = Append(SubSeq(s, 1, i - 1), s[i])
    BY <2>1
  <2> QED
    BY <2>2, <2>3
<1>2. current # None => current \in Shown(dom)
  BY DEF TreeInv, PageInv
<1> QED
  BY <1>1, <1>2 DEF CurrentIsShown

\* The types of the tree, with as many copies of a pool as requests may overlap.
THEOREM TreeTypeCorrect == Spec => []TypeOK
BY TreeInit, TreeStep, TypesFollow, PTL DEF Spec

\* After any answers in any order every node hangs under a node, and the pool
\* the user is looking at is shown.
THEOREM CurrentStaysShown == Spec => []CurrentIsShown
BY TreeInit, TreeStep, ShownFollows, PTL DEF Spec

-----------------------------------------------------------------------------
(***************************************************************************)
(* As long as requests do not overlap an answer leaves the tree it         *)
(* describes.  Hangs: how a pool of a list hangs under its parent.  The    *)
(* pools the user may see are closed: with one everything below it.        *)
(***************************************************************************)
Hangs(list, p) ==
  LET up == list[p].parent
  IN /\ up = None => list[p].above = {}
     /\ up # None => up \in list[p].above
     /\ up \in DOMAIN list => list[p].above = list[up].above \cup {up}
     /\ Above(list, p) # {} => up \in DOMAIN list
     /\ list[p].above = {Smart} \/ Smart \notin list[p].above
     /\ p \in {Root, Smart} => list[p].above = {}

Rooted(list) == \A p \in DOMAIN list : Hangs(list, p)

\* processChildren goes down far enough.
LEMMA LevelBound ==
  ASSUME NEW list, Forest(list), Rooted(list), NEW p \in DOMAIN list
  PROVE  Cardinality(list[p].above) <= Cardinality(Pools)
<1>1. /\ IsFiniteSet(Pools) /\ Cardinality(Pools) \in Nat
      /\ list[p].above \in SUBSET AllPools /\ p \in AllPools /\ p \notin list[p].above
  BY NavTreeAssumption, FS_CardinalityType DEF Forest, Nested
<1>2. CASE list[p].above = {}
  BY <1>1, <1>2, FS_EmptySet
<1>3. CASE list[p].above # {}
  <2>1. p \in Pools
    BY <1>1, <1>3 DEF Rooted, Hangs, AllPools
  <2>2. IsFiniteSet(Pools \ {p}) /\ Cardinality(Pools \ {p}) = Cardinality(Pools) - 1
    BY <1>1, <2>1, FS_RemoveElement
  <2>3. \A q \in {Root, Smart} : q \notin Pools \ {p}
    BY NavTreeAssumption
  <2>4. ASSUME NEW q \in {Root, Smart}
        PROVE  /\ IsFiniteSet((Pools \ {p}) \cup {q})
               /\ Cardinality((Pools \ {p}) \cup {q}) = Cardinality(Pools)
    <3>1. /\ IsFiniteSet((Pools \ {p}) \cup {q})
          /\ Cardinality((Pools \ {p}) \cup {q}) = Cardinality(Pools \ {p}) + 1
      BY <2>2, <2>3, FS_AddElement
    <3> QED
      BY <1>1, <2>2, <3>1
  <2>5. \E q \in {Root, Smart} : list[p].above \in SUBSET ((Pools \ {p}) \cup {q})
    BY <1>1 DEF Rooted, Hangs, AllPools
  <2> QED
    BY <2>4, <2>5, FS_Subset
<1> QED
  BY <1>2, <1>3

\* The node above a pool of the first answer is its parent's.
LEMMA RecursiveMatches ==
  ASSUME NEW list, ListOK(list), Rooted(list)
  PROVE  Matches(RecursiveTree(list), list)
<1> DEFINE d == RecursiveTree(list)
           Leaf(p) == [pool |-> p, copy |-> 1, label |-> list[p].name, item |-> list[p].name,
                       path |-> PathTo(list, p)]
<1>0. Forest(list)
  BY DEF ListOK
<1>1. d = {Leaf(p) : p \in DOMAIN list}
  BY DEF RecursiveTree, PathTo, At, Depth, Above
<1> HIDE DEF d
<1>2. ASSUME NEW p \in DOMAIN list PROVE Under(Leaf(p)) \in {None, list[p].parent}
  <2> DEFINE z == Depth(list, p)
             up == list[p].parent
  <2>1. z \in Nat /\ IsFiniteSet(Above(list, p)) /\ z = Cardinality(Above(list, p))
    BY <1>0, DepthIs DEF Depth
  <2>2. PathTo(list, p) \in Seq(Keys) /\ DOMAIN PathTo(list, p) = 1..z
    BY <1>0, PathOK
  <2>3. CASE PathTo(list, p) = <<>>
    BY <2>3 DEF Under
  <2>4. CASE PathTo(list, p) # <<>>
    <3>1. Len(PathTo(list, p)) = z /\ z # 0
      BY <2>1, <2>2, <2>4
    <3>2. Above(list, p) # {}
      BY <2>1, <3>1, FS_EmptySet
    <3>3. up \in DOMAIN list /\ list[p].above = list[up].above \cup {up}
      BY <3>2 DEF Rooted, Hangs
    <3>4. up \notin list[up].above
      BY <1>0, <3>3 DEF Forest, Nested
    <3>5. up \in Above(list, p) /\ Above(list, up) = Above(list, p) \ {up}
      BY <3>3, <3>4 DEF Above
    <3>6. Depth(list, up) = z - 1
      <4>1. \A S : IsFiniteSet(S) /\ up \in S => Cardinality(S \ {up}) = Cardinality(S) - 1
        BY FS_RemoveElement
      <4>2. Cardinality(Above(list, p) \ {up}) = Cardinality(Above(list, p)) - 1
        BY <2>1, <3>5, <4>1
      <4>3. Depth(list, up) = Cardinality(Above(list, up))
        BY DEF Depth
      <4> QED
        BY <2>1, <3>5, <4>2, <4>3
    <3>7. z - 1 \in Nat /\ z - 1 < z /\ z \in 1..z
      BY <2>1, <3>1
    <3>8. At(list, p, z - 1) = up
      BY <1>0, <3>5, <3>6, <3>7, AtIs, OneAtADepth
    <3>9. PathTo(list, p)[z] = <<up, 1>>
      BY <3>7, <3>8 DEF PathTo
    <3>10. Under(Leaf(p)) = PathTo(list, p)[Len(PathTo(list, p))][1]
      BY <2>4 DEF Under
    <3> QED
      BY <3>1, <3>9, <3>10
  <2> QED
    BY <2>3, <2>4
<1>3. ASSUME NEW p \in DOMAIN list
      PROVE  /\ Leaf(p).pool = p /\ Leaf(p).label = list[p].name /\ Leaf(p).item = list[p].name
  OBVIOUS
<1> HIDE DEF Leaf
<1>4. ASSUME NEW n \in d
      PROVE  /\ n.pool \in DOMAIN list /\ n = Leaf(n.pool)
  BY <1>1, <1>3
<1>5. ASSUME NEW n \in d PROVE Copies(d, n.pool) = {n}
  BY <1>4 DEF Copies
<1>6. \A p \in DOMAIN list : p \in Shown(d)
  BY <1>1, <1>3 DEF Shown
<1>7. ASSUME NEW n \in d
      PROVE  n.label = list[n.pool].name /\ n.item = n.label /\ Under(n) \in {None, list[n.pool].parent}
  BY <1>2, <1>3, <1>4
<1>8. Matches(d, list)
  BY <1>4, <1>5, <1>6, <1>7 DEF Matches
<1> QED
  BY <1>8 DEF d

\* The pruned tree and the list fit: nothing shown is new, what is not changed
\* has the name it has in the list, and everything is under its parent.
Updatable(d, list) ==
  /\ Single(d)
  /\ \A n \in d :
       /\ n.pool \in DOMAIN list /\ ~IsNew(list, n.pool)
       /\ n.label = n.item
       /\ list[n.pool].state = "unchanged" => n.item = list[n.pool].name
       /\ Under(n) \in {None, list[n.pool].parent}

\* e: the tree after k levels.
Exact(d, e, list, k) ==
  /\ Single(e)
  /\ \A n \in e :
       /\ n.pool \in DOMAIN list
       /\ n.label = list[n.pool].name /\ n.item = n.label
       /\ Under(n) \in {None, list[n.pool].parent}
       /\ n.pool \in Shown(d) \/ (IsNew(list, n.pool) /\ Cardinality(list[n.pool].above) <= k)
  /\ \A p \in DOMAIN list :
       IsNew(list, p) /\ Cardinality(list[p].above) <= k =>
         p \in Shown(e) \/ list[p].parent \notin Shown(e)

\* Changed names: all nodes have the names of the list.
LEMMA UpdateExact ==
  ASSUME NEW list, ListOK(list), Rooted(list), NEW d \in SUBSET Node, Updatable(d, list)
  PROVE  Exact(d, UpdateChanged(d, list), list, 0)
<1> DEFINE Updated(n) ==
             IF n.pool \in DOMAIN list /\ list[n.pool].state = "changed"
             THEN [n EXCEPT !.item = list[n.pool].name,
                            !.label = IF n = First(d, n.pool) THEN list[n.pool].name ELSE @]
             ELSE n
           e == UpdateChanged(d, list)
<1>1. e = {Updated(n) : n \in d}
  BY DEF UpdateChanged
<1>2. ASSUME NEW n \in d
      PROVE  /\ Updated(n).pool = n.pool /\ Updated(n).path = n.path
             /\ Updated(n).label = list[n.pool].name /\ Updated(n).item = list[n.pool].name
             /\ n.pool \in DOMAIN list /\ n.pool \in Shown(d) /\ n.pool \in AllPools
             /\ Under(n) \in {None, list[n.pool].parent}
  <2>1. n \in Node /\ n.pool \in Shown(d) /\ n.pool \in DOMAIN list
    BY DEF Shown, Updatable
  <2>2. n = First(d, n.pool)
    BY <2>1, FirstIs DEF Updatable, Single
  <2>3. list[n.pool].state \in {"changed", "unchanged"}
    BY <2>1 DEF ListOK, Updatable, IsNew
  <2>4. CASE list[n.pool].state = "changed"
    <3>1. Updated(n) = [n EXCEPT !.item = list[n.pool].name, !.label = list[n.pool].name]
      BY <2>1, <2>2, <2>4
    <3> QED
      BY <2>1, <3>1 DEF Node, Updatable
  <2>5. CASE list[n.pool].state = "unchanged"
    <3>1. Updated(n) = n
      BY <2>5
    <3>2. n.label = list[n.pool].name /\ n.item = list[n.pool].name
      BY <2>5 DEF Updatable
    <3> QED
      BY <2>1, <3>1, <3>2 DEF Node, Updatable
  <2> QED
    BY <2>3, <2>4, <2>5
<1> HIDE DEF Updated, e
<1>3. ASSUME NEW n \in e
      PROVE  \E m \in d : n = Updated(m) /\ n.pool = m.pool /\ n.path = m.path
  BY <1>1, <1>2
<1>4. Single(e)
  BY <1>3 DEF Updatable, Single
<1>5. ASSUME NEW n \in e
      PROVE  /\ n.pool \in DOMAIN list /\ n.label = list[n.pool].name /\ n.item = n.label
             /\ Under(n) \in {None, list[n.pool].parent}
             /\ n.pool \in Shown(d) /\ n.pool \in AllPools
  <2>1. PICK m \in d : n = Updated(m) /\ n.pool = m.pool /\ n.path = m.path
    BY <1>3
  <2>2. Under(n) = Under(m)
    BY <2>1 DEF Under
  <2> QED
    BY <1>2, <2>1, <2>2
<1>6. ASSUME NEW p \in DOMAIN list, Cardinality(list[p].above) <= 0
      PROVE  list[p].parent \notin Shown(e)
  <2>1. Cardinality(list[p].above) \in Nat /\ IsFiniteSet(list[p].above)
    BY PoolsFinite DEF ListOK, Forest
  <2>2. list[p].above = {}
    BY <1>6, <2>1, FS_EmptySet
  <2>3. list[p].parent = None
    BY <2>2 DEF Rooted, Hangs
  <2>4. None \notin Shown(e)
    BY <1>5, NavTreeAssumption DEF Shown, AllPools
  <2> QED
    BY <2>3, <2>4
<1> QED
  BY <1>4, <1>5, <1>6 DEF Exact, e

\* One more level is complete: its new pools are shown where their parents are,
\* and no parent comes after its children.
LEMMA AppendExact ==
  ASSUME NEW list, ListOK(list), Rooted(list), NEW d \in SUBSET Node, Updatable(d, list),
         NEW e \in SUBSET Node, NEW k \in Nat \ {0}, Exact(d, e, list, k - 1)
  PROVE  Exact(d, AppendLevel(e, list, k), list, k)
<1> DEFINE f == AppendLevel(e, list, k)
           A == {p \in Level(list, k) : list[p].parent \in Shown(e)}
<1>1. /\ \A n \in f : n \in e \/ \E p \in A : n = NewNode(e, list, p)
      /\ \A p \in A : NewNode(e, list, p) \in f
  BY DEF AppendLevel, AppendNew, NewNode
<1>2. e \subseteq f
  BY DEF AppendLevel
<1> HIDE DEF f
<1>3. ASSUME NEW p \in A
      PROVE  /\ IsNew(list, p) /\ Cardinality(list[p].above) = k /\ p \notin Shown(e)
             /\ NewNode(e, list, p).pool = p
             /\ NewNode(e, list, p).label = list[p].name /\ NewNode(e, list, p).item = list[p].name
             /\ Under(NewNode(e, list, p)) = list[p].parent
  <2> DEFINE up == First(e, list[p].parent)
             n == NewNode(e, list, p)
  <2>1. IsNew(list, p) /\ Cardinality(list[p].above) = k
    BY DEF Level, IsNew
  <2>2. ~(Cardinality(list[p].above) <= k - 1)
    BY <2>1
  <2>3. p \notin Shown(d)
    BY <2>1 DEF Updatable, Shown
  <2>4. p \notin Shown(e)
    BY <2>2, <2>3 DEF Exact, Shown
  <2>5. up \in e /\ up.pool = list[p].parent
    BY FirstIs
  <2>6. up.path \in Seq(Keys) /\ Key(up) \in Keys
    BY <2>5 DEF Node, Key, Keys
  <2>7. /\ n.pool = p /\ n.label = list[p].name /\ n.item = list[p].name
        /\ n.path = Append(up.path, Key(up))
    BY DEF NewNode
  <2> HIDE DEF n, up
  <2>8. n.path # <<>> /\ n.path[Len(n.path)] = Key(up)
    <3>1. ASSUME NEW s \in Seq(Keys), NEW b \in Keys
          PROVE  Append(s, b) # <<>> /\ Append(s, b)[Len(Append(s, b))] = b
      OBVIOUS
    <3> QED
      BY <2>6, <2>7, <3>1
  <2>9. Under(n) = up.pool
    BY <2>8 DEF Under, Key
  <2> QED
    BY <2>1, <2>4, <2>5, <2>7, <2>9 DEF n
<1>4. ASSUME NEW n \in f, NEW m \in f, n.pool = m.pool PROVE n = m
  <2>1. n \in e /\ m \in e => n = m
    BY <1>4 DEF Exact, Single
  <2>2. \A p \in A : n = NewNode(e, list, p) => n.pool = p /\ m \notin e
    BY <1>3, <1>4 DEF Shown
  <2>3. \A p \in A : m = NewNode(e, list, p) => m.pool = p /\ n \notin e
    BY <1>3, <1>4 DEF Shown
  <2> QED
    BY <1>1, <1>4, <2>1, <2>2, <2>3
<1>5. ASSUME NEW n \in f
      PROVE  /\ n.pool \in DOMAIN list
             /\ n.label = list[n.pool].name /\ n.item = n.label
             /\ Under(n) \in {None, list[n.pool].parent}
             /\ n.pool \in Shown(d) \/ (IsNew(list, n.pool) /\ Cardinality(list[n.pool].above) <= k)
  <2>1. CASE n \in e
    <3>1. /\ n.pool \in DOMAIN list
          /\ n.label = list[n.pool].name /\ n.item = n.label
          /\ Under(n) \in {None, list[n.pool].parent}
          /\ n.pool \in Shown(d) \/ (IsNew(list, n.pool) /\ Cardinality(list[n.pool].above) <= k - 1)
      BY <2>1 DEF Exact
    <3>2. Cardinality(list[n.pool].above) \in Nat
      BY <3>1, SizeAbove
    <3>3. Cardinality(list[n.pool].above) <= k - 1 => Cardinality(list[n.pool].above) <= k
      BY <3>2
    <3> QED
      BY <3>1, <3>3
  <2>2. CASE n \notin e
    <3>1. PICK p \in A : n = NewNode(e, list, p)
      BY <1>1, <2>2
    <3>2. k <= k
      OBVIOUS
    <3>3. /\ IsNew(list, p) /\ Cardinality(list[p].above) <= k /\ n.pool = p
          /\ n.label = list[p].name /\ n.item = list[p].name /\ Under(n) = list[p].parent
      BY <1>3, <3>1, <3>2
    <3> QED
      BY <3>3 DEF IsNew
  <2> QED
    BY <2>1, <2>2
<1>6. ASSUME NEW p \in DOMAIN list, IsNew(list, p), Cardinality(list[p].above) <= k
      PROVE  p \in Shown(f) \/ list[p].parent \notin Shown(f)
  <2> DEFINE up == list[p].parent
             c == Cardinality(list[p].above)
  <2>1. c \in Nat
    BY SizeAbove
  <2>2. ASSUME up \in Shown(f), up \notin Shown(e) PROVE FALSE
    <3>1. PICK q \in A : up = q
      BY <1>1, <1>3, <2>2 DEF Shown
    <3>2. up \in DOMAIN list /\ Cardinality(list[up].above) = k
      BY <1>3, <3>1 DEF IsNew
    <3>3. list[p].above = list[up].above \cup {up} /\ up \notin list[up].above
      BY <3>2 DEF Rooted, Hangs, ListOK, Forest, Nested
    <3>4. IsFiniteSet(list[up].above)
      BY <3>2, PoolsFinite DEF ListOK, Forest
    <3>5. c = k + 1
      BY <3>2, <3>3, <3>4, FS_AddElement
    <3> QED
      BY <1>6, <3>5
  <2>3. CASE c <= k - 1
    <3>1. p \in Shown(e) \/ up \notin Shown(e)
      BY <1>6, <2>3 DEF Exact
    <3>2. p \in Shown(e) => p \in Shown(f)
      BY <1>2 DEF Shown
    <3> QED
      BY <2>2, <3>1, <3>2
  <2>4. CASE c = k
    <3>1. p \in Level(list, k)
      BY <1>6, <2>4 DEF Level, IsNew
    <3>2. up \in Shown(e) => p \in Shown(f)
      BY <1>1, <1>3, <3>1 DEF Shown
    <3> QED
      BY <2>2, <3>2
  <2>5. c <= k - 1 \/ c = k
    BY <1>6, <2>1
  <2> QED
    BY <2>3, <2>4, <2>5
<1>7. Single(f)
  BY <1>4 DEF Single
<1> QED
  BY <1>5, <1>6, <1>7 DEF Exact, f

\* All levels are complete.
LEMMA ProcessChildrenExact ==
  ASSUME NEW list, ListOK(list), Rooted(list), NEW d \in SUBSET Node, Tree(d),
         HasRoom(d, list), Updatable(d, list)
  PROVE  /\ Exact(d, ProcessChildren(d, list), list, Cardinality(Pools))
         /\ Shown(d) \subseteq Shown(ProcessChildren(d, list))
<1> DEFINE n == Cardinality(Pools)
<1>1. n \in Nat
  BY ProcessChildrenIs
<1>2. PICK f : /\ f[0] = UpdateChanged(d, list) /\ f[n] = ProcessChildren(d, list)
               /\ \A k \in 1..n : f[k] = AppendLevel(f[k - 1], list, k)
  BY ProcessChildrenIs
<1> DEFINE D == {k \in 0..n : ~(Grown(d, f[k], list, k) /\ Exact(d, f[k], list, k))}
<1>3. Exact(d, f[0], list, 0)
  BY <1>2, UpdateExact
<1>4. Grown(d, f[0], list, 0)
  <2> DEFINE e == f[0]
  <2>1. /\ e \in SUBSET Node /\ Tree(e)
        /\ \A m \in e : \E j \in d : Key(j) = Key(m)
        /\ \A j \in d : \E m \in e : Key(j) = Key(m)
    BY <1>2, UpdateFits
  <2> HIDE DEF e
  <2>2. Shown(d) \subseteq Shown(e)
    BY <2>1 DEF Shown, Key
  <2> QED
    BY <2>1, <2>2 DEF Grown, e
<1>5. D = {}
  <2> SUFFICES ASSUME D # {} PROVE FALSE
    OBVIOUS
  <2>1. D \in SUBSET Nat
    OBVIOUS
  <2> HIDE DEF D
  <2>2. PICK k \in D : \A j \in D : k <= j
    BY <2>1, LeastNumber
  <2>3. k \in 0..n /\ ~(Grown(d, f[k], list, k) /\ Exact(d, f[k], list, k))
    BY DEF D
  <2>4. k # 0
    BY <1>3, <1>4, <2>3
  <2>5. k - 1 \in 0..n /\ ~(k <= k - 1) /\ k \in Nat \ {0} /\ k \in 1..n
    BY <1>1, <2>3, <2>4
  <2>6. Grown(d, f[k - 1], list, k - 1) /\ Exact(d, f[k - 1], list, k - 1)
    BY <2>2, <2>5 DEF D
  <2>7. f[k] = AppendLevel(f[k - 1], list, k) /\ f[k - 1] \in SUBSET Node
    BY <1>2, <2>5, <2>6 DEF Grown
  <2>8. Grown(d, f[k], list, k)
    BY <2>5, <2>6, <2>7, AppendFits
  <2>9. Exact(d, f[k], list, k)
    BY <2>5, <2>6, <2>7, AppendExact
  <2> QED
    BY <2>3, <2>8, <2>9
<1>6. n \in 0..n
  BY <1>1
<1> QED
  BY <1>2, <1>5, <1>6 DEF Grown

-----------------------------------------------------------------------------
(***************************************************************************)
(* What a request carries, as long as there is one at a time.              *)
(***************************************************************************)
\* The answer is the difference between the items and the pools it lists.
Described(r) ==
  LET list == r.answer.pools
  IN /\ Rooted(list)
     /\ r.answer.deleted = DOMAIN r.items \ DOMAIN list
     /\ \A p \in DOMAIN list :
          /\ list[p].state = IF p = Smart THEN "unchanged"
                             ELSE IF p \notin DOMAIN r.items THEN "new"
                             ELSE IF r.items[p] = list[p].name THEN "unchanged" ELSE "changed"
          /\ p = Smart => list[p].name = FirstName

\* Pools do not move.
Unmoved(list) ==
  \A p \in DOMAIN list : /\ p \in used \cup {Root, Smart}
                         /\ p \in DOMAIN pools => pools[p].parent = list[p].parent

\* The items are those of the page, which has not changed since.
Submitted(r, d) ==
  /\ DOMAIN r.items = Shown(d) /\ \A n \in d : r.items[n.pool] = n.item
  /\ r.answer # None => \A n \in d :
       n.pool \in DOMAIN r.answer.pools => Under(n) \in {None, r.answer.pools[n.pool].parent}

Placed(n) ==
  /\ n.label = n.item
  /\ n.pool = Smart => n.item = FirstName
  /\ n.pool \in used \cup {Root, Smart}
  /\ n.pool \in DOMAIN pools => Under(n) \in {None, pools[n.pool].parent}

RootedInv ==
  /\ Rooted(pools)
  /\ \A p \in DOMAIN pools : pools[p].parent # None => pools[p].parent \in DOMAIN pools
  /\ Smart \in DOMAIN pools /\ pools[Smart].name = FirstName

AnswersInv ==
  \A s \in Slots :
    reqs[s] # None /\ reqs[s].answer # None =>
      Described(reqs[s]) /\ Unmoved(reqs[s].answer.pools)

OneAtATime ==
  /\ \A s, t \in Slots : reqs[s] # None /\ reqs[t] # None => s = t
  /\ Single(dom)
  /\ \A n \in dom : Placed(n)
  /\ \A s \in Slots : reqs[s] # None => Submitted(reqs[s], dom)

MatchInv == RootedInv /\ AnswersInv /\ (~overlapped => OneAtATime)

\* The success handler leaves the tree of the answer.
LEMMA SuccessMatches ==
  ASSUME TreeInv, MatchInv, ~overlapped, NEW s \in Slots, Success(s)
  PROVE  Matches(dom', reqs[s].answer.pools)
<1> DEFINE r == reqs[s]
           list == r.answer.pools
<1>1. r # None /\ r.answer # None
  BY DEF Success, Busy
<1>2. /\ ListOK(list) /\ Forest(list)
      /\ \A p \in AllPools : IsNew(list, p) => p \notin DOMAIN r.items
  BY <1>1 DEF TreeInv, ReqsInv, ReqOK, AnswerOK, ListOK
<1>3. Described(r) /\ Rooted(list)
  BY <1>1 DEF MatchInv, AnswersInv, Described
<1>4. CASE ~loaded
  <2>1. dom' = RecursiveTree(list)
    BY <1>4, SuccessIs
  <2> QED
    BY <1>2, <1>3, <2>1, RecursiveMatches
<1>5. CASE loaded
  <2>1. Single(dom) /\ Submitted(r, dom) /\ \A n \in dom : Placed(n)
    BY <1>1 DEF MatchInv, OneAtATime
  <2>2. PICK rest :
          /\ Good(rest) /\ rest.dom \subseteq dom
          /\ Pruned(dom, rest.dom, r.answer.deleted)
          /\ \A p \in r.answer.deleted : p \notin Shown(rest.dom)
          /\ dom' = ProcessChildren(rest.dom, list)
    BY <1>5, <2>1, SuccessIs
  <2> DEFINE d == rest.dom
  <2>3. d \in SUBSET Node /\ Tree(d) /\ d \subseteq dom /\ dom \in SUBSET Node
    BY <2>2 DEF Good, TreeInv, PageInv
  <2>4. HasRoom(d, list)
    <3> SUFFICES ASSUME NEW n \in d, IsNew(list, n.pool) PROVE n.copy + 1 <= MaxRequests
      BY DEF HasRoom
    <3>1. n.pool \in AllPools /\ n.pool \in DOMAIN r.items
      BY <2>1, <2>3 DEF Node, Submitted, Shown
    <3> QED
      BY <1>2, <3>1
  <2>5. Updatable(d, list)
    <3>1. Single(d)
      BY <2>1, <2>3 DEF Single
    <3>2. ASSUME NEW n \in d
          PROVE  /\ n.pool \in DOMAIN list /\ ~IsNew(list, n.pool)
                 /\ n.label = n.item
                 /\ list[n.pool].state = "unchanged" => n.item = list[n.pool].name
                 /\ Under(n) \in {None, list[n.pool].parent}
      <4>1. n \in dom /\ n.pool \in Shown(d) /\ n.pool \in AllPools
        BY <2>3 DEF Shown, Node
      <4>2. n.pool \in DOMAIN r.items /\ r.items[n.pool] = n.item
        BY <2>1, <4>1 DEF Submitted, Shown
      <4>3. n.pool \notin r.answer.deleted
        BY <2>2, <4>1
      <4>4. n.pool \in DOMAIN list
        BY <1>3, <4>2, <4>3 DEF Described
      <4>5. Under(n) \in {None, list[n.pool].parent}
        BY <1>1, <2>1, <4>1, <4>4 DEF Submitted
      <4>6. n.label = n.item /\ (n.pool = Smart => n.item = FirstName)
        BY <2>1, <4>1 DEF Placed
      <4>7. list[n.pool].state = "unchanged" => n.item = list[n.pool].name
        BY <1>3, <4>2, <4>4, <4>6 DEF Described
      <4>8. ~IsNew(list, n.pool)
        BY <1>2, <4>1, <4>2
      <4> QED
        BY <4>4, <4>5, <4>6, <4>7, <4>8
    <3> QED
      BY <3>1, <3>2 DEF Updatable
  <2>6. Exact(d, dom', list, Cardinality(Pools)) /\ Shown(d) \subseteq Shown(dom')
    BY <1>2, <1>3, <2>2, <2>3, <2>4, <2>5, ProcessChildrenExact
  <2>7. ASSUME NEW n \in dom'
        PROVE  /\ n.pool \in DOMAIN list /\ Copies(dom', n.pool) = {n}
               /\ n.label = list[n.pool].name /\ n.item = n.label
               /\ Under(n) \in {None, list[n.pool].parent}
    BY <2>6 DEF Exact, Single, Copies
  <2>8. None \notin Shown(dom') /\ None \notin Shown(dom)
    <3>1. \A p \in Shown(dom') \cup Shown(dom) : p \in AllPools
      BY <1>2, <2>3, <2>7 DEF Shown, Node, Forest
    <3> QED
      BY <3>1, NavTreeAssumption DEF AllPools
  <2>9. ASSUME NEW p \in DOMAIN list PROVE p \in Shown(dom') \/ list[p].parent \notin Shown(dom')
    <3>1. CASE IsNew(list, p)
      BY <1>2, <1>3, <2>6, <3>1, LevelBound DEF Exact
    <3>2. CASE p = Smart
      <4>1. list[p].parent = None
        BY <1>3, <3>2 DEF Rooted, Hangs
      <4> QED
        BY <2>8, <4>1
    <3>3. CASE ~IsNew(list, p) /\ p # Smart
      <4>1. p \in DOMAIN r.items
        BY <1>3, <3>3 DEF Described, IsNew
      <4>2. PICK n \in dom : n.pool = p
        BY <2>1, <4>1 DEF Submitted, Shown
      <4>3. CASE n \in d
        BY <2>6, <4>2, <4>3 DEF Shown
      <4>4. CASE n \notin d
        <5>1. p \notin r.answer.deleted
          BY <1>3 DEF Described
        <5>2. Under(n) \in Shown(dom) \ Shown(d)
          BY <2>2, <4>2, <4>4, <5>1 DEF Pruned
        <5>3. Under(n) \in {None, list[p].parent}
          BY <1>1, <2>1, <4>2 DEF Submitted
        <5>4. list[p].parent \in Shown(dom) /\ list[p].parent \notin Shown(d)
          BY <2>8, <5>2, <5>3
        <5>5. list[p].parent \in DOMAIN r.items /\ list[p].parent \in AllPools
          BY <2>1, <2>3, <5>4 DEF Submitted, Shown, Node
        <5>6. ~IsNew(list, list[p].parent)
          BY <1>2, <5>5
        <5> QED
          BY <2>6, <5>4, <5>6 DEF Exact, Shown
      <4> QED
        BY <4>3, <4>4
    <3> QED
      BY <3>1, <3>2, <3>3
  <2> QED
    BY <2>7, <2>9 DEF Matches
<1>6. loaded \in BOOLEAN
  BY DEF TreeInv, PageInv
<1> QED
  BY <1>4, <1>5, <1>6

\* Nothing is shown or asked for at first.
LEMMA MatchInit == Init => MatchInv
<1> SUFFICES ASSUME Init PROVE MatchInv
  OBVIOUS
<1>1. /\ DOMAIN pools = {Root, Smart}
      /\ \A p \in {Root, Smart} : pools[p] = [name |-> FirstName, parent |-> None, above |-> {}]
      /\ dom = {} /\ \A s \in Slots : reqs[s] = None
  BY DEF Init
<1>2. RootedInv
  BY <1>1, NavTreeAssumption DEF RootedInv, Rooted, Hangs, Above, AllPools
<1>3. AnswersInv /\ OneAtATime
  BY <1>1 DEF AnswersInv, OneAtATime, Single
<1> QED
  BY <1>2, <1>3 DEF MatchInv

\* Whatever becomes of the pools, none gets another parent.
LEMMA NothingMoves ==
  ASSUME PoolsInv, AnswersInv, ~overlapped => OneAtATime,
         dom' = dom, reqs' = reqs, overlapped' = overlapped, used \subseteq used',
         \A p \in DOMAIN pools' :
           \/ p \in DOMAIN pools /\ pools'[p].parent = pools[p].parent
           \/ p \notin used \cup {Root, Smart}
  PROVE  AnswersInv' /\ (~overlapped => OneAtATime)'
<1>1. \A list : Unmoved(list) =>
        \A p \in DOMAIN list : /\ p \in used' \cup {Root, Smart}
                               /\ p \in DOMAIN pools' => pools'[p].parent = list[p].parent
  BY DEF Unmoved
<1>2. AnswersInv'
  BY <1>1 DEF AnswersInv, Described, Unmoved
<1>3. ASSUME NEW n \in dom, Placed(n)
      PROVE  /\ n.label = n.item /\ (n.pool = Smart => n.item = FirstName)
             /\ n.pool \in used' \cup {Root, Smart}
             /\ n.pool \in DOMAIN pools' => Under(n) \in {None, pools'[n.pool].parent}
  BY <1>3 DEF Placed
<1>4. ASSUME OneAtATime PROVE OneAtATime'
  <2>1. \A n \in dom : Placed(n)'
    BY <1>3, <1>4 DEF OneAtATime, Placed
  <2> QED
    BY <1>4, <2>1 DEF OneAtATime, Submitted
<1> QED
  BY <1>2, <1>4

\* Answers that were there already, or that go, change nothing for the answers.
LEMMA AnswersKept ==
  ASSUME AnswersInv, pools' = pools, used' = used,
         \A s \in Slots : reqs'[s] # None /\ reqs'[s].answer # None => reqs'[s] = reqs[s]
  PROVE  AnswersInv'
<1>1. ASSUME NEW s \in Slots, reqs'[s] # None, reqs'[s].answer # None
      PROVE  (Described(reqs[s]) /\ Unmoved(reqs[s].answer.pools))'
  <2>1. reqs'[s] = reqs[s]
    BY <1>1
  <2>2. Described(reqs[s]) /\ Unmoved(reqs[s].answer.pools)
    BY <1>1, <2>1 DEF AnswersInv
  <2>3. Described(reqs[s])'
    BY <2>1, <2>2 DEF Described
  <2>4. Unmoved(reqs[s].answer.pools)'
    BY <2>1, <2>2 DEF Unmoved
  <2> QED
    BY <2>3, <2>4
<1> QED
  BY <1>1 DEF AnswersInv

\* A pool that is created was in no answer and in no tree.
LEMMA CreatePoolMatch ==
  ASSUME TreeInv, MatchInv, NEW p \in Pools, NEW up \in AllPools, CreatePool(p, up)
  PROVE  MatchInv'
<1> DEFINE new == [name |-> FirstName, parent |-> up, above |-> pools[up].above \cup {up}]
<1>1. /\ p \notin used \cup {Root, Smart} /\ up \in DOMAIN pools /\ Smart \notin pools[up].above
      /\ DOMAIN pools' = DOMAIN pools \cup {p}
      /\ \A q \in DOMAIN pools : q # p /\ pools'[q] = pools[q]
      /\ pools'[p] = new
      /\ used \subseteq used' /\ dom' = dom /\ reqs' = reqs /\ overlapped' = overlapped
  <2>1. p \in Pools \ used /\ up \in DOMAIN pools /\ Smart \notin pools[up].above
    BY DEF CreatePool
  <2>2. p \notin DOMAIN pools
    BY <2>1, NavTreeAssumption DEF TreeInv, PoolsInv
  <2> QED
    BY <2>1, <2>2, NavTreeAssumption DEF CreatePool, page
<1>2. new.parent = up /\ new.above = pools[up].above \cup {up}
  OBVIOUS
<1> HIDE DEF new
<1>3. ASSUME NEW q \in DOMAIN pools
      PROVE  /\ Hangs(pools, q)
             /\ pools[q].parent # None => pools[q].parent \in DOMAIN pools
             /\ pools[q].parent # p /\ p \notin pools[q].above
  <2>1. p \notin DOMAIN pools
    BY <1>1
  <2>2. p # None
    BY NavTreeAssumption
  <2> QED
    BY <1>1, <2>1, <2>2 DEF MatchInv, RootedInv, Rooted, TreeInv, PoolsInv
<1>4. ASSUME NEW q \in DOMAIN pools PROVE Hangs(pools', q)
  <2>1. pools'[q] = pools[q] /\ Above(pools', q) = Above(pools, q)
    BY <1>1, <1>3 DEF Above
  <2>2. pools[q].parent \in DOMAIN pools' =>
          pools[q].parent \in DOMAIN pools /\ pools'[pools[q].parent] = pools[pools[q].parent]
    BY <1>1, <1>3
  <2> QED
    BY <1>1, <1>3, <2>1, <2>2 DEF Hangs
<1>5. Hangs(pools', p)
  <2>1. up # None /\ up \in DOMAIN pools' /\ pools'[up] = pools[up]
    BY <1>1, NavTreeAssumption DEF AllPools
  <2>2. up = Smart => pools[up].above = {}
    BY <1>1, <1>3 DEF Hangs
  <2>3. pools'[p].above = {Smart} \/ Smart \notin pools'[p].above
    BY <1>1, <1>2, <2>2
  <2>4. p \notin {Root, Smart}
    BY <1>1
  <2> QED
    BY <1>1, <1>2, <2>1, <2>3, <2>4 DEF Hangs
<1>6. RootedInv'
  <2>1. Rooted(pools')
    BY <1>1, <1>4, <1>5 DEF Rooted
  <2>2. \A q \in DOMAIN pools' : pools'[q].parent # None => pools'[q].parent \in DOMAIN pools'
    BY <1>1, <1>2, <1>3
  <2> QED
    BY <1>1, <2>1, <2>2 DEF MatchInv, RootedInv
<1>7. AnswersInv' /\ (~overlapped => OneAtATime)'
  BY <1>1, NothingMoves DEF TreeInv, MatchInv
<1> QED
  BY <1>6, <1>7 DEF MatchInv

\* A new name moves no pool.
LEMMA RenamePoolMatch ==
  ASSUME TreeInv, MatchInv, NEW p \in AllPools, NEW name \in Names, RenamePool(p, name)
  PROVE  MatchInv'
<1>1. /\ DOMAIN pools' = DOMAIN pools
      /\ \A q \in DOMAIN pools :
           /\ pools'[q].above = pools[q].above /\ pools'[q].parent = pools[q].parent
           /\ q = Smart => pools'[q].name = pools[q].name
      /\ used' = used /\ dom' = dom /\ reqs' = reqs /\ overlapped' = overlapped
  BY DEF RenamePool, page, TreeInv, PoolsInv
<1>2. ASSUME NEW q \in DOMAIN pools PROVE Hangs(pools', q)
  <2>1. Hangs(pools, q)
    BY DEF MatchInv, RootedInv, Rooted
  <2>2. pools'[q].above = pools[q].above /\ pools'[q].parent = pools[q].parent
    BY <1>1
  <2> QED
    BY <1>1, <2>1, <2>2 DEF Hangs, Above
<1>3. RootedInv'
  BY <1>1, <1>2 DEF MatchInv, RootedInv, Rooted
<1>4. AnswersInv' /\ (~overlapped => OneAtATime)'
  BY <1>1, NothingMoves DEF TreeInv, MatchInv
<1> QED
  BY <1>3, <1>4 DEF MatchInv

\* A pool that is deleted has nothing under it.
LEMMA DestroyPoolMatch ==
  ASSUME TreeInv, MatchInv, NEW p \in Pools, DestroyPool(p)
  PROVE  MatchInv'
<1>1. /\ DOMAIN pools' = DOMAIN pools \ {p} /\ \A q \in DOMAIN pools : pools[q].parent # p
      /\ \A q \in DOMAIN pools' : q \in DOMAIN pools /\ pools'[q] = pools[q]
      /\ used' = used /\ dom' = dom /\ reqs' = reqs /\ overlapped' = overlapped
  BY DEF DestroyPool, page
<1>2. ASSUME NEW q \in DOMAIN pools'
      PROVE  /\ Hangs(pools', q)
             /\ pools'[q].parent # None => pools'[q].parent \in DOMAIN pools'
  <2>1. /\ Hangs(pools, q) /\ pools[q].parent # p /\ pools'[q] = pools[q]
        /\ pools[q].parent # None => pools[q].parent \in DOMAIN pools
    BY <1>1 DEF MatchInv, RootedInv, Rooted
  <2>2. Above(pools', q) \subseteq Above(pools, q)
    BY <1>1, <2>1 DEF Above
  <2>3. pools[q].parent \in DOMAIN pools => pools[q].parent \in DOMAIN pools'
    BY <1>1, <2>1
  <2> QED
    BY <1>1, <2>1, <2>2, <2>3 DEF Hangs
<1>3. Smart \in DOMAIN pools' /\ pools'[Smart] = pools[Smart]
  BY <1>1, NavTreeAssumption DEF MatchInv, RootedInv
<1>4. RootedInv'
  BY <1>2, <1>3 DEF MatchInv, RootedInv, Rooted
<1>5. AnswersInv' /\ (~overlapped => OneAtATime)'
  BY <1>1, NothingMoves DEF TreeInv, MatchInv
<1> QED
  BY <1>4, <1>5 DEF MatchInv

\* Permissions move no pool.
LEMMA GrantsMatch ==
  ASSUME TreeInv, MatchInv, NEW p \in AllPools, Grant(p) \/ Revoke(p)
  PROVE  MatchInv'
<1>1. pools' = pools /\ used' = used /\ dom' = dom /\ reqs' = reqs /\ overlapped' = overlapped
  BY DEF Grant, Revoke, page
<1>2. AnswersInv' /\ (~overlapped => OneAtATime)'
  BY <1>1, NothingMoves DEF TreeInv, MatchInv
<1> QED
  BY <1>1, <1>2 DEF MatchInv, RootedInv

-----------------------------------------------------------------------------
\* A new request takes a free slot.
LEMMA FreeSlot ==
  ASSUME Busy # Slots
  PROVE  NextSlot \in Slots \ Busy
<1>1. Slots \ Busy \in SUBSET Nat /\ Slots \ Busy # {}
  BY DEF Busy, Slots
<1>2. \E s \in Slots \ Busy : \A t \in Slots \ Busy : s <= t
  BY <1>1, LeastNumber
<1> QED
  BY <1>2 DEF NextSlot

\* The form submits what is shown, and no request under way is touched.
LEMMA ProcessTreeMatch ==
  ASSUME TreeInv, MatchInv, ProcessTree
  PROVE  /\ MatchInv'
         /\ \A s \in Busy : reqs'[s] = reqs[s]
<1> DEFINE t == NextSlot
           r == [items |-> [p \in Shown(dom) |-> Last(dom, p).item], answer |-> None]
<1>1. /\ t \in Slots \ Busy /\ reqs' = [reqs EXCEPT ![t] = r]
      /\ overlapped' = (overlapped \/ Busy # {})
      /\ pools' = pools /\ used' = used /\ dom' = dom
  BY FreeSlot DEF ProcessTree, server
<1> HIDE DEF t
<1>2. DOMAIN reqs' = Slots /\ \A s \in Slots : reqs'[s] = IF s = t THEN r ELSE reqs[s]
  BY <1>1 DEF TreeInv, ReqsInv
<1>3. r.answer = None /\ DOMAIN r.items = Shown(dom)
      /\ \A p \in Shown(dom) : r.items[p] = Last(dom, p).item
  OBVIOUS
<1> HIDE DEF r
<1>4. RootedInv'
  BY <1>1 DEF MatchInv, RootedInv
<1>5. AnswersInv'
  BY <1>1, <1>2, <1>3, AnswersKept DEF MatchInv
<1>6. ASSUME ~overlapped' PROVE OneAtATime'
  <2>1. ~overlapped /\ Busy = {} /\ OneAtATime
    BY <1>1, <1>6 DEF MatchInv
  <2>2. \A s \in Slots : reqs'[s] # None => s = t
    BY <1>2, <2>1 DEF Busy
  <2>3. ASSUME NEW n \in dom PROVE r.items[n.pool] = n.item
    <3>1. dom \in SUBSET Node /\ n.pool \in Shown(dom)
      BY DEF TreeInv, PageInv, Shown
    <3>2. Last(dom, n.pool) = n
      BY <2>1, <3>1, LastIs DEF OneAtATime, Single
    <3> QED
      BY <1>3, <3>1, <3>2
  <2>4. Submitted(r, dom)
    BY <1>1, <1>3, <2>3 DEF Submitted
  <2>5. \A n \in dom : Placed(n)'
    BY <1>1, <2>1 DEF OneAtATime, Placed
  <2>6. \A s \in Slots : reqs'[s] # None => reqs'[s] = r
    BY <1>2, <2>2
  <2> QED
    BY <1>1, <2>1, <2>2, <2>4, <2>5, <2>6 DEF OneAtATime
<1>7. \A s \in Busy : reqs'[s] = reqs[s]
  BY <1>1, <1>2 DEF Busy
<1> QED
  BY <1>4, <1>5, <1>6, <1>7 DEF MatchInv

\* With a pool that is above p the user sees p's parent, too.
LEMMA VisibleClosed ==
  ASSUME PoolsInv, RootedInv, NEW p \in Visible, NEW q \in Visible, q \in pools[p].above
  PROVE  pools[p].parent \in Visible
<1> DEFINE up == pools[p].parent
<1>1. p \in DOMAIN pools /\ q \in DOMAIN pools \cap pools[p].above
  BY DEF Visible
<1>2. up # None /\ up \in DOMAIN pools /\ pools[p].above = pools[up].above \cup {up}
  BY <1>1 DEF RootedInv, Rooted, Hangs
<1>3. CASE q = Smart
  <2>1. up = Smart
    BY <1>1, <1>2, <1>3 DEF RootedInv, Rooted, Hangs
  <2> QED
    BY <1>2, <2>1 DEF Visible
<1>4. CASE q # Smart
  <2>1. (pools[q].above \cup {q}) \cap granted # {}
    BY <1>4 DEF Visible
  <2>2. pools[q].above \subseteq pools[p].above
    BY <1>1 DEF PoolsInv, Forest, Nested
  <2>3. (pools[up].above \cup {up}) \cap granted # {}
    BY <1>1, <1>2, <2>1, <2>2
  <2> QED
    BY <1>2, <2>3 DEF Visible
<1> QED
  BY <1>3, <1>4

\* The answer is the difference between the items and what the user may see.
LEMMA FilteredListDescribed ==
  ASSUME PoolsInv, RootedInv, NEW r, r.answer = FilteredList(r.items)
  PROVE  Described(r) /\ Unmoved(r.answer.pools)
<1> DEFINE list == r.answer.pools
           Item(p) == [name |-> pools[p].name, parent |-> pools[p].parent,
                       above |-> pools[p].above, state |-> StateOf(r.items, p)]
<1>1. list = [p \in Visible |-> Item(p)] /\ r.answer.deleted = DOMAIN r.items \ Visible
  BY DEF FilteredList, Deleted
<1>2. ASSUME NEW p
      PROVE  /\ Item(p).name = pools[p].name /\ Item(p).parent = pools[p].parent
             /\ Item(p).above = pools[p].above /\ Item(p).state = StateOf(r.items, p)
  OBVIOUS
<1> HIDE DEF list, Item
<1>3. DOMAIN list = Visible /\ Visible \subseteq DOMAIN pools
  BY <1>1 DEF Visible
<1>4. ASSUME NEW p \in Visible
      PROVE  /\ list[p].name = pools[p].name /\ list[p].parent = pools[p].parent
             /\ list[p].above = pools[p].above /\ list[p].state = StateOf(r.items, p)
  BY <1>1, <1>2
<1>5. ASSUME NEW p \in Visible PROVE Hangs(list, p)
  <2>1. Hangs(pools, p) /\ list[p].parent = pools[p].parent /\ list[p].above = pools[p].above
    BY <1>3, <1>4 DEF RootedInv, Rooted
  <2>2. list[p].parent \in DOMAIN list =>
          /\ list[p].parent \in DOMAIN pools
          /\ list[list[p].parent].above = pools[list[p].parent].above
    BY <1>3, <1>4
  <2>3. Above(list, p) # {} => list[p].parent \in DOMAIN list
    BY <1>3, <2>1, VisibleClosed DEF Above
  <2> QED
    BY <2>1, <2>2, <2>3 DEF Hangs
<1>6. Rooted(list)
  BY <1>3, <1>5 DEF Rooted
<1>7. ASSUME NEW p \in DOMAIN list
      PROVE  /\ list[p].state = IF p = Smart THEN "unchanged"
                                ELSE IF p \notin DOMAIN r.items THEN "new"
                                ELSE IF r.items[p] = list[p].name THEN "unchanged" ELSE "changed"
             /\ p = Smart => list[p].name = FirstName
  BY <1>3, <1>4 DEF StateOf, RootedInv
<1>8. Unmoved(list)
  BY <1>3, <1>4 DEF Unmoved, PoolsInv
<1>9. Described(r)
  BY <1>1, <1>3, <1>6, <1>7 DEF Described, list
<1> QED
  BY <1>8, <1>9 DEF list

\* The answer describes the tree the items were read from.
LEMMA ServeMatch ==
  ASSUME TreeInv, MatchInv, NEW s \in Slots, Serve(s)
  PROVE  MatchInv'
<1> DEFINE r == reqs[s]
           a == FilteredList(r.items)
           q == [r EXCEPT !.answer = a]
<1>1. /\ s \in Busy /\ reqs' = [reqs EXCEPT ![s] = q]
      /\ pools' = pools /\ used' = used /\ dom' = dom /\ overlapped' = overlapped
  BY DEF Serve, server, page
<1>2. r # None /\ DOMAIN r = {"items", "answer"}
  BY <1>1 DEF Busy, TreeInv, ReqsInv, ReqOK
<1>3. q.items = r.items /\ q.answer = FilteredList(q.items)
  BY <1>2
<1>4. DOMAIN reqs' = Slots /\ \A t \in Slots : reqs'[t] = IF t = s THEN q ELSE reqs[t]
  BY <1>1 DEF TreeInv, ReqsInv
<1> HIDE DEF q, a
<1>5. Described(q) /\ Unmoved(q.answer.pools)
  BY <1>3, FilteredListDescribed DEF TreeInv, MatchInv
<1>6. RootedInv'
  BY <1>1 DEF MatchInv, RootedInv
<1>7. \A list : Unmoved(list) => Unmoved(list)'
  BY <1>1 DEF Unmoved
<1>8. AnswersInv'
  <2>1. \A t \in Slots : reqs'[t] # None /\ reqs'[t].answer # None =>
          Described(reqs'[t]) /\ Unmoved(reqs'[t].answer.pools)
    BY <1>4, <1>5 DEF MatchInv, AnswersInv
  <2> QED
    BY <1>1, <2>1 DEF AnswersInv, Described, Unmoved
<1>9. ASSUME OneAtATime PROVE OneAtATime'
  <2>1. \A n \in dom : Placed(n)'
    BY <1>1, <1>9 DEF OneAtATime, Placed
  <2>2. Submitted(q, dom)
    <3>1. Submitted(r, dom) /\ \A n \in dom : Placed(n)
      BY <1>2, <1>9 DEF OneAtATime
    <3>2. ASSUME NEW n \in dom, n.pool \in DOMAIN q.answer.pools
          PROVE  Under(n) \in {None, q.answer.pools[n.pool].parent}
      <4>1. n.pool \in DOMAIN pools
        BY <1>3, <3>2 DEF FilteredList, Visible
      <4>2. pools[n.pool].parent = q.answer.pools[n.pool].parent
        BY <1>5, <3>2, <4>1 DEF Unmoved
      <4> QED
        BY <3>1, <4>1, <4>2 DEF Placed
    <3> QED
      BY <1>1, <1>3, <3>1, <3>2 DEF Submitted
  <2>3. \A t \in Slots : reqs'[t] # None => t = s
    BY <1>2, <1>4, <1>9 DEF OneAtATime
  <2>4. \A t \in Slots : reqs'[t] # None => reqs'[t] = q
    BY <1>4, <2>3
  <2> QED
    BY <1>1, <1>9, <2>1, <2>2, <2>3, <2>4 DEF OneAtATime
<1> QED
  BY <1>1, <1>6, <1>8, <1>9 DEF MatchInv

\* A request that fails leaves the page as it was.
LEMMA RequestFailsMatch ==
  ASSUME TreeInv, MatchInv, NEW s \in Slots, RequestFails(s)
  PROVE  MatchInv'
<1>1. /\ reqs' = [reqs EXCEPT ![s] = None]
      /\ pools' = pools /\ used' = used /\ dom' = dom /\ overlapped' = overlapped
  BY DEF RequestFails, server, page
<1>2. DOMAIN reqs' = Slots /\ \A t \in Slots : reqs'[t] = IF t = s THEN None ELSE reqs[t]
  BY <1>1 DEF TreeInv, ReqsInv
<1>3. RootedInv'
  BY <1>1 DEF MatchInv, RootedInv
<1>4. AnswersInv'
  BY <1>1, <1>2, AnswersKept DEF MatchInv
<1>5. ASSUME OneAtATime PROVE OneAtATime'
  BY <1>1, <1>2, <1>5 DEF OneAtATime, Placed, Submitted
<1> QED
  BY <1>1, <1>3, <1>4, <1>5 DEF MatchInv

\* An applied answer leaves a tree in which every pool is placed.
LEMMA SuccessMatch ==
  ASSUME TreeInv, MatchInv, NEW s \in Slots, Success(s)
  PROVE  MatchInv'
<1> DEFINE r == reqs[s]
           list == r.answer.pools
<1>1. /\ reqs' = [reqs EXCEPT ![s] = None] /\ r # None /\ r.answer # None
      /\ overlapped' = overlapped /\ pools' = pools /\ used' = used
  BY DEF Success, Busy, server
<1>2. DOMAIN reqs' = Slots /\ \A t \in Slots : reqs'[t] = IF t = s THEN None ELSE reqs[t]
  BY <1>1 DEF TreeInv, ReqsInv
<1>3. RootedInv'
  BY <1>1 DEF MatchInv, RootedInv
<1>4. AnswersInv'
  BY <1>1, <1>2, AnswersKept DEF MatchInv
<1>5. ASSUME ~overlapped PROVE OneAtATime'
  <2>1. OneAtATime /\ Matches(dom', list)
    BY <1>5, SuccessMatches DEF MatchInv
  <2>2. \A t \in Slots : reqs'[t] = None
    BY <1>1, <1>2, <2>1 DEF OneAtATime
  <2>3. Single(dom')
    BY <2>1 DEF Matches, Copies, Single
  <2>4. Described(r) /\ Unmoved(list)
    BY <1>1 DEF MatchInv, AnswersInv
  <2>5. ASSUME NEW n \in dom' PROVE Placed(n)'
    <3>1. /\ n.pool \in DOMAIN list /\ n.label = list[n.pool].name /\ n.item = n.label
          /\ Under(n) \in {None, list[n.pool].parent}
      BY <2>1 DEF Matches
    <3>2. n.pool = Smart => n.item = FirstName
      BY <2>4, <3>1 DEF Described
    <3>3. /\ n.pool \in used \cup {Root, Smart}
          /\ n.pool \in DOMAIN pools => pools[n.pool].parent = list[n.pool].parent
      BY <2>4, <3>1 DEF Unmoved
    <3> QED
      BY <1>1, <3>1, <3>2, <3>3 DEF Placed
  <2> QED
    BY <2>2, <2>3, <2>5 DEF OneAtATime, Single
<1> QED
  BY <1>1, <1>3, <1>4, <1>5 DEF MatchInv

\* The second invariant looks at the requests, the pools and the nodes alone.
LEMMA MatchStays ==
  ASSUME MatchInv, reqs' = reqs, pools' = pools, used' = used, dom' = dom, overlapped' = overlapped
  PROVE  MatchInv'
<1>1. RootedInv'
  BY DEF MatchInv, RootedInv
<1>2. AnswersInv'
  BY AnswersKept DEF MatchInv
<1>3. \A n : Placed(n)' <=> Placed(n)
  BY DEF Placed
<1>4. ASSUME ~overlapped' PROVE OneAtATime'
  BY <1>3, <1>4 DEF MatchInv, OneAtATime, Submitted
<1> QED
  BY <1>1, <1>2, <1>4 DEF MatchInv

\* A click moves no node.
LEMMA ClickMatch ==
  ASSUME MatchInv, NEW p \in AllPools, Click(p)
  PROVE  MatchInv'
<1>1. reqs' = reqs /\ pools' = pools /\ used' = used /\ dom' = dom /\ overlapped' = overlapped
  BY DEF Click, server
<1> QED
  BY <1>1, MatchStays

\* The second invariant is kept by every step.
LEMMA MatchStep == TreeInv /\ MatchInv /\ [Next]_vars => MatchInv'
<1> SUFFICES ASSUME TreeInv, MatchInv, [Next]_vars PROVE MatchInv'
  OBVIOUS
<1>1. ASSUME NEW p \in Pools, NEW up \in AllPools, CreatePool(p, up) PROVE MatchInv'
  BY <1>1, CreatePoolMatch
<1>2. ASSUME NEW p \in AllPools, NEW name \in Names, RenamePool(p, name) PROVE MatchInv'
  BY <1>2, RenamePoolMatch
<1>3. ASSUME NEW p \in Pools, DestroyPool(p) PROVE MatchInv'
  BY <1>3, DestroyPoolMatch
<1>4. ASSUME NEW p \in AllPools, Grant(p) \/ Revoke(p) PROVE MatchInv'
  BY <1>4, GrantsMatch
<1>5. ASSUME ProcessTree PROVE MatchInv'
  BY <1>5, ProcessTreeMatch
<1>6. ASSUME NEW s \in Slots, Serve(s) PROVE MatchInv'
  BY <1>6, ServeMatch
<1>7. ASSUME NEW s \in Slots, RequestFails(s) PROVE MatchInv'
  BY <1>7, RequestFailsMatch
<1>8. ASSUME NEW s \in Slots, Success(s) PROVE MatchInv'
  BY <1>8, SuccessMatch
<1>9. ASSUME NEW p \in AllPools, Click(p) PROVE MatchInv'
  BY <1>9, ClickMatch
<1>10. ASSUME UNCHANGED vars PROVE MatchInv'
  BY <1>10, MatchStays DEF vars, server, page
<1> QED
  BY <1>1, <1>2, <1>3, <1>4, <1>5, <1>6, <1>7, <1>8, <1>9, <1>10 DEF Next, Administration

\* An answer whose slot becomes free was applied.
LEMMA AppliedMatches ==
  ASSUME TreeInv, MatchInv, [Next]_vars,
         NEW s \in Slots, s \in Busy, reqs'[s] = None, reqs[s].answer # None, ~overlapped
  PROVE  Matches(dom', reqs[s].answer.pools)
<1>1. reqs[s] # None
  BY DEF Busy
<1>2. ~ UNCHANGED reqs
  BY <1>1
<1>3. ~ ProcessTree
  BY <1>1, ProcessTreeMatch
<1>4. ASSUME NEW t \in Slots, Serve(t) PROVE FALSE
  <2>1. t # s
    BY <1>4 DEF Serve
  <2>2. reqs'[s] = reqs[s]
    BY <1>4, <2>1 DEF Serve, TreeInv, ReqsInv
  <2> QED
    BY <1>1, <2>2
<1>5. ASSUME NEW t \in Slots, RequestFails(t) PROVE FALSE
  <2>1. t # s
    BY <1>5 DEF RequestFails
  <2>2. reqs'[s] = reqs[s]
    BY <1>5, <2>1 DEF RequestFails, TreeInv, ReqsInv
  <2> QED
    BY <1>1, <2>2
<1>6. ASSUME NEW t \in Slots, Success(t) PROVE t = s
  <2>1. reqs'  = [reqs EXCEPT ![t] = None]
    BY <1>6 DEF Success
  <2>2. t # s => reqs'[s] = reqs[s]
    BY <2>1 DEF TreeInv, ReqsInv
  <2> QED
    BY <1>1, <2>2
<1>7. PICK t \in Slots : Success(t)
  BY <1>2, <1>3, <1>4, <1>5 DEF Next, Administration, CreatePool, RenamePool, DestroyPool, Grant,
                                Revoke, Click, vars
<1> QED
  BY <1>6, <1>7, SuccessMatches

\* As long as requests do not overlap, every answer that is applied leaves
\* exactly the tree it describes: the differences add up to the whole.
THEOREM DifferencesAddUp == Spec => TreeMatches
<1>1. TreeInv /\ MatchInv /\ [Next]_vars =>
        [\A s \in Slots :
           s \in Busy /\ reqs'[s] = None /\ reqs[s].answer # None /\ ~overlapped =>
             Matches(dom', reqs[s].answer.pools)]_vars
  BY AppliedMatches
<1> QED
  BY <1>1, TreeInit, TreeStep, MatchInit, MatchStep, PTL DEF Spec, TreeMatches
=============================================================================
