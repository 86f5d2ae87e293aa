------------------------------ MODULE NavTree -------------------------------
(***************************************************************************)
(* The tree of pools at the left of every page (ovirt.tree.js,             *)
(* layouts/_tree.rhtml) and the request that keeps it up to date           *)
(* (tree_controller.rb).  processTree runs every 15 seconds and after the  *)
(* user's own actions, submits the items the page shows and applies the    *)
(* differences the server answers with.  Nothing keeps two such requests   *)
(* from being under way at once; their answers come in any order.          *)
(***************************************************************************)
EXTENDS Naturals, Sequences, FiniteSets

CONSTANTS
  Pools,          \* pools that may be created
  Root,           \* the default hardware pool
  Smart,          \* the root of the smart pools, part of every answer
  Names, FirstName,
  None,
  MaxRequests,    \* bound: requests under way at once
  MaxChanges      \* bound: changes of pools and permissions

ASSUME NavTreeAssumption ==
  /\ Root \notin Pools /\ Smart \notin Pools /\ Root # Smart
  /\ FirstName \in Names /\ None \notin Pools \cup {Root, Smart}
  /\ IsFiniteSet(Pools)
  /\ MaxRequests \in Nat \ {0} /\ MaxChanges \in Nat

AllPools == Pools \cup {Root, Smart}
Slots    == 1..MaxRequests

VARIABLES
  pools,        \* database: the existing pools, each with its name, its parent and
                \* all the pools above it (the nested set)
  used,         \* pools that have existed; identifiers are not given again
  granted,      \* pools on which the user was given VIEW directly
  dom,          \* the nodes shown
  loaded,       \* not processRecursive: the first answer was applied
  current,      \* currentNode: the pool clicked last
  reqs,         \* requests under way
  overlapped,   \* two requests have been under way at once
  changes

server == <<pools, used, granted, changes>>
page   == <<dom, loaded, current, overlapped>>
vars   == <<server, page, reqs>>

-----------------------------------------------------------------------------
(* The server.                                                             *)

\* A permission holds for the pool it was given on and is inherited below it;
\* the smart root is answered to everybody.
Visible ==
  {p \in DOMAIN pools : p = Smart \/ (pools[p].above \cup {p}) \cap granted # {}}

\* Mutant: a pool the page knows is taken for unchanged, whatever its name.
StateOfById(items, p) == IF p \in DOMAIN items THEN "unchanged" ELSE "new"

\* Mutant: the submitted items are not read.
StateOfIgnoresItems(items, p) == IF p = Smart THEN "unchanged" ELSE "new"

\* process_list_item: what the page must do about a pool.
StateOf(items, p) ==
  IF p = Smart THEN "unchanged"
  ELSE IF p \notin DOMAIN items THEN "new"
  ELSE IF items[p] = pools[p].name THEN "unchanged" ELSE "changed"

\* Mutant: only pools that do not exist any more are reported.
DeletedUnchecked(items) == DOMAIN items \ DOMAIN pools

\* What is left of the submitted items is gone, or is not for this user.
Deleted(items) == DOMAIN items \ Visible

\* return_filtered_list.
FilteredList(items) ==
  [pools |-> [p \in Visible |-> [name |-> pools[p].name, parent |-> pools[p].parent,
                                 above |-> pools[p].above, state |-> StateOf(items, p)]],
   deleted |-> Deleted(items)]

Change == changes < MaxChanges /\ changes' = changes + 1

\* A smart pool has no sub-pools and belongs to the user who creates it.
CreatePool(p, up) ==
  /\ Change /\ p \in Pools \ used /\ up \in DOMAIN pools
  /\ Smart \notin pools[up].above
  /\ pools' = [q \in DOMAIN pools \cup {p} |->
                 IF q # p THEN pools[q]
                 ELSE [name |-> FirstName, parent |-> up, above |-> pools[up].above \cup {up}]]
  /\ used' = used \cup {p}
  /\ granted' = IF up = Smart THEN granted \cup {p} ELSE granted
  /\ UNCHANGED <<page, reqs>>

RenamePool(p, name) ==
  /\ Change /\ p \in DOMAIN pools \ {Smart} /\ name # pools[p].name
  /\ pools' = [pools EXCEPT ![p].name = name]
  /\ UNCHANGED <<used, granted, page, reqs>>

\* check_destroy_preconditions: not the top level pool, and no children.
DestroyPool(p) ==
  /\ Change /\ p \in Pools \cap DOMAIN pools
  /\ \A q \in DOMAIN pools : pools[q].parent # p
  /\ pools' = [q \in DOMAIN pools \ {p} |-> pools[q]]
  /\ granted' = granted \ {p}
  /\ UNCHANGED <<used, page, reqs>>

Grant(p) ==
  /\ Change /\ p \in (DOMAIN pools \ {Smart}) \ granted
  /\ granted' = granted \cup {p}
  /\ UNCHANGED <<pools, used, page, reqs>>

Revoke(p) ==
  /\ Change /\ p \in granted
  /\ granted' = granted \ {p}
  /\ UNCHANGED <<pools, used, page, reqs>>

-----------------------------------------------------------------------------
(* The nodes of the page.  A node is known by its pool and the number of   *)
(* its copy; its path leads to it from the top.  A pool may be shown more  *)
(* than once, and then the selector '#id' finds the first of its copies.   *)

Key(n)       == <<n.pool, n.copy>>
Copies(d, p) == {n \in d : n.pool = p}
Shown(d)     == {n.pool : n \in d}
First(d, p)  == CHOOSE n \in Copies(d, p) : \A m \in Copies(d, p) : n.copy <= m.copy
Last(d, p)   == CHOOSE n \in Copies(d, p) : \A m \in Copies(d, p) : n.copy >= m.copy
Under(n)     == IF n.path = <<>> THEN None ELSE n.path[Len(n.path)][1]

\* A node goes with everything below it.
Remove(d, n) == {m \in d \ {n} : \A i \in DOMAIN m.path : m.path[i] # Key(n)}

\* Mutant: only an only child hands the selection over.
DeleteOneQuiet(s, p) ==
  IF p \notin Shown(s.dom) THEN s
  ELSE LET n == First(s.dom, p)
           siblings == {m \in s.dom \ {n} : m.path = n.path}
       IN [dom  |-> Remove(s.dom, n),
           next |-> IF siblings = {} THEN {Under(n)} ELSE s.next]

\* One entry of response.deleted.  Whichever node is removed, a click goes to
\* its parent if it was an only child, and to a sibling otherwise; next are the
\* pools that may be current then.
DeleteOne(s, p) ==
  IF p \notin Shown(s.dom) THEN s
  ELSE LET n == First(s.dom, p)
           siblings == {m \in s.dom \ {n} : m.path = n.path}
       IN [dom  |-> Remove(s.dom, n),
           next |-> IF siblings = {} THEN {Under(n)} ELSE Shown(siblings)]

Orders(S) == {o \in [1..Cardinality(S) -> S] :
                \A i, j \in 1..Cardinality(S) : o[i] = o[j] => i = j}

\* All entries, in the order of the answer.
DeleteAll(s, order) ==
  LET after[i \in 0..Cardinality(DOMAIN order)] ==
        IF i = 0 THEN s ELSE DeleteOne(after[i - 1], order[i])
  IN after[Cardinality(DOMAIN order)]

\* The first answer: the whole tree is drawn from it.  A pool whose parent is
\* not part of the answer is at the top.
RecursiveTree(list) ==
  LET Depth(p) == Cardinality(list[p].above \cap DOMAIN list)
      Path(p)  == [i \in 1..Depth(p) |->
                     <<CHOOSE q \in list[p].above \cap DOMAIN list : Depth(q) = i - 1, 1>>]
  IN {[pool |-> p, copy |-> 1, label |-> list[p].name, item |-> list[p].name,
       path |-> Path(p)] : p \in DOMAIN list}

\* A changed name goes to every input of the pool, and to the first label.
UpdateChanged(d, list) ==
  {IF n.pool \in DOMAIN list /\ list[n.pool].state = "changed"
   THEN [n EXCEPT !.item = list[n.pool].name,
                  !.label = IF n = First(d, n.pool) THEN list[n.pool].name ELSE @]
   ELSE n : n \in d}

\* Mutant: a new pool is only added to a list that is there already.
AppendNewToList(d, list, p) ==
  IF ~\E n \in d : Under(n) # None /\ Under(n) = list[p].parent THEN {}
  ELSE LET up == First(d, list[p].parent)
       IN {[pool |-> p, label |-> list[p].name, item |-> list[p].name,
            copy |-> IF p \in Shown(d) THEN Last(d, p).copy + 1 ELSE 1,
            path |-> Append(up.path, Key(up))]}

\* A new pool is appended to the list under the first node of its parent; if
\* there is none, it is not shown.
AppendNew(d, list, p) ==
  IF list[p].parent \notin Shown(d) THEN {}
  ELSE LET up == First(d, list[p].parent)
       IN {[pool |-> p, label |-> list[p].name, item |-> list[p].name,
            copy |-> IF p \in Shown(d) THEN Last(d, p).copy + 1 ELSE 1,
            path |-> Append(up.path, Key(up))]}

\* The new pools that have k pools above them.
Level(list, k) ==
  {p \in DOMAIN list : list[p].state = "new" /\ Cardinality(list[p].above) = k}

AppendLevel(d, list, k) == d \cup UNION {AppendNew(d, list, p) : p \in Level(list, k)}

\* processChildren: parents come before their children.
ProcessChildren(d, list) ==
  LET after[k \in 0..Cardinality(Pools)] ==
        IF k = 0 THEN UpdateChanged(d, list) ELSE AppendLevel(after[k - 1], list, k)
  IN after[Cardinality(Pools)]

-----------------------------------------------------------------------------
(* The request.                                                            *)

Busy == {s \in Slots : reqs[s] # None}
NextSlot == CHOOSE s \in Slots \ Busy : \A t \in Slots \ Busy : s <= t

\* processTree: the form submits one item per node; of the copies of a pool
\* the server keeps the last.
ProcessTree ==
  /\ Busy # Slots
  /\ reqs' = [reqs EXCEPT ![NextSlot] =
                [items |-> [p \in Shown(dom) |-> Last(dom, p).item], answer |-> None]]
  /\ overlapped' = (overlapped \/ Busy # {})
  /\ UNCHANGED <<server, dom, loaded, current>>

Serve(s) ==
  /\ s \in Busy /\ reqs[s].answer = None
  /\ reqs' = [reqs EXCEPT ![s].answer = FilteredList(reqs[s].items)]
  /\ UNCHANGED <<server, page>>

\* The request has no error handler: the page goes on as if it had not asked.
RequestFails(s) ==
  /\ s \in Busy /\ reqs[s].answer = None
  /\ reqs' = [reqs EXCEPT ![s] = None]
  /\ UNCHANGED <<server, page>>

\* The success handler: what it does to the page.
Updates(answer) ==
  {[dom |-> IF loaded THEN ProcessChildren(rest.dom, answer.pools)
            ELSE RecursiveTree(answer.pools),
    next |-> rest.next] :
      rest \in {DeleteAll([dom |-> dom, next |-> {current}], order) :
                  order \in Orders(answer.deleted)}}

Success(s) ==
  /\ s \in Busy /\ reqs[s].answer # None
  /\ \E update \in Updates(reqs[s].answer) :
       dom' = update.dom /\ current' \in update.next
  /\ loaded' = TRUE
  /\ reqs' = [reqs EXCEPT ![s] = None]
  /\ UNCHANGED <<server, overlapped>>

Click(p) ==
  /\ p \in Shown(dom) /\ p # current
  /\ current' = p
  /\ UNCHANGED <<server, dom, loaded, overlapped, reqs>>

-----------------------------------------------------------------------------
Init ==
  /\ pools = [p \in {Root, Smart} |-> [name |-> FirstName, parent |-> None, above |-> {}]]
  /\ used = {} /\ granted = {Root} /\ changes = 0
  /\ dom = {} /\ loaded = FALSE /\ current = None
  /\ overlapped = FALSE
  /\ reqs = [s \in Slots |-> None]

Administration ==
  \/ \E p \in Pools, up \in AllPools : CreatePool(p, up)
  \/ \E p \in AllPools, name \in Names : RenamePool(p, name)
  \/ \E p \in Pools : DestroyPool(p)
  \/ \E p \in AllPools : Grant(p) \/ Revoke(p)

Next ==
  \/ Administration
  \/ ProcessTree
  \/ \E s \in Slots : Serve(s) \/ RequestFails(s) \/ Success(s)
  \/ \E p \in AllPools : Click(p)

Spec == Init /\ [][Next]_vars

\* The request of slot s ends with its answer: what Success does to reqs.
Ended(s) ==
  s \in Busy /\ reqs[s].answer # None /\ reqs' = [reqs EXCEPT ![s] = None]

\* The timer goes on, the browser calls the handler of an answer, and requests
\* do not fail for ever.
Fairness ==
  /\ WF_reqs(ProcessTree)
  /\ \A s \in Slots : SF_reqs(Serve(s)) /\ WF_reqs(Ended(s))

FairSpec == Spec /\ Fairness

-----------------------------------------------------------------------------
(* Properties.                                                             *)

\* The variables have their types.
TypeOK ==
  /\ DOMAIN pools \subseteq AllPools
  /\ \A p \in DOMAIN pools : pools[p] \in [name : Names, parent : AllPools \cup {None},
                                       above : SUBSET AllPools]
  /\ used \subseteq Pools /\ granted \subseteq AllPools
  /\ \A n \in dom : /\ n.pool \in AllPools /\ n.copy \in 1..MaxRequests
                    /\ n.label \in Names /\ n.item \in Names
                    /\ n.path \in Seq(AllPools \X (1..MaxRequests))
  /\ loaded \in BOOLEAN /\ overlapped \in BOOLEAN /\ current \in AllPools \cup {None}
  /\ changes \in 0..MaxChanges

Matches(d, list) ==
  /\ \A n \in d : /\ n.pool \in DOMAIN list /\ Copies(d, n.pool) = {n}
                  /\ n.label = list[n.pool].name /\ n.item = n.label
                  /\ Under(n) \in {None, list[n.pool].parent}
  /\ \A p \in DOMAIN list : p \in Shown(d) \/ list[p].parent \notin Shown(d)

\* As long as requests do not overlap, an answer that is applied leaves the
\* tree it describes: nothing else is shown, every pool once, with its name and under
\* its parent or at the top; and a pool that is missing has no parent in the
\* tree (it became visible after the page was drawn).  In particular the
\* differences computed from the submitted items add up to the whole tree.
TreeMatches ==
  [][\A s \in Slots :
       s \in Busy /\ reqs'[s] = None /\ reqs[s].answer # None /\ ~overlapped =>
         Matches(dom', reqs[s].answer.pools)]_vars

\* A node's parent is a node: removals never leave a part of the tree hanging.
\* The pool the user is looking at is in the tree, whatever was removed.
CurrentIsShown ==
  /\ \A n \in dom : n.path # <<>> =>
       \E m \in dom : n.path = Append(m.path, Key(m))
  /\ current # None => current \in Shown(dom)

\* A pool that was deleted, or that the user may not see any more, leaves the
\* tree with all its copies, also if requests overlap.
GoneVanishes ==
  \A p \in Pools \cup {Root} : (p \notin Visible) ~> (p \in Visible \/ p \notin Shown(dom))

\* A pool the user may see under a parent that is shown comes to be shown.
NewAppears ==
  \A p \in Pools :
    (p \in Visible /\ pools[p].parent \in Shown(dom)) ~>
      (p \in Shown(dom) \/ p \notin Visible
        \/ (p \in DOMAIN pools /\ pools[p].parent \notin Shown(dom)))
=============================================================================
