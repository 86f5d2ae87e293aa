-------------------------- MODULE HostRows_proofs ---------------------------
(***************************************************************************)
(* What db-omatic's cache of objects makes of the rows: a VM that reports  *)
(* is not declared unreachable (ReportingIsReachable), and when nothing is *)
(* pending the rows say which hosts are up and which VMs run, and where    *)
(* (QuietRowsAgree), for any number of nodes, VMs, agents, outages, lost   *)
(* updates and restarts.                                                   *)
(*                                                                         *)
(* Both rest on what db-omatic may conclude from an object of its cache:   *)
(* that no two objects of a domain or a host are in it (Unique), and that  *)
(* what an agent published since the domain was last put on a node still   *)
(* says where it is and whether it may run (Whereabouts, Halts, There).    *)
(***************************************************************************)
EXTENDS HostMonitor_proofs

Cached(a, x) == cache[<<a, x>>] # None
Told(a, x)   == told[<<a, x>>]
TimedOut(a, x) == cache[<<a, x>>].timed_out

\* At most one object of a domain, and one of a host, is in the cache.
Unique ==
  \A a, b \in Agents, x \in Things :
    Cached(a, x) /\ Cached(b, x) /\ (x = "node" => a[1] = b[1]) => a = b

\* What the present agent of a node has published is in the cache.
Remembered ==
  /\ \A v \in Vms : dom[v] # None /\ Told(Current(dom[v].node), v) # None
                      => Cached(Current(dom[v].node), v)
  /\ \A n \in Nodes : Told(Current(n), "node") # None => Cached(Current(n), "node")

\* The agents to come have published nothing.
NotYet == \A a \in Agents, x \in Things : Told(a, x) # None => a[2] <= boot[a[1]]

\* An entry has the state published last; if anything is known of a domain,
\* so is what its entry says.
UpToNow ==
  /\ \A a \in Agents, x \in Things :
       Told(a, x) # None /\ Cached(a, x) => cache[<<a, x>>].state = Told(a, x)
  /\ \A a, b \in Agents, v \in Vms : Told(a, v) # None /\ Cached(b, v) => Told(b, v) # None

\* A domain somebody has published is where it was, and stays shut off.
Whereabouts ==
  \A a \in Agents, v \in Vms : Told(a, v) # None /\ dom[v] # None => dom[v].node = a[1]

Halts ==
  \A a \in Agents, v \in Vms :
    Told(a, v) = "shutoff" /\ dom[v] # None => dom[v].state = "shutoff"

\* A domain last published as running, by an agent that is the node's last,
\* is not undefined.
There ==
  \A a \in Agents, v \in Vms :
    Told(a, v) = "running" /\ Cached(a, v) /\ a = Current(a[1]) => dom[v] # None

KnownInv == Unique /\ Remembered /\ NotYet /\ UpToNow /\ Whereabouts /\ Halts /\ There

\* The row of a VM has what the entry says, if that is up to date and the
\* domain was published since it was put on a node; and a row that says
\* running has an entry that says so.
VmFollows(v) ==
  /\ \A a \in Agents :
       Told(a, v) # None /\ Cached(a, v) /\ cache[<<a, v>>].synced /\ ~TimedOut(a, v)
         => vms[v].state = Translate[Told(a, v)]
  /\ vms[v].state = "running" /\ (\E a \in Agents : Told(a, v) # None) =>
       \E b \in Agents : Told(b, v) = "running" /\ Cached(b, v) /\ ~TimedOut(b, v)

\* So does the row of a host.
HostFollows(n) ==
  /\ \A a \in Agents :
       a[1] = n /\ Cached(a, "node") /\ cache[<<a, "node">>].synced /\ ~TimedOut(a, "node")
         => hosts[n] = "available"
  /\ hosts[n] = "available" =>
       \E b \in Agents : b[1] = n /\ Cached(b, "node") /\ ~TimedOut(b, "node")

\* Unless a save was stale.
RowsFollow ==
  lost = 0 => (\A v \in Vms : VmFollows(v)) /\ (\A n \in Nodes : HostFollows(n))

\* check_heartbeats disconnects the objects of no agent heard of lately: a
\* heartbeat is not handled while it runs.
PassVerdict ==
  pass # None /\ pass.agent # None /\ pass.down => pass.agent \notin beats \ old

-----------------------------------------------------------------------------
(***************************************************************************)
(* What the handling of one object changes.                                *)
(***************************************************************************)

\* Of the cache c, only the flag :synced of one entry.
Touched(c, k) ==
  /\ \A j \in Objects \ {k} : cache'[j] = c[j]
  /\ cache'[k] # None /\ cache'[k].state = c[k].state /\ cache'[k].timed_out = c[k].timed_out

\* update_domain_state, with the state s for the row.
VmEffect(c, a, v, s) ==
  /\ hosts' = hosts /\ Touched(c, <<a, v>>)
  /\ \A w \in Vms : w # v => vms'[w] = vms[w] /\ dom'[w] = dom[w]
  /\ vms' = vms \/ vms'[v].state = s
  /\ dom'[v] = dom[v] \/ (dom'[v] = None /\ s = "stopped")
  /\ lost' = 0 => lost = 0 /\ vms'[v].state = s

\* update_host_state, with the state s for the row.
HostEffect(c, a, s) ==
  /\ vms' = vms /\ dom' = dom /\ Touched(c, <<a, "node">>)
  /\ \A n \in Nodes : n # a[1] => hosts'[n] = hosts[n]
  /\ lost' = 0 =>
       /\ lost = 0
       /\ IF hosts[a[1]] = None
          THEN hosts'[a[1]] = None /\ ~cache'[<<a, "node">>].synced
          ELSE hosts'[a[1]] = s

\* A flag set in an entry leaves the other fields and the other entries: :synced,
LEMMA OneFlag ==
  ASSUME NEW c, Fits(c), NEW k \in Objects, c[k] # None, NEW b \in BOOLEAN,
         cache' = [c EXCEPT ![k].synced = b]
  PROVE  Touched(c, k) /\ cache'[k].synced = b
<1> DEFINE e == [c[k] EXCEPT !.synced = b]
<1>1. c[k] \in Entry
  BY DEF Fits
<1>2. /\ e \in Entry /\ e # None /\ e.synced = b
      /\ e.state = c[k].state /\ e.timed_out = c[k].timed_out
  BY <1>1, NullAssumption DEF Entry
<1>3. cache'[k] = e
  BY DEF Fits
<1>4. \A j \in Objects \ {k} : cache'[j] = c[j]
  BY DEF Fits
<1> HIDE DEF e
<1> QED
  BY <1>2, <1>3, <1>4 DEF Touched

\* ... and :timed_out.
LEMMA OneMark ==
  ASSUME NEW c, Fits(c), NEW k \in Objects, c[k] # None, NEW b \in BOOLEAN
  PROVE  /\ \A j \in Objects \ {k} : [c EXCEPT ![k].timed_out = b][j] = c[j]
         /\ [c EXCEPT ![k].timed_out = b][k] # None
         /\ [c EXCEPT ![k].timed_out = b][k].state = c[k].state
         /\ [c EXCEPT ![k].timed_out = b][k].timed_out = b
<1> DEFINE e == [c[k] EXCEPT !.timed_out = b]
<1>1. c[k] \in Entry
  BY DEF Fits
<1>2. e \in Entry /\ e # None /\ e.timed_out = b /\ e.state = c[k].state
  BY <1>1, NullAssumption DEF Entry
<1>3. [c EXCEPT ![k].timed_out = b][k] = e
  BY DEF Fits
<1>4. \A j \in Objects \ {k} : [c EXCEPT ![k].timed_out = b][j] = c[j]
  BY DEF Fits
<1> QED
  BY <1>2, <1>3, <1>4

\* update_domain_state has the effect named above.
LEMMA VmRowHandled ==
  ASSUME TypeOK, NEW c, Fits(c), NEW a \in Agents, NEW v \in Vms, c[<<a, v>>] # None,
         NEW s \in RowState, UpdateDomainState(c, a, v, s)
  PROVE  VmEffect(c, a, v, s)
<1> DEFINE gone == s = "stopped" /\ Found(v) /\ dom[v].state = "shutoff"
           row  == [state |-> s,
                    host  |-> CASE gone                      -> None
                                [] s = "running" /\ Found(v) -> dom[v].node
                                [] OTHER                     -> vms[v].host]
<1>1. <<a, v>> \in Objects
  BY DEF Objects, Things
<1>2. PICK stale \in BOOLEAN :
        /\ Lose(stale)
        /\ vms' = IF stale THEN vms ELSE [vms EXCEPT ![v] = row]
        /\ cache' = IF stale THEN c ELSE [c EXCEPT ![<<a, v>>].synced = TRUE]
        /\ dom' = IF gone THEN [dom EXCEPT ![v] = None] ELSE dom
        /\ UNCHANGED <<hosts, sleeping>>
  BY DEF UpdateDomainState
<1>3. lost' = 0 => ~stale /\ lost = 0
  BY <1>2, BoundsAssumption DEF TypeOK, Lose
<1>4. Touched(c, <<a, v>>)
  <2>1. CASE stale
    BY <1>2, <2>1 DEF Touched
  <2>2. CASE ~stale
    <3>1. cache' = [c EXCEPT ![<<a, v>>].synced = TRUE]
      BY <1>2, <2>2
    <3> QED
      BY <1>1, <3>1, OneFlag
  <2> QED
    BY <2>1, <2>2
<1>5. row.state = s /\ (gone => s = "stopped")
  OBVIOUS
<1> HIDE DEF row, gone
<1>6. /\ \A w \in Vms : w # v => vms'[w] = vms[w] /\ dom'[w] = dom[w]
      /\ vms' = vms \/ vms'[v].state = s
      /\ ~stale => vms'[v].state = s
      /\ dom'[v] = dom[v] \/ (dom'[v] = None /\ s = "stopped")
  BY <1>2, <1>5 DEF TypeOK
<1>7. lost' = 0 => lost = 0 /\ vms'[v].state = s
  BY <1>3, <1>6
<1>8. hosts' = hosts
  BY <1>2
<1> QED
  BY <1>4, <1>6, <1>7, <1>8 DEF VmEffect

\* update_host_state has the effect named above.
LEMMA HostRowHandled ==
  ASSUME TypeOK, NEW c, Fits(c), NEW a \in Agents, c[<<a, "node">>] # None,
         NEW s \in HostState, UpdateHostState(c, a, s)
  PROVE  HostEffect(c, a, s)
<1>1. a[1] \in Nodes /\ <<a, "node">> \in Objects
  BY DEF Agents, Objects, Things
<1>2. PICK stale \in BOOLEAN :
        /\ Lose(stale)
        /\ hosts' = IF stale \/ hosts[a[1]] = None THEN hosts ELSE [hosts EXCEPT ![a[1]] = s]
        /\ cache' = IF stale THEN c
                    ELSE [c EXCEPT ![<<a, "node">>].synced = (hosts[a[1]] # None)]
        /\ UNCHANGED <<vms, dom>>
  BY DEF UpdateHostState
<1>3. lost' = 0 => ~stale /\ lost = 0
  BY <1>2, BoundsAssumption DEF TypeOK, Lose
<1>4. /\ Touched(c, <<a, "node">>)
      /\ ~stale => cache'[<<a, "node">>].synced = (hosts[a[1]] # None)
  <2>1. CASE stale
    BY <1>2, <2>1 DEF Touched
  <2>2. CASE ~stale
    <3> DEFINE b == hosts[a[1]] # None
    <3>1. b \in BOOLEAN /\ cache' = [c EXCEPT ![<<a, "node">>].synced = b]
      BY <1>2, <2>2
    <3>2. Touched(c, <<a, "node">>) /\ cache'[<<a, "node">>].synced = b
      <4> HIDE DEF b
      <4> QED
        BY <1>1, <3>1, OneFlag
    <3> QED
      BY <3>2
  <2> QED
    BY <2>1, <2>2
<1>5. /\ \A n \in Nodes : n # a[1] => hosts'[n] = hosts[n]
      /\ ~stale => hosts'[a[1]] = IF hosts[a[1]] = None THEN None ELSE s
  BY <1>1, <1>2 DEF TypeOK
<1> QED
  BY <1>2, <1>3, <1>4, <1>5 DEF HostEffect

\* Which object an UpdateObject with cache c handles, and how.
ObjectEffect(c, a, x) ==
  IF x = "node" THEN HostEffect(c, a, "available")
                ELSE VmEffect(c, a, x, Translate[c[<<a, x>>].state])

\* update_domain_state or update_host_state of an entry changes the one row it is about.
LEMMA ObjectRowHandled ==
  ASSUME TypeOK, NEW c, Fits(c), NEW a \in Agents, NEW x \in Things, c[<<a, x>>] # None,
         UpdateObject(c, a, x)
  PROVE  ObjectEffect(c, a, x)
<1>1. CASE x = "node"
  BY <1>1, HostRowHandled DEF UpdateObject, HostState, ObjectEffect
<1>2. CASE x # "node"
  <2>1. x \in Vms /\ <<a, x>> \in Objects
    BY <1>2 DEF Things, Objects
  <2>2. c[<<a, x>>].state \in {"running", "shutoff"}
    BY <1>2, <2>1 DEF Fits
  <2>3. Translate[c[<<a, x>>].state] \in RowState
    BY <2>2 DEF Translate, RowState
  <2>4. UpdateDomainState(c, a, x, Translate[c[<<a, x>>].state])
    BY <1>2 DEF UpdateObject
  <2> QED
    BY <1>2, <2>1, <2>3, <2>4, VmRowHandled DEF ObjectEffect
<1> QED
  BY <1>1, <1>2

\* agent_connected and agent_disconnected on an object of the cache: nothing,
\* or the flag :timed_out is set to b and the row updated accordingly.
Reviewed(a, x, b) ==
  LET c == [cache EXCEPT ![<<a, x>>].timed_out = b] IN
  /\ b = FALSE => ObjectEffect(c, a, x)
  /\ b = TRUE  => IF x = "node" THEN HostEffect(c, a, "unavailable")
                                ELSE VmEffect(c, a, x, "unreachable")

\* agent_connected does nothing for an object, or handles it as reachable again.
LEMMA ConnectReviews ==
  ASSUME IInv, NEW a \in Agents, NEW x \in ObjectsOf(a), Connect(a, x)
  PROVE  UNCHANGED <<cache, rowVars, dom>> \/ Reviewed(a, x, FALSE)
<1> DEFINE c == [cache EXCEPT ![<<a, x>>].timed_out = FALSE]
<1>1. x \in Things /\ <<a, x>> \in Objects /\ cache[<<a, x>>] # None /\ Fits(cache)
  BY DEF ObjectsOf, Objects, IInv, TypeOK, EntriesFit, Fits
<1>2. Fits(c) /\ c[<<a, x>>] # None
  BY <1>1, FlagSet DEF SameObjects
<1>3. CASE cache[<<a, x>>].timed_out \/ ~cache[<<a, x>>].synced
  <2>1. UpdateObject(c, a, x)
    BY <1>3 DEF Connect
  <2>2. ObjectEffect(c, a, x)
    <3> HIDE DEF c
    <3> QED
      BY <1>1, <1>2, <2>1, ObjectRowHandled DEF IInv
  <2> QED
    BY <2>2 DEF Reviewed
<1>4. CASE ~(cache[<<a, x>>].timed_out \/ ~cache[<<a, x>>].synced)
  BY <1>4 DEF Connect
<1> QED
  BY <1>3, <1>4

\* agent_disconnected does nothing for an object, or handles it as timed out.
LEMMA DisconnectReviews ==
  ASSUME IInv, NEW a \in Agents, NEW x \in ObjectsOf(a), Disconnect(a, x)
  PROVE  UNCHANGED <<cache, rowVars, dom>> \/ Reviewed(a, x, TRUE)
<1> DEFINE c == [cache EXCEPT ![<<a, x>>].timed_out = TRUE]
<1>1. x \in Things /\ <<a, x>> \in Objects /\ cache[<<a, x>>] # None /\ Fits(cache)
  BY DEF ObjectsOf, Objects, IInv, TypeOK, EntriesFit, Fits
<1>2. Fits(c) /\ c[<<a, x>>] # None
  BY <1>1, FlagSet DEF SameObjects
<1>3. CASE ~cache[<<a, x>>].timed_out
  <2>1. IF x = "node" THEN UpdateHostState(c, a, "unavailable")
                      ELSE UpdateDomainState(c, a, x, "unreachable")
    BY <1>3 DEF Disconnect
  <2>2. IF x = "node" THEN HostEffect(c, a, "unavailable")
                      ELSE VmEffect(c, a, x, "unreachable")
    <3> HIDE DEF c
    <3>1. CASE x = "node"
      BY <1>2, <2>1, <3>1, HostRowHandled DEF IInv, HostState
    <3>2. CASE x # "node"
      BY <1>1, <1>2, <2>1, <3>2, VmRowHandled DEF IInv, RowState, Things
    <3> QED
      BY <3>1, <3>2
  <2> QED
    BY <2>2 DEF Reviewed
<1>4. CASE cache[<<a, x>>].timed_out
  BY <1>4 DEF Disconnect
<1> QED
  BY <1>3, <1>4

\* Either way the cache keeps its objects, and their states and all the other
\* entries stay as they are.
ReviewKeeps(a, x, b) ==
  /\ \A j \in Objects \ {<<a, x>>} : cache'[j] = cache[j]
  /\ cache'[<<a, x>>] # None /\ cache'[<<a, x>>].state = cache[<<a, x>>].state
  /\ cache'[<<a, x>>].timed_out = b

\* Handling an object again changes its flag and its row, and no other entry.
LEMMA ReviewKept ==
  ASSUME IInv, NEW a \in Agents, NEW x \in ObjectsOf(a), NEW b \in BOOLEAN, Reviewed(a, x, b)
  PROVE  ReviewKeeps(a, x, b)
<1> DEFINE c == [cache EXCEPT ![<<a, x>>].timed_out = b]
<1>1. x \in Things /\ <<a, x>> \in Objects /\ cache[<<a, x>>] # None /\ Fits(cache)
  BY DEF ObjectsOf, Objects, IInv, TypeOK, EntriesFit, Fits
<1>2. /\ \A j \in Objects \ {<<a, x>>} : c[j] = cache[j]
      /\ c[<<a, x>>] # None /\ c[<<a, x>>].state = cache[<<a, x>>].state
      /\ c[<<a, x>>].timed_out = b
  BY <1>1, OneMark
<1>3. Touched(c, <<a, x>>)
  <2>1. \/ x = "node" /\ \E s \in HostState : HostEffect(c, a, s)
        \/ \E s : VmEffect(c, a, x, s)
    <3> HIDE DEF c
    <3> QED
      BY DEF Reviewed, ObjectEffect, HostState, c
  <2> HIDE DEF c
  <2> QED
    BY <2>1 DEF HostEffect, VmEffect
<1> HIDE DEF c
<1> QED
  BY <1>2, <1>3 DEF Touched, ReviewKeeps

\* update_props: the object is new, and then replaces every older one, or has
\* another state; c is the cache its row is updated with.
IsNew(a, x) == cache[<<a, x>>] = None \/ Told(a, x) = None

Publication(a, x, c) ==
  /\ told' = [told EXCEPT ![<<a, x>>] = StateOf(a, x)]
  /\ UNCHANGED boot
  /\ \A j \in Objects \ {<<a, x>>} :
       c[j] = IF IsNew(a, x) /\ j[2] = x /\ (x = "node" => j[1][1] = a[1]) THEN None ELSE cache[j]
  /\ c[<<a, x>>] # None /\ c[<<a, x>>].state = StateOf(a, x)
  /\ c[<<a, x>>].timed_out = IF IsNew(a, x) THEN FALSE ELSE TimedOut(a, x)
  /\ ObjectEffect(c, a, x)

\* object_update is called with what the node's present agent has to say.
LEMMA Publishes ==
  ASSUME IInv, NEW a \in Agents, NEW x \in Things, UpdateProps(a, x)
  PROVE  /\ StateOf(a, x) \notin {None, Told(a, x)} /\ a = Current(a[1])
         /\ IF x = "node" THEN StateOf(a, x) = "up"
            ELSE /\ dom[x] # None /\ dom[x].node = a[1] /\ dom[x].state = StateOf(a, x)
                 /\ StateOf(a, x) \in {"running", "shutoff"}
         /\ \E c : Publication(a, x, c)
<1> DEFINE k == <<a, x>>
           s == StateOf(a, x)
           c == IF IsNew(a, x) THEN WithNewObject(a, x) ELSE [cache EXCEPT ![k].state = s]
<1>1. k \in Objects /\ Fits(cache)
  BY DEF Objects, IInv, TypeOK, EntriesFit, Fits
<1>2. s \notin {None, Told(a, x)}
  BY DEF UpdateProps, Told
<1>3. a = Current(a[1])
  BY <1>2 DEF StateOf, Silent
<1>4. /\ s \in ObjectState
      /\ IF x = "node" THEN s = "up"
         ELSE /\ dom[x] # None /\ dom[x].node = a[1] /\ dom[x].state = s
              /\ s \in {"running", "shutoff"}
  <2>1. CASE x = "node"
    BY <1>2, <2>1 DEF StateOf, ObjectState
  <2>2. CASE x # "node"
    <3>1. x \in Vms /\ dom[x] \in Domain \cup {None}
      BY <2>2 DEF Things, IInv, TypeOK
    <3>2. dom[x] # None /\ dom[x].node = a[1] /\ s = dom[x].state
      BY <1>2, <2>2 DEF StateOf
    <3> QED
      BY <2>2, <3>1, <3>2 DEF Domain, ObjectState
  <2> QED
    BY <2>1, <2>2
<1>5. /\ Fits(c) /\ c[k] # None /\ c[k].state = s
      /\ c[k].timed_out = IF IsNew(a, x) THEN FALSE ELSE TimedOut(a, x)
      /\ \A j \in Objects \ {k} :
           c[j] = IF IsNew(a, x) /\ j[2] = x /\ (x = "node" => j[1][1] = a[1])
                  THEN None ELSE cache[j]
  <2> HIDE DEF s
  <2>1. CASE IsNew(a, x)
    <3> DEFINE e == [state |-> s, timed_out |-> FALSE, synced |-> FALSE]
    <3>1. e \in Entry /\ e.state = s /\ e.timed_out = FALSE
      BY <1>4 DEF Entry
    <3>2. c = [j \in Objects |->
                 IF j = k THEN e
                 ELSE IF j[2] = x /\ (x = "node" => j[1][1] = a[1]) THEN None ELSE cache[j]]
      BY <2>1 DEF WithNewObject, s
    <3> HIDE DEF e, c
    <3>3. c[k] = e /\ e # None
      BY <1>1, <3>1, <3>2, NullAssumption
    <3>4. \A j \in Objects \ {k} :
            c[j] = IF j[2] = x /\ (x = "node" => j[1][1] = a[1]) THEN None ELSE cache[j]
      BY <3>2
    <3>5. Fits(c)
      BY <1>1, <1>4, <3>1, <3>2, NullAssumption DEF Fits
    <3> QED
      BY <2>1, <3>1, <3>3, <3>4, <3>5
  <2>2. CASE ~IsNew(a, x)
    <3> DEFINE e == [cache[k] EXCEPT !.state = s]
    <3>1. cache[k] \in Entry
      BY <1>1, <2>2 DEF Fits, IsNew
    <3>2. e \in Entry /\ e.state = s /\ e.timed_out = cache[k].timed_out
      BY <1>4, <3>1 DEF Entry
    <3>3. c = [cache EXCEPT ![k] = e]
      BY <2>2
    <3> HIDE DEF e, c
    <3>4. c[k] = e /\ e # None /\ \A j \in Objects \ {k} : c[j] = cache[j]
      BY <1>1, <3>2, <3>3, NullAssumption DEF Fits
    <3>5. Fits(c)
      BY <1>1, <1>4, <3>2, <3>3, NullAssumption DEF Fits
    <3> QED
      BY <2>2, <3>2, <3>4, <3>5 DEF TimedOut
  <2> QED
    BY <2>1, <2>2
<1>6. ObjectEffect(c, a, x)
  <2>1. UpdateObject(c, a, x)
    BY DEF UpdateProps, IsNew, Told
  <2> HIDE DEF c
  <2> QED
    BY <1>5, <2>1, ObjectRowHandled DEF IInv
<1>7. told' = [told EXCEPT ![k] = s] /\ UNCHANGED boot
  BY DEF UpdateProps
<1>8. Publication(a, x, c)
  <2> HIDE DEF c
  <2> QED
    BY <1>5, <1>6, <1>7 DEF Publication
<1> QED
  BY <1>2, <1>3, <1>4, <1>8

-----------------------------------------------------------------------------
(***************************************************************************)
(* What is known of the objects (KnownInv).                                *)
(***************************************************************************)

\* A step that publishes nothing and keeps the objects of the cache keeps what
\* is known, if domains do not move or start to run again, and one known to
\* run on a node that was not rebooted stays defined.
LEMMA KnownKept ==
  ASSUME IInv, IInv', KnownInv, told' = told,
         \A j \in Objects :
           /\ cache'[j] = None <=> cache[j] = None
           /\ cache[j] # None => cache'[j].state = cache[j].state,
         \A n \in Nodes : boot'[n] = boot[n] \/ boot'[n] = boot[n] + 1,
         \A v \in Vms : dom'[v] = None \/
           /\ dom[v] # None /\ dom'[v].node = dom[v].node
           /\ dom[v].state = "shutoff" => dom'[v].state = "shutoff",
         \A a \in Agents, v \in Vms :
           Told(a, v) = "running" /\ Cached(a, v) /\ boot'[a[1]] = boot[a[1]] /\ dom[v] # None
             => dom'[v] # None
  PROVE  KnownInv'
<1>1. \A a \in Agents, x \in Things :
        /\ <<a, x>> \in Objects /\ Told(a, x)' = Told(a, x) /\ Cached(a, x)' = Cached(a, x)
        /\ Cached(a, x) => cache'[<<a, x>>].state = cache[<<a, x>>].state
  BY DEF Objects, Told, Cached
<1>2. \A n \in Nodes : boot[n] \in Nat /\ boot[n] <= boot'[n]
  BY DEF IInv, TypeOK
<1>3. \A a \in Agents : a[1] \in Nodes /\ a[2] \in Nat /\ a = <<a[1], a[2]>>
  BY BoundsAssumption DEF Agents
<1>4. \A v \in Vms : v \in Things /\ v # "node"
  BY BoundsAssumption DEF Things
<1>5. "node" \in Things
  BY DEF Things
<1>6. Unique'
  BY <1>1 DEF KnownInv, Unique
<1>7. NotYet'
  <2> SUFFICES ASSUME NEW a \in Agents, NEW x \in Things, Told(a, x)' # None
               PROVE  a[2] <= boot'[a[1]]
    BY DEF NotYet
  <2>1. a[2] <= boot[a[1]]
    BY <1>1 DEF KnownInv, NotYet
  <2> QED
    BY <1>2, <1>3, <2>1
<1>8. ASSUME NEW n \in Nodes, NEW x \in Things, Told(Current(n), x)' # None
      PROVE  Current(n)' = Current(n)
  <2>1. boot'[n] \in 1..MaxBoots
    BY DEF IInv, TypeOK
  <2>2. <<n, boot'[n]>> \in Agents /\ Current(n)' = <<n, boot'[n]>>
    BY <2>1 DEF Agents, Current
  <2>3. Told(<<n, boot'[n]>>, x) # None
    BY <1>1, <1>8, <2>2 DEF Told
  <2>4. boot'[n] <= boot[n]
    BY <2>2, <2>3 DEF KnownInv, NotYet
  <2> QED
    BY <1>2, <2>1, <2>2, <2>4 DEF Current
<1>9. Remembered'
  <2>1. ASSUME NEW v \in Vms, dom'[v] # None, Told(Current(dom[v].node), v)' # None
        PROVE  Cached(Current(dom[v].node), v)'
    <3>1. dom[v] # None /\ dom'[v].node = dom[v].node /\ dom[v].node \in Nodes
      BY <2>1 DEF IInv, TypeOK, Domain
    <3>2. Current(dom[v].node)' = Current(dom[v].node) /\ Current(dom[v].node) \in Agents
      <4>1. Current(dom[v].node) \in Agents
        BY <3>1 DEF Current, Agents, IInv, TypeOK
      <4>2. boot'[dom[v].node] = boot[dom[v].node]
        BY <1>4, <1>8, <2>1, <3>1 DEF Current
      <4> QED
        BY <3>1, <4>1, <4>2 DEF Current
    <3>3. Told(Current(dom[v].node), v) # None
      BY <2>1, <3>2 DEF Told
    <3>4. Cached(Current(dom[v].node), v)
      BY <3>1, <3>3 DEF KnownInv, Remembered
    <3> QED
      BY <1>1, <1>4, <3>2, <3>4 DEF Cached
  <2>2. ASSUME NEW n \in Nodes, Told(Current(n), "node")' # None
        PROVE  Cached(Current(n), "node")'
    <3>1. Current(n)' = Current(n) /\ Current(n) \in Agents
      BY <1>5, <1>8, <2>2 DEF Current, Agents, IInv, TypeOK
    <3>2. Cached(Current(n), "node")
      BY <2>2, <3>1 DEF KnownInv, Remembered, Told
    <3> QED
      BY <1>1, <1>5, <3>1, <3>2 DEF Cached
  <2> QED
    BY <2>1, <2>2 DEF Remembered
<1>10. UpToNow'
  <2>1. ASSUME NEW a \in Agents, NEW x \in Things, Told(a, x)' # None, Cached(a, x)'
        PROVE  cache'[<<a, x>>].state = Told(a, x)'
    BY <1>1, <2>1 DEF KnownInv, UpToNow
  <2>2. ASSUME NEW a \in Agents, NEW b \in Agents, NEW v \in Vms,
               Told(a, v)' # None, Cached(b, v)'
        PROVE  Told(b, v)' # None
    <3>1. Told(a, v) # None /\ Cached(b, v)
      BY <1>1, <1>4, <2>2
    <3>2. Told(b, v) # None
      BY <3>1 DEF KnownInv, UpToNow
    <3> QED
      BY <1>1, <1>4, <3>2
  <2> QED
    BY <2>1, <2>2 DEF UpToNow
<1>11. Whereabouts'
  BY <1>1, <1>4 DEF KnownInv, Whereabouts
<1>12. Halts'
  BY <1>1, <1>4 DEF KnownInv, Halts
<1>13. There'
  <2> SUFFICES ASSUME NEW a \in Agents, NEW v \in Vms,
                      Told(a, v)' = "running", Cached(a, v)', a = Current(a[1])'
               PROVE  dom'[v] # None
    BY DEF There
  <2>1. Told(a, v) = "running" /\ Cached(a, v)
    BY <1>1, <1>4
  <2>2. "running" # None
    BY NullAssumption DEF ObjectState
  <2>3. Current(a[1])' = Current(a[1])
    <3>1. Told(Current(a[1]), v)' # None
      BY <1>1, <1>4, <2>1, <2>2 DEF Told
    <3> QED
      BY <1>3, <1>4, <1>8, <3>1
  <2>4. dom[v] # None /\ boot'[a[1]] = boot[a[1]]
    BY <2>1, <2>3 DEF KnownInv, There, Current
  <2> QED
    BY <2>1, <2>4
<1> QED
  BY <1>6, <1>7, <1>9, <1>10, <1>11, <1>12, <1>13 DEF KnownInv

\* Initially nothing is known.
LEMMA InitKnown == Init => KnownInv
<1> SUFFICES ASSUME Init PROVE KnownInv
  OBVIOUS
<1>1. \A a \in Agents, x \in Things : Told(a, x) = None /\ ~Cached(a, x)
  BY DEF Init, Told, Cached, Objects
<1>2. \A v \in Vms : v \in Things
  BY DEF Things
<1>3. "running" # None /\ "shutoff" # None
  BY NullAssumption DEF ObjectState
<1>4. Remembered
  <2>1. ASSUME NEW v \in Vms, dom[v] # None PROVE Told(Current(dom[v].node), v) = None
    <3>1. Current(dom[v].node) \in Agents
      BY <2>1, BoundsAssumption DEF Init, Current, Agents
    <3> QED
      BY <1>1, <1>2, <3>1
  <2>2. ASSUME NEW n \in Nodes PROVE Told(Current(n), "node") = None
    BY <1>1, BoundsAssumption DEF Init, Current, Agents, Things
  <2> QED
    BY <2>1, <2>2 DEF Remembered
<1> QED
  BY <1>1, <1>2, <1>3, <1>4
     DEF KnownInv, Unique, NotYet, UpToNow, Whereabouts, Halts, There

\* The world: a domain moves only when it is put on a node, and then nothing
\* published of it counts.
LEMMA WorldKnown == ASSUME IInv, IInv', KnownInv, World PROVE KnownInv'
<1>1. \A n \in Nodes : boot[n] \in Nat
  BY DEF IInv, TypeOK
<1>2. \A v \in Vms : v \in Things /\ v # "node"
  BY BoundsAssumption DEF Things
<1>3. ASSUME NEW n \in Nodes, NodeCrash(n) PROVE KnownInv'
  <2>1. /\ UNCHANGED <<told, cache>>
        /\ boot' = [boot EXCEPT ![n] = @ + 1]
        /\ dom' = [v \in Vms |-> IF dom[v] # None /\ dom[v].node = n THEN None ELSE dom[v]]
    BY <1>3 DEF NodeCrash, daemonState
  <2>2. \A m \in Nodes : boot'[m] = boot[m] \/ boot'[m] = boot[m] + 1
    BY <2>1 DEF IInv, TypeOK
  <2>3. boot'[n] # boot[n]
    BY <1>1, <2>1 DEF IInv, TypeOK
  <2>4. ASSUME NEW a \in Agents, NEW v \in Vms, Told(a, v) = "running", dom[v] # None,
               boot'[a[1]] = boot[a[1]]
        PROVE  dom'[v] # None
    <3>1. "running" # None
      BY NullAssumption DEF ObjectState
    <3>2. dom[v].node = a[1]
      BY <2>4, <3>1 DEF KnownInv, Whereabouts
    <3> QED
      BY <2>1, <2>3, <2>4, <3>2
  <2> QED
    BY <2>1, <2>2, <2>4, KnownKept
<1>4. ASSUME NEW n \in Nodes, AgentLost(n) \/ AgentBack(n) \/ Register(n) PROVE KnownInv'
  <2>1. UNCHANGED <<told, cache, dom>>
    BY <1>4 DEF AgentLost, AgentBack, Register, daemonState, worldVars
  <2>2. boot' = boot \/ boot' = [boot EXCEPT ![n] = @ + 1]
    BY <1>4 DEF AgentLost, AgentBack, Register, worldVars
  <2>3. \A m \in Nodes : boot'[m] = boot[m] \/ boot'[m] = boot[m] + 1
    BY <2>2 DEF IInv, TypeOK
  <2> QED
    BY <2>1, <2>3, KnownKept
<1>5. ASSUME NEW v \in Vms, GuestStops(v) PROVE KnownInv'
  <2>1. UNCHANGED <<told, cache, boot>> /\ dom[v] \in Domain
    BY <1>5 DEF GuestStops, daemonState, IInv, TypeOK
  <2>2. [dom[v] EXCEPT !.state = "shutoff"] \in Domain
    BY <2>1 DEF Domain
  <2>3. /\ dom'[v].node = dom[v].node /\ dom'[v].state = "shutoff" /\ dom'[v] # None
        /\ \A w \in Vms : w # v => dom'[w] = dom[w]
    BY <1>5, <2>1, <2>2, NullAssumption DEF GuestStops, IInv, TypeOK, Domain
  <2>4. /\ \A w \in Vms : dom'[w] = None \/
             /\ dom[w] # None /\ dom'[w].node = dom[w].node
             /\ dom[w].state = "shutoff" => dom'[w].state = "shutoff"
        /\ \A w \in Vms : dom[w] # None => dom'[w] # None
    BY <1>5, <2>3 DEF GuestStops
  <2> QED
    BY <2>1, <2>4, KnownKept
<1>6. ASSUME NEW v \in Vms, NEW n \in Nodes, PutVm(v, n) PROVE KnownInv'
  <2>1. /\ UNCHANGED <<cache, boot>>
        /\ told' = [k \in Objects |-> IF k[2] = v THEN None ELSE told[k]]
        /\ \A w \in Vms : w # v => dom'[w] = dom[w]
    BY <1>6 DEF PutVm, IInv, TypeOK
  <2>2. \A a \in Agents, x \in Things :
          /\ <<a, x>> \in Objects /\ Cached(a, x)' = Cached(a, x)
          /\ cache'[<<a, x>>] = cache[<<a, x>>]
          /\ Told(a, x)' = IF x = v THEN None ELSE Told(a, x)
    BY <2>1 DEF Told, Cached, Objects
  <2>3. \A m \in Nodes : Current(m)' = Current(m) /\ Current(m) \in Agents
    BY <2>1 DEF Current, IInv, TypeOK, Agents
  <2>4. "running" # None /\ "shutoff" # None
    BY NullAssumption DEF ObjectState
  <2>5. Unique' /\ NotYet' /\ UpToNow' /\ Whereabouts'
    <3>1. Unique'
      BY <2>2 DEF KnownInv, Unique
    <3>2. NotYet'
      BY <2>1, <2>2 DEF KnownInv, NotYet
    <3>3. UpToNow'
      <4>1. ASSUME NEW a \in Agents, NEW x \in Things, Told(a, x)' # None, Cached(a, x)'
            PROVE  cache'[<<a, x>>].state = Told(a, x)'
        <5>1. x # v /\ Told(a, x)' = Told(a, x) /\ Cached(a, x)
          BY <2>2, <4>1
        <5>2. cache[<<a, x>>].state = Told(a, x)
          BY <4>1, <5>1 DEF KnownInv, UpToNow
        <5> QED
          BY <2>2, <5>1, <5>2
      <4>2. ASSUME NEW a \in Agents, NEW b \in Agents, NEW w \in Vms,
                   Told(a, w)' # None, Cached(b, w)'
            PROVE  Told(b, w)' # None
        <5>1. w # v /\ Told(a, w) # None /\ Cached(b, w)
          BY <1>2, <2>2, <4>2
        <5>2. Told(b, w) # None
          BY <5>1 DEF KnownInv, UpToNow
        <5> QED
          BY <1>2, <2>2, <5>1, <5>2
      <4> QED
        BY <4>1, <4>2 DEF UpToNow
    <3>4. Whereabouts'
      <4> SUFFICES ASSUME NEW a \in Agents, NEW w \in Vms, Told(a, w)' # None, dom'[w] # None
                   PROVE  dom'[w].node = a[1]
        BY DEF Whereabouts
      <4>1. w # v /\ Told(a, w) # None
        BY <1>2, <2>2
      <4>2. dom'[w] = dom[w]
        BY <2>1, <4>1
      <4> QED
        BY <4>1, <4>2 DEF KnownInv, Whereabouts
    <3> QED
      BY <3>1, <3>2, <3>3, <3>4
  <2>6. Halts'
    BY <1>2, <2>1, <2>2, <2>4 DEF KnownInv, Halts
  <2>7. There'
    <3> SUFFICES ASSUME NEW a \in Agents, NEW w \in Vms,
                        Told(a, w)' = "running", Cached(a, w)', a = Current(a[1])'
                 PROVE  dom'[w] # None
      BY DEF There
    <3>1. w # v /\ Told(a, w) = "running" /\ Cached(a, w)
      BY <1>2, <2>2, <2>4
    <3>2. a = Current(a[1])
      BY <2>1 DEF Current
    <3> QED
      BY <2>1, <3>1, <3>2 DEF KnownInv, There
  <2>8. Remembered'
    <3>1. ASSUME NEW w \in Vms, dom'[w] # None, Told(Current(dom[w].node), w)' # None
          PROVE  Cached(Current(dom[w].node), w)'
      <4>1. dom'[w].node \in Nodes
        BY <3>1 DEF IInv, TypeOK, Domain
      <4>2. Current(dom[w].node)' = Current(dom'[w].node) /\ Current(dom'[w].node) \in Agents
        BY <2>1, <2>3, <4>1 DEF Current
      <4>3. told'[<<Current(dom'[w].node), w>>] # None
        BY <2>1, <3>1 DEF Told, Current
      <4>4. w # v /\ Told(Current(dom'[w].node), w) # None
        BY <1>2, <2>1, <4>2, <4>3 DEF Told, Objects
      <4>5. Cached(Current(dom[w].node), w) /\ dom'[w] = dom[w]
        BY <2>1, <3>1, <4>4 DEF KnownInv, Remembered
      <4> QED
        BY <2>1, <4>2, <4>5 DEF Cached
    <3>2. ASSUME NEW m \in Nodes, Told(Current(m), "node")' # None
          PROVE  Cached(Current(m), "node")'
      <4>1. Told(Current(m), "node") # None
        <5>1. told'[<<Current(m), "node">>] # None /\ <<Current(m), "node">> \in Objects
          BY <2>3, <3>2 DEF Told, Objects, Things
        <5> QED
          BY <2>1, <5>1 DEF Told
      <4>2. Cached(Current(m), "node")
        BY <4>1 DEF KnownInv, Remembered
      <4> QED
        BY <2>1, <2>3, <4>2 DEF Cached
    <3> QED
      BY <3>1, <3>2 DEF Remembered
  <2> QED
    BY <2>5, <2>6, <2>7, <2>8 DEF KnownInv
<1> QED
  BY <1>3, <1>4, <1>5, <1>6 DEF World

\* An object of the cache is handled: a domain that is undefined then was not
\* last published as running.
LEMMA ReviewKnown ==
  ASSUME IInv, IInv', KnownInv, NEW a \in Agents, NEW x \in ObjectsOf(a), NEW b \in BOOLEAN,
         Reviewed(a, x, b), UNCHANGED <<told, boot>>
  PROVE  KnownInv'
<1>1. x \in Things /\ <<a, x>> \in Objects /\ Cached(a, x) /\ cache[<<a, x>>] \in Entry
  BY DEF ObjectsOf, Objects, IInv, TypeOK, Cached
<1>2. ReviewKeeps(a, x, b)
  BY ReviewKept
<1>3. \A j \in Objects :
        /\ cache'[j] = None <=> cache[j] = None
        /\ cache[j] # None => cache'[j].state = cache[j].state
  BY <1>1, <1>2 DEF ReviewKeeps, Cached
<1>4. \A v \in Vms : dom'[v] = dom[v] \/
        /\ dom'[v] = None /\ v = x /\ cache[<<a, x>>].state # "running"
  <2> DEFINE c == [cache EXCEPT ![<<a, x>>].timed_out = b]
  <2>1. CASE x = "node"
    <3>1. dom' = dom
      BY <2>1 DEF Reviewed, ObjectEffect, HostEffect
    <3> QED
      BY <3>1
  <2>2. CASE x # "node"
    <3>1. c[<<a, x>>].state = cache[<<a, x>>].state
      BY <1>1, OneMark DEF IInv, TypeOK, EntriesFit, Fits, Cached
    <3>2. \/ VmEffect(c, a, x, Translate[cache[<<a, x>>].state])
          \/ VmEffect(c, a, x, "unreachable")
      BY <2>2, <3>1 DEF Reviewed, ObjectEffect
    <3>3. cache[<<a, x>>].state = "running" => Translate[cache[<<a, x>>].state] # "stopped"
      BY DEF Translate
    <3> HIDE DEF c
    <3> QED
      BY <3>2, <3>3 DEF VmEffect
  <2> QED
    BY <2>1, <2>2
<1>5. ASSUME NEW d \in Agents, NEW v \in Vms, Told(d, v) = "running", Cached(d, v),
             dom[v] # None
      PROVE  dom'[v] # None
  <2>1. "running" # None /\ v \in Things /\ v # "node"
    BY NullAssumption, BoundsAssumption DEF ObjectState, Things
  <2>2. cache[<<d, v>>].state = "running"
    BY <1>5, <2>1 DEF KnownInv, UpToNow
  <2>3. v = x => d = a
    BY <1>1, <1>5, <2>1 DEF KnownInv, Unique
  <2> QED
    BY <1>4, <1>5, <2>2, <2>3
<1>6. \A v \in Vms : dom'[v] = None \/
        /\ dom[v] # None /\ dom'[v].node = dom[v].node
        /\ dom[v].state = "shutoff" => dom'[v].state = "shutoff"
  BY <1>4
<1> QED
  BY <1>3, <1>5, <1>6, KnownKept

\* A publication: it is the only entry of its object then, or was one before.
LEMMA PublicationKnown ==
  ASSUME IInv, IInv', KnownInv, NEW a \in Agents, NEW x \in Things, UpdateProps(a, x)
  PROVE  KnownInv'
<1> DEFINE k == <<a, x>>
           s == StateOf(a, x)
           new == IsNew(a, x)
<1>1. /\ s \notin {None, Told(a, x)} /\ a = Current(a[1])
      /\ IF x = "node" THEN s = "up"
         ELSE /\ dom[x] # None /\ dom[x].node = a[1] /\ dom[x].state = s
              /\ s \in {"running", "shutoff"}
  BY Publishes
<1>2. PICK c : Publication(a, x, c)
  BY Publishes
<1>3. a[1] \in Nodes /\ a[2] \in Nat /\ k \in Objects
  BY BoundsAssumption DEF Agents, Objects
<1>4. \A v \in Vms : v \in Things /\ v # "node"
  BY BoundsAssumption DEF Things
<1>5. Touched(c, k)
  BY <1>2 DEF Publication, ObjectEffect, HostEffect, VmEffect
<1>6. \A v \in Vms : dom'[v] = dom[v] \/ (dom'[v] = None /\ v = x /\ s = "shutoff")
  <2>1. CASE x = "node"
    BY <1>2, <2>1 DEF Publication, ObjectEffect, HostEffect
  <2>2. CASE x # "node"
    <3>1. VmEffect(c, a, x, Translate[s])
      BY <1>2, <2>2 DEF Publication, ObjectEffect
    <3>2. Translate[s] = "stopped" => s = "shutoff"
      BY <1>1, <2>2 DEF Translate
    <3> HIDE DEF s
    <3> QED
      BY <3>1, <3>2 DEF VmEffect
  <2> QED
    BY <2>1, <2>2
<1>7. Told(a, x)' = s /\ Cached(a, x)' /\ cache'[k].state = s
  BY <1>2, <1>3, <1>5 DEF Publication, Touched, Told, Cached, IInv, TypeOK
<1>8. \A b \in Agents, y \in Things : <<b, y>> # k =>
        /\ <<b, y>> \in Objects
        /\ Told(b, y)' = Told(b, y)
        /\ cache'[<<b, y>>] = IF new /\ y = x /\ (x = "node" => b[1] = a[1])
                              THEN None ELSE cache[<<b, y>>]
        /\ Cached(b, y)' => Cached(b, y)
  <2> SUFFICES ASSUME NEW b \in Agents, NEW y \in Things, <<b, y>> # k
               PROVE  /\ <<b, y>> \in Objects
                      /\ Told(b, y)' = Told(b, y)
                      /\ cache'[<<b, y>>] = IF new /\ y = x /\ (x = "node" => b[1] = a[1])
                                            THEN None ELSE cache[<<b, y>>]
                      /\ Cached(b, y)' => Cached(b, y)
    OBVIOUS
  <2>1. <<b, y>> \in Objects
    BY DEF Objects
  <2>2. Told(b, y)' = Told(b, y)
    BY <1>2, <2>1 DEF Publication, Told, IInv, TypeOK
  <2>3. cache'[<<b, y>>] = c[<<b, y>>]
    BY <1>5, <2>1 DEF Touched
  <2>4. c[<<b, y>>] = IF new /\ y = x /\ (x = "node" => b[1] = a[1]) THEN None ELSE cache[<<b, y>>]
    <3> HIDE DEF new
    <3> QED
      BY <1>2, <2>1 DEF Publication, new
  <2> HIDE DEF new, k
  <2> QED
    BY <2>1, <2>2, <2>3, <2>4 DEF Cached
<1>9. ~new => Cached(a, x) /\ Told(a, x) # None
  BY DEF IsNew, Cached
<1>10. \A n \in Nodes : Current(n)' = Current(n) /\ Current(n) \in Agents
  BY <1>2 DEF Publication, Current, IInv, TypeOK, Agents
<1> HIDE DEF new, s
<1>11. Unique'
  <2> SUFFICES ASSUME NEW b \in Agents, NEW d \in Agents, NEW y \in Things,
                      Cached(b, y)', Cached(d, y)', y = "node" => b[1] = d[1], b # d
               PROVE  FALSE
    BY DEF Unique
  <2>1. CASE new
    <3>1. ASSUME NEW e \in Agents, <<e, y>> # k, Cached(e, y)'
          PROVE  ~(y = x /\ (x = "node" => e[1] = a[1])) /\ Cached(e, y)
      BY <1>8, <2>1, <3>1 DEF Cached
    <3>2. CASE <<b, y>> # k /\ <<d, y>> # k
      BY <3>1, <3>2 DEF KnownInv, Unique
    <3>3. CASE <<b, y>> = k \/ <<d, y>> = k
      BY <3>1, <3>3
    <3> QED
      BY <3>2, <3>3
  <2>2. CASE ~new
    <3>1. Cached(b, y) /\ Cached(d, y)
      BY <1>8, <1>9, <2>2
    <3> QED
      BY <3>1 DEF KnownInv, Unique
  <2> QED
    BY <2>1, <2>2
<1>12. NotYet'
  <2> SUFFICES ASSUME NEW b \in Agents, NEW y \in Things, Told(b, y)' # None
               PROVE  b[2] <= boot'[b[1]]
    BY DEF NotYet
  <2>1. CASE <<b, y>> = k
    BY <1>1, <1>2, <1>3, <2>1 DEF Current, Publication, IInv, TypeOK
  <2>2. CASE <<b, y>> # k
    BY <1>2, <1>8, <2>2 DEF Publication, KnownInv, NotYet
  <2> QED
    BY <2>1, <2>2
<1>13. UpToNow'
  <2>1. ASSUME NEW b \in Agents, NEW y \in Things, Told(b, y)' # None, Cached(b, y)'
        PROVE  cache'[<<b, y>>].state = Told(b, y)'
    <3>1. CASE <<b, y>> = k
      <4>1. b = a /\ y = x
        BY <3>1
      <4> QED
        BY <1>7, <4>1
    <3>2. CASE <<b, y>> # k
      <4>1. cache'[<<b, y>>] = cache[<<b, y>>] /\ Cached(b, y) /\ Told(b, y)' = Told(b, y)
        BY <1>8, <2>1, <3>2 DEF Cached
      <4> QED
        BY <2>1, <4>1 DEF KnownInv, UpToNow
    <3> QED
      BY <3>1, <3>2
  <2>2. ASSUME NEW b \in Agents, NEW d \in Agents, NEW v \in Vms,
               Told(b, v)' # None, Cached(d, v)'
        PROVE  Told(d, v)' # None
    <3>1. CASE <<d, v>> = k
      <4>1. d = a /\ v = x
        BY <3>1
      <4>2. s # None
        BY <1>1
      <4> QED
        BY <1>7, <4>1, <4>2
    <3>2. CASE <<d, v>> # k /\ <<b, v>> # k
      <4>1. Told(b, v) # None /\ Cached(d, v) /\ Told(d, v)' = Told(d, v)
        BY <1>4, <1>8, <2>2, <3>2
      <4> QED
        BY <4>1 DEF KnownInv, UpToNow
    <3>3. CASE <<d, v>> # k /\ <<b, v>> = k
      <4>1. v = x /\ x # "node" /\ x \in Vms
        BY <1>4, <3>3
      <4>2. ~new /\ Cached(d, v) /\ Told(d, v)' = Told(d, v)
        BY <1>4, <1>8, <2>2, <3>3, <4>1 DEF Cached
      <4> QED
        BY <1>9, <4>1, <4>2 DEF KnownInv, UpToNow
    <3> QED
      BY <3>1, <3>2, <3>3
  <2> QED
    BY <2>1, <2>2 DEF UpToNow
<1>14. Whereabouts'
  <2> SUFFICES ASSUME NEW b \in Agents, NEW v \in Vms, Told(b, v)' # None, dom'[v] # None
               PROVE  dom'[v].node = b[1]
    BY DEF Whereabouts
  <2>1. dom'[v] = dom[v]
    BY <1>6
  <2>2. CASE <<b, v>> = k
    BY <1>1, <1>4, <2>1, <2>2
  <2>3. CASE <<b, v>> # k
    BY <1>4, <1>8, <2>1, <2>3 DEF KnownInv, Whereabouts
  <2> QED
    BY <2>2, <2>3
<1>15. Halts'
  <2> SUFFICES ASSUME NEW b \in Agents, NEW v \in Vms, Told(b, v)' = "shutoff", dom'[v] # None
               PROVE  dom'[v].state = "shutoff"
    BY DEF Halts
  <2>1. dom'[v] = dom[v]
    BY <1>6
  <2>2. CASE <<b, v>> = k
    BY <1>1, <1>4, <1>7, <2>1, <2>2
  <2>3. CASE <<b, v>> # k
    BY <1>4, <1>8, <2>1, <2>3 DEF KnownInv, Halts
  <2> QED
    BY <2>2, <2>3
<1>16. There'
  <2> SUFFICES ASSUME NEW b \in Agents, NEW v \in Vms,
                      Told(b, v)' = "running", Cached(b, v)', b = Current(b[1])'
               PROVE  dom'[v] # None
    BY DEF There
  <2>1. CASE <<b, v>> = k
    BY <1>1, <1>4, <1>6, <1>7, <2>1
  <2>2. CASE <<b, v>> # k
    <3>1. v # x
      BY <1>4, <1>7, <1>11, <2>2 DEF Unique
    <3>2. dom'[v] = dom[v] /\ Told(b, v) = "running" /\ Cached(b, v) /\ b = Current(b[1])
      <4>1. b[1] \in Nodes
        BY DEF Agents
      <4> QED
        BY <1>4, <1>6, <1>8, <1>10, <2>2, <3>1, <4>1
    <3> QED
      BY <3>2 DEF KnownInv, There
  <2> QED
    BY <2>1, <2>2
<1>17. Remembered'
  <2>1. ASSUME NEW v \in Vms, dom'[v] # None, Told(Current(dom[v].node), v)' # None
        PROVE  Cached(Current(dom[v].node), v)'
    <3> DEFINE b == Current(dom[v].node)
    <3>1. dom'[v] = dom[v] /\ dom[v].node \in Nodes
      BY <1>6, <2>1 DEF IInv, TypeOK, Domain
    <3>2. b' = b /\ b \in Agents
      BY <1>2, <1>10, <3>1 DEF Current, Publication
    <3>3. CASE v = x
      BY <1>1, <1>4, <1>7, <3>1, <3>2, <3>3 DEF Cached
    <3>4. CASE v # x
      <4> HIDE DEF b
      <4>1. <<b, v>> # k /\ Told(b, v)' # None
        BY <2>1, <3>2, <3>4 DEF b, Told
      <4>2. Told(b, v) # None /\ cache'[<<b, v>>] = cache[<<b, v>>]
        BY <1>4, <1>8, <3>2, <3>4, <4>1 DEF Told
      <4>3. Cached(b, v)
        BY <2>1, <3>1, <4>2 DEF KnownInv, Remembered, b
      <4> QED
        BY <3>2, <4>2, <4>3 DEF Cached, b
    <3> QED
      BY <3>3, <3>4
  <2>2. ASSUME NEW n \in Nodes, Told(Current(n), "node")' # None
        PROVE  Cached(Current(n), "node")'
    <3> DEFINE b == Current(n)
    <3>1. b' = b /\ b \in Agents /\ b[1] = n
      BY <1>10 DEF Current
    <3>2. CASE <<b, "node">> = k
      BY <1>7, <3>1, <3>2 DEF Cached
    <3>3. CASE <<b, "node">> # k
      <4> HIDE DEF b
      <4>1. ~("node" = x /\ b[1] = a[1])
        BY <1>1, <3>1, <3>3 DEF b
      <4>2. Told(b, "node") # None /\ cache'[<<b, "node">>] = cache[<<b, "node">>]
        BY <1>8, <2>2, <3>1, <3>3, <4>1 DEF Told, Things, b
      <4>3. Cached(b, "node")
        BY <4>2 DEF KnownInv, Remembered, b
      <4> QED
        BY <3>1, <4>2, <4>3 DEF Cached, b
    <3> QED
      BY <3>2, <3>3
  <2> QED
    BY <2>1, <2>2 DEF Remembered
<1> QED
  BY <1>11, <1>12, <1>13, <1>14, <1>15, <1>16, <1>17 DEF KnownInv

\* The two handlers that go through an agent's objects review one of them.
LEMMA ObjectStepReviews ==
  ASSUME IInv, NEW x \in Things, DropObject(x) \/ CheckObject(x)
  PROVE  /\ UNCHANGED <<told, boot, beats, old>>
         /\ \/ UNCHANGED <<cache, rowVars, dom>>
            \/ \E a \in Agents, b \in BOOLEAN :
                 /\ x \in ObjectsOf(a) /\ Reviewed(a, x, b)
                 /\ b => \/ drop # None /\ drop.agent = a
                         \/ pass # None /\ pass.agent = a /\ pass.down
<1>1. CASE DropObject(x)
  <2>1. drop # None /\ drop.agent \in Agents /\ x \in ObjectsOf(drop.agent)
    BY <1>1 DEF DropObject, IInv, TypeOK, Drop, DropHolds
  <2>2. Disconnect(drop.agent, x) /\ UNCHANGED <<told, boot, beats, old>>
    BY <1>1 DEF DropObject
  <2> QED
    BY <2>1, <2>2, DisconnectReviews
<1>2. CASE CheckObject(x)
  <2>1. pass # None /\ pass.agent \in Agents /\ x \in ObjectsOf(pass.agent)
    BY <1>2 DEF CheckObject, IInv, TypeOK, Pass, PassHolds
  <2>2. UNCHANGED <<told, boot, beats, old>>
    BY <1>2 DEF CheckObject
  <2>3. CASE pass.down
    <3>1. Disconnect(pass.agent, x)
      BY <1>2, <2>3 DEF CheckObject
    <3> QED
      BY <2>1, <2>2, <2>3, <3>1, DisconnectReviews
  <2>4. CASE ~pass.down
    <3>1. Connect(pass.agent, x)
      BY <1>2, <2>4 DEF CheckObject
    <3> QED
      BY <2>1, <2>2, <3>1, ConnectReviews
  <2> QED
    BY <2>3, <2>4
<1> QED
  BY <1>1, <1>2

\* The steps that touch neither the objects nor the domains.
Aside ==
  \/ \E a \in Agents : AgentHeartbeat(a) \/ Lapse(a) \/ AgentDeleted(a) \/ CheckAgent(a)
  \/ DropDone \/ CheckHeartbeats \/ Checked
  \/ \E n \in Nodes : CheckDeadVms(n)
  \/ UNCHANGED vars

\* The other steps change nothing the agents say, no entry and no host's row.
LEMMA AsideKeeps == Aside => UNCHANGED <<told, cache, boot, dom, hosts>>
BY DEF Aside, AgentHeartbeat, Lapse, AgentDeleted, CheckAgent, DropDone, CheckHeartbeats, Checked,
       CheckDeadVms, vars, worldVars, rowVars

\* The kinds of step the proofs below go through.
LEMMA NextKinds ==
  ASSUME [Next]_vars
  PROVE  \/ World \/ Aside \/ Restart
         \/ \E a \in Agents, x \in Things : UpdateProps(a, x)
         \/ \E x \in Things : DropObject(x) \/ CheckObject(x)
BY DEF Next, Callbacks, MainLoop, Aside

\* Every step preserves KnownInv.
LEMMA NextKnown == IInv /\ KnownInv /\ [Next]_vars => KnownInv'
<1> SUFFICES ASSUME IInv, KnownInv, [Next]_vars PROVE KnownInv'
  OBVIOUS
<1>1. IInv'
  BY NextIInv
<1>2. CASE World
  BY <1>1, <1>2, WorldKnown
<1>3. ASSUME UNCHANGED <<told, cache, boot, dom>> PROVE KnownInv'
  BY <1>1, <1>3, KnownKept
<1>4. CASE Aside
  BY <1>3, <1>4, AsideKeeps
<1>5. CASE Restart
  <2>1. \A a \in Agents, x \in Things : Told(a, x)' = None /\ ~Cached(a, x)'
    BY <1>5 DEF Restart, Told, Cached, Objects
  <2>2. \A v \in Vms : v \in Things
    BY DEF Things
  <2>3. "running" # None /\ "shutoff" # None
    BY NullAssumption DEF ObjectState
  <2>4. Remembered'
    <3>1. UNCHANGED <<boot, dom>>
      BY <1>5 DEF Restart, worldVars
    <3>2. ASSUME NEW n \in Nodes, NEW x \in Things PROVE Told(Current(n), x)' = None
      <4>1. Current(n)' \in Agents
        BY <3>1 DEF Current, Agents, IInv, TypeOK
      <4> QED
        BY <1>5, <4>1 DEF Restart, Told, Objects
    <3>3. ASSUME NEW v \in Vms, dom'[v] # None PROVE Told(Current(dom[v].node), v)' = None
      <4>1. dom'[v].node \in Nodes
        BY <1>1, <3>3 DEF IInv, TypeOK, Domain
      <4>2. Current(dom[v].node)' \in Agents
        BY <3>1, <4>1 DEF Current, Agents, IInv, TypeOK
      <4> QED
        BY <1>5, <2>2, <4>2 DEF Restart, Told, Objects
    <3> QED
      BY <3>2, <3>3 DEF Remembered, Things
  <2> QED
    BY <2>1, <2>2, <2>3, <2>4
       DEF KnownInv, Unique, NotYet, UpToNow, Whereabouts, Halts, There
<1>6. ASSUME NEW a \in Agents, NEW x \in Things, UpdateProps(a, x) PROVE KnownInv'
  BY <1>1, <1>6, PublicationKnown
<1>7. ASSUME NEW x \in Things, DropObject(x) \/ CheckObject(x) PROVE KnownInv'
  <2>1. UNCHANGED <<told, boot>>
    BY <1>7, ObjectStepReviews
  <2>2. CASE UNCHANGED <<cache, rowVars, dom>>
    BY <1>3, <2>1, <2>2
  <2>3. ASSUME NEW a \in Agents, NEW b \in BOOLEAN, x \in ObjectsOf(a), Reviewed(a, x, b)
        PROVE  KnownInv'
    BY <1>1, <2>1, <2>3, ReviewKnown
  <2> QED
    BY <1>7, <2>2, <2>3, ObjectStepReviews
<1> QED
  BY <1>2, <1>4, <1>5, <1>6, <1>7, NextKinds

\* A heartbeat is handled by a thread that has to wait for the monitor.
LEMMA NextVerdict == IInv /\ PassVerdict /\ [Next]_vars => PassVerdict'
<1> SUFFICES ASSUME IInv, PassVerdict, [Next]_vars PROVE PassVerdict'
  OBVIOUS
<1>1. ASSUME UNCHANGED pass, beats' \ old' \subseteq beats \ old PROVE PassVerdict'
  BY <1>1 DEF PassVerdict
<1>2. ASSUME pass = None, UNCHANGED pass PROVE PassVerdict'
  BY <1>2 DEF PassVerdict
<1>3. ASSUME NEW todo, pass' = Onward(todo) PROVE PassVerdict'
  BY <1>3 DEF PassVerdict, Onward
<1>4. CASE World \/ UNCHANGED vars \/ (\E x \in Things : DropObject(x)) \/ DropDone
           \/ (\E n \in Nodes : CheckDeadVms(n))
           \/ (\E a \in Agents : Lapse(a) \/ AgentDeleted(a))
  <2>1. UNCHANGED pass /\ beats' \ old' \subseteq beats \ old
    BY <1>4 DEF World, AgentLost, NodeCrash, AgentBack, Register, GuestStops, PutVm, daemonState,
                vars, DropObject, DropDone, Forget, CheckDeadVms, Lapse, AgentDeleted
  <2> QED
    BY <1>1, <2>1
<1>5. CASE \E a \in Agents : AgentHeartbeat(a) \/ \E x \in Things : UpdateProps(a, x)
  BY <1>2, <1>5 DEF AgentHeartbeat, UpdateProps
<1>6. CASE CheckHeartbeats \/ Checked
  BY <1>3, <1>6 DEF CheckHeartbeats, Checked
<1>7. ASSUME NEW a \in Agents, CheckAgent(a) PROVE PassVerdict'
  <2>1. UNCHANGED <<beats, old>>
    BY <1>7 DEF CheckAgent
  <2>2. CASE a \in beats
    <3>1. pass' = [todo |-> pass.todo \ {a}, agent |-> a,
                   down |-> a \in old, rest |-> ObjectsOf(a)]
      BY <1>7, <2>2 DEF CheckAgent
    <3>2. pass'.agent = a /\ (pass'.down => a \in old)
      BY <3>1
    <3> QED
      BY <2>1, <3>2 DEF PassVerdict
  <2>3. CASE a \notin beats
    BY <1>1, <1>7, <2>1, <2>3 DEF CheckAgent
  <2> QED
    BY <2>2, <2>3
<1>8. ASSUME NEW x \in Things, CheckObject(x) PROVE PassVerdict'
  <2>1. UNCHANGED <<beats, old>> /\ pass # None
    BY <1>8 DEF CheckObject
  <2>2. pass'.agent = pass.agent /\ pass'.down = pass.down
    BY <1>8 DEF CheckObject, IInv, TypeOK, Pass
  <2> QED
    BY <2>1, <2>2 DEF PassVerdict
<1>9. CASE Restart
  BY <1>9 DEF Restart, PassVerdict
<1> QED
  BY <1>4, <1>5, <1>6, <1>7, <1>8, <1>9 DEF Next, Callbacks, MainLoop

\* A VM that reports has one entry, that of its node's agent, and neither
\* handler disconnects that agent.
LEMMA ReportingKept ==
  ASSUME IInv, KnownInv, PassVerdict, [Next]_vars,
         NEW v \in Vms, Reporting(v), vms[v].state # "unreachable"
  PROVE  vms'[v].state # "unreachable"
<1> DEFINE r == Current(dom[v].node)
<1>1. v \in Things /\ v # "node"
  BY BoundsAssumption DEF Things
<1>2. dom[v] # None /\ r \in Agents /\ r \in beats \ old /\ (drop # None => drop.agent # r)
  BY DEF Reporting, Found, IInv, TypeOK, Domain, Current, Agents
<1>3. Cached(r, v)
  <2>1. Told(r, v) # None
    BY NullAssumption DEF Reporting, Told, ObjectState
  <2> QED
    BY <1>2, <2>1 DEF KnownInv, Remembered
<1>4. vms[v] \in Row /\ "stopped" # "unreachable" /\ "running" # "unreachable"
  BY DEF IInv, TypeOK
<1>5. CASE World
  BY <1>4, <1>5 DEF World, AgentLost, NodeCrash, AgentBack, Register, GuestStops, PutVm,
                    daemonState, rowVars, IInv, TypeOK
<1>6. CASE Aside \/ Restart
  <2>1. ASSUME NEW n \in Nodes, CheckDeadVms(n) PROVE vms'[v].state # "unreachable"
    <3>1. PICK saved : vms' = [w \in Vms |-> IF w \in saved
                                 THEN [state |-> "stopped", host |-> None] ELSE vms[w]]
      BY <2>1 DEF CheckDeadVms
    <3> QED
      BY <1>4, <3>1
  <2>2. CASE Restart
    BY <1>4, <2>2 DEF Restart
  <2>3. Restart \/ (\E n \in Nodes : CheckDeadVms(n)) \/ UNCHANGED vms
    BY <1>6 DEF Aside, AgentHeartbeat, Lapse, AgentDeleted, CheckAgent, DropDone,
                CheckHeartbeats, Checked, vars, rowVars
  <2> QED
    BY <2>1, <2>2, <2>3
<1>7. ASSUME NEW c, NEW a \in Agents, NEW x \in Things, ObjectEffect(c, a, x),
             x # "node" => c[<<a, x>>].state \in {"running", "shutoff"}
      PROVE  vms'[v].state # "unreachable"
  <2>1. CASE x = "node" \/ v # x
    BY <1>1, <1>7, <2>1 DEF ObjectEffect, HostEffect, VmEffect
  <2>2. CASE x = v
    <3>1. VmEffect(c, a, v, Translate[c[<<a, v>>].state])
      BY <1>1, <1>7, <2>2 DEF ObjectEffect
    <3>2. Translate[c[<<a, v>>].state] # "unreachable"
      BY <1>1, <1>7, <2>2 DEF Translate
    <3> QED
      BY <3>1, <3>2 DEF VmEffect
  <2> QED
    BY <2>1, <2>2
<1>8. ASSUME NEW a \in Agents, NEW x \in Things, UpdateProps(a, x)
      PROVE  vms'[v].state # "unreachable"
  <2>1. PICK c : Publication(a, x, c)
    BY <1>8, Publishes
  <2>2. x # "node" => StateOf(a, x) \in {"running", "shutoff"}
    BY <1>8, Publishes
  <2>3. ObjectEffect(c, a, x) /\ c[<<a, x>>].state = StateOf(a, x)
    BY <2>1 DEF Publication
  <2> QED
    BY <1>7, <2>2, <2>3
<1>9. ASSUME NEW x \in Things, DropObject(x) \/ CheckObject(x)
      PROVE  vms'[v].state # "unreachable"
  <2>1. CASE UNCHANGED <<cache, rowVars, dom>>
    BY <2>1 DEF rowVars
  <2>2. ASSUME NEW a \in Agents, NEW b \in BOOLEAN, x \in ObjectsOf(a), Reviewed(a, x, b),
               b => \/ drop # None /\ drop.agent = a
                    \/ pass # None /\ pass.agent = a /\ pass.down
        PROVE  vms'[v].state # "unreachable"
    <3> DEFINE c == [cache EXCEPT ![<<a, x>>].timed_out = b]
    <3>1. <<a, x>> \in Objects /\ Cached(a, x) /\ Fits(cache)
      BY <2>2 DEF ObjectsOf, Objects, IInv, TypeOK, Cached, EntriesFit, Fits
    <3>2. c[<<a, x>>].state = cache[<<a, x>>].state
      BY <3>1, OneMark DEF Cached
    <3>3. x # "node" => c[<<a, x>>].state \in {"running", "shutoff"}
      BY <3>1, <3>2 DEF Fits, Cached
    <3>4. CASE ~b
      <4>1. ObjectEffect(c, a, x)
        BY <2>2, <3>4 DEF Reviewed
      <4> HIDE DEF c
      <4> QED
        BY <1>7, <3>3, <4>1
    <3>5. CASE b
      <4>1. x = v => a = r
        BY <1>1, <1>2, <1>3, <3>1 DEF KnownInv, Unique
      <4>2. a # r
        BY <1>2, <2>2, <3>5, NullAssumption DEF PassVerdict
      <4>3. IF x = "node" THEN HostEffect(c, a, "unavailable") ELSE VmEffect(c, a, x, "unreachable")
        BY <2>2, <3>5 DEF Reviewed
      <4> HIDE DEF c
      <4> QED
        BY <4>1, <4>2, <4>3 DEF HostEffect, VmEffect
    <3> QED
      BY <3>4, <3>5
  <2> QED
    BY <1>9, <2>1, <2>2, ObjectStepReviews
<1> QED
  BY <1>5, <1>6, <1>8, <1>9, NextKinds

\* No run of db-omatic, with whatever outages, reboots, migrations and losses
\* of the optimistic lock, declares a VM unreachable that runs and reports:
\* not when the host it was on before falls silent, and not when the former
\* agent of its host is deleted.
THEOREM ReportingStaysReachable == Spec => ReportingIsReachable
<1>1. Init => IInv /\ KnownInv /\ PassVerdict
  BY InitIInv, InitKnown DEF Init, PassVerdict
<1>2. IInv /\ KnownInv /\ PassVerdict /\ [Next]_vars => (IInv /\ KnownInv /\ PassVerdict)'
  BY NextIInv, NextKnown, NextVerdict
<1>3. IInv /\ KnownInv /\ PassVerdict /\ [Next]_vars =>
        [\A v \in Vms : Reporting(v) /\ vms[v].state # "unreachable"
                          => vms'[v].state # "unreachable"]_vars
  BY ReportingKept
<1> QED
  BY <1>1, <1>2, <1>3, PTL DEF Spec, ReportingIsReachable

-----------------------------------------------------------------------------
(***************************************************************************)
(* The rows (RowsFollow).                                                  *)
(***************************************************************************)

\* A step that leaves the entries and the row of a VM, or of a host, alone.
LEMMA VmUntouched ==
  ASSUME NEW v \in Vms, VmFollows(v), vms'[v].state = vms[v].state,
         \A a \in Agents : Told(a, v)' = Told(a, v) /\ cache'[<<a, v>>] = cache[<<a, v>>]
  PROVE  VmFollows(v)'
BY DEF VmFollows, Cached, TimedOut

\* A host whose row and objects stay the same is still as RowsFollow has it.
LEMMA HostUntouched ==
  ASSUME NEW n \in Nodes, HostFollows(n), hosts'[n] = hosts[n],
         \A a \in Agents : a[1] = n => cache'[<<a, "node">>] = cache[<<a, "node">>]
  PROVE  HostFollows(n)'
BY DEF HostFollows, Cached, TimedOut

\* The state of an entry of a VM.
LEMMA VmEntryState ==
  ASSUME IInv, NEW a \in Agents, NEW v \in Vms, Cached(a, v)
  PROVE  cache[<<a, v>>].state \in {"running", "shutoff"}
<1>1. <<a, v>> \in Objects /\ v # "node"
  BY BoundsAssumption DEF Objects, Things
<1> QED
  BY <1>1 DEF IInv, EntriesFit, Cached

\* A row that becomes stopped because the VM was unreachable is not one that
\* an entry up to date speaks of.
LEMMA RowsAside ==
  ASSUME IInv, KnownInv, RowsFollow, UNCHANGED <<told, cache, hosts>>, lost' = 0 => lost = 0,
         \A v \in Vms : vms'[v].state = vms[v].state \/
           (vms[v].state = "unreachable" /\ vms'[v].state = "stopped")
  PROVE  RowsFollow'
<1> SUFFICES ASSUME lost' = 0
             PROVE  (\A v \in Vms : VmFollows(v)') /\ (\A n \in Nodes : HostFollows(n)')
  BY DEF RowsFollow
<1>1. (\A v \in Vms : VmFollows(v)) /\ (\A n \in Nodes : HostFollows(n))
  BY DEF RowsFollow
<1>2. ASSUME NEW v \in Vms PROVE VmFollows(v)'
  <2>1. CASE vms'[v].state = vms[v].state
    BY <1>1, <2>1, VmUntouched DEF Told
  <2>2. CASE vms[v].state = "unreachable" /\ vms'[v].state = "stopped"
    <3>1. ASSUME NEW a \in Agents, Told(a, v) # None, Cached(a, v)
          PROVE  Translate[Told(a, v)] # "unreachable"
      <4>1. v \in Things
        BY DEF Things
      <4>2. Told(a, v) \in {"running", "shutoff"}
        BY <3>1, <4>1, VmEntryState DEF KnownInv, UpToNow
      <4> QED
        BY <4>2 DEF Translate
    <3> QED
      BY <1>1, <2>2, <3>1 DEF VmFollows, Told, Cached, TimedOut
  <2> QED
    BY <2>1, <2>2
<1>3. ASSUME NEW n \in Nodes PROVE HostFollows(n)'
  BY <1>1, HostUntouched
<1> QED
  BY <1>2, <1>3

\* The world: what it changes of the rows is the host of one VM, and the host
\* that registers, whose entry was not synced.
LEMMA RowsWorld == ASSUME IInv, KnownInv, RowsFollow, World PROVE RowsFollow'
<1>1. ASSUME NEW n \in Nodes, Register(n) PROVE RowsFollow'
  <2>1. /\ UNCHANGED <<told, cache, vms, lost>> /\ hosts[n] = None
        /\ hosts'[n] = "unavailable" /\ \A m \in Nodes : m # n => hosts'[m] = hosts[m]
    BY <1>1 DEF Register, IInv, TypeOK
  <2> SUFFICES ASSUME lost' = 0
               PROVE  (\A v \in Vms : VmFollows(v)') /\ (\A m \in Nodes : HostFollows(m)')
    BY DEF RowsFollow
  <2>2. (\A v \in Vms : VmFollows(v)) /\ (\A m \in Nodes : HostFollows(m))
    BY <2>1 DEF RowsFollow
  <2>3. ASSUME NEW v \in Vms PROVE VmFollows(v)'
    BY <2>1, <2>2, VmUntouched DEF Told
  <2>4. ASSUME NEW m \in Nodes, m # n PROVE HostFollows(m)'
    BY <2>1, <2>2, <2>4, HostUntouched
  <2>5. HostFollows(n)'
    <3>1. hosts[n] # "available"
      BY <2>1, NullAssumption DEF HostState
    <3> QED
      BY <2>1, <2>2, <3>1 DEF HostFollows, Cached, TimedOut
  <2> QED
    BY <2>3, <2>4, <2>5
<1>2. ASSUME NEW v \in Vms, NEW n \in Nodes, PutVm(v, n) PROVE RowsFollow'
  <2>1. /\ UNCHANGED <<cache, hosts, lost>>
        /\ told' = [k \in Objects |-> IF k[2] = v THEN None ELSE told[k]]
        /\ \A w \in Vms : w # v => vms'[w] = vms[w]
    BY <1>2 DEF PutVm, IInv, TypeOK
  <2>2. \A a \in Agents, w \in Vms : Told(a, w)' = IF w = v THEN None ELSE Told(a, w)
    BY <2>1 DEF Told, Objects, Things
  <2> SUFFICES ASSUME lost' = 0
               PROVE  (\A w \in Vms : VmFollows(w)') /\ (\A m \in Nodes : HostFollows(m)')
    BY DEF RowsFollow
  <2>3. (\A w \in Vms : VmFollows(w)) /\ (\A m \in Nodes : HostFollows(m))
    BY <2>1 DEF RowsFollow
  <2>4. ASSUME NEW w \in Vms, w # v PROVE VmFollows(w)'
    BY <2>1, <2>2, <2>3, <2>4, VmUntouched
  <2>5. VmFollows(v)'
    BY <2>2 DEF VmFollows
  <2>6. ASSUME NEW m \in Nodes PROVE HostFollows(m)'
    BY <2>1, <2>3, HostUntouched
  <2> QED
    BY <2>4, <2>5, <2>6
<1>3. CASE UNCHANGED daemonState
  BY <1>3, RowsAside DEF daemonState, rowVars
<1> QED
  BY <1>1, <1>2, <1>3 DEF World, AgentLost, NodeCrash, AgentBack, GuestStops

\* An object of a VM is handled: its entry is the only one of the VM, and the
\* row gets a state that goes with it.
LEMMA RowsVmEffect ==
  ASSUME IInv, KnownInv', RowsFollow, NEW a \in Agents, NEW v \in Vms, NEW c, NEW s,
         VmEffect(c, a, v, s),
         \A j \in Objects : j[2] # v => c[j] = cache[j],
         \A b \in Agents, w \in Vms : w # v => Told(b, w)' = Told(b, w),
         Told(a, v)' # None /\ ~c[<<a, v>>].timed_out => s = Translate[Told(a, v)'],
         s = "running" /\ (\E b \in Agents : Told(b, v)' # None)
           => Told(a, v)' = "running" /\ ~c[<<a, v>>].timed_out
  PROVE  RowsFollow'
<1>1. /\ hosts' = hosts /\ Touched(c, <<a, v>>) /\ \A w \in Vms : w # v => vms'[w] = vms[w]
      /\ lost' = 0 => lost = 0 /\ vms'[v].state = s
  BY DEF VmEffect
<1> SUFFICES ASSUME lost' = 0
             PROVE  (\A w \in Vms : VmFollows(w)') /\ (\A n \in Nodes : HostFollows(n)')
  BY DEF RowsFollow
<1>2. (\A w \in Vms : VmFollows(w)) /\ (\A n \in Nodes : HostFollows(n))
  BY <1>1 DEF RowsFollow
<1>3. \A b \in Agents, x \in Things : x # v =>
        cache'[<<b, x>>] = cache[<<b, x>>]
  BY <1>1 DEF Touched, Objects
<1>4. \A w \in Vms : w \in Things /\ w # "node"
  BY BoundsAssumption DEF Things
<1>5. ASSUME NEW n \in Nodes PROVE HostFollows(n)'
  BY <1>1, <1>2, <1>3, <1>4, HostUntouched DEF Things
<1>6. ASSUME NEW w \in Vms, w # v PROVE VmFollows(w)'
  BY <1>1, <1>2, <1>3, <1>4, <1>6, VmUntouched
<1>7. Cached(a, v)' /\ TimedOut(a, v)' = c[<<a, v>>].timed_out
  BY <1>1 DEF Touched, Cached, TimedOut
<1>8. VmFollows(v)'
  <2>1. ASSUME NEW b \in Agents, Told(b, v)' # None, Cached(b, v)', ~TimedOut(b, v)'
        PROVE  vms'[v].state = Translate[Told(b, v)']
    <3>1. b = a
      BY <1>4, <1>7, <2>1 DEF KnownInv, Unique
    <3> QED
      BY <1>1, <1>7, <2>1, <3>1
  <2>2. ASSUME vms'[v].state = "running", \E b \in Agents : Told(b, v)' # None
        PROVE  Told(a, v)' = "running" /\ Cached(a, v)' /\ ~TimedOut(a, v)'
    BY <1>1, <1>7, <2>2
  <2> QED
    BY <2>1, <2>2 DEF VmFollows
<1> QED
  BY <1>5, <1>6, <1>8

\* An object of a host is handled.
LEMMA RowsHostEffect ==
  ASSUME IInv, KnownInv', RowsFollow, NEW a \in Agents, NEW c, NEW s, HostEffect(c, a, s),
         \A j \in Objects : ~(j[2] = "node" /\ j[1][1] = a[1]) => c[j] = cache[j],
         \A b \in Agents, w \in Vms : Told(b, w)' = Told(b, w),
         s = "available" <=> ~c[<<a, "node">>].timed_out
  PROVE  RowsFollow'
<1>1. /\ vms' = vms /\ Touched(c, <<a, "node">>)
      /\ \A n \in Nodes : n # a[1] => hosts'[n] = hosts[n]
      /\ lost' = 0 =>
           /\ lost = 0
           /\ IF hosts[a[1]] = None
              THEN hosts'[a[1]] = None /\ ~cache'[<<a, "node">>].synced
              ELSE hosts'[a[1]] = s
  BY DEF HostEffect
<1> SUFFICES ASSUME lost' = 0
             PROVE  (\A w \in Vms : VmFollows(w)') /\ (\A n \in Nodes : HostFollows(n)')
  BY DEF RowsFollow
<1>2. (\A w \in Vms : VmFollows(w)) /\ (\A n \in Nodes : HostFollows(n))
  BY <1>1 DEF RowsFollow
<1>3. \A b \in Agents, x \in Things : ~(x = "node" /\ b[1] = a[1]) =>
        cache'[<<b, x>>] = cache[<<b, x>>]
  BY <1>1 DEF Touched, Objects
<1>4. \A w \in Vms : w \in Things /\ w # "node"
  BY BoundsAssumption DEF Things
<1>5. ASSUME NEW w \in Vms PROVE VmFollows(w)'
  BY <1>1, <1>2, <1>3, <1>4, VmUntouched
<1>6. ASSUME NEW n \in Nodes, n # a[1] PROVE HostFollows(n)'
  BY <1>1, <1>2, <1>3, <1>6, HostUntouched DEF Things
<1>7. Cached(a, "node")' /\ TimedOut(a, "node")' = c[<<a, "node">>].timed_out
  BY <1>1 DEF Touched, Cached, TimedOut
<1>8. HostFollows(a[1])'
  <2>1. ASSUME NEW b \in Agents, b[1] = a[1], Cached(b, "node")', cache'[<<b, "node">>].synced,
               ~TimedOut(b, "node")'
        PROVE  hosts'[a[1]] = "available"
    <3>1. b = a
      BY <1>7, <2>1 DEF KnownInv, Unique, Things
    <3> QED
      BY <1>1, <1>7, <2>1, <3>1
  <2>2. ASSUME hosts'[a[1]] = "available"
        PROVE  Cached(a, "node")' /\ ~TimedOut(a, "node")'
    BY <1>1, <1>7, <2>2, NullAssumption DEF HostState
  <2> QED
    BY <2>1, <2>2 DEF HostFollows
<1> QED
  BY <1>5, <1>6, <1>8

\* check_heartbeats or agent_deleted handles an object.
LEMMA RowsReview ==
  ASSUME IInv, KnownInv, KnownInv', RowsFollow, NEW a \in Agents, NEW x \in ObjectsOf(a),
         NEW b \in BOOLEAN, Reviewed(a, x, b), UNCHANGED told
  PROVE  RowsFollow'
<1> DEFINE c == [cache EXCEPT ![<<a, x>>].timed_out = b]
<1>1. x \in Things /\ <<a, x>> \in Objects /\ Cached(a, x) /\ Fits(cache)
  BY DEF ObjectsOf, Objects, IInv, TypeOK, Cached, EntriesFit, Fits
<1>2. /\ \A j \in Objects \ {<<a, x>>} : c[j] = cache[j]
      /\ c[<<a, x>>].state = cache[<<a, x>>].state /\ c[<<a, x>>].timed_out = b
  BY <1>1, OneMark DEF Cached
<1>3. \A d \in Agents, w \in Vms : Told(d, w)' = Told(d, w)
  BY DEF Told
<1>4. CASE x = "node"
  <2>1. HostEffect(c, a, IF b THEN "unavailable" ELSE "available")
    BY <1>4 DEF Reviewed, ObjectEffect
  <2>2. \A j \in Objects : ~(j[2] = "node" /\ j[1][1] = a[1]) => c[j] = cache[j]
    BY <1>2, <1>4
  <2>3. (IF b THEN "unavailable" ELSE "available") = "available" <=> ~c[<<a, "node">>].timed_out
    BY <1>2, <1>4
  <2> HIDE DEF c
  <2> QED
    BY <1>3, <2>1, <2>2, <2>3, RowsHostEffect
<1>5. CASE x # "node"
  <2> DEFINE e == cache[<<a, x>>].state
             s == IF b THEN "unreachable" ELSE Translate[e]
  <2>1. x \in Vms /\ e \in {"running", "shutoff"}
    BY <1>1, <1>5, VmEntryState DEF Things
  <2>2. VmEffect(c, a, x, s)
    BY <1>2, <1>5 DEF Reviewed, ObjectEffect
  <2>3. \A j \in Objects : j[2] # x => c[j] = cache[j]
    BY <1>2
  <2>4. Told(a, x)' # None => Told(a, x)' = e
    BY <1>1, <1>3, <2>1 DEF KnownInv, UpToNow
  <2>5. Told(a, x)' # None /\ ~c[<<a, x>>].timed_out => s = Translate[Told(a, x)']
    BY <1>2, <2>4
  <2>6. (\E d \in Agents : Told(d, x)' # None) => Told(a, x)' # None
    BY <1>1, <1>3, <2>1 DEF KnownInv, UpToNow
  <2>7. s = "running" => ~b /\ e = "running"
    BY <2>1 DEF Translate
  <2>8. s = "running" /\ (\E d \in Agents : Told(d, x)' # None)
           => Told(a, x)' = "running" /\ ~c[<<a, x>>].timed_out
    BY <1>2, <2>4, <2>6, <2>7
  <2> HIDE DEF c, s
  <2> QED
    BY <1>3, <2>1, <2>2, <2>3, <2>5, <2>8, RowsVmEffect
<1> QED
  BY <1>4, <1>5

\* update_props handles an object.  A state published anew says that a domain
\* known to run has stopped, so an entry that has timed out makes no row
\* running, and that of a node publishes nothing anew.
LEMMA RowsPublication ==
  ASSUME IInv, KnownInv, KnownInv', RowsFollow, NEW a \in Agents, NEW x \in Things,
         UpdateProps(a, x)
  PROVE  RowsFollow'
<1> DEFINE k == <<a, x>>
           s == StateOf(a, x)
<1>1. /\ s \notin {None, Told(a, x)}
      /\ IF x = "node" THEN s = "up"
         ELSE /\ dom[x] # None /\ dom[x].node = a[1] /\ dom[x].state = s
              /\ s \in {"running", "shutoff"}
  BY Publishes
<1>2. PICK c : Publication(a, x, c)
  BY Publishes
<1>3. k \in Objects
  BY DEF Objects
<1>4. /\ Told(a, x)' = s
      /\ \A b \in Agents, w \in Vms : w # x => Told(b, w)' = Told(b, w)
  BY <1>2, <1>3 DEF Publication, Told, IInv, TypeOK, Objects, Things
<1>5. /\ c[k].timed_out = IF IsNew(a, x) THEN FALSE ELSE TimedOut(a, x)
      /\ \A j \in Objects \ {k} :
           c[j] = IF IsNew(a, x) /\ j[2] = x /\ (x = "node" => j[1][1] = a[1])
                  THEN None ELSE cache[j]
      /\ ObjectEffect(c, a, x) /\ c[k].state = s
  BY <1>2 DEF Publication
<1>6. ~IsNew(a, x) => Cached(a, x) /\ Told(a, x) # None
  BY DEF IsNew, Cached
<1> HIDE DEF s
<1>7. CASE x = "node"
  <2>1. IsNew(a, x)
    <3>1. Cached(a, x) => cache[k].state = "up"
      BY <1>3, <1>7 DEF IInv, EntriesFit, Cached
    <3> QED
      BY <1>1, <1>6, <1>7, <3>1 DEF KnownInv, UpToNow
  <2>2. HostEffect(c, a, "available")
    BY <1>5, <1>7 DEF ObjectEffect
  <2>3. \A j \in Objects : ~(j[2] = "node" /\ j[1][1] = a[1]) => c[j] = cache[j]
    BY <1>5, <1>7
  <2>4. "available" = "available" <=> ~c[<<a, "node">>].timed_out
    BY <1>5, <1>7, <2>1
  <2>5. \A b \in Agents, w \in Vms : Told(b, w)' = Told(b, w)
    BY <1>4, <1>7, BoundsAssumption
  <2> QED
    BY <2>2, <2>3, <2>4, <2>5, RowsHostEffect
<1>8. CASE x # "node"
  <2>1. x \in Vms
    BY <1>8 DEF Things
  <2>2. VmEffect(c, a, x, Translate[s])
    BY <1>5, <1>8 DEF ObjectEffect
  <2>3. \A j \in Objects : j[2] # x => c[j] = cache[j]
    BY <1>5
  <2>4. ASSUME Translate[s] = "running" PROVE s = "running" /\ ~c[k].timed_out
    <3>1. s = "running"
      BY <1>1, <1>8, <2>4 DEF Translate
    <3>2. IsNew(a, x)
      <4>1. Cached(a, x) => cache[k].state \in {"running", "shutoff"}
        BY <2>1, VmEntryState
      <4>2. ~IsNew(a, x) => Told(a, x) = "shutoff"
        BY <1>1, <1>6, <3>1, <4>1 DEF KnownInv, UpToNow
      <4>3. Told(a, x) # "shutoff"
        BY <1>1, <1>8, <2>1, <3>1 DEF KnownInv, Halts
      <4> QED
        BY <4>2, <4>3
    <3> QED
      BY <1>5, <3>1, <3>2
  <2>5. Told(a, x)' # None /\ ~c[<<a, x>>].timed_out => Translate[s] = Translate[Told(a, x)']
    BY <1>4
  <2>6. Translate[s] = "running" /\ (\E b \in Agents : Told(b, x)' # None)
          => Told(a, x)' = "running" /\ ~c[<<a, x>>].timed_out
    BY <1>4, <2>4
  <2>7. \A b \in Agents, w \in Vms : w # x => Told(b, w)' = Told(b, w)
    BY <1>4
  <2> QED
    BY <2>1, <2>2, <2>3, <2>5, <2>6, <2>7, RowsVmEffect
<1> QED
  BY <1>7, <1>8

\* Every step preserves RowsFollow.
LEMMA NextRows == IInv /\ KnownInv /\ RowsFollow /\ [Next]_vars => RowsFollow'
<1> SUFFICES ASSUME IInv, KnownInv, RowsFollow, [Next]_vars PROVE RowsFollow'
  OBVIOUS
<1>1. KnownInv'
  BY NextKnown
<1>2. CASE World
  BY <1>2, RowsWorld
<1>3. CASE Aside
  <2>1. UNCHANGED <<told, cache, hosts>>
    BY <1>3, AsideKeeps
  <2>2. ASSUME NEW n \in Nodes, CheckDeadVms(n) PROVE RowsFollow'
    <3>1. PICK saved \in SUBSET {v \in Vms : vms[v] = [state |-> "unreachable", host |-> n]} :
            /\ Lose(saved # {v \in Vms : vms[v] = [state |-> "unreachable", host |-> n]})
            /\ vms' = [w \in Vms |-> IF w \in saved
                                     THEN [state |-> "stopped", host |-> None] ELSE vms[w]]
      BY <2>2 DEF CheckDeadVms
    <3>2. lost' = 0 => lost = 0
      BY <3>1, BoundsAssumption DEF Lose, IInv, TypeOK
    <3>3. ASSUME NEW v \in Vms
          PROVE  vms'[v].state = vms[v].state \/
                   (vms[v].state = "unreachable" /\ vms'[v].state = "stopped")
      BY <3>1
    <3> QED
      BY <2>1, <3>2, <3>3, RowsAside
  <2>3. CASE UNCHANGED <<vms, lost>>
    BY <2>1, <2>3, RowsAside
  <2>4. UNCHANGED <<vms, lost>> \/ \E n \in Nodes : CheckDeadVms(n)
    BY <1>3 DEF Aside, AgentHeartbeat, Lapse, AgentDeleted, CheckAgent, DropDone,
                CheckHeartbeats, Checked, vars, rowVars
  <2> QED
    BY <2>2, <2>3, <2>4
<1>4. CASE Restart
  <2>1. \A a \in Agents, x \in Things : Told(a, x)' = None /\ ~Cached(a, x)'
    BY <1>4 DEF Restart, Told, Cached, Objects
  <2>2. \A v \in Vms : v \in Things
    BY DEF Things
  <2>3. \A n \in Nodes : hosts'[n] # "available"
    BY <1>4, NullAssumption DEF Restart, HostState
  <2> QED
    BY <2>1, <2>2, <2>3 DEF RowsFollow, VmFollows, HostFollows, Things
<1>5. ASSUME NEW a \in Agents, NEW x \in Things, UpdateProps(a, x) PROVE RowsFollow'
  BY <1>1, <1>5, RowsPublication
<1>6. ASSUME NEW x \in Things, DropObject(x) \/ CheckObject(x) PROVE RowsFollow'
  <2>1. UNCHANGED told
    BY <1>6, ObjectStepReviews
  <2>2. CASE UNCHANGED <<cache, rowVars, dom>>
    BY <2>1, <2>2, RowsAside DEF rowVars
  <2>3. ASSUME NEW a \in Agents, NEW b \in BOOLEAN, x \in ObjectsOf(a), Reviewed(a, x, b)
        PROVE  RowsFollow'
    BY <1>1, <2>1, <2>3, RowsReview
  <2> QED
    BY <1>6, <2>2, <2>3, ObjectStepReviews
<1> QED
  BY <1>2, <1>3, <1>4, <1>5, <1>6, NextKinds

\* Initially nothing is cached, and no row claims that anything is up.
LEMMA InitRows == Init => RowsFollow
<1> SUFFICES ASSUME Init PROVE RowsFollow
  OBVIOUS
<1>1. \A a \in Agents, x \in Things : Told(a, x) = None /\ ~Cached(a, x)
  BY DEF Init, Told, Cached, Objects
<1>2. \A n \in Nodes : hosts[n] # "available"
  BY NullAssumption DEF Init, HostState
<1> QED
  BY <1>1, <1>2 DEF RowsFollow, VmFollows, HostFollows, Things

\* When nothing is pending, the entries of the agents that are there are up to
\* date, and no entry that is not timed out is of another agent.
LEMMA QuietAgrees == IInv /\ KnownInv /\ RowsFollow => QuietRowsAgree
<1> SUFFICES ASSUME IInv, KnownInv, RowsFollow, Quiet
             PROVE  /\ \A n \in Nodes : hosts[n] # None => (hosts[n] = "available" <=> on[n])
                    /\ \A v \in Vms :
                         vms[v].state = "running" <=> Found(v) /\ dom[v].state = "running"
                    /\ \A v \in Vms : vms[v].state = "running" => vms[v].host = dom[v].node
  BY DEF QuietRowsAgree
<1>1. /\ \A v \in Vms : VmFollows(v) /\ v \in Things /\ v # "node"
      /\ \A n \in Nodes : HostFollows(n)
  BY BoundsAssumption DEF Quiet, RowsFollow, Things
<1>2. ASSUME NEW a \in Agents, NEW x \in Things, Silent(a), Cached(a, x)
      PROVE  TimedOut(a, x)
  BY <1>2 DEF Quiet, ObjectsOf, Cached, TimedOut
<1>3. ASSUME NEW a \in Agents, NEW x \in Things, ~Silent(a)
      PROVE  /\ StateOf(a, x) \in {None, Told(a, x)}
             /\ Cached(a, x) => cache[<<a, x>>].synced /\ ~TimedOut(a, x)
  BY <1>3 DEF Quiet, ObjectsOf, Cached, TimedOut, Told
<1>4. \A n \in Nodes : Current(n) \in Agents /\ Current(n)[1] = n /\ (on[n] <=> ~Silent(Current(n)))
  BY DEF Current, Silent, Agents, IInv, TypeOK
<1>5. "running" # None /\ "up" # None
  BY NullAssumption DEF ObjectState
<1>6. ASSUME NEW n \in Nodes, hosts[n] # None PROVE hosts[n] = "available" <=> on[n]
  <2>1. ASSUME hosts[n] = "available" PROVE on[n]
    <3>1. PICK b \in Agents : b[1] = n /\ Cached(b, "node") /\ ~TimedOut(b, "node")
      BY <1>1, <2>1 DEF HostFollows
    <3>2. ~Silent(b)
      BY <1>2, <3>1 DEF Things
    <3> QED
      BY <3>1, <3>2 DEF Silent
  <2>2. ASSUME on[n] PROVE hosts[n] = "available"
    <3>1. ~Silent(Current(n)) /\ StateOf(Current(n), "node") = "up"
      BY <1>4, <2>2 DEF StateOf
    <3>2. Told(Current(n), "node") # None
      BY <1>3, <1>4, <1>5, <3>1 DEF Things
    <3>3. Cached(Current(n), "node")
      BY <3>2 DEF KnownInv, Remembered
    <3> QED
      BY <1>1, <1>3, <1>4, <3>1, <3>3 DEF HostFollows, Things
  <2> QED
    BY <2>1, <2>2
<1>7. ASSUME NEW v \in Vms, Found(v), dom[v].state = "running" PROVE vms[v].state = "running"
  <2> DEFINE a == Current(dom[v].node)
  <2>1. dom[v] # None /\ dom[v].node \in Nodes /\ on[dom[v].node]
    BY <1>7 DEF Found, IInv, TypeOK, Domain
  <2>2. a \in Agents /\ a[1] = dom[v].node /\ ~Silent(a)
    BY <1>4, <2>1
  <2> HIDE DEF a
  <2>3. StateOf(a, v) = "running"
    BY <1>1, <1>7, <2>1, <2>2 DEF StateOf
  <2>4. Told(a, v) = "running"
    BY <1>1, <1>3, <1>5, <2>2, <2>3
  <2>5. Cached(a, v)
    BY <1>5, <2>1, <2>4 DEF KnownInv, Remembered, a
  <2>6. vms[v].state = Translate["running"]
    BY <1>1, <1>3, <1>5, <2>2, <2>4, <2>5 DEF VmFollows
  <2> QED
    BY <2>6 DEF Translate
<1>8. ASSUME NEW v \in Vms, vms[v].state = "running"
      PROVE  Found(v) /\ dom[v].state = "running" /\ vms[v].host = dom[v].node
  <2>1. PICK a \in Agents : a[1] = vms[v].host /\ Told(a, v) # None
    BY <1>8 DEF Quiet, Told
  <2>2. PICK b \in Agents : Told(b, v) = "running" /\ Cached(b, v) /\ ~TimedOut(b, v)
    BY <1>1, <1>8, <2>1 DEF VmFollows
  <2>3. ~Silent(b) /\ b[1] \in Nodes
    BY <1>1, <1>2, <2>2 DEF Agents
  <2>4. dom[v] # None
    BY <2>2, <2>3 DEF KnownInv, There, Silent
  <2>5. dom[v].node = b[1] /\ dom[v].node = a[1]
    BY <1>5, <2>1, <2>2, <2>4 DEF KnownInv, Whereabouts
  <2>6. StateOf(b, v) = dom[v].state
    BY <1>1, <2>3, <2>4, <2>5 DEF StateOf
  <2>7. dom[v].state \in {"running", "shutoff"}
    BY <2>4 DEF IInv, TypeOK, Domain
  <2>8. dom[v].state = "running"
    BY <1>1, <1>3, <2>2, <2>3, <2>6, <2>7, NullAssumption DEF ObjectState
  <2>9. on[dom[v].node]
    BY <2>3, <2>5 DEF Silent
  <2> QED
    BY <2>1, <2>4, <2>5, <2>8, <2>9 DEF Found
<1> QED
  BY <1>6, <1>7, <1>8

\* After whatever sequence of outages, reboots, migrations and restarts of
\* db-omatic: when nothing is pending and no save was stale, a host's row says
\* available exactly if its agent is there, and a VM's row says running, and
\* where, exactly if its domain runs on a node that is there.
THEOREM QuietRowsTrue == Spec => []QuietRowsAgree
<1>1. Init => IInv /\ KnownInv /\ RowsFollow
  BY InitIInv, InitKnown, InitRows
<1>2. IInv /\ KnownInv /\ RowsFollow /\ [Next]_vars => (IInv /\ KnownInv /\ RowsFollow)'
  BY NextIInv, NextKnown, NextRows
<1> QED
  BY <1>1, <1>2, QuietAgrees, PTL DEF Spec
=============================================================================
