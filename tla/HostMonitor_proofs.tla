------------------------- MODULE HostMonitor_proofs -------------------------
(***************************************************************************)
(* The type invariant of HostMonitor, for any number of nodes, VMs, agents *)
(* and outages.  It is not inductive alone: that an entry handled by       *)
(* check_heartbeats or agent_deleted exists, and has a state that can be   *)
(* translated, rests on which handlers exclude each other.                 *)
(***************************************************************************)
EXTENDS HostMonitor, TLAPS

\* A cached object has a state of its kind.
EntriesFit ==
  \A k \in Objects : cache[k] # None =>
    IF k[2] = "node" THEN cache[k].state = "up" ELSE cache[k].state \in {"running", "shutoff"}

\* The objects still to be handled are in the cache: nothing is removed from
\* it while either handler is at work.
PassHolds ==
  pass # None =>
    IF pass.agent = None THEN pass.rest = {} ELSE pass.rest \subseteq ObjectsOf(pass.agent)

DropHolds == drop # None => drop.rest \subseteq ObjectsOf(drop.agent)

IInv == TypeOK /\ EntriesFit /\ PassHolds /\ DropHolds

-----------------------------------------------------------------------------
(***************************************************************************)
(* The handling of one object.                                             *)
(***************************************************************************)

\* A cache as EntriesFit has it, and two with the same objects in them.
Fits(c) ==
  /\ c \in [Objects -> Entry \cup {None}]
  /\ \A k \in Objects : c[k] # None =>
       IF k[2] = "node" THEN c[k].state = "up" ELSE c[k].state \in {"running", "shutoff"}

SameObjects(c, d) == \A k \in Objects : c[k] = None <=> d[k] = None

\* What handling an object of the cache c leaves behind.
Handled(c) ==
  /\ hosts' \in [Nodes -> HostState \cup {None}]
  /\ vms' \in [Vms -> Row]
  /\ dom' \in [Vms -> Domain \cup {None}]
  /\ lost' \in 0..MaxLost
  /\ sleeping' \in [Nodes -> Nat]
  /\ Fits(cache')
  /\ SameObjects(c, cache')

\* Setting a flag of an entry (:timed_out or :synced) keeps the cache well
\* formed and its objects the same.
LEMMA FlagSet ==
  ASSUME NEW c, Fits(c), NEW k \in Objects, c[k] # None, NEW b \in BOOLEAN
  PROVE  /\ Fits([c EXCEPT ![k].synced = b]) /\ SameObjects(c, [c EXCEPT ![k].synced = b])
         /\ Fits([c EXCEPT ![k].timed_out = b]) /\ SameObjects(c, [c EXCEPT ![k].timed_out = b])
<1>1. c[k] \in Entry
  BY DEF Fits
<1>2. /\ [c[k] EXCEPT !.synced = b] \in Entry /\ [c[k] EXCEPT !.timed_out = b] \in Entry
      /\ [c[k] EXCEPT !.synced = b].state = c[k].state
      /\ [c[k] EXCEPT !.timed_out = b].state = c[k].state
  BY <1>1 DEF Entry
<1>3. ASSUME NEW e \in Entry, e.state = c[k].state
      PROVE  Fits([c EXCEPT ![k] = e]) /\ SameObjects(c, [c EXCEPT ![k] = e])
  BY <1>1, <1>3, NullAssumption DEF Fits, SameObjects
<1> QED
  BY <1>2, <1>3

\* update_host_state keeps the types.
LEMMA HostHandled ==
  ASSUME TypeOK, NEW c, Fits(c), NEW a \in Agents, c[<<a, "node">>] # None,
         NEW s \in HostState, UpdateHostState(c, a, s)
  PROVE  Handled(c)
<1>1. a[1] \in Nodes /\ <<a, "node">> \in Objects
  BY DEF Agents, Objects, Things
<1>2. PICK stale \in BOOLEAN :
        /\ Lose(stale)
        /\ hosts' = IF stale \/ hosts[a[1]] = None THEN hosts ELSE [hosts EXCEPT ![a[1]] = s]
        /\ cache' = IF stale THEN c
                    ELSE [c EXCEPT ![<<a, "node">>].synced = (hosts[a[1]] # None)]
        /\ sleeping' = IF stale \/ hosts[a[1]] = None \/ s # "available" THEN sleeping
                       ELSE [sleeping EXCEPT ![a[1]] = @ + 1]
        /\ UNCHANGED <<vms, dom>>
  BY DEF UpdateHostState
<1>3. hosts' \in [Nodes -> HostState \cup {None}] /\ sleeping' \in [Nodes -> Nat]
  BY <1>1, <1>2 DEF TypeOK
<1>4. lost' \in 0..MaxLost
  BY <1>2, BoundsAssumption DEF TypeOK, Lose
<1>5. Fits(cache') /\ SameObjects(c, cache')
  <2>1. CASE stale
    BY <1>2, <2>1 DEF SameObjects
  <2>2. CASE ~stale
    <3> DEFINE b == hosts[a[1]] # None
    <3>1. b \in BOOLEAN /\ cache' = [c EXCEPT ![<<a, "node">>].synced = b]
      BY <1>2, <2>2
    <3> QED
      BY <1>1, <3>1, FlagSet
  <2> QED
    BY <2>1, <2>2
<1> QED
  BY <1>2, <1>3, <1>4, <1>5 DEF Handled, TypeOK

\* update_domain_state keeps the types.
LEMMA DomainHandled ==
  ASSUME TypeOK, NEW c, Fits(c), NEW a \in Agents, NEW v \in Vms, c[<<a, v>>] # None,
         NEW s \in RowState, UpdateDomainState(c, a, v, s)
  PROVE  Handled(c)
<1> DEFINE gone == s = "stopped" /\ Found(v) /\ dom[v].state = "shutoff"
           row  == [state |-> s,
                    host  |-> CASE gone                      -> None
                                [] s = "running" /\ Found(v) -> dom[v].node
                                [] OTHER                     -> vms[v].host]
<1>1. <<a, v>> \in Objects
  BY DEF Objects, Things
<1>2. PICK stale \in BOOLEAN :
        /\ Lose(stale)
        /\ vms' = IF stale THEN vms ELSE [vms EXCEPT ![v] = row]
        /\ cache' = IF stale THEN c ELSE [c EXCEPT ![<<a, v>>].synced = TRUE]
        /\ dom' = IF gone THEN [dom EXCEPT ![v] = None] ELSE dom
        /\ UNCHANGED <<hosts, sleeping>>
  BY DEF UpdateDomainState
<1>3. row \in Row
  <2>1. Found(v) => dom[v].node \in Nodes
    BY DEF Found, TypeOK, Domain
  <2>2. vms[v].host \in Nodes \cup {None}
    BY DEF TypeOK, Row
  <2>3. row.host \in Nodes \cup {None}
    BY <2>1, <2>2
  <2> QED
    BY <2>3 DEF Row
<1>4. vms' \in [Vms -> Row] /\ dom' \in [Vms -> Domain \cup {None}]
  <2> HIDE DEF row, gone
  <2> QED
    BY <1>2, <1>3 DEF TypeOK
<1>5. lost' \in 0..MaxLost
  BY <1>2, BoundsAssumption DEF TypeOK, Lose
<1>6. Fits(cache') /\ SameObjects(c, cache')
  <2>1. CASE stale
    BY <1>2, <2>1 DEF SameObjects
  <2>2. CASE ~stale
    BY <1>1, <1>2, <2>2, FlagSet
  <2> QED
    BY <2>1, <2>2
<1> QED
  BY <1>2, <1>4, <1>5, <1>6 DEF Handled, TypeOK

\* Either, with the state the entry holds.
LEMMA ObjectHandled ==
  ASSUME TypeOK, NEW c, Fits(c), NEW a \in Agents, NEW x \in Things, c[<<a, x>>] # None,
         UpdateObject(c, a, x)
  PROVE  Handled(c)
<1>1. CASE x = "node"
  BY <1>1, HostHandled DEF UpdateObject, HostState
<1>2. CASE x # "node"
  <2>1. x \in Vms /\ <<a, x>> \in Objects
    BY <1>2 DEF Things, Objects
  <2>2. c[<<a, x>>].state \in {"running", "shutoff"}
    BY <1>2, <2>1 DEF Fits
  <2>3. Translate[c[<<a, x>>].state] \in RowState
    BY <2>2 DEF Translate, RowState
  <2>4. UpdateDomainState(c, a, x, Translate[c[<<a, x>>].state])
    BY <1>2 DEF UpdateObject
  <2> QED
    BY <2>1, <2>3, <2>4, DomainHandled
<1> QED
  BY <1>1, <1>2

\* agent_disconnected and agent_connected, for an object that is cached.
LEMMA ConnectionHandled ==
  ASSUME IInv, NEW a \in Agents, NEW x \in ObjectsOf(a), Disconnect(a, x) \/ Connect(a, x)
  PROVE  Handled(cache)
<1>1. x \in Things /\ <<a, x>> \in Objects /\ cache[<<a, x>>] # None /\ Fits(cache)
  BY DEF ObjectsOf, Objects, IInv, TypeOK, EntriesFit, Fits
<1>2. ASSUME UNCHANGED <<cache, rowVars, dom, sleeping>>
      PROVE  Handled(cache)
  BY <1>1, <1>2 DEF Handled, SameObjects, rowVars, IInv, TypeOK
<1>3. ASSUME NEW b \in BOOLEAN,
             Handled([cache EXCEPT ![<<a, x>>].timed_out = b])
      PROVE  Handled(cache)
  <2>1. SameObjects(cache, [cache EXCEPT ![<<a, x>>].timed_out = b])
    BY <1>1, FlagSet
  <2> QED
    BY <1>3, <2>1 DEF Handled, SameObjects
<1>4. ASSUME NEW b \in BOOLEAN
      PROVE  LET c == [cache EXCEPT ![<<a, x>>].timed_out = b] IN
             Fits(c) /\ c[<<a, x>>] # None
  BY <1>1, FlagSet DEF SameObjects
<1>5. CASE Connect(a, x)
  <2>1. CASE cache[<<a, x>>].timed_out \/ ~cache[<<a, x>>].synced
    <3> DEFINE c == [cache EXCEPT ![<<a, x>>].timed_out = FALSE]
    <3>1. UpdateObject(c, a, x)
      BY <1>5, <2>1 DEF Connect
    <3>2. Fits(c) /\ c[<<a, x>>] # None
      BY <1>4
    <3>3. Handled(c)
      <4> HIDE DEF c
      <4> QED
        BY <1>1, <3>1, <3>2, ObjectHandled DEF IInv
    <3> QED
      BY <1>3, <3>3
  <2>2. CASE ~(cache[<<a, x>>].timed_out \/ ~cache[<<a, x>>].synced)
    BY <1>2, <1>5, <2>2 DEF Connect
  <2> QED
    BY <2>1, <2>2
<1>6. CASE Disconnect(a, x)
  <2> DEFINE c == [cache EXCEPT ![<<a, x>>].timed_out = TRUE]
  <2>1. CASE cache[<<a, x>>].timed_out
    BY <1>2, <1>6, <2>1 DEF Disconnect
  <2>2. CASE ~cache[<<a, x>>].timed_out
    <3>1. IF x = "node" THEN UpdateHostState(c, a, "unavailable")
                        ELSE UpdateDomainState(c, a, x, "unreachable")
      BY <1>6, <2>2 DEF Disconnect
    <3>2. Fits(c) /\ c[<<a, x>>] # None
      BY <1>4
    <3>3. Handled(c)
      <4> HIDE DEF c
      <4>1. CASE x = "node"
        BY <3>1, <3>2, <4>1, HostHandled DEF IInv, HostState
      <4>2. CASE x # "node"
        BY <1>1, <3>1, <3>2, <4>2, DomainHandled DEF IInv, RowState, Things
      <4> QED
        BY <4>1, <4>2
    <3> QED
      BY <1>3, <3>3
  <2> QED
    BY <2>1, <2>2
<1> QED
  BY <1>5, <1>6

-----------------------------------------------------------------------------
(***************************************************************************)
(* The invariant.                                                          *)
(***************************************************************************)

\* An object of an agent is an object of the cache, so a step that keeps the
\* set of cached objects keeps the objects of every agent.
LEMMA SameObjectsOf ==
  ASSUME SameObjects(cache, cache'), NEW a \in Agents
  PROVE  ObjectsOf(a)' = ObjectsOf(a)
<1>1. \A x \in Things : <<a, x>> \in Objects
  BY DEF Objects
<1> QED
  BY <1>1 DEF ObjectsOf, SameObjects

\* The invariant holds initially.
LEMMA InitIInv == Init => IInv
<1> SUFFICES ASSUME Init PROVE IInv
  OBVIOUS
<1>1. TypeOK
  <2>1. on \in [Nodes -> BOOLEAN] /\ boot \in [Nodes -> 1..MaxBoots]
    BY BoundsAssumption DEF Init
  <2>2. outages \in 0..MaxOutages /\ lost \in 0..MaxLost /\ restarts \in 0..MaxRestarts
    BY BoundsAssumption DEF Init
  <2>3. dom \in [Vms -> Domain \cup {None}] /\ vms \in [Vms -> Row]
    <3>1. [node : Nodes, state : {"running"}] \subseteq Domain
      BY DEF Domain
    <3>2. [state |-> "stopped", host |-> None] \in Row
      BY DEF Row, RowState
    <3> QED
      BY <3>1, <3>2 DEF Init
  <2>4. hosts \in [Nodes -> HostState \cup {None}]
    BY DEF Init, HostState
  <2>5. /\ told \in [Objects -> ObjectState \cup {None}]
        /\ cache \in [Objects -> Entry \cup {None}]
        /\ beats \subseteq Agents /\ old \subseteq beats
        /\ sleeping \in [Nodes -> Nat] /\ alive \in BOOLEAN
        /\ pass \in Pass \cup {None} /\ drop \in Drop \cup {None}
    BY DEF Init
  <2> QED
    BY <2>1, <2>2, <2>3, <2>4, <2>5 DEF TypeOK
<1>2. EntriesFit /\ PassHolds /\ DropHolds
  BY DEF Init, EntriesFit, PassHolds, DropHolds
<1> QED
  BY <1>1, <1>2 DEF IInv

\* What the world does to the nodes, the domains and the rows.
LEMMA WorldIInv == IInv /\ World => IInv'
<1> SUFFICES ASSUME IInv, World PROVE IInv'
  OBVIOUS
<1>1. ASSUME UNCHANGED <<cache, pass, drop>> PROVE (EntriesFit /\ PassHolds /\ DropHolds)'
  BY <1>1 DEF IInv, EntriesFit, PassHolds, DropHolds, ObjectsOf
<1>2. ASSUME NEW n \in Nodes, AgentLost(n) \/ NodeCrash(n) \/ AgentBack(n) PROVE IInv'
  <2>1. UNCHANGED daemonState
    BY <1>2 DEF AgentLost, NodeCrash, AgentBack
  <2>2. on' \in [Nodes -> BOOLEAN]
    BY <1>2 DEF IInv, TypeOK, AgentLost, NodeCrash, AgentBack
  <2>3. boot' \in [Nodes -> 1..MaxBoots]
    BY <1>2, BoundsAssumption DEF IInv, TypeOK, AgentLost, NodeCrash, AgentBack
  <2>4. outages' \in 0..MaxOutages
    BY <1>2, BoundsAssumption DEF IInv, TypeOK, AgentLost, NodeCrash, AgentBack
  <2>5. dom' \in [Vms -> Domain \cup {None}]
    BY <1>2 DEF IInv, TypeOK, AgentLost, NodeCrash, AgentBack
  <2>6. TypeOK'
    BY <2>1, <2>2, <2>3, <2>4, <2>5 DEF IInv, TypeOK, daemonState, rowVars, daemonVars
  <2> QED
    BY <1>1, <2>1, <2>6 DEF IInv, daemonState
<1>3. ASSUME NEW n \in Nodes, Register(n) PROVE IInv'
  <2>1. hosts' \in [Nodes -> HostState \cup {None}]
    BY <1>3 DEF IInv, TypeOK, Register, HostState
  <2>2. TypeOK'
    BY <1>3, <2>1 DEF IInv, TypeOK, Register, worldVars, daemonVars
  <2> QED
    BY <1>1, <1>3, <2>2 DEF IInv, Register
<1>4. ASSUME NEW v \in Vms, GuestStops(v) PROVE IInv'
  <2>1. [dom[v] EXCEPT !.state = "shutoff"] \in Domain
    BY <1>4 DEF IInv, TypeOK, GuestStops, Domain
  <2>2. dom' \in [Vms -> Domain \cup {None}]
    BY <1>4, <2>1 DEF IInv, TypeOK, GuestStops
  <2>3. TypeOK'
    BY <1>4, <2>2 DEF IInv, TypeOK, GuestStops, daemonState, rowVars, daemonVars
  <2> QED
    BY <1>1, <1>4, <2>3 DEF IInv, GuestStops, daemonState
<1>5. ASSUME NEW v \in Vms, NEW n \in Nodes, PutVm(v, n) PROVE IInv'
  <2>1. [node |-> n, state |-> "running"] \in Domain /\ [state |-> "running", host |-> n] \in Row
    BY DEF Domain, Row, RowState
  <2>2. dom' \in [Vms -> Domain \cup {None}] /\ vms' \in [Vms -> Row]
    BY <1>5, <2>1 DEF IInv, TypeOK, PutVm
  <2>3. told' \in [Objects -> ObjectState \cup {None}]
    BY <1>5 DEF IInv, TypeOK, PutVm
  <2>4. TypeOK'
    BY <1>5, <2>2, <2>3 DEF IInv, TypeOK, PutVm, daemonVars
  <2> QED
    BY <1>1, <1>5, <2>4 DEF IInv, PutVm
<1> QED
  BY <1>2, <1>3, <1>4, <1>5 DEF World

\* A publication: the object is in the cache when it is handled, with a state
\* of its kind, and neither handler that goes through the cache is at work.
LEMMA UpdatePropsIInv ==
  ASSUME IInv, NEW a \in Agents, NEW x \in Things, UpdateProps(a, x)
  PROVE  IInv'
<1> DEFINE k == <<a, x>>
           s == StateOf(a, x)
           c == IF cache[k] = None \/ told[k] = None THEN WithNewObject(a, x)
                                                     ELSE [cache EXCEPT ![k].state = s]
<1>1. k \in Objects /\ Fits(cache)
  BY DEF Objects, IInv, TypeOK, EntriesFit, Fits
<1>2. s \in ObjectState /\ IF x = "node" THEN s = "up" ELSE s \in {"running", "shutoff"}
  <2>1. s # None
    BY DEF UpdateProps
  <2>2. CASE x = "node"
    BY <2>1, <2>2 DEF StateOf, ObjectState
  <2>3. CASE x # "node"
    <3>1. x \in Vms /\ dom[x] \in Domain \cup {None}
      BY <2>3 DEF Things, IInv, TypeOK
    <3>2. dom[x] # None /\ s = dom[x].state
      BY <2>1, <2>3 DEF StateOf
    <3> QED
      BY <2>3, <3>1, <3>2 DEF Domain, ObjectState
  <2> QED
    BY <2>2, <2>3
<1>3. Fits(c) /\ c[k] # None
  <2> HIDE DEF s
  <2>1. CASE cache[k] = None \/ told[k] = None
    <3> DEFINE e == [state |-> s, timed_out |-> FALSE, synced |-> FALSE]
    <3>1. e \in Entry /\ e.state = s
      BY <1>2 DEF Entry
    <3>2. c = [j \in Objects |->
                 IF j = k THEN e
                 ELSE IF j[2] = x /\ (x = "node" => j[1][1] = a[1]) THEN None ELSE cache[j]]
      BY <2>1 DEF WithNewObject, s
    <3> HIDE DEF e, c
    <3> QED
      BY <1>1, <1>2, <3>1, <3>2, NullAssumption DEF Fits
  <2>2. CASE ~(cache[k] = None \/ told[k] = None)
    <3> DEFINE e == [cache[k] EXCEPT !.state = s]
    <3>1. cache[k] \in Entry
      BY <1>1, <2>2 DEF Fits
    <3>2. e \in Entry /\ e.state = s
      BY <1>2, <3>1 DEF Entry
    <3>3. c = [cache EXCEPT ![k] = e]
      BY <2>2
    <3> HIDE DEF e, c
    <3> QED
      BY <1>1, <1>2, <3>2, <3>3, NullAssumption DEF Fits
  <2> QED
    BY <2>1, <2>2
<1>4. Handled(c)
  <2>1. UpdateObject(c, a, x)
    BY DEF UpdateProps
  <2> HIDE DEF c
  <2> QED
    BY <1>3, <2>1, ObjectHandled DEF IInv
<1>5. told' \in [Objects -> ObjectState \cup {None}]
  BY <1>1, <1>2 DEF UpdateProps, IInv, TypeOK
<1> HIDE DEF c
<1>6. TypeOK'
  BY <1>4, <1>5 DEF UpdateProps, IInv, TypeOK, Handled, Fits, daemonVars
<1>7. EntriesFit'
  BY <1>4 DEF Handled, Fits, EntriesFit
<1>8. PassHolds' /\ DropHolds'
  BY DEF UpdateProps, CallbackFree, PassHolds, DropHolds
<1> QED
  BY <1>6, <1>7, <1>8 DEF IInv

\* check_heartbeats and agent_deleted each take an object off what they have
\* still to do; the other one's objects stay in the cache.
LEMMA ObjectStepIInv ==
  ASSUME IInv, NEW x \in Things, DropObject(x) \/ CheckObject(x)
  PROVE  IInv'
<1>1. CASE DropObject(x)
  <2>1. drop \in Drop /\ drop.agent \in Agents /\ x \in ObjectsOf(drop.agent)
    BY <1>1 DEF DropObject, IInv, TypeOK, Drop, DropHolds
  <2>2. Handled(cache)
    BY <1>1, <2>1, ConnectionHandled DEF DropObject
  <2>3. drop' \in Drop /\ drop'.agent = drop.agent /\ drop'.rest \subseteq drop.rest
    BY <1>1, <2>1 DEF DropObject, Drop
  <2>4. TypeOK'
    BY <1>1, <2>2, <2>3 DEF DropObject, IInv, TypeOK, Handled, Fits, daemonVars
  <2>5. EntriesFit'
    BY <2>2 DEF Handled, Fits, EntriesFit
  <2>6. \A a \in Agents : ObjectsOf(a)' = ObjectsOf(a)
    BY <2>2, SameObjectsOf DEF Handled
  <2>7. DropHolds'
    BY <1>1, <2>1, <2>3, <2>6 DEF DropObject, IInv, DropHolds
  <2>8. PassHolds'
    BY <1>1, <2>6 DEF DropObject, IInv, PassHolds, TypeOK, Pass
  <2> QED
    BY <2>4, <2>5, <2>7, <2>8 DEF IInv
<1>2. CASE CheckObject(x)
  <2>1. pass \in Pass /\ pass.agent \in Agents /\ x \in ObjectsOf(pass.agent)
    BY <1>2 DEF CheckObject, IInv, TypeOK, Pass, PassHolds
  <2>2. Handled(cache)
    BY <1>2, <2>1, ConnectionHandled DEF CheckObject
  <2>3. pass' \in Pass /\ pass'.agent = pass.agent /\ pass'.rest \subseteq pass.rest
    BY <1>2, <2>1 DEF CheckObject, Pass
  <2>4. TypeOK'
    BY <1>2, <2>2, <2>3 DEF CheckObject, IInv, TypeOK, Handled, Fits, daemonVars
  <2>5. EntriesFit'
    BY <2>2 DEF Handled, Fits, EntriesFit
  <2>6. \A a \in Agents : ObjectsOf(a)' = ObjectsOf(a)
    BY <2>2, SameObjectsOf DEF Handled
  <2>7. PassHolds'
    BY <1>2, <2>1, <2>3, <2>6, NullAssumption DEF CheckObject, IInv, PassHolds
  <2>8. DropHolds'
    BY <1>2, <2>6 DEF CheckObject, IInv, DropHolds, TypeOK, Drop
  <2> QED
    BY <2>4, <2>5, <2>7, <2>8 DEF IInv
<1> QED
  BY <1>1, <1>2

\* The other steps of the callbacks and of the main thread leave the cache
\* and the rows alone.
LEMMA BookkeepingIInv ==
  ASSUME IInv,
         \/ \E a \in Agents : AgentHeartbeat(a) \/ Lapse(a) \/ AgentDeleted(a) \/ CheckAgent(a)
         \/ DropDone \/ CheckHeartbeats \/ Checked
  PROVE  IInv'
<1>1. UNCHANGED <<worldVars, told, rowVars, cache, sleeping, restarts>>
  BY DEF AgentHeartbeat, Lapse, AgentDeleted, CheckAgent, DropDone, CheckHeartbeats, Checked,
         daemonVars
<1>2. EntriesFit'
  BY <1>1 DEF IInv, EntriesFit
<1>3. ASSUME beats' \subseteq Agents, old' \subseteq beats', alive' \in BOOLEAN,
             pass' \in Pass \cup {None}, drop' \in Drop \cup {None}
      PROVE  TypeOK'
  BY <1>1, <1>3 DEF IInv, TypeOK, worldVars, rowVars
<1>4. \A a \in Agents : ObjectsOf(a)' = ObjectsOf(a) /\ ObjectsOf(a) \in SUBSET Things
  BY <1>1 DEF ObjectsOf
<1>5. ASSUME UNCHANGED pass PROVE PassHolds'
  BY <1>1, <1>5 DEF IInv, PassHolds, ObjectsOf
<1>6. ASSUME UNCHANGED drop PROVE DropHolds'
  BY <1>1, <1>6 DEF IInv, DropHolds, ObjectsOf
<1>7. ASSUME NEW todo \in SUBSET Agents, pass' = Onward(todo)
      PROVE  pass' \in Pass \cup {None} /\ PassHolds'
  BY <1>7 DEF Onward, Pass, PassHolds
<1>8. ASSUME NEW a \in Agents, AgentHeartbeat(a) \/ Lapse(a)
      PROVE  IInv'
  <2>1. TypeOK'
    BY <1>3, <1>8 DEF AgentHeartbeat, Lapse, IInv, TypeOK, daemonVars
  <2> QED
    BY <1>2, <1>5, <1>6, <1>8, <2>1 DEF AgentHeartbeat, Lapse, IInv
<1>9. ASSUME NEW a \in Agents, AgentDeleted(a)
      PROVE  IInv'
  <2>1. drop' = [agent |-> a, rest |-> ObjectsOf(a)] /\ drop' \in Drop
    BY <1>4, <1>9 DEF AgentDeleted, Drop
  <2>2. TypeOK'
    BY <1>3, <1>9, <2>1 DEF AgentDeleted, IInv, TypeOK, daemonVars
  <2>3. DropHolds'
    BY <1>4, <2>1 DEF DropHolds
  <2> QED
    BY <1>2, <1>5, <1>9, <2>2, <2>3 DEF AgentDeleted, IInv
<1>10. ASSUME NEW a \in Agents, CheckAgent(a)
       PROVE  IInv'
  <2>1. UNCHANGED <<beats, old, drop>> /\ pass \in Pass
    BY <1>10 DEF CheckAgent, IInv, TypeOK
  <2>2. CASE a \in beats
    <3>1. /\ pass' = [todo |-> pass.todo \ {a}, agent |-> a,
                      down |-> a \in old, rest |-> ObjectsOf(a)]
          /\ UNCHANGED alive
      BY <1>10, <2>2 DEF CheckAgent
    <3>2. (a \in old) \in BOOLEAN /\ pass.todo \ {a} \in SUBSET Agents
      BY <2>1 DEF Pass
    <3>3. pass' \in Pass
      BY <1>4, <3>1, <3>2 DEF Pass
    <3>4. TypeOK'
      BY <1>3, <2>1, <3>1, <3>3 DEF IInv, TypeOK
    <3>5. pass'.agent = a /\ pass'.rest = ObjectsOf(a)'
      BY <1>4, <3>1
    <3>6. PassHolds'
      BY <3>5, NullAssumption DEF PassHolds
    <3> QED
      BY <1>2, <1>6, <2>1, <3>4, <3>6 DEF IInv
  <2>3. CASE a \notin beats
    <3>1. alive' = FALSE /\ UNCHANGED pass
      BY <1>10, <2>3 DEF CheckAgent
    <3>2. TypeOK'
      BY <1>3, <2>1, <3>1 DEF IInv, TypeOK
    <3> QED
      BY <1>2, <1>5, <1>6, <2>1, <3>1, <3>2 DEF IInv
  <2> QED
    BY <2>2, <2>3
<1>11. CASE DropDone
  <2>1. TypeOK'
    BY <1>3, <1>11 DEF DropDone, Forget, IInv, TypeOK, daemonVars
  <2>2. DropHolds'
    BY <1>11 DEF DropDone, DropHolds
  <2> QED
    BY <1>2, <1>5, <1>11, <2>1, <2>2 DEF DropDone, IInv
<1>12. CASE CheckHeartbeats
  <2>1. pass' \in Pass \cup {None} /\ PassHolds'
    BY <1>7, <1>12 DEF CheckHeartbeats, IInv, TypeOK
  <2>2. TypeOK'
    BY <1>3, <1>12, <2>1 DEF CheckHeartbeats, IInv, TypeOK, daemonVars
  <2> QED
    BY <1>2, <1>6, <1>12, <2>1, <2>2 DEF CheckHeartbeats, IInv
<1>13. CASE Checked
  <2>1. pass.todo \in SUBSET Agents
    BY <1>13 DEF Checked, IInv, TypeOK, Pass
  <2>2. pass' \in Pass \cup {None} /\ PassHolds'
    BY <1>7, <1>13, <2>1 DEF Checked
  <2>3. TypeOK'
    BY <1>3, <1>13, <2>2 DEF Checked, Forget, IInv, TypeOK, daemonVars
  <2> QED
    BY <1>2, <1>6, <1>13, <2>2, <2>3 DEF Checked, IInv
<1> QED
  BY <1>8, <1>9, <1>10, <1>11, <1>12, <1>13

\* The dead-VM thread writes rows only.
LEMMA CheckDeadVmsIInv ==
  ASSUME IInv, NEW n \in Nodes, CheckDeadVms(n)
  PROVE  IInv'
<1>1. sleeping' \in [Nodes -> Nat]
  BY DEF CheckDeadVms, IInv, TypeOK
<1>2. lost' \in 0..MaxLost
  BY BoundsAssumption DEF CheckDeadVms, Lose, IInv, TypeOK
<1>3. [state |-> "stopped", host |-> None] \in Row
  BY DEF Row, RowState
<1>4. vms' \in [Vms -> Row]
  BY <1>3 DEF CheckDeadVms, IInv, TypeOK
<1>5. TypeOK'
  BY <1>1, <1>2, <1>4 DEF CheckDeadVms, IInv, TypeOK, worldVars, daemonVars
<1> QED
  BY <1>5 DEF CheckDeadVms, IInv, EntriesFit, PassHolds, DropHolds, ObjectsOf

\* A restart begins with an empty cache and with nothing in progress.
LEMMA RestartIInv == IInv /\ Restart => IInv'
<1> SUFFICES ASSUME IInv, Restart PROVE IInv'
  OBVIOUS
<1>1. [state |-> "stopped", host |-> None] \in Row
  BY DEF Row, RowState
<1>2. restarts' \in 0..MaxRestarts
  BY BoundsAssumption DEF Restart, IInv, TypeOK
<1>3. hosts' \in [Nodes -> HostState \cup {None}] /\ vms' \in [Vms -> Row]
  BY <1>1 DEF Restart, HostState
<1>4. TypeOK'
  BY <1>2, <1>3 DEF Restart, IInv, TypeOK, worldVars
<1> QED
  BY <1>4 DEF Restart, IInv, EntriesFit, PassHolds, DropHolds

\* Every step keeps the invariant.
LEMMA NextIInv == IInv /\ [Next]_vars => IInv'
<1> SUFFICES ASSUME IInv, [Next]_vars PROVE IInv'
  OBVIOUS
<1>1. CASE World
  BY <1>1, WorldIInv
<1>2. CASE Callbacks
  BY <1>2, UpdatePropsIInv, ObjectStepIInv, BookkeepingIInv DEF Callbacks
<1>3. CASE MainLoop
  BY <1>3, ObjectStepIInv, BookkeepingIInv DEF MainLoop
<1>4. CASE Restart
  BY <1>4, RestartIInv
<1>5. CASE \E a \in Agents : AgentHeartbeat(a) \/ Lapse(a) \/ AgentDeleted(a)
  BY <1>5, BookkeepingIInv
<1>6. CASE \E n \in Nodes : CheckDeadVms(n)
  BY <1>6, CheckDeadVmsIInv
<1>7. CASE UNCHANGED vars
  BY <1>7 DEF vars, worldVars, rowVars, daemonVars, IInv, TypeOK, EntriesFit, PassHolds,
              DropHolds, ObjectsOf
<1> QED
  BY <1>1, <1>2, <1>3, <1>4, <1>5, <1>6, <1>7 DEF Next

\* Every reachable state of db-omatic's host monitoring is well typed; in
\* particular check_heartbeats and agent_deleted, although the latter does
\* not enter the monitor, only ever handle objects that are in the cache.
THEOREM MonitorTypeCorrect == Spec => []TypeOK
<1>1. IInv => TypeOK
  BY DEF IInv
<1> QED
  BY <1>1, InitIInv, NextIInv, PTL DEF Spec

\* Neither handler ever meets an object that has left the cache.
THEOREM HandledObjectsAreCached == Spec => [](PassHolds /\ DropHolds)
<1>1. IInv => PassHolds /\ DropHolds
  BY DEF IInv
<1> QED
  BY <1>1, InitIInv, NextIInv, PTL DEF Spec
=============================================================================
