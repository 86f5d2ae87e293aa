---------------------------- MODULE HostMonitor -----------------------------
(***************************************************************************)
(* The other half of db-omatic/db_omatic.rb: which hosts are up.  Every    *)
(* node runs a libvirt-qpid agent that publishes a node object and an      *)
(* object per domain, and sends heartbeats.  db-omatic caches the objects  *)
(* and marks hosts unavailable, and their VMs unreachable, when the agent  *)
(* falls silent.                                                           *)
(*                                                                         *)
(* Three threads touch this state: the QMF callbacks (publications,        *)
(* heartbeats, agent_deleted), the main thread (check_heartbeats) and a    *)
(* sleeping thread per host that became available.  They share a monitor,  *)
(* which agent_deleted and the sleeping threads do not enter.              *)
(*                                                                         *)
(* The handling of one object (update_host_state, update_domain_state) is  *)
(* one step here; module DbOmatic has its inner steps.  Of other writers   *)
(* of the hosts and vms rows only the effect is kept: a save may find its  *)
(* object stale, at most MaxLost times.                                    *)
(***************************************************************************)
EXTENDS Naturals

CONSTANTS Nodes, Vms, None,
          MaxBoots,     \* agents (incarnations of libvirt-qpid) per node
          MaxOutages,   \* how often an agent falls silent
          MaxLost,      \* saves that fail with StaleObjectError
          MaxRestarts,  \* restarts of db-omatic
          QmfDeletes    \* whether the QMF library itself reports lost agents

ASSUME BoundsAssumption ==
  /\ MaxBoots \in Nat \ {0}
  /\ {MaxOutages, MaxLost, MaxRestarts} \subseteq Nat
  /\ QmfDeletes \in BOOLEAN
  /\ "node" \notin Vms

VARIABLES
  on, boot,   \* per node: its agent is running and connected; which one it is
  outages,    \* how often an agent has fallen silent
  dom,        \* per VM: its libvirt domain
  told,       \* per object: the state last published
  hosts, vms, \* the rows
  lost,       \* stale saves so far
  alive,      \* db-omatic is running
  cache,      \* @cached_objects
  beats, old, \* the keys of @heartbeats; those more than 30 seconds old
  sleeping,   \* per host: threads waiting to look for dead VMs
  pass,       \* check_heartbeats in progress
  drop,       \* agent_deleted in progress
  restarts    \* restarts of db-omatic so far

worldVars  == <<on, boot, outages, dom>>
rowVars    == <<hosts, vms, lost>>
daemonVars == <<alive, restarts>>
vars == <<worldVars, told, rowVars, cache, beats, old, sleeping, pass, drop, daemonVars>>

-----------------------------------------------------------------------------
Agents  == Nodes \X (1..MaxBoots)
Things  == Vms \cup {"node"}
Objects == Agents \X Things

HostState   == {"available", "unavailable"}
RowState    == {"running", "stopped", "unreachable"}
Row         == [state : RowState, host : Nodes \cup {None}]
Domain      == [node : Nodes, state : {"running", "shutoff"}]
ObjectState == {"up", "running", "shutoff"}
Entry       == [state : ObjectState, timed_out : BOOLEAN, synced : BOOLEAN]

\* check_heartbeats: the agents to come, the one at hand (with the verdict on
\* it and its objects to come).
Pass == [todo : SUBSET Agents, agent : Agents \cup {None},
         down : BOOLEAN, rest : SUBSET Things]

\* agent_deleted: the agent and its objects to come.
Drop == [agent : Agents, rest : SUBSET Things]

\* None is none of the values it stands in for.
ASSUME NullAssumption ==
  /\ None \notin Domain /\ None \notin Entry /\ None \notin Pass /\ None \notin Drop
  /\ None \notin Agents /\ None \notin ObjectState /\ None \notin HostState

TypeOK ==
  /\ on \in [Nodes -> BOOLEAN] /\ boot \in [Nodes -> 1..MaxBoots]
  /\ outages \in 0..MaxOutages
  /\ dom \in [Vms -> Domain \cup {None}]
  /\ told \in [Objects -> ObjectState \cup {None}]
  /\ hosts \in [Nodes -> HostState \cup {None}]
  /\ vms \in [Vms -> Row]
  /\ lost \in 0..MaxLost /\ alive \in BOOLEAN /\ restarts \in 0..MaxRestarts
  /\ cache \in [Objects -> Entry \cup {None}]
  /\ beats \subseteq Agents /\ old \subseteq beats
  /\ sleeping \in [Nodes -> Nat]
  /\ pass \in Pass \cup {None}
  /\ drop \in Drop \cup {None}

\* The agent of a node, and whether an agent is gone.
Current(n) == <<n, boot[n]>>
Silent(a)  == ~on[a[1]] \/ Current(a[1]) # a

\* The state of an object its agent would publish; None if there is none.
StateOf(a, x) ==
  IF Silent(a) THEN None
  ELSE IF x = "node" THEN "up"
  ELSE IF dom[x] # None /\ dom[x].node = a[1] THEN dom[x].state ELSE None

\* qmfc.object finds a VM's domain if its node's agent is there.
Found(v) == dom[v] # None /\ on[dom[v].node]

\* db-omatic has just run db_init_cleanup; nothing is on the bus yet.  A host
\* is registered (unavailable) or not yet.
Init ==
  /\ on = [n \in Nodes |-> TRUE] /\ boot = [n \in Nodes |-> 1] /\ outages = 0
  /\ dom \in [Vms -> [node : Nodes, state : {"running"}] \cup {None}]
  /\ told = [k \in Objects |-> None]
  /\ hosts \in [Nodes -> {"unavailable", None}]
  /\ vms = [v \in Vms |-> [state |-> "stopped", host |-> None]]
  /\ lost = 0 /\ alive = TRUE /\ restarts = 0
  /\ cache = [k \in Objects |-> None]
  /\ beats = {} /\ old = {}
  /\ sleeping = [n \in Nodes |-> 0]
  /\ pass = None /\ drop = None

-----------------------------------------------------------------------------
(***************************************************************************)
(* The world.                                                              *)
(***************************************************************************)
daemonState == <<told, rowVars, cache, beats, old, sleeping, pass, drop, daemonVars>>

\* The node is cut off, or its agent stops: its guests run on.
AgentLost(n) ==
  /\ on[n] /\ outages < MaxOutages
  /\ on' = [on EXCEPT ![n] = FALSE] /\ outages' = outages + 1
  /\ UNCHANGED <<boot, dom, daemonState>>

\* The node loses its guests and, when it is back, has another agent.
NodeCrash(n) ==
  /\ on[n] /\ outages < MaxOutages /\ boot[n] < MaxBoots
  /\ on' = [on EXCEPT ![n] = FALSE] /\ outages' = outages + 1
  /\ boot' = [boot EXCEPT ![n] = @ + 1]
  /\ dom' = [v \in Vms |-> IF dom[v] # None /\ dom[v].node = n THEN None ELSE dom[v]]
  /\ UNCHANGED daemonState

\* Connected again, with the same agent or with a new one.
AgentBack(n) ==
  /\ ~on[n]
  /\ on' = [on EXCEPT ![n] = TRUE]
  /\ \/ UNCHANGED boot
     \/ boot[n] < MaxBoots /\ boot' = [boot EXCEPT ![n] = @ + 1]
  /\ UNCHANGED <<outages, dom, daemonState>>

GuestStops(v) ==
  /\ dom[v] # None /\ dom[v].state = "running"
  /\ dom' = [dom EXCEPT ![v].state = "shutoff"]
  /\ UNCHANGED <<on, boot, outages, daemonState>>

\* taskomatic puts the VM on a node, by start or migration, and says so in
\* the row; the domain is a new object.
PutVm(v, n) ==
  /\ on[n] /\ hosts[n] = "available"
  /\ \/ dom[v] = None /\ vms[v].state = "stopped"
     \/ Found(v) /\ dom[v].node # n /\ dom[v].state = "running" /\ vms[v].state = "running"
  /\ dom' = [dom EXCEPT ![v] = [node |-> n, state |-> "running"]]
  /\ vms' = [vms EXCEPT ![v] = [state |-> "running", host |-> n]]
  /\ told' = [k \in Objects |-> IF k[2] = v THEN None ELSE told[k]]
  /\ UNCHANGED <<on, boot, outages, hosts, lost, cache, beats, old, sleeping, pass, drop,
                 daemonVars>>

\* host-register inserts the row, some time after the node has booted.
Register(n) ==
  /\ hosts[n] = None
  /\ hosts' = [hosts EXCEPT ![n] = "unavailable"]
  /\ UNCHANGED <<worldVars, told, vms, lost, cache, beats, old, sleeping, pass, drop, daemonVars>>

-----------------------------------------------------------------------------
(***************************************************************************)
(* The handling of one object; c is the cache it finds.                    *)
(***************************************************************************)
Lose(stale) ==
  /\ stale => lost < MaxLost
  /\ lost' = IF stale THEN lost + 1 ELSE lost

\* A host without a row is not synced and will be tried again.  A stale save
\* leaves the entry as it was.
UpdateHostState(c, a, s) ==
  LET n == a[1]
      k == <<a, "node">>
  IN  \E stale \in BOOLEAN :
        /\ Lose(stale) /\ (stale => hosts[n] \notin {s, None})
        /\ hosts' = IF stale \/ hosts[n] = None THEN hosts ELSE [hosts EXCEPT ![n] = s]
        /\ cache' = IF stale THEN c ELSE [c EXCEPT ![k].synced = (hosts[n] # None)]
        /\ sleeping' = IF stale \/ hosts[n] = None \/ s # "available" THEN sleeping
                       ELSE [sleeping EXCEPT ![n] = @ + 1]
        /\ UNCHANGED <<vms, dom>>

\* A stopped domain that is found is undefined; a running one tells the host.
UpdateDomainState(c, a, v, s) ==
  LET gone == s = "stopped" /\ Found(v) /\ dom[v].state = "shutoff"
      row  == [state |-> s,
               host  |-> CASE gone                      -> None
                           [] s = "running" /\ Found(v) -> dom[v].node
                           [] OTHER                     -> vms[v].host]
  IN  \E stale \in BOOLEAN :
        /\ Lose(stale) /\ (stale => row # vms[v])
        /\ vms' = IF stale THEN vms ELSE [vms EXCEPT ![v] = row]
        /\ cache' = IF stale THEN c ELSE [c EXCEPT ![<<a, v>>].synced = TRUE]
        /\ dom' = IF gone THEN [dom EXCEPT ![v] = None] ELSE dom
        /\ UNCHANGED <<hosts, sleeping>>

\* Mutant: libvirt's name of the state is stored.
TranslateNot == [running |-> "running", shutoff |-> "shutoff"]

Translate == [running |-> "running", shutoff |-> "stopped"]

\* With the state the entry holds: a host is available.
UpdateObject(c, a, x) ==
  IF x = "node" THEN UpdateHostState(c, a, "available")
                ELSE UpdateDomainState(c, a, x, Translate[c[<<a, x>>].state])

\* agent_disconnected, one object.
Disconnect(a, x) ==
  LET k == <<a, x>>
      c == [cache EXCEPT ![k].timed_out = TRUE]
  IN  IF cache[k].timed_out THEN UNCHANGED <<cache, rowVars, dom, sleeping>>
      ELSE IF x = "node" THEN UpdateHostState(c, a, "unavailable")
                         ELSE UpdateDomainState(c, a, x, "unreachable")

\* Mutant: only what was never synced is brought up to date.
ConnectUnsynced(a, x) ==
  LET k == <<a, x>> IN
  IF ~cache[k].synced
  THEN UpdateObject([cache EXCEPT ![k].timed_out = FALSE], a, x)
  ELSE cache' = [cache EXCEPT ![k].timed_out = FALSE] /\ UNCHANGED <<rowVars, dom, sleeping>>

\* agent_connected, one object.
Connect(a, x) ==
  LET k == <<a, x>> IN
  IF cache[k].timed_out \/ ~cache[k].synced
  THEN UpdateObject([cache EXCEPT ![k].timed_out = FALSE], a, x)
  ELSE UNCHANGED <<cache, rowVars, dom, sleeping>>

-----------------------------------------------------------------------------
(***************************************************************************)
(* The callback thread.  It is busy while agent_deleted runs, and waits    *)
(* for the monitor while check_heartbeats has it.                          *)
(***************************************************************************)
CallbackFree == alive /\ drop = None

\* Mutant: older objects of the same domain or host stay in the cache.
WithNewObjectKept(a, x) ==
  [cache EXCEPT ![<<a, x>>] = [state |-> StateOf(a, x), timed_out |-> FALSE, synced |-> FALSE]]

\* A new object replaces every older one of the same domain or host.
WithNewObject(a, x) ==
  [k \in Objects |->
     IF k = <<a, x>>
     THEN [state |-> StateOf(a, x), timed_out |-> FALSE, synced |-> FALSE]
     ELSE IF k[2] = x /\ (x = "node" => k[1][1] = a[1]) THEN None
     ELSE cache[k]]

\* update_props.  A published object is new, or has changed its state.
UpdateProps(a, x) ==
  LET k == <<a, x>>
      isNew == cache[k] = None \/ told[k] = None
  IN  /\ CallbackFree /\ pass = None
      /\ StateOf(a, x) \notin {None, told[k]}
      /\ told' = [told EXCEPT ![k] = StateOf(a, x)]
      /\ UpdateObject(IF isNew THEN WithNewObject(a, x)
                               ELSE [cache EXCEPT ![k].state = StateOf(a, x)], a, x)
      /\ UNCHANGED <<on, boot, outages, beats, old, pass, drop, daemonVars>>

AgentHeartbeat(a) ==
  /\ CallbackFree /\ pass = None /\ ~Silent(a)
  /\ beats' = beats \cup {a} /\ old' = old \ {a}
  /\ UNCHANGED <<worldVars, told, rowVars, cache, sleeping, pass, drop, daemonVars>>

\* 30 seconds without a heartbeat.
Lapse(a) ==
  /\ a \in beats \ old /\ Silent(a)
  /\ old' = old \cup {a}
  /\ UNCHANGED <<worldVars, told, rowVars, cache, beats, sleeping, pass, drop, daemonVars>>

ObjectsOf(a) == {x \in Things : cache[<<a, x>>] # None}

\* agent_deleted: agent_disconnected, outside of the monitor.
AgentDeleted(a) ==
  /\ CallbackFree /\ QmfDeletes
  /\ Silent(a) /\ (a \in beats \/ ObjectsOf(a) # {})
  /\ drop' = [agent |-> a, rest |-> ObjectsOf(a)]
  /\ UNCHANGED <<worldVars, told, rowVars, cache, beats, old, sleeping, pass, daemonVars>>

DropObject(x) ==
  /\ alive /\ drop # None /\ x \in drop.rest
  /\ Disconnect(drop.agent, x)
  /\ drop' = [drop EXCEPT !.rest = @ \ {x}]
  /\ UNCHANGED <<on, boot, outages, told, beats, old, pass, daemonVars>>

\* @heartbeats.delete
Forget(a) == beats' = beats \ {a} /\ old' = old \ {a}

DropDone ==
  /\ alive /\ drop # None /\ drop.rest = {}
  /\ Forget(drop.agent)
  /\ drop' = None
  /\ UNCHANGED <<worldVars, told, rowVars, cache, sleeping, pass, daemonVars>>

-----------------------------------------------------------------------------
(***************************************************************************)
(* The main thread: every 5 seconds, in the monitor.                       *)
(***************************************************************************)
\* What the agents still to come leave to do.
Onward(todo) ==
  IF todo = {} THEN None ELSE [todo |-> todo, agent |-> None, down |-> FALSE, rest |-> {}]

CheckHeartbeats ==
  /\ alive /\ pass = None /\ beats # {}
  /\ pass' = Onward(beats)
  /\ UNCHANGED <<worldVars, told, rowVars, cache, beats, old, sleeping, drop, daemonVars>>

\* The next of the keys read above.  One that has been deleted meanwhile has
\* no timestamp: the exception ends the loop, and with it the process.
CheckAgent(a) ==
  /\ alive /\ pass # None /\ pass.agent = None /\ a \in pass.todo
  /\ IF a \in beats
     THEN /\ pass' = [todo |-> pass.todo \ {a}, agent |-> a,
                      down |-> a \in old, rest |-> ObjectsOf(a)]
          /\ UNCHANGED alive
     ELSE /\ alive' = FALSE
          /\ UNCHANGED pass
  /\ UNCHANGED <<worldVars, told, rowVars, cache, beats, old, sleeping, drop, restarts>>

CheckObject(x) ==
  /\ alive /\ pass # None /\ x \in pass.rest
  /\ IF pass.down THEN Disconnect(pass.agent, x) ELSE Connect(pass.agent, x)
  /\ pass' = [pass EXCEPT !.rest = @ \ {x}]
  /\ UNCHANGED <<on, boot, outages, told, beats, old, drop, daemonVars>>

\* Mutant: an agent is forgotten as soon as its heartbeat was looked at.
CheckedForgets ==
  /\ alive /\ pass # None /\ pass.agent # None /\ pass.rest = {}
  /\ Forget(pass.agent)
  /\ pass' = Onward(pass.todo)
  /\ UNCHANGED <<worldVars, told, rowVars, cache, sleeping, drop, daemonVars>>

Checked ==
  /\ alive /\ pass # None /\ pass.agent # None /\ pass.rest = {}
  /\ IF pass.down THEN Forget(pass.agent) ELSE UNCHANGED <<beats, old>>
  /\ pass' = Onward(pass.todo)
  /\ UNCHANGED <<worldVars, told, rowVars, cache, sleeping, drop, daemonVars>>

-----------------------------------------------------------------------------
\* 20 seconds after a host became available: its VMs that are unreachable are
\* set to stopped.  Whether the host is still up is asked with qmfc.objects,
\* whose answer is an Array, empty or not: the test for nil never fails.  A
\* stale save ends the thread.
CheckDeadVms(n) ==
  /\ alive /\ sleeping[n] > 0
  /\ sleeping' = [sleeping EXCEPT ![n] = @ - 1]
  /\ LET dead == {v \in Vms : vms[v] = [state |-> "unreachable", host |-> n]} IN
     \E saved \in SUBSET dead :
       /\ Lose(saved # dead)
       /\ vms' = [v \in Vms |-> IF v \in saved THEN [state |-> "stopped", host |-> None]
                                               ELSE vms[v]]
  /\ UNCHANGED <<worldVars, told, hosts, cache, beats, old, pass, drop, daemonVars>>

\* db-omatic is started anew.  db_init_cleanup marks every host unavailable
\* and, as the lookup of each VM raises (it asks the list of the VMs for its
\* uuid), every VM stopped.
Restart ==
  /\ restarts < MaxRestarts
  /\ restarts' = restarts + 1 /\ alive' = TRUE
  /\ hosts' = [n \in Nodes |-> IF hosts[n] = None THEN None ELSE "unavailable"]
  /\ vms' = [v \in Vms |-> [state |-> "stopped", host |-> None]]
  /\ told' = [k \in Objects |-> None] /\ cache' = [k \in Objects |-> None]
  /\ beats' = {} /\ old' = {}
  /\ sleeping' = [n \in Nodes |-> 0]
  /\ pass' = None /\ drop' = None
  /\ UNCHANGED <<worldVars, lost>>

-----------------------------------------------------------------------------
World ==
  \/ \E n \in Nodes : AgentLost(n) \/ NodeCrash(n) \/ AgentBack(n) \/ Register(n)
  \/ \E v \in Vms : GuestStops(v) \/ \E n \in Nodes : PutVm(v, n)

Callbacks ==
  \/ \E a \in Agents, x \in Things : UpdateProps(a, x)
  \/ \E x \in Things : DropObject(x)
  \/ DropDone

MainLoop ==
  \/ CheckHeartbeats
  \/ \E a \in Agents : CheckAgent(a)
  \/ \E x \in Things : CheckObject(x)
  \/ Checked

Next ==
  \/ World \/ Callbacks \/ MainLoop \/ Restart
  \/ \E a \in Agents : AgentHeartbeat(a) \/ Lapse(a) \/ AgentDeleted(a)
  \/ \E n \in Nodes : CheckDeadVms(n)

Spec == Init /\ [][Next]_vars

\* The threads run, time passes and connected agents send heartbeats.  The
\* world, the QMF library's own verdict on agents and restarts are left open.
Fairness ==
  /\ WF_vars(Callbacks) /\ WF_vars(MainLoop)
  /\ \A a \in Agents : WF_vars(Lapse(a)) /\ SF_vars(AgentHeartbeat(a))
  /\ \A n \in Nodes : WF_vars(CheckDeadVms(n))

FairSpec == Spec /\ Fairness

-----------------------------------------------------------------------------
\* Runs and is known to: db-omatic has seen its domain running and has a
\* recent heartbeat of the agent.
Reporting(v) ==
  /\ Found(v) /\ dom[v].state = "running"
  /\ LET a == Current(dom[v].node) IN
       /\ told[<<a, v>>] = "running" /\ a \in beats \ old
       /\ drop # None => drop.agent # a

\* A VM that runs and reports is not declared unreachable, although the host
\* it was on before, or its host's previous agent, may fall silent now.
ReportingIsReachable ==
  [][\A v \in Vms : Reporting(v) /\ vms[v].state # "unreachable"
                      => vms'[v].state # "unreachable"]_vars

\* Nothing is pending: the agents that are gone have timed out, of the ones
\* that are there db-omatic knows everything, and it has seen each VM on the
\* host taskomatic put it on (before, an outage leaves the row as it is).  No
\* save was stale: one that was is not repeated.
Quiet ==
  /\ alive /\ pass = None /\ drop = None /\ lost = 0
  /\ \A n \in Nodes : sleeping[n] = 0
  /\ \A v \in Vms : vms[v].state = "running" =>
       \E a \in Agents : a[1] = vms[v].host /\ told[<<a, v>>] # None
  /\ \A a \in Agents :
       IF Silent(a)
       THEN a \notin beats /\ \A x \in ObjectsOf(a) : cache[<<a, x>>].timed_out
       ELSE /\ a \in beats \ old
            /\ \A x \in Things : StateOf(a, x) \in {None, told[<<a, x>>]}
            /\ \A x \in ObjectsOf(a) : cache[<<a, x>>].synced /\ ~cache[<<a, x>>].timed_out

\* Then the rows say which hosts are up and which VMs run, and where, after
\* whatever sequence of outages, reboots and migrations.
QuietRowsAgree ==
  Quiet =>
    /\ \A n \in Nodes : hosts[n] # None => (hosts[n] = "available" <=> on[n])
    /\ \A v \in Vms : vms[v].state = "running" <=> Found(v) /\ dom[v].state = "running"
    /\ \A v \in Vms : vms[v].state = "running" => vms[v].host = dom[v].node

\* "makes sure all the agents are still reporting.  If they aren't they get
\* marked as down": a host whose agent falls silent becomes unavailable,
\* unless it comes back, or a save was stale, which is not repeated.
DownIsNoticed ==
  \A n \in Nodes :
    (Silent(Current(n)) /\ Current(n) \in beats /\ cache[<<Current(n), "node">>] # None)
      ~> (hosts[n] # "available" \/ on[n] \/ lost > 0)
=============================================================================
