------------------------------ MODULE VmSystem ------------------------------
(***************************************************************************)
(* The life cycle of virtual machines in oVirt: WUI requests, taskomatic   *)
(* and db-omatic acting on the same rows and the same domains.             *)
(***************************************************************************)
EXTENDS Wui, Taskomatic, DbOmatic, FiniteSets

CONSTANTS MaxRestarts,   \* how often taskomatic dies
          GuestsStop     \* whether guests power themselves off

ASSUME BoundsAssumption == MaxRestarts \in Nat /\ GuestsStop \in BOOLEAN

VARIABLE restarts        \* deaths of taskomatic so far

vars == <<recordVars, libvirtVars, web, tk, dbomaticVars, restarts>>

TypeOK ==
  /\ RecordsTypeOK
  /\ LibvirtTypeOK
  /\ WuiTypeOK
  /\ TaskomaticTypeOK
  /\ DbomaticTypeOK
  /\ restarts \in 0..MaxRestarts

-----------------------------------------------------------------------------
\* The system at rest: each VM is still to be created, or stopped, or running
\* on a node as an earlier start_vm left it.
Init ==
  /\ \E at \in [Vms -> Nodes \cup {None, Deleted}] :
       \* at[v] = Deleted: not created yet; None: stopped; a node: running there
       /\ vms = [v \in Vms |->
                   CASE at[v] = Deleted -> None
                     [] at[v] = None    -> [state |-> "stopped", host |-> None]
                     [] OTHER           -> [state |-> "running", host |-> at[v]]]
       /\ dom = [v \in Vms |-> [n \in Nodes |-> IF at[v] = n THEN "running" ELSE "none"]]
       /\ pub = dom
       /\ defined = {d \in Vms \X Nodes : at[d[1]] = d[2]}
       /\ cache = [v \in Vms |->
                     IF at[v] \in {None, Deleted} THEN None
                     ELSE [node |-> at[v], state |-> "running", synced |-> TRUE]]
  /\ tasks = [t \in TaskIds |-> None]
  /\ nextTask = 1
  /\ copy = [p \in Processes |-> None]
  /\ fresh = {}
  /\ WuiInit
  /\ TaskomaticInit
  /\ dbo = Resting
  /\ restarts = 0

WuiActs        == WuiStep /\ UNCHANGED <<tk, dbomaticVars, restarts>>
TaskomaticActs == TaskomaticStep /\ UNCHANGED <<web, dbomaticVars, restarts>>
DbomaticActs   == DbomaticStep /\ UNCHANGED <<web, tk, restarts>>

TaskomaticDies ==
  /\ restarts < MaxRestarts
  /\ TaskomaticRestart
  /\ restarts' = restarts + 1
  /\ UNCHANGED <<web, dbomaticVars>>

GuestStops ==
  /\ GuestsStop
  /\ \E v \in Vms, n \in Nodes : GuestPowerOff(v, n)
  /\ UNCHANGED <<web, tk, dbomaticVars, restarts>>

Next == WuiActs \/ TaskomaticActs \/ DbomaticActs \/ TaskomaticDies \/ GuestStops

Spec == Init /\ [][Next]_vars

\* Taskomatic's loop and db-omatic's callbacks and 5-second timer never stop
\* for long, and a request in progress is carried through.  Nothing makes a
\* user send a request or a guest stop.
Fairness ==
  /\ WF_vars(TaskomaticActs)
  /\ WF_vars(DbomaticActs)
  /\ \A r \in Requests : WF_vars(WuiContinue(r) /\ UNCHANGED <<tk, dbomaticVars, restarts>>)

FairSpec == Spec /\ Fairness

-----------------------------------------------------------------------------
(***************************************************************************)
(* Safety.                                                                 *)
(***************************************************************************)

\* Optimistic locking does its work: an object ActiveRecord would let be
\* saved or destroyed (its lock_version is the row's) shows the row as it is,
\* whichever of the processes wrote last.
FreshMeansCurrent ==
  \A p \in fresh : vms[copy[p].vm] = RowOf(copy[p])

\* At most one active domain per VM: taskomatic never starts a VM that runs
\* already, whatever the rows say at that moment.  (Not if an inactive domain is
\* left on a node: because taskomatic dies between define and create, or the guest
\* was saved or powered itself off.  See the README.)
NoSplitBrain ==
  \A v \in Vms : \A m, n \in Nodes : Active(v, m) /\ Active(v, n) => m = n

\* Both daemons have nothing left to do: no task, no publication, no entry
\* that db-omatic will try again.
Settled ==
  /\ tk.pc = "idle" /\ QueuedTasks = {}
  /\ dbo.pc = "idle" /\ dom = pub
  /\ \A v \in Vms : cache[v] # None => cache[v].synced

\* Taskomatic and db-omatic write the state of the same VM independently of
\* each other, each from its own, possibly outdated, view; when they are done
\* the row says what the domain does, and on which host.  (Not if taskomatic has
\* died: between its call and its save! it leaves a row behind for good if the
\* domain was gone, or was back in its last published state before db-omatic saw it.)
SettledRowsAgree ==
  restarts = 0 /\ Settled => \A v \in Vms : Live(v) =>
    /\ vms[v].state = "running"   <=> \E n \in Nodes : dom[v][n] = "running"
    /\ vms[v].state = "suspended" <=> \E n \in Nodes : dom[v][n] = "paused"
    /\ \A n \in Nodes : Active(v, n) => vms[v].host = n

\* The row of a VM whose domain is active says so, and on which host: at any
\* moment, not only when both are done, and although taskomatic may have died at
\* any step, as long as nobody starts, restores or moves VMs.
ActiveIsRecorded ==
  \A v \in Vms, n \in Nodes : Active(v, n) =>
    Live(v) /\ vms[v].state \in {"running", "suspended"} /\ vms[v].host = n

\* A completed task stays as it is until its VM is deleted: a cancel that
\* comes too late does not rewrite a finished or failed task, and taskomatic
\* completing a canceled one does not either.
CompletedTasksStay ==
  [][\A t \in TaskIds :
       tasks[t] # None /\ tasks[t].state \in CompletedStates
         => tasks'[t] \in {tasks[t], None}]_vars

\* A VM is deleted only while its row is in a destroyable state, although
\* svc_destroy decides from an object loaded earlier.
DeletedOnlyIfDestroyable ==
  [][\A v \in Vms : Live(v) /\ ~Live(v)' => vms[v].state \in DestroyableStates]_vars

\* No update is lost: whoever changes a row has seen the row it overwrites.
NoLostUpdate ==
  [][\A v \in Vms : Live(v) /\ vms'[v] # vms[v] =>
       \E p \in Processes : copy[p] = ObjectOf(v, vms[v])]_vars

\* "running VMs should not be allowed to be deleted"
NotDeletedWhileRunning ==
  [][\A v \in Vms : Live(v) /\ ~Live(v)' => \A n \in Nodes : ~Active(v, n)]_vars

-----------------------------------------------------------------------------
(***************************************************************************)
(* Liveness.                                                               *)
(***************************************************************************)

\* Every queued task is completed or deleted, unless some task row cannot be
\* loaded because its VM is gone: nothing else stalls the queue, not a
\* handler that raises, a canceled task, or a restart of the daemon.
QueueDrains ==
  \A t \in TaskIds : Queued(t) ~> (~Queued(t) \/ \E u \in TaskIds : Dangling(u))
=============================================================================
