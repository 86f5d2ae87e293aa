--------------------------- MODULE VmSystem_proofs ---------------------------
(***************************************************************************)
(* Proofs about VmSystem for any number of VMs, nodes, requests and tasks. *)
(***************************************************************************)
EXTENDS VmSystem, TLAPS

-----------------------------------------------------------------------------
(***************************************************************************)
(* The inductive invariant.  Besides TypeOK and FreshMeansCurrent it says  *)
(* what each process holds at each place of its code.                      *)
(***************************************************************************)

\* The id sequence has not handed out what lies ahead.
UnusedIds == \A t \in TaskIds : t >= nextTask => tasks[t] = None

\* A request that has found its VM still has the object.
WebHolds ==
  \A r \in Requests :
    /\ web[r].op \in {"check", "insert", "update", "destroy"} => copy[r] \in VmObject
    /\ web[r].op \in {"check", "insert"} => web[r].action \in Action

\* Taskomatic executing a task has the VM's object in memory; migrate knows
\* the state it may have to restore, start the host it has chosen.
TaskomaticHolds ==
  /\ tk.pc \notin {"idle", "loop"} => tk.job \in Job
  /\ tk.pc \notin {"idle", "loop", "finish"} =>
       copy[P] \in VmObject /\ copy[P].vm = tk.job.vm
  /\ tk.pc = "define" => tk.dst \in Nodes
  /\ tk.pc \in {"mark", "mark_save", "mig_host", "mig", "mig_undefine",
                "revert", "revert_save"} => tk.orig \in VmState

\* db-omatic updating a VM has its object and its cache entry.
DbomaticHolds ==
  /\ dbo.pc # "idle" =>
       /\ dbo.vm \in Vms
       /\ copy[D] \in VmObject /\ copy[D].vm = dbo.vm
       /\ cache[dbo.vm] \in CacheEntry
  /\ dbo.pc = "save" => dbo.row \in VmRow

\* The vms table with the objects loaded from it.
VmsInv ==
  /\ vms \in [Vms -> VmRow \cup {None, Deleted}]
  /\ copy \in [Processes -> VmObject \cup {None}]
  /\ fresh \subseteq {p \in Processes : copy[p] \in VmObject}
  /\ FreshMeansCurrent

\* The tasks table.
TasksInv ==
  /\ tasks \in [TaskIds -> TaskRow \cup {None}]
  /\ nextTask \in 1..(MaxTasks + 1)
  /\ UnusedIds

\* The inductive invariant.
IInv ==
  /\ VmsInv
  /\ TasksInv
  /\ LibvirtTypeOK
  /\ WuiTypeOK /\ WebHolds
  /\ TaskomaticTypeOK /\ TaskomaticHolds
  /\ DbomaticTypeOK /\ DbomaticHolds
  /\ restarts \in 0..MaxRestarts

\* What leaves the objects of all processes but p alone.
OthersKeep(p) == \A q \in Processes \ {p} : copy'[q] = copy[q]

-----------------------------------------------------------------------------
(***************************************************************************)
(* The tables of VmStates.                                                 *)
(***************************************************************************)

\* VmTask::ACTIONS leads from VM states to VM states.
LEMMA TransitionType ==
  ASSUME NEW a \in Action
  PROVE  Transition[a].success \in VmState /\ Transition[a].start \in VmState
BY DEF Action, Transition, VmState

\* The actions the services queue by name are actions.
LEMMA ActionNames ==
  {"create_vm", "start_vm", "shutdown_vm"} \subseteq Action
BY DEF Action, Transition

-----------------------------------------------------------------------------
(***************************************************************************)
(* What the database primitives do to the vms table and its objects.       *)
(***************************************************************************)

\* A loaded object is typed, current, and of the VM that was asked for.
LEMMA LoadLemma ==
  ASSUME VmsInv, NEW p \in Processes, NEW v \in Vms, Live(v), Load(p, v),
         UNCHANGED vms
  PROVE  /\ VmsInv'
         /\ copy'[p] \in VmObject /\ copy'[p].vm = v
         /\ OthersKeep(p)
<1>1. vms[v] \in VmRow
  BY DEF VmsInv, Live
<1>2. ObjectOf(v, vms[v]) \in VmObject /\ RowOf(ObjectOf(v, vms[v])) = vms[v]
  BY <1>1 DEF VmRow, VmObject, ObjectOf, RowOf
<1>3. copy'[p] = ObjectOf(v, vms[v]) /\ OthersKeep(p)
  BY DEF VmsInv, Load, OthersKeep
<1>4. copy' \in [Processes -> VmObject \cup {None}]
  BY <1>2 DEF VmsInv, Load
<1>5. fresh' \subseteq {q \in Processes : copy'[q] \in VmObject}
  BY <1>2, <1>3 DEF VmsInv, Load, OthersKeep
<1>6. FreshMeansCurrent'
  <2> SUFFICES ASSUME NEW q \in fresh' PROVE vms'[copy'[q].vm] = RowOf(copy'[q])
    BY DEF FreshMeansCurrent, RowOf
  <2>1. CASE q = p
    BY <2>1, <1>2, <1>3 DEF ObjectOf
  <2>2. CASE q # p
    BY <2>2, <1>3 DEF VmsInv, Load, OthersKeep, FreshMeansCurrent
  <2> QED BY <2>1, <2>2
<1> QED BY <1>2, <1>3, <1>4, <1>5, <1>6 DEF VmsInv, ObjectOf

\* Dropping an object disturbs no other.
LEMMA ReleaseLemma ==
  ASSUME VmsInv, NEW p \in Processes, Release(p), UNCHANGED vms
  PROVE  VmsInv' /\ OthersKeep(p)
<1>1. OthersKeep(p) /\ copy' \in [Processes -> VmObject \cup {None}]
  BY DEF VmsInv, Release, OthersKeep
<1>2. fresh' \subseteq {q \in Processes : copy'[q] \in VmObject}
  BY <1>1 DEF VmsInv, Release, OthersKeep
<1>3. FreshMeansCurrent'
  BY <1>1 DEF VmsInv, Release, OthersKeep, FreshMeansCurrent, RowOf
<1> QED BY <1>1, <1>2, <1>3 DEF VmsInv

\* An UPDATE leaves its own object current and makes the others stale.
LEMMA WriteLemma ==
  ASSUME VmsInv, NEW p \in Processes, NEW row \in VmRow, copy[p] \in VmObject,
         Write(p, row)
  PROVE  /\ VmsInv'
         /\ copy'[p] \in VmObject /\ copy'[p].vm = copy[p].vm
         /\ OthersKeep(p)
<1> DEFINE v == copy[p].vm
<1>1. v \in Vms
  BY DEF VmObject
<1>2. ObjectOf(v, row) \in VmObject /\ RowOf(ObjectOf(v, row)) = row
  BY <1>1 DEF VmRow, VmObject, ObjectOf, RowOf
<1>3. copy'[p] = ObjectOf(v, row) /\ OthersKeep(p)
  BY DEF VmsInv, Write, OthersKeep
<1>4. copy' \in [Processes -> VmObject \cup {None}] /\ vms' \in [Vms -> VmRow \cup {None, Deleted}]
  BY <1>2 DEF VmsInv, Write
<1>5. fresh' \subseteq {q \in Processes : copy'[q] \in VmObject}
  BY <1>2, <1>3 DEF VmsInv, Write, OthersKeep
<1>6. FreshMeansCurrent'
  <2> SUFFICES ASSUME NEW q \in fresh' PROVE vms'[copy'[q].vm] = RowOf(copy'[q])
    BY DEF FreshMeansCurrent, RowOf
  <2>1. CASE q = p
    BY <2>1, <1>1, <1>2, <1>3 DEF ObjectOf, Write, VmsInv
  <2>2. CASE q # p
    <3>1. q \in fresh /\ copy[q].vm # v /\ q \in Processes
      BY <2>2 DEF Write, VmsInv
    <3>2. copy'[q] = copy[q]
      BY <3>1, <2>2, <1>3 DEF OthersKeep
    <3>3. copy[q] \in VmObject /\ vms[copy[q].vm] = RowOf(copy[q])
      BY <3>1 DEF VmsInv, FreshMeansCurrent
    <3> QED BY <3>1, <3>2, <3>3 DEF Write, VmsInv, VmObject
  <2> QED BY <2>1, <2>2
<1> QED BY <1>2, <1>3, <1>4, <1>5, <1>6 DEF VmsInv, ObjectOf

\* So does save!, which may have nothing to write.
LEMMA SaveLemma ==
  ASSUME VmsInv, NEW p \in Processes, NEW row \in VmRow, NEW dirty,
         copy[p] \in VmObject, Save(p, row, dirty)
  PROVE  /\ VmsInv'
         /\ copy'[p] \in VmObject /\ copy'[p].vm = copy[p].vm
         /\ OthersKeep(p)
<1>1. CASE dirty
  BY <1>1, WriteLemma DEF Save
<1>2. CASE ~dirty
  BY <1>2 DEF Save, VmsInv, OthersKeep, FreshMeansCurrent, RowOf
<1> QED BY <1>1, <1>2

-----------------------------------------------------------------------------
(***************************************************************************)
(* What they do to the tasks table.                                        *)
(***************************************************************************)

\* New tasks take the next ids; the existing rows stay.
LEMMA InsertLemma ==
  ASSUME TasksInv, NEW v \in Vms, NEW actions \in Seq(Action),
         NEW args \in Nodes \cup {None}, Insert(v, actions, args)
  PROVE  TasksInv'
<1> DEFINE n == Len(actions)
<1>1. n \in Nat /\ nextTask \in Nat /\ MaxTasks \in Nat
  BY MaxTasksAssumption DEF TasksInv
<1>2. nextTask' = nextTask + n /\ nextTask' \in 1..(MaxTasks + 1)
  BY <1>1 DEF Insert, TasksInv
<1>3. ASSUME NEW t \in TaskIds, t \in nextTask..(nextTask + n - 1)
      PROVE  tasks'[t] \in TaskRow
  <2>1. t - nextTask + 1 \in 1..n
    BY <1>1, <1>3
  <2>2. actions[t - nextTask + 1] \in Action
    BY <2>1
  <2>3. tasks'[t] = [vm |-> v, action |-> actions[t - nextTask + 1],
                     args |-> args, state |-> "queued"]
    BY <1>3 DEF Insert
  <2> QED BY <2>2, <2>3 DEF TaskRow, TaskState
<1>4. ASSUME NEW t \in TaskIds, t \notin nextTask..(nextTask + n - 1)
      PROVE  tasks'[t] = tasks[t]
  BY <1>4 DEF Insert
<1>5. tasks' \in [TaskIds -> TaskRow \cup {None}]
  <2>1. \A t \in TaskIds : tasks'[t] \in TaskRow \cup {None}
    BY <1>3, <1>4 DEF TasksInv
  <2>2. tasks' = [t \in TaskIds |-> tasks'[t]]
    BY DEF Insert
  <2> QED BY <2>1, <2>2
<1>6. UnusedIds'
  BY <1>1, <1>2, <1>4 DEF UnusedIds, TasksInv, TaskIds
<1> QED BY <1>2, <1>5, <1>6 DEF TasksInv

\* Completing a task that is queued, or finding it is not.
LEMMA SetTaskStateLemma ==
  ASSUME TasksInv, NEW t \in TaskIds, NEW s \in TaskState, SetTaskState(t, s),
         UNCHANGED nextTask
  PROVE  TasksInv'
<1>1. CASE Queued(t)
  <2>1. tasks[t] \in TaskRow
    BY <1>1 DEF Queued, TasksInv
  <2>2. [tasks[t] EXCEPT !.state = s] \in TaskRow
    BY <2>1 DEF TaskRow
  <2>3. tasks' = [tasks EXCEPT ![t] = [tasks[t] EXCEPT !.state = s]]
    BY <1>1 DEF SetTaskState
  <2>4. tasks[t] # None
    BY <1>1 DEF Queued
  <2> QED BY <2>2, <2>3, <2>4 DEF TasksInv, UnusedIds
<1>2. CASE ~Queued(t)
  BY <1>2 DEF SetTaskState, TasksInv, UnusedIds
<1> QED BY <1>1, <1>2

-----------------------------------------------------------------------------
(***************************************************************************)
(* What they do to the domains.                                            *)
(***************************************************************************)

\* A domain put into a legal state keeps the bus well typed.
LEMMA SetDomainLemma ==
  ASSUME LibvirtTypeOK, NEW v, NEW n, NEW s \in DomainState, SetDomain(v, n, s),
         defined' \subseteq Vms \X Nodes
  PROVE  LibvirtTypeOK'
BY DEF LibvirtTypeOK, SetDomain, DomainState

\* So does undefining it.
LEMMA UndefineLemma ==
  ASSUME LibvirtTypeOK, NEW v, NEW n, Undefine(v, n)
  PROVE  LibvirtTypeOK'
<1>1. "none" \in DomainState
  BY DEF DomainState
<1>2. defined' \subseteq Vms \X Nodes /\ SetDomain(v, n, "none")
  BY DEF Undefine, LibvirtTypeOK
<1> QED BY <1>1, <1>2, SetDomainLemma

\* A lookup by uuid answers with a node or with nothing.
LEMMA LookupType ==
  ASSUME NEW v, NEW o \in Lookup(v)
  PROVE  o \in Nodes \cup {None}
BY DEF Lookup

-----------------------------------------------------------------------------
(***************************************************************************)
(* A step of one process leaves what the others hold.                      *)
(***************************************************************************)

\* A step that leaves the requests and their objects alone.
LEMMA WebFrame ==
  ASSUME WebHolds, WuiTypeOK, UNCHANGED web, \A r \in Requests : copy'[r] = copy[r]
  PROVE  WebHolds' /\ WuiTypeOK'
BY DEF WebHolds, WuiTypeOK

\* A step that leaves taskomatic and its object alone.
LEMMA TaskomaticFrame ==
  ASSUME TaskomaticHolds, TaskomaticTypeOK, UNCHANGED tk, copy'[P] = copy[P]
  PROVE  TaskomaticHolds' /\ TaskomaticTypeOK'
BY DEF TaskomaticHolds, TaskomaticTypeOK

\* A step that leaves db-omatic and its object alone.
LEMMA DbomaticFrame ==
  ASSUME DbomaticHolds, DbomaticTypeOK, UNCHANGED <<cache, dbo>>, copy'[D] = copy[D]
  PROVE  DbomaticHolds' /\ DbomaticTypeOK'
BY DEF DbomaticHolds, DbomaticTypeOK

\* The processes are different.
LEMMA Different ==
  /\ P \in Processes /\ D \in Processes /\ P # D
  /\ \A r \in Requests : r \in Processes /\ r # P /\ r # D
BY RequestsAssumption DEF P, D, Processes

-----------------------------------------------------------------------------
(***************************************************************************)
(* The WUI.                                                                *)
(***************************************************************************)

\* The invariant after a step of request r, from what the step touches.
LEMMA WuiFrame ==
  ASSUME IInv, NEW r \in Requests, OthersKeep(r), VmsInv', TasksInv',
         NEW w \in [op : {"idle", "check", "insert", "update", "destroy", "cancel"},
                    action : Action \cup {None}, args : Nodes \cup {None},
                    ts : SUBSET TaskIds],
         web' = [web EXCEPT ![r] = w],
         w.op \in {"check", "insert", "update", "destroy"} => copy'[r] \in VmObject,
         w.op \in {"check", "insert"} => w.action \in Action,
         UNCHANGED <<libvirtVars, tk, dbomaticVars, restarts>>
  PROVE  IInv'
<1>1. LibvirtTypeOK'
  BY DEF IInv, LibvirtTypeOK, libvirtVars
<1>2. TaskomaticTypeOK' /\ TaskomaticHolds'
  BY TaskomaticFrame, Different DEF IInv, OthersKeep
<1>3. DbomaticTypeOK' /\ DbomaticHolds'
  BY DbomaticFrame, Different DEF IInv, OthersKeep, dbomaticVars
<1>4. WuiTypeOK'
  BY DEF IInv, WuiTypeOK
<1>5. WebHolds'
  BY Different DEF IInv, WebHolds, WuiTypeOK, OthersKeep
<1> QED BY <1>1, <1>2, <1>3, <1>4, <1>5 DEF IInv

\* Where a request goes back to.
LEMMA IdleType ==
  /\ Idle \in [op : {"idle", "check", "insert", "update", "destroy", "cancel"},
               action : Action \cup {None}, args : Nodes \cup {None},
               ts : SUBSET TaskIds]
  /\ Idle.op = "idle"
BY DEF Idle

\* svc_create: the new row has no object yet, so none becomes outdated.
LEMMA SvcCreateInv ==
  ASSUME IInv, NEW v \in Vms, SvcCreate(v), UNCHANGED <<tk, dbomaticVars, restarts>>
  PROVE  IInv'
<1>1. [state |-> "pending", host |-> None] \in VmRow
  BY DEF VmRow, VmState
<1>2. vms' \in [Vms -> VmRow \cup {None, Deleted}]
  BY <1>1 DEF IInv, VmsInv, SvcCreate
<1>3. FreshMeansCurrent'
  <2> SUFFICES ASSUME NEW q \in fresh PROVE vms'[copy[q].vm] = RowOf(copy[q])
    BY DEF SvcCreate, FreshMeansCurrent, RowOf
  <2>1. copy[q] \in VmObject /\ vms[copy[q].vm] = RowOf(copy[q])
    BY DEF IInv, VmsInv, FreshMeansCurrent
  <2>2. RowOf(copy[q]) \in VmRow
    BY <2>1 DEF RowOf, VmObject, VmRow
  <2>3. copy[q].vm # v
    BY <2>1, <2>2, NullAssumption DEF SvcCreate
  <2> QED BY <2>1, <2>3 DEF SvcCreate, IInv, VmsInv
<1>4. VmsInv'
  BY <1>2, <1>3 DEF IInv, VmsInv, SvcCreate
<1>5. TasksInv'
  <2>1. Insert(v, <<"create_vm", "start_vm">>, None) \/ Insert(v, <<"create_vm">>, None)
    BY DEF SvcCreate
  <2>2. <<"create_vm", "start_vm">> \in Seq(Action) /\ <<"create_vm">> \in Seq(Action)
    BY ActionNames
  <2> QED BY <2>1, <2>2, InsertLemma DEF IInv
<1>6. LibvirtTypeOK'
  BY DEF IInv, LibvirtTypeOK, libvirtVars, SvcCreate
<1>7. /\ TaskomaticTypeOK' /\ TaskomaticHolds'
      /\ DbomaticTypeOK' /\ DbomaticHolds'
      /\ WuiTypeOK' /\ WebHolds'
  BY TaskomaticFrame, DbomaticFrame, WebFrame DEF IInv, SvcCreate, dbomaticVars
<1> QED BY <1>4, <1>5, <1>6, <1>7 DEF IInv

\* The find of each service: the request now holds the object it needs.
LEMMA WuiArriveInv ==
  ASSUME IInv, NEW r \in Requests, WuiArrive(r), UNCHANGED <<tk, dbomaticVars, restarts>>
  PROVE  IInv'
<1>1. PICK v \in Vms :
        \/ \E a \in Offered, arg \in Nodes \cup {None} : VmActionFind(r, v, a, arg)
        \/ UpdateFind(r, v)
        \/ DestroyFind(r, v)
        \/ \E ts \in SUBSET QueuedOf(v) : CancelFind(r, v, ts)
  BY DEF WuiArrive
<1>2. ASSUME NEW a \in Offered, NEW arg \in Nodes \cup {None}, VmActionFind(r, v, a, arg)
      PROVE  IInv'
  <2> DEFINE w == [op |-> "check", action |-> a, args |-> arg, ts |-> {}]
  <2>1. web' = [web EXCEPT ![r] = w] /\ a \in Action
    BY <1>2, OfferedAssumption DEF VmActionFind, Enter
  <2>2. VmsInv' /\ copy'[r] \in VmObject /\ OthersKeep(r)
    BY <1>2, LoadLemma, Different DEF VmActionFind, IInv
  <2>3. TasksInv'
    BY <1>2 DEF VmActionFind, IInv, TasksInv, UnusedIds
  <2> QED BY <1>2, <2>1, <2>2, <2>3, WuiFrame DEF VmActionFind
<1>3. ASSUME UpdateFind(r, v) PROVE IInv'
  <2> DEFINE w == [op |-> "update", action |-> None, args |-> None, ts |-> {}]
  <2>1. web' = [web EXCEPT ![r] = w]
    BY <1>3 DEF UpdateFind, Enter
  <2>2. VmsInv' /\ copy'[r] \in VmObject /\ OthersKeep(r)
    BY <1>3, LoadLemma, Different DEF UpdateFind, IInv
  <2>3. TasksInv'
    BY <1>3 DEF UpdateFind, IInv, TasksInv, UnusedIds
  <2> QED BY <1>3, <2>1, <2>2, <2>3, WuiFrame DEF UpdateFind
<1>4. ASSUME DestroyFind(r, v) PROVE IInv'
  <2> DEFINE w == [op |-> "destroy", action |-> None, args |-> None, ts |-> {}]
  <2>1. web' = [web EXCEPT ![r] = w]
    BY <1>4 DEF DestroyFind, Enter
  <2>2. VmsInv' /\ copy'[r] \in VmObject /\ OthersKeep(r)
    BY <1>4, LoadLemma, Different DEF DestroyFind, IInv
  <2>3. TasksInv'
    BY <1>4 DEF DestroyFind, IInv, TasksInv, UnusedIds
  <2> QED BY <1>4, <2>1, <2>2, <2>3, WuiFrame DEF DestroyFind
<1>5. ASSUME NEW ts \in SUBSET QueuedOf(v), CancelFind(r, v, ts) PROVE IInv'
  <2> DEFINE w == [op |-> "cancel", action |-> None, args |-> None, ts |-> ts]
  <2>1. web' = [web EXCEPT ![r] = w] /\ ts \subseteq TaskIds
    BY <1>5 DEF CancelFind, Enter, QueuedOf, QueuedTasks
  <2>2. VmsInv' /\ TasksInv' /\ OthersKeep(r)
    BY <1>5 DEF CancelFind, IInv, recordVars, VmsInv, TasksInv, UnusedIds, OthersKeep,
                FreshMeansCurrent, RowOf
  <2> QED BY <1>5, <2>1, <2>2, WuiFrame DEF CancelFind
<1> QED BY <1>1, <1>2, <1>3, <1>4, <1>5

\* What the services queue after an update are actions.
LEMMA UpdateQueuesType ==
  ASSUME NEW v, NEW s, NEW actions \in UpdateQueues(v, s)
  PROVE  actions \in Seq(Action)
<1>1. actions = <<>> \/ actions = <<"start_vm">> \/ actions = <<"shutdown_vm", "start_vm">>
  BY DEF UpdateQueues
<1>2. <<>> \in Seq(Action)
  OBVIOUS
<1>3. <<"start_vm">> \in Seq(Action) /\ <<"shutdown_vm", "start_vm">> \in Seq(Action)
  BY ActionNames
<1> QED BY <1>1, <1>2, <1>3

\* The check, insert, update, destroy and cancel steps.
LEMMA WuiContinueInv ==
  ASSUME IInv, NEW r \in Requests, WuiContinue(r), UNCHANGED <<tk, dbomaticVars, restarts>>
  PROVE  IInv'
<1> USE Different
<1>1. CASE VmActionCheck(r)
  <2>1. TasksInv' /\ UNCHANGED <<vms, libvirtVars>>
    BY <1>1 DEF VmActionCheck, IInv, TasksInv, UnusedIds
  <2>2. CASE Leave(r)
    BY <2>1, <2>2, ReleaseLemma, IdleType, WuiFrame DEF Leave, IInv
  <2>3. CASE web' = [web EXCEPT ![r].op = "insert"] /\ UNCHANGED <<copy, fresh>>
    <3> DEFINE w == [op |-> "insert", action |-> web[r].action, args |-> web[r].args,
                     ts |-> web[r].ts]
    <3>1. /\ web[r] \in [op : {"idle", "check", "insert", "update", "destroy", "cancel"},
                         action : Action \cup {None}, args : Nodes \cup {None},
                         ts : SUBSET TaskIds]
          /\ copy[r] \in VmObject /\ web[r].action \in Action
      BY <1>1 DEF VmActionCheck, IInv, WuiTypeOK, WebHolds
    <3>2. web' = [web EXCEPT ![r] = w]
      <4>1. [web[r] EXCEPT !.op = "insert"] = w
        BY <3>1
      <4>2. web' = [web EXCEPT ![r] = [web[r] EXCEPT !.op = "insert"]]
        BY <2>3
      <4> QED BY <4>1, <4>2
    <3>3. VmsInv' /\ OthersKeep(r)
      BY <2>1, <2>3 DEF IInv, VmsInv, OthersKeep, FreshMeansCurrent, RowOf
    <3> QED BY <2>1, <2>3, <3>1, <3>2, <3>3, WuiFrame
  <2> QED BY <1>1, <2>2, <2>3 DEF VmActionCheck
<1>2. CASE VmActionInsert(r)
  <2>1. copy[r].vm \in Vms /\ web[r].args \in Nodes \cup {None} /\ <<web[r].action>> \in Seq(Action)
    BY <1>2 DEF VmActionInsert, IInv, WuiTypeOK, WebHolds, VmObject
  <2>2. TasksInv'
    BY <1>2, <2>1, InsertLemma DEF VmActionInsert, IInv
  <2>3. VmsInv' /\ OthersKeep(r)
    BY <1>2, ReleaseLemma DEF VmActionInsert, Leave, IInv
  <2> QED BY <1>2, <2>2, <2>3, IdleType, WuiFrame DEF VmActionInsert, Leave
<1>3. CASE UpdateCommit(r)
  <2>1. copy[r].vm \in Vms
    BY <1>3 DEF UpdateCommit, IInv, WebHolds, VmObject
  <2>2. TasksInv'
    <3>1. CASE \E actions \in UpdateQueues(copy[r].vm, copy[r].state) :
                 Insert(copy[r].vm, actions, None)
      BY <2>1, <3>1, UpdateQueuesType, InsertLemma DEF IInv
    <3>2. CASE UNCHANGED <<tasks, nextTask>>
      BY <3>2 DEF IInv, TasksInv, UnusedIds
    <3> QED BY <1>3, <3>1, <3>2 DEF UpdateCommit
  <2>3. VmsInv' /\ OthersKeep(r)
    <3>1. UNCHANGED vms /\ copy' = [copy EXCEPT ![r] = None] /\ fresh' \subseteq fresh \ {r}
      BY <1>3 DEF UpdateCommit, Release
    <3>2. OthersKeep(r) /\ copy' \in [Processes -> VmObject \cup {None}]
      BY <3>1 DEF IInv, VmsInv, OthersKeep
    <3>3. fresh' \subseteq {q \in Processes : copy'[q] \in VmObject}
      BY <3>1, <3>2 DEF IInv, VmsInv, OthersKeep
    <3>4. FreshMeansCurrent'
      BY <3>1, <3>2 DEF IInv, VmsInv, OthersKeep, FreshMeansCurrent, RowOf
    <3> QED BY <3>1, <3>2, <3>3, <3>4 DEF VmsInv, IInv
  <2> QED BY <1>3, <2>2, <2>3, IdleType, WuiFrame DEF UpdateCommit
<1>4. CASE DestroyCommit(r)
  <2> DEFINE v == copy[r].vm
  <2>1. UNCHANGED <<nextTask, libvirtVars>> /\ web' = [web EXCEPT ![r] = Idle]
    BY <1>4 DEF DestroyCommit
  <2>2. CASE Release(r) /\ UNCHANGED <<vms, tasks>>
    <3>1. TasksInv'
      BY <2>1, <2>2 DEF IInv, TasksInv, UnusedIds
    <3> QED BY <2>1, <2>2, <3>1, ReleaseLemma, IdleType, WuiFrame DEF IInv
  <2>3. CASE /\ vms' = [vms EXCEPT ![v] = Deleted]
             /\ tasks' = [t \in TaskIds |->
                            IF tasks[t] # None /\ tasks[t].vm = v THEN None ELSE tasks[t]]
             /\ copy' = [copy EXCEPT ![r] = None]
             /\ fresh' = {q \in fresh : copy[q].vm # v}
    <3>1. OthersKeep(r) /\ copy' \in [Processes -> VmObject \cup {None}]
      BY <2>3 DEF IInv, VmsInv, OthersKeep
    <3>2. fresh' \subseteq {q \in Processes : copy'[q] \in VmObject} /\ r \notin fresh'
      BY <2>3, <3>1 DEF IInv, VmsInv, OthersKeep
    <3>3. FreshMeansCurrent'
      <4> SUFFICES ASSUME NEW q \in fresh' PROVE vms'[copy'[q].vm] = RowOf(copy'[q])
        BY DEF FreshMeansCurrent, RowOf
      <4>1. q \in fresh /\ copy[q].vm # v /\ copy'[q] = copy[q] /\ copy[q] \in VmObject
        BY <2>3, <3>1, <3>2 DEF OthersKeep, IInv, VmsInv
      <4>2. vms[copy[q].vm] = RowOf(copy[q]) /\ copy[q].vm \in Vms
        BY <4>1 DEF IInv, VmsInv, FreshMeansCurrent, VmObject
      <4> QED BY <2>3, <4>1, <4>2 DEF IInv, VmsInv
    <3>4. VmsInv'
      BY <2>3, <3>1, <3>2, <3>3 DEF IInv, VmsInv
    <3>5. TasksInv'
      BY <2>1, <2>3 DEF IInv, TasksInv, UnusedIds
    <3> QED BY <2>1, <2>3, <3>1, <3>4, <3>5, IdleType, WuiFrame
  <2> QED BY <1>4, <2>2, <2>3 DEF DestroyCommit
<1>5. CASE CancelCommit(r)
  <2>1. TasksInv'
    <3>1. CASE tasks' = tasks
      BY <1>5, <3>1 DEF CancelCommit, IInv, TasksInv, UnusedIds
    <3>2. CASE /\ \A t \in web[r].ts : Queued(t)
               /\ tasks' = [t \in TaskIds |-> IF t \in web[r].ts
                                              THEN [tasks[t] EXCEPT !.state = "canceled"]
                                              ELSE tasks[t]]
      <4>1. ASSUME NEW t \in TaskIds, t \in web[r].ts
            PROVE  tasks[t] # None /\ [tasks[t] EXCEPT !.state = "canceled"] \in TaskRow
        <5>1. tasks[t] # None /\ tasks[t] \in TaskRow
          BY <3>2, <4>1 DEF Queued, IInv, TasksInv
        <5> QED BY <5>1 DEF TaskRow, TaskState, CompletedStates
      <4>2. \A t \in TaskIds : \/ tasks'[t] = tasks[t]
                               \/ tasks[t] # None /\ tasks'[t] \in TaskRow
        BY <3>2, <4>1
      <4>3. tasks' \in [TaskIds -> TaskRow \cup {None}]
        BY <3>2, <4>2 DEF IInv, TasksInv
      <4> QED BY <1>5, <4>2, <4>3 DEF CancelCommit, IInv, TasksInv, UnusedIds
    <3> QED BY <1>5, <3>1, <3>2 DEF CancelCommit
  <2>2. VmsInv' /\ OthersKeep(r)
    BY <1>5, ReleaseLemma DEF CancelCommit, Leave, IInv
  <2> QED BY <1>5, <2>1, <2>2, IdleType, WuiFrame DEF CancelCommit, Leave
<1> QED BY <1>1, <1>2, <1>3, <1>4, <1>5 DEF WuiContinue


-----------------------------------------------------------------------------
(***************************************************************************)
(* Taskomatic.                                                             *)
(***************************************************************************)

\* The records tk takes its values from, and the part of TaskomaticHolds that
\* is about tk alone.
TkRecord == [pc : Locations, batch : SUBSET Job, job : Job \cup {None},
             src : Nodes \cup {None}, dst : Nodes \cup {None},
             orig : VmState \cup {None}, ok : BOOLEAN]

Migrating == {"mark", "mark_save", "mig_host", "mig", "mig_undefine", "revert", "revert_save"}

\* Going on to another place keeps the task, the nodes and the old state.
LEMMA GotoType ==
  ASSUME NEW k \in TkRecord, NEW l \in Locations
  PROVE  /\ Goto(k, l) \in TkRecord
         /\ Goto(k, l).pc = l /\ Goto(k, l).job = k.job
         /\ Goto(k, l).dst = k.dst /\ Goto(k, l).orig = k.orig
BY DEF Goto, TkRecord

\* A handler that returns or raises goes to finish with its task.
LEMMA EndType ==
  ASSUME NEW k \in TkRecord
  PROVE  /\ Returned(k) \in TkRecord /\ Raised(k) \in TkRecord
         /\ Returned(k).pc = "finish" /\ Raised(k).pc = "finish"
         /\ Returned(k).job = k.job /\ Raised(k).job = k.job
BY DEF Returned, Raised, TkRecord, Locations

\* Taking a task from the batch.
LEMMA TakeType ==
  ASSUME tk \in TkRecord, NEW j \in tk.batch
  PROVE  Take(j) \in TkRecord /\ Take(j).job = j /\ j \in Job
BY DEF Take, TkRecord

\* Remembering where the domain was found.
LEMMA SrcType ==
  ASSUME NEW k \in TkRecord, NEW o \in Nodes \cup {None}
  PROVE  /\ [k EXCEPT !.src = o] \in TkRecord
         /\ [k EXCEPT !.src = o].pc = k.pc /\ [k EXCEPT !.src = o].job = k.job
BY DEF TkRecord

\* Remembering where it will be put.
LEMMA DstType ==
  ASSUME NEW k \in TkRecord, NEW o \in Nodes
  PROVE  /\ [k EXCEPT !.dst = o] \in TkRecord
         /\ [k EXCEPT !.dst = o].pc = k.pc /\ [k EXCEPT !.dst = o].job = k.job
         /\ [k EXCEPT !.dst = o].dst = o /\ [k EXCEPT !.dst = o].orig = k.orig
BY DEF TkRecord


\* The invariant after a step of taskomatic, from what the step touches.
LEMMA TkFrame ==
  ASSUME IInv, VmsInv', TasksInv', LibvirtTypeOK', OthersKeep(P), tk' \in TkRecord,
         tk'.pc \notin {"idle", "loop"} => tk'.job \in Job,
         tk'.pc \notin {"idle", "loop", "finish"} =>
           copy'[P] \in VmObject /\ copy'[P].vm = tk'.job.vm,
         tk'.pc = "define" => tk'.dst \in Nodes,
         tk'.pc \in Migrating => tk'.orig \in VmState,
         UNCHANGED <<web, dbomaticVars, restarts>>
  PROVE  IInv'
<1>1. TaskomaticTypeOK' /\ TaskomaticHolds'
  BY DEF TaskomaticTypeOK, TaskomaticHolds, TkRecord, Migrating
<1>2. DbomaticTypeOK' /\ DbomaticHolds'
  BY DbomaticFrame, Different DEF IInv, OthersKeep, dbomaticVars
<1>3. WuiTypeOK' /\ WebHolds'
  BY WebFrame, Different DEF IInv, OthersKeep
<1> QED BY <1>1, <1>2, <1>3 DEF IInv

\* A handler that touches neither the tables nor its object.
LEMMA RecordsStay ==
  ASSUME IInv, UNCHANGED recordVars
  PROVE  VmsInv' /\ TasksInv' /\ OthersKeep(P) /\ OthersKeep(D) /\ UNCHANGED copy
BY DEF IInv, recordVars, VmsInv, TasksInv, UnusedIds, OthersKeep, FreshMeansCurrent, RowOf

\* A step that does not touch the domains.
LEMMA LibvirtStays ==
  ASSUME IInv, UNCHANGED libvirtVars
  PROVE  LibvirtTypeOK'
BY DEF IInv, libvirtVars, LibvirtTypeOK

\* The type of tk under the invariant.
LEMMA TkIsRecord ==
  ASSUME IInv
  PROVE  tk \in TkRecord
BY DEF IInv, TaskomaticTypeOK, TkRecord

\* What every handler does first.
LEMMA BeginLemma ==
  ASSUME IInv, NEW j \in tk.batch, NEW actions, Begin(j, actions)
  PROVE  /\ VmsInv' /\ TasksInv' /\ LibvirtTypeOK' /\ OthersKeep(P)
         /\ copy'[P] \in VmObject /\ copy'[P].vm = j.vm
         /\ vms[j.vm] \in VmRow
<1>1. j \in Job /\ j.vm \in Vms
  BY TkIsRecord, TakeType DEF Job
<1>2. TasksInv' /\ LibvirtTypeOK'
  BY LibvirtStays DEF Begin, IInv, TasksInv, UnusedIds
<1>3. VmsInv' /\ copy'[P] \in VmObject /\ copy'[P].vm = j.vm /\ OthersKeep(P)
  BY <1>1, LoadLemma, Different DEF Begin, IInv
<1>4. vms[j.vm] \in VmRow
  BY <1>1 DEF Begin, Live, IInv, VmsInv
<1> QED BY <1>2, <1>3, <1>4

\* Where a handler may be after its first step.
LEMMA AfterBegin ==
  ASSUME IInv, NEW j \in tk.batch, NEW actions, Begin(j, actions),
         tk' \in TkRecord, tk'.job = j,
         tk'.pc # "define", tk'.pc \in Migrating => tk'.orig \in VmState,
         UNCHANGED <<web, dbomaticVars, restarts>>
  PROVE  IInv'
<1>1. j \in Job
  BY TkIsRecord, TakeType
<1> QED BY <1>1, BeginLemma, TkFrame

\* The first step of every handler.
LEMMA BeginTaskInv ==
  ASSUME IInv, NEW j \in tk.batch, BeginTask(j), UNCHANGED <<web, dbomaticVars, restarts>>
  PROVE  IInv'
<1> DEFINE k == Take(j)
<1>0. k \in TkRecord /\ k.job = j /\ j \in Job
  BY TkIsRecord, TakeType
<1> HIDE DEF k
<1>e. /\ Returned(k) \in TkRecord /\ Returned(k).job = j /\ Returned(k).pc = "finish"
      /\ Raised(k) \in TkRecord /\ Raised(k).job = j /\ Raised(k).pc = "finish"
  BY <1>0, EndType
<1>g. ASSUME NEW l \in {"host", "save", "cmd", "undefine_off", "mark"}
      PROVE  Goto(k, l) \in TkRecord /\ Goto(k, l).job = j /\ Goto(k, l).pc = l
  BY <1>0, GotoType DEF Locations
<1>s. ASSUME NEW l \in {"cmd", "undefine_off"}, NEW o \in Lookup(j.vm)
      PROVE  /\ [Goto(k, l) EXCEPT !.src = o] \in TkRecord
             /\ [Goto(k, l) EXCEPT !.src = o].job = j
             /\ [Goto(k, l) EXCEPT !.src = o].pc = l
  BY <1>g, LookupType, SrcType
<1>m. "finish" \notin Migrating /\ "host" \notin Migrating /\ "save" \notin Migrating
      /\ "cmd" \notin Migrating /\ "undefine_off" \notin Migrating
  BY DEF Migrating
<1>1. CASE TaskVmMissing(j)
  <2>1. tk' = Raised(k)
    BY <1>1 DEF TaskVmMissing, k
  <2>2. UNCHANGED <<recordVars, libvirtVars>>
    BY <1>1 DEF TaskVmMissing
  <2> QED BY <2>1, <2>2, <1>0, <1>e, <1>m, RecordsStay, LibvirtStays, TkFrame
<1>2. CASE TaskCreateVm(j)
  <2>1. Begin(j, {"create_vm"}) /\ tk' \in {Goto(k, "save"), Raised(k)}
    BY <1>2 DEF TaskCreateVm, k
  <2> QED BY <2>1, <1>e, <1>g, <1>m, AfterBegin
<1>3. CASE TaskStartVm(j)
  <2>1. Begin(j, {"start_vm"}) /\ tk' \in {Goto(k, "host"), Returned(k), Raised(k)}
    BY <1>3 DEF TaskStartVm, k
  <2> QED BY <2>1, <1>e, <1>g, <1>m, AfterBegin
<1>4. CASE TaskShutdownOrDestroyVm(j)
  <2>1. PICK o \in Lookup(j.vm) :
           tk' \in {Returned(k), [Goto(k, "undefine_off") EXCEPT !.src = o],
                    [Goto(k, "cmd") EXCEPT !.src = o]}
    BY <1>4 DEF TaskShutdownOrDestroyVm, k
  <2>2. Begin(j, {"shutdown_vm", "poweroff_vm"})
    BY <1>4 DEF TaskShutdownOrDestroyVm
  <2> QED BY <2>1, <2>2, <1>e, <1>s, <1>m, AfterBegin
<1>5. CASE TaskSuspendVm(j)
  <2>1. PICK o \in Lookup(j.vm) : tk' \in {Raised(k), [Goto(k, "cmd") EXCEPT !.src = o]}
    BY <1>5 DEF TaskSuspendVm, k
  <2>2. Begin(j, {"suspend_vm"})
    BY <1>5 DEF TaskSuspendVm
  <2> QED BY <2>1, <2>2, <1>e, <1>s, <1>m, AfterBegin
<1>6. CASE TaskResumeVm(j)
  <2>1. PICK o \in Lookup(j.vm) :
           tk' \in {Raised(k), Returned(k), [Goto(k, "cmd") EXCEPT !.src = o]}
    BY <1>6 DEF TaskResumeVm, k
  <2>2. Begin(j, {"resume_vm"})
    BY <1>6 DEF TaskResumeVm
  <2> QED BY <2>1, <2>2, <1>e, <1>s, <1>m, AfterBegin
<1>7. CASE TaskSaveOrRestoreVm(j)
  <2>1. PICK o \in Lookup(j.vm) : tk' \in {Raised(k), [Goto(k, "cmd") EXCEPT !.src = o]}
    BY <1>7 DEF TaskSaveOrRestoreVm, k
  <2>2. Begin(j, {"save_vm", "restore_vm"})
    BY <1>7 DEF TaskSaveOrRestoreVm
  <2> QED BY <2>1, <2>2, <1>e, <1>s, <1>m, AfterBegin
<1>8. CASE TaskMigrateVm(j)
  <2> DEFINE s == vms[j.vm].state
  <2>1. PICK o \in Lookup(j.vm) :
           tk' \in {Raised(k), [Goto(k, "mark") EXCEPT !.src = o, !.orig = s]}
    BY <1>8 DEF TaskMigrateVm, k
  <2>2. Begin(j, {"migrate_vm"})
    BY <1>8 DEF TaskMigrateVm
  <2>3. s \in VmState
    BY <2>2, BeginLemma DEF VmRow
  <2>4. /\ [Goto(k, "mark") EXCEPT !.src = o, !.orig = s] \in TkRecord
        /\ [Goto(k, "mark") EXCEPT !.src = o, !.orig = s].job = j
        /\ [Goto(k, "mark") EXCEPT !.src = o, !.orig = s].pc = "mark"
        /\ [Goto(k, "mark") EXCEPT !.src = o, !.orig = s].orig = s
    <3>1. Goto(k, "mark") \in TkRecord /\ Goto(k, "mark").job = j /\ Goto(k, "mark").pc = "mark"
      BY <1>g
    <3>2. o \in Nodes \cup {None}
      BY LookupType
    <3> DEFINE g == Goto(k, "mark")
    <3>3. g \in TkRecord /\ g.job = j /\ g.pc = "mark"
      BY <3>1
    <3> HIDE DEF s, g
    <3>4. [g EXCEPT !.src = o, !.orig = s] \in TkRecord
          /\ [g EXCEPT !.src = o, !.orig = s].pc = "mark"
          /\ [g EXCEPT !.src = o, !.orig = s].job = j
          /\ [g EXCEPT !.src = o, !.orig = s].orig = s
      BY <3>2, <3>3, <2>3 DEF TkRecord
    <3> QED BY <3>4 DEF g
  <2> QED BY <2>1, <2>2, <2>3, <2>4, <1>e, <1>m, AfterBegin
<1> QED BY <1>1, <1>2, <1>3, <1>4, <1>5, <1>6, <1>7, <1>8 DEF BeginTask


\* The steps of a handler that talk to the nodes.
LEMMA NodeStepInv ==
  ASSUME IInv, UNCHANGED <<web, dbomaticVars, restarts>>,
         \/ StartFindHost \/ DefineDomain \/ CreateDomain \/ DomainCommand
         \/ UndefineStopped \/ UndefineShutOff
         \/ MigrateFindHost \/ MigrateDomain \/ MigrateUndefine
  PROVE  IInv'
<1>k. tk \in TkRecord
  BY TkIsRecord
<1>0. /\ UNCHANGED recordVars
      /\ tk.pc \in {"host", "define", "create", "cmd", "undefine", "undefine_off",
                    "mig_host", "mig", "mig_undefine"}
  BY DEF StartFindHost, DefineDomain, CreateDomain, DomainCommand, UndefineStopped,
         UndefineShutOff, UndefineDomain, MigrateFindHost, MigrateDomain, MigrateUndefine, At
<1>h. /\ tk.job \in Job /\ copy[P] \in VmObject /\ copy[P].vm = tk.job.vm
      /\ tk.pc = "define" => tk.dst \in Nodes
      /\ tk.pc \in Migrating => tk.orig \in VmState
  BY <1>0 DEF IInv, TaskomaticHolds, Migrating
<1>r. VmsInv' /\ TasksInv' /\ OthersKeep(P) /\ copy' = copy
  BY <1>0, RecordsStay
<1>v. Vm \in Vms
  BY <1>h DEF Vm, Job
\* The moves of these steps.
<1>g. ASSUME NEW l \in {"create", "undefine", "reload", "save"}, tk' = Goto(tk, l), LibvirtTypeOK'
      PROVE  IInv'
  <2>1. l \in Locations /\ l # "define" /\ l \notin Migrating
    BY <1>g DEF Locations, Migrating
  <2> QED BY <1>g, <1>k, <1>h, <1>r, <2>1, GotoType, TkFrame
<1>m. ASSUME NEW l \in {"mig_undefine", "revert"}, tk' = Goto(tk, l), LibvirtTypeOK',
             tk.orig \in VmState
      PROVE  IInv'
  <2>1. l \in Locations /\ l # "define"
    BY <1>m DEF Locations
  <2> QED BY <1>m, <1>k, <1>h, <1>r, <2>1, GotoType, TkFrame
<1>e. ASSUME tk' = Returned(tk) \/ tk' = Raised(tk), LibvirtTypeOK'
      PROVE  IInv'
  <2>1. "finish" \notin Migrating
    BY DEF Migrating
  <2> QED BY <1>e, <1>k, <1>h, <1>r, <2>1, EndType, TkFrame
<1>l. ASSUME UNCHANGED libvirtVars PROVE LibvirtTypeOK'
  BY <1>l, LibvirtStays
<1>u. ASSUME NEW v, NEW n, Undefine(v, n) PROVE LibvirtTypeOK'
  BY <1>u, UndefineLemma DEF IInv
<1>1. CASE StartFindHost
  <2>1. CASE tk' = Raised(tk)
    BY <1>1, <2>1, <1>e, <1>l DEF StartFindHost
  <2>2. CASE \E n \in Capable(Vm) : tk' = [Goto(tk, "define") EXCEPT !.dst = n]
    <3>1. PICK n \in Nodes : tk' = [Goto(tk, "define") EXCEPT !.dst = n]
      BY <2>2 DEF Capable
    <3>2. /\ Goto(tk, "define") \in TkRecord
          /\ Goto(tk, "define").pc = "define" /\ Goto(tk, "define").job = tk.job
      BY <1>k, GotoType DEF Locations
    <3>3. tk' \in TkRecord /\ tk'.pc = "define" /\ tk'.job = tk.job /\ tk'.dst = n
      BY <3>1, <3>2, DstType
    <3>4. LibvirtTypeOK' /\ "define" \notin Migrating
      BY <1>1, <1>l DEF StartFindHost, Migrating
    <3> QED BY <3>3, <3>4, <1>h, <1>r, TkFrame
  <2> QED BY <1>1, <2>1, <2>2 DEF StartFindHost
<1>2. CASE DefineDomain
  <2>1. CASE tk' = Raised(tk) /\ UNCHANGED libvirtVars
    BY <2>1, <1>e, <1>l
  <2>2. CASE /\ tk' = Goto(tk, "create")
             /\ defined' = defined \cup {<<Vm, tk.dst>>}
             /\ SetDomain(Vm, tk.dst, IF Active(Vm, tk.dst) THEN dom[Vm][tk.dst] ELSE "shutoff")
    <3>1. defined' \subseteq Vms \X Nodes
      BY <1>2, <2>2, <1>v, <1>h DEF DefineDomain, At, IInv, LibvirtTypeOK
    <3>2. (IF Active(Vm, tk.dst) THEN dom[Vm][tk.dst] ELSE "shutoff") \in DomainState
      BY DEF Active, DomainState
    <3>3. LibvirtTypeOK'
      BY <2>2, <3>1, <3>2, SetDomainLemma DEF IInv
    <3> QED BY <2>2, <3>3, <1>g
  <2> QED BY <1>2, <2>1, <2>2 DEF DefineDomain
<1>3. CASE CreateDomain
  <2>1. CASE SetDomain(Vm, tk.dst, "running") /\ tk' = Goto(tk, "reload") /\ UNCHANGED defined
    <3>1. LibvirtTypeOK'
      BY <2>1, SetDomainLemma DEF IInv, LibvirtTypeOK, DomainState
    <3> QED BY <2>1, <3>1, <1>g
  <2>2. CASE /\ IF Undefinable(Vm, tk.dst) THEN Undefine(Vm, tk.dst) ELSE UNCHANGED libvirtVars
             /\ tk' = Raised(tk)
    BY <2>2, <1>e, <1>l, <1>u
  <2> QED BY <1>3, <2>1, <2>2 DEF CreateDomain
<1>4. CASE DomainCommand
  <2>1. CASE tk' = Raised(tk) /\ UNCHANGED libvirtVars
    BY <2>1, <1>e, <1>l
  <2>2. CASE \E s \in CommandEffect(Vm, tk.src) :
               /\ SetDomain(Vm, tk.src, s)
               /\ tk' = Goto(tk, IF Doing({"shutdown_vm", "poweroff_vm"}) THEN "undefine"
                                                                          ELSE "reload")
               /\ UNCHANGED defined
    <3>1. PICK s \in CommandEffect(Vm, tk.src) : SetDomain(Vm, tk.src, s) /\ UNCHANGED defined
      BY <2>2
    <3>2. s \in DomainState
      BY <3>1 DEF CommandEffect, Active, Off, DomainState
    <3>3. LibvirtTypeOK'
      BY <3>1, <3>2, SetDomainLemma DEF IInv, LibvirtTypeOK
    <3> QED BY <2>2, <3>3, <1>g
  <2> QED BY <1>4, <2>1, <2>2 DEF DomainCommand
<1>5. CASE UndefineStopped
  BY <1>5, <1>e, <1>g, <1>l, <1>u DEF UndefineStopped, UndefineDomain
<1>6. CASE UndefineShutOff
  BY <1>6, <1>e, <1>l, <1>u DEF UndefineShutOff, UndefineDomain
<1>7. CASE MigrateFindHost
  <2>0. tk.orig \in VmState /\ LibvirtTypeOK'
    BY <1>7, <1>h, <1>l DEF MigrateFindHost, At, Migrating
  <2>1. CASE tk' = Goto(tk, "revert")
    BY <2>0, <2>1, <1>m
  <2>2. CASE \E n \in IF tk.job.args # None THEN {tk.job.args} \ {copy[P].host} ELSE Capable(Vm) :
               tk' = [Goto(tk, "mig") EXCEPT !.dst = n]
    <3>1. PICK n \in Nodes : tk' = [Goto(tk, "mig") EXCEPT !.dst = n]
      BY <2>2, <1>h DEF Capable, Job
    <3>2. /\ Goto(tk, "mig") \in TkRecord /\ Goto(tk, "mig").orig = tk.orig
          /\ Goto(tk, "mig").pc = "mig" /\ Goto(tk, "mig").job = tk.job
      BY <1>k, GotoType DEF Locations
    <3>3. tk' \in TkRecord /\ tk'.pc = "mig" /\ tk'.job = tk.job /\ tk'.orig = tk.orig
      BY <3>1, <3>2, DstType
    <3> QED BY <2>0, <3>3, <1>h, <1>r, TkFrame
  <2> QED BY <1>7, <2>1, <2>2 DEF MigrateFindHost
<1>8. CASE MigrateDomain
  <2>0. tk.orig \in VmState
    BY <1>8, <1>h DEF MigrateDomain, At, Migrating
  <2>1. LibvirtTypeOK'
    <3>1. CASE UNCHANGED libvirtVars
      BY <3>1, <1>l
    <3>2. CASE /\ Active(Vm, tk.src)
               /\ dom' = [dom EXCEPT ![Vm][tk.src] = Off(Vm, tk.src), ![Vm][tk.dst] = dom[Vm][tk.src]]
               /\ pub' = IF dom[Vm][tk.dst] = "none" THEN [pub EXCEPT ![Vm][tk.dst] = "none"] ELSE pub
               /\ UNCHANGED defined
      BY <3>2 DEF IInv, LibvirtTypeOK, Active, Off, DomainState
    <3> QED BY <1>8, <3>1, <3>2 DEF MigrateDomain
  <2> QED BY <1>8, <2>0, <2>1, <1>m DEF MigrateDomain
<1>9. CASE MigrateUndefine
  <2>0. tk.orig \in VmState
    BY <1>9, <1>h DEF MigrateUndefine, At, Migrating
  <2>1. LibvirtTypeOK'
    BY <1>9, <1>l, <1>u DEF MigrateUndefine
  <2> QED BY <1>9, <2>0, <2>1, <1>g, <1>m DEF MigrateUndefine
<1> QED BY <1>1, <1>2, <1>3, <1>4, <1>5, <1>6, <1>7, <1>8, <1>9


\* The row of an object, with one column set.
LEMMA RowOfType ==
  ASSUME NEW o \in VmObject, NEW s \in VmState, NEW h \in Nodes \cup {None}
  PROVE  /\ RowOf(o) \in VmRow
         /\ [RowOf(o) EXCEPT !.state = s] \in VmRow
         /\ [RowOf(o) EXCEPT !.host = h] \in VmRow
BY DEF RowOf, VmObject, VmRow

\* The row a handler saves last.
LEMMA FinalRowType ==
  ASSUME tk \in TkRecord, tk.job \in Job, copy[P] \in VmObject
  PROVE  FinalRow \in VmRow
<1>1. tk.job.action \in Action /\ tk.dst \in Nodes \cup {None}
  BY DEF Job, TkRecord
<1>2. WithState(Transition[tk.job.action].success) \in VmRow
  BY <1>1, TransitionType, RowOfType DEF WithState
<1>3. [state |-> "stopped", host |-> None] \in VmRow /\ [state |-> "running", host |-> tk.dst] \in VmRow
  BY <1>1 DEF VmRow, VmState
<1> QED BY <1>2, <1>3 DEF FinalRow

\* A reload gives taskomatic the object of the same VM again, or raises.
LEMMA ReloadInv ==
  ASSUME IInv, UNCHANGED <<web, dbomaticVars, restarts>>,
         ReloadVm \/ MarkReload \/ RevertReload
  PROVE  IInv'
<1>1. PICK next \in {Goto(tk, "vnc_port"), Goto(tk, "save"), Goto(tk, "mark_save"),
                     Goto(tk, "revert_save")} :
        \/ Reload("reload", next, Raised(tk)) /\ next \in {Goto(tk, "vnc_port"), Goto(tk, "save")}
        \/ Reload("mark", next, Raised(tk))
        \/ Reload("revert", next, Raised(tk))
  BY DEF ReloadVm, MarkReload, RevertReload
<1>2. /\ tk.pc \in {"reload", "mark", "revert"}
      /\ tk.pc = "reload" => next \in {Goto(tk, "vnc_port"), Goto(tk, "save")}
      /\ IF Live(Vm) THEN Load(P, Vm) /\ tk' = next
                     ELSE UNCHANGED <<copy, fresh>> /\ tk' = Raised(tk)
      /\ UNCHANGED <<vms, tasks, nextTask, libvirtVars>>
  BY <1>1 DEF Reload, At
<1>3. tk \in TkRecord /\ tk.job \in Job /\ Vm \in Vms /\ Vm = tk.job.vm
  BY <1>2, TkIsRecord DEF IInv, TaskomaticHolds, Vm, Job
<1>4. tk.pc # "reload" => tk.orig \in VmState
  BY <1>2 DEF IInv, TaskomaticHolds
<1>5. TasksInv' /\ LibvirtTypeOK'
  BY <1>2, LibvirtStays DEF IInv, TasksInv, UnusedIds
<1>6. CASE Live(Vm)
  <2>1. VmsInv' /\ copy'[P] \in VmObject /\ copy'[P].vm = tk.job.vm /\ OthersKeep(P)
    BY <1>2, <1>3, <1>6, LoadLemma, Different DEF IInv
  <2>2. /\ next \in TkRecord /\ next.job = tk.job /\ next.orig = tk.orig
        /\ next.pc \in {"vnc_port", "save", "mark_save", "revert_save"}
        /\ tk.pc = "reload" => next.pc \in {"vnc_port", "save"}
    BY <1>2, <1>3, GotoType DEF Locations
  <2>3. tk' = next
    BY <1>2, <1>6
  <2>4. "vnc_port" \notin Migrating /\ "save" \notin Migrating
    BY DEF Migrating
  <2> QED BY <1>3, <1>4, <1>5, <2>1, <2>2, <2>3, <2>4, TkFrame
<1>7. CASE ~Live(Vm)
  <2>1. VmsInv' /\ OthersKeep(P)
    BY <1>2, <1>7 DEF IInv, VmsInv, OthersKeep, FreshMeansCurrent, RowOf
  <2>2. tk' \in TkRecord /\ tk'.pc = "finish" /\ tk'.job = tk.job
    BY <1>2, <1>3, <1>7, EndType
  <2>3. "finish" \notin Migrating
    BY DEF Migrating
  <2> QED BY <1>3, <1>5, <2>1, <2>2, <2>3, TkFrame
<1> QED BY <1>6, <1>7

\* A save! by taskomatic, wherever it goes on.
LEMMA SaveVmInv ==
  ASSUME IInv, UNCHANGED <<web, dbomaticVars, restarts>>,
         NEW here \in {"vnc_port", "attrs", "save", "mark_save", "revert_save"},
         NEW row \in VmRow, NEW dirty, NEW next \in TkRecord, SaveVm(here, row, dirty, next),
         next.job = tk.job, next.pc \in {"attrs", "save", "finish", "mig_host"},
         next.pc = "mig_host" => next.orig \in VmState
  PROVE  IInv'
<1>1. /\ tk \in TkRecord /\ tk.job \in Job /\ copy[P] \in VmObject /\ copy[P].vm = tk.job.vm
  BY TkIsRecord DEF IInv, TaskomaticHolds, SaveVm, At
<1>2. TasksInv' /\ LibvirtTypeOK'
  BY LibvirtStays DEF IInv, TasksInv, UnusedIds, SaveVm
<1>3. "finish" \notin Migrating /\ "save" \notin Migrating /\ "attrs" \notin Migrating
  BY DEF Migrating
<1>4. CASE Save(P, row, dirty) /\ tk' = next
  <2>1. VmsInv' /\ copy'[P] \in VmObject /\ copy'[P].vm = copy[P].vm /\ OthersKeep(P)
    BY <1>1, <1>4, SaveLemma, Different DEF IInv
  <2> QED BY <1>1, <1>2, <1>3, <1>4, <2>1, TkFrame
<1>5. CASE UNCHANGED <<vms, copy, fresh>> /\ tk' = Raised(tk)
  <2>1. VmsInv' /\ OthersKeep(P)
    BY <1>5 DEF IInv, VmsInv, OthersKeep, FreshMeansCurrent, RowOf
  <2>2. tk' \in TkRecord /\ tk'.pc = "finish" /\ tk'.job = tk.job
    BY <1>1, <1>5, EndType
  <2> QED BY <1>1, <1>2, <1>3, <2>1, <2>2, TkFrame
<1> QED BY <1>4, <1>5 DEF SaveVm

\* Every save! of taskomatic stores a well-formed row.
LEMMA SaveStepInv ==
  ASSUME IInv, UNCHANGED <<web, dbomaticVars, restarts>>,
         SetVmVncPort \/ SaveStartAttributes \/ SaveVmState \/ MarkMigrating \/ RevertState
  PROVE  IInv'
<1>0. /\ tk.pc \in {"vnc_port", "attrs", "save", "mark_save", "revert_save"}
      /\ tk \in TkRecord /\ tk.job \in Job /\ copy[P] \in VmObject
  <2>1. tk.pc \in {"vnc_port", "attrs", "save", "mark_save", "revert_save"}
    BY DEF SetVmVncPort, SaveStartAttributes, SaveVmState, MarkMigrating, RevertState, SaveVm, At
  <2> QED BY <2>1, TkIsRecord DEF IInv, TaskomaticHolds
<1>g. /\ Goto(tk, "save") \in TkRecord /\ Goto(tk, "save").job = tk.job /\ Goto(tk, "save").pc = "save"
      /\ Goto(tk, "attrs") \in TkRecord /\ Goto(tk, "attrs").job = tk.job /\ Goto(tk, "attrs").pc = "attrs"
      /\ Goto(tk, "mig_host") \in TkRecord /\ Goto(tk, "mig_host").job = tk.job
      /\ Goto(tk, "mig_host").pc = "mig_host" /\ Goto(tk, "mig_host").orig = tk.orig
      /\ Returned(tk) \in TkRecord /\ Returned(tk).job = tk.job /\ Returned(tk).pc = "finish"
      /\ Raised(tk) \in TkRecord /\ Raised(tk).job = tk.job /\ Raised(tk).pc = "finish"
  BY <1>0, GotoType, EndType DEF Locations
<1>1. CASE SaveStartAttributes
  <2> DEFINE row == [RowOf(copy[P]) EXCEPT !.host = tk.dst]
  <2>1. row \in VmRow
    <3>1. tk.dst \in Nodes \cup {None} /\ "stopped" \in VmState
      BY <1>0 DEF TkRecord, VmState
    <3> QED BY <1>0, <3>1, RowOfType
  <2>2. PICK touched \in BOOLEAN :
          SaveVm("attrs", row, touched \/ Changed(P, row), Goto(tk, "save"))
    BY <1>1 DEF SaveStartAttributes
  <2> HIDE DEF row
  <2> QED BY <1>g, <2>1, <2>2, SaveVmInv
<1>2. CASE SaveVmState
  <2>1. FinalRow \in VmRow
    BY <1>0, FinalRowType
  <2>2. SaveVm("save", FinalRow, Changed(P, FinalRow), Returned(tk))
    BY <1>2 DEF SaveVmState
  <2> QED BY <1>g, <2>1, <2>2, SaveVmInv
<1>3. CASE MarkMigrating
  <2>1. WithState("migrating") \in VmRow
    <3>1. "migrating" \in VmState
      BY DEF VmState
    <3> QED BY <1>0, <3>1, RowOfType DEF WithState
  <2>2. tk.orig \in VmState
    BY <1>3 DEF MarkMigrating, SaveVm, At, IInv, TaskomaticHolds
  <2>3. SaveVm("mark_save", WithState("migrating"), Changed(P, WithState("migrating")),
               Goto(tk, "mig_host"))
    BY <1>3 DEF MarkMigrating
  <2> QED BY <1>g, <2>1, <2>2, <2>3, SaveVmInv
<1>4. CASE RevertState
  <2>1. tk.orig \in VmState
    BY <1>4 DEF RevertState, SaveVm, At, IInv, TaskomaticHolds
  <2>2. WithState(tk.orig) \in VmRow
    BY <1>0, <2>1, RowOfType DEF WithState
  <2>3. SaveVm("revert_save", WithState(tk.orig), Changed(P, WithState(tk.orig)), Raised(tk))
    BY <1>4 DEF RevertState
  <2> QED BY <1>g, <2>2, <2>3, SaveVmInv
<1>5. CASE SetVmVncPort
  <2>1. RowOf(copy[P]) \in VmRow
    BY <1>0 DEF RowOf, VmObject, VmRow
  <2>2. PICK touched \in BOOLEAN : SaveVm("vnc_port", RowOf(copy[P]), touched, Goto(tk, "attrs"))
    BY <1>5 DEF SetVmVncPort
  <2> QED BY <1>g, <2>1, <2>2, SaveVmInv
<1> QED BY <1>1, <1>2, <1>3, <1>4, <1>5

\* Task.find loads well-formed tasks only.
LEMMA PollInv ==
  ASSUME IInv, UNCHANGED <<web, dbomaticVars, restarts>>, Poll
  PROVE  IInv'
<1>1. tk \in TkRecord /\ tk.pc = "idle" /\ UNCHANGED <<recordVars, libvirtVars>>
  BY TkIsRecord DEF Poll, At
<1>2. ASSUME NEW t \in QueuedTasks PROVE JobOf(t) \in Job
  <2>1. t \in TaskIds /\ tasks[t] \in TaskRow
    BY <1>2 DEF QueuedTasks, Queued, IInv, TasksInv
  <2> QED BY <2>1 DEF JobOf, Job, TaskRow
<1>3. PICK found \in SUBSET Job :
        tk' = IF found = {} THEN tk ELSE [tk EXCEPT !.pc = "loop", !.batch = found]
  BY <1>2 DEF Poll
<1>4. tk' \in TkRecord /\ tk'.pc \in {"idle", "loop"}
  BY <1>1, <1>3 DEF TkRecord, Locations
<1>5. "idle" \notin Migrating /\ "loop" \notin Migrating
  BY DEF Migrating
<1> QED BY <1>1, <1>4, <1>5, RecordsStay, LibvirtStays, TkFrame

\* Completing a task.
LEMMA FinishTaskInv ==
  ASSUME IInv, UNCHANGED <<web, dbomaticVars, restarts>>, FinishTask
  PROVE  IInv'
<1>1. tk \in TkRecord /\ tk.job \in Job /\ tk.job.id \in TaskIds
  BY TkIsRecord DEF IInv, TaskomaticHolds, FinishTask, At, Job
<1>2. TasksInv'
  <2>1. PICK s \in {"finished", "failed"} : SetTaskState(tk.job.id, s) /\ UNCHANGED nextTask
    BY DEF FinishTask
  <2>2. s \in TaskState
    BY DEF TaskState, CompletedStates
  <2> QED BY <1>1, <2>1, <2>2, SetTaskStateLemma DEF IInv
<1>3. VmsInv' /\ OthersKeep(P)
  BY ReleaseLemma, Different DEF FinishTask, IInv
<1>4. tk' \in TkRecord /\ tk'.pc \in {"idle", "loop"}
  <2>1. PICK l \in {"idle", "loop"} :
          tk' = [tk EXCEPT !.pc = l, !.job = None, !.src = None, !.dst = None,
                           !.orig = None, !.ok = TRUE]
    BY DEF FinishTask
  <2> QED BY <1>1, <2>1 DEF TkRecord, Locations
<1>5. LibvirtTypeOK' /\ "idle" \notin Migrating /\ "loop" \notin Migrating
  BY LibvirtStays DEF FinishTask, Migrating
<1> QED BY <1>2, <1>3, <1>4, <1>5, TkFrame

\* A restart forgets everything but the tables.
LEMMA TaskomaticDiesInv ==
  ASSUME IInv, TaskomaticDies
  PROVE  IInv'
<1>1. VmsInv' /\ OthersKeep(P)
  BY ReleaseLemma, Different DEF TaskomaticDies, TaskomaticRestart, IInv
<1>2. TasksInv' /\ LibvirtTypeOK'
  BY LibvirtStays DEF TaskomaticDies, TaskomaticRestart, IInv, TasksInv, UnusedIds
<1>3. TaskomaticTypeOK' /\ TaskomaticHolds'
  BY DEF TaskomaticDies, TaskomaticRestart, TaskomaticTypeOK, TaskomaticHolds, Locations
<1>4. DbomaticTypeOK' /\ DbomaticHolds' /\ WuiTypeOK' /\ WebHolds'
  BY <1>1, WebFrame, DbomaticFrame, Different DEF TaskomaticDies, IInv, OthersKeep, dbomaticVars
<1>5. restarts' \in 0..MaxRestarts
  BY BoundsAssumption DEF TaskomaticDies, IInv
<1> QED BY <1>1, <1>2, <1>3, <1>4, <1>5 DEF IInv


-----------------------------------------------------------------------------
(***************************************************************************)
(* db-omatic, and guests.                                                  *)
(***************************************************************************)

\* The invariant after a step of db-omatic, from what the step touches.
LEMMA DboFrame ==
  ASSUME IInv, VmsInv', TasksInv', LibvirtTypeOK', DbomaticTypeOK', DbomaticHolds',
         OthersKeep(D), UNCHANGED <<web, tk, restarts>>
  PROVE  IInv'
<1>1. TaskomaticTypeOK' /\ TaskomaticHolds'
  BY TaskomaticFrame, Different DEF IInv, OthersKeep
<1>2. WuiTypeOK' /\ WebHolds'
  BY WebFrame, Different DEF IInv, OthersKeep
<1> QED BY <1>1, <1>2 DEF IInv

\* Entering update_domain_state with a well-formed cache entry.
LEMMA EnterUpdateInv ==
  ASSUME IInv, UNCHANGED <<web, tk, restarts>>, dbo.pc = "idle",
         NEW v \in Vms, NEW entry \in CacheEntry, EnterUpdate(v, entry),
         pub' \in [Vms -> [Nodes -> DomainState]]
  PROVE  IInv'
<1>1. TasksInv' /\ LibvirtTypeOK'
  BY DEF EnterUpdate, IInv, TasksInv, UnusedIds, LibvirtTypeOK
<1>2. CASE Live(v)
  <2>1. VmsInv' /\ copy'[D] \in VmObject /\ copy'[D].vm = v /\ OthersKeep(D)
    BY <1>2, LoadLemma, Different DEF EnterUpdate, IInv
  <2>2. cache' = [cache EXCEPT ![v] = entry] /\ dbo' = [pc |-> "vnc", vm |-> v, row |-> None, touched |-> FALSE]
    BY <1>2 DEF EnterUpdate
  <2>3. DbomaticTypeOK' /\ DbomaticHolds'
    BY <2>1, <2>2 DEF IInv, DbomaticTypeOK, DbomaticHolds
  <2> QED BY <1>1, <2>1, <2>3, DboFrame
<1>3. CASE ~Live(v)
  <2>1. UNCHANGED <<vms, copy, fresh, dbo>> /\ cache' = [cache EXCEPT ![v] = [entry EXCEPT !.synced = TRUE]]
    BY <1>3 DEF EnterUpdate
  <2>2. VmsInv' /\ OthersKeep(D)
    BY <2>1 DEF IInv, VmsInv, OthersKeep, FreshMeansCurrent, RowOf
  <2>3. [entry EXCEPT !.synced = TRUE] \in CacheEntry
    BY DEF CacheEntry
  <2>4. DbomaticTypeOK' /\ DbomaticHolds'
    BY <2>1, <2>3 DEF IInv, DbomaticTypeOK, DbomaticHolds
  <2> QED BY <1>1, <2>2, <2>4, DboFrame
<1> QED BY <1>2, <1>3

\* update_props builds a well-formed cache entry.
LEMMA UpdatePropsInv ==
  ASSUME IInv, UNCHANGED <<web, tk, restarts>>, dbo.pc = "idle",
         NEW v \in Vms, NEW n \in Nodes, NEW s \in DomainState \ {"none"},
         NEW known, UpdateProps(v, n, s, known),
         pub' \in [Vms -> [Nodes -> DomainState]]
  PROVE  IInv'
<1>1. [node |-> n, state |-> s, synced |-> known /\ cache[v].synced] \in CacheEntry
  BY DEF CacheEntry
<1> QED BY <1>1, EnterUpdateInv DEF UpdateProps

\* The save! of the VNC port only makes other objects stale.
LEMMA UpdateVncInv ==
  ASSUME IInv, UNCHANGED <<web, tk, restarts>>, UpdateVnc
  PROVE  IInv'
<1>0. /\ dbo.pc = "vnc" /\ dbo.vm \in Vms
      /\ copy[D] \in VmObject /\ copy[D].vm = dbo.vm /\ cache[dbo.vm] \in CacheEntry
      /\ UNCHANGED <<vms, tasks, nextTask, copy, libvirtVars, cache>>
  BY DEF UpdateVnc, IInv, DbomaticHolds
<1>1. VmsInv' /\ OthersKeep(D)
  <2>1. fresh' \subseteq fresh
    BY DEF UpdateVnc
  <2> QED BY <1>0, <2>1 DEF IInv, VmsInv, OthersKeep, FreshMeansCurrent, RowOf
<1>2. TasksInv' /\ LibvirtTypeOK'
  BY <1>0, LibvirtStays DEF IInv, TasksInv, UnusedIds
<1>3. DbomaticTypeOK' /\ DbomaticHolds'
  <2>1. PICK b \in BOOLEAN : dbo' = [dbo EXCEPT !.pc = "act", !.touched = b]
    BY DEF UpdateVnc
  <2>2. /\ dbo' \in [pc : {"idle", "vnc", "act", "save"}, vm : Vms \cup {None},
                    row : VmRow \cup {None}, touched : BOOLEAN]
        /\ dbo'.vm = dbo.vm /\ dbo'.pc = "act"
    BY <2>1 DEF IInv, DbomaticTypeOK
  <2> QED BY <1>0, <2>2 DEF IInv, DbomaticTypeOK, DbomaticHolds
<1> QED BY <1>1, <1>2, <1>3, DboFrame

\* The QMF part leaves a well-formed row to be saved.
LEMMA UpdateActInv ==
  ASSUME IInv, UNCHANGED <<web, tk, restarts>>, UpdateAct
  PROVE  IInv'
<1>0. /\ dbo.pc = "act" /\ dbo.vm \in Vms /\ UNCHANGED <<recordVars, cache>>
      /\ copy[D] \in VmObject /\ copy[D].vm = dbo.vm /\ cache[dbo.vm] \in CacheEntry
  BY DEF UpdateAct, IInv, DbomaticHolds
<1>1. copy[D].host \in Nodes \cup {None}
  BY <1>0 DEF VmObject
<1>2. \E row \in VmRow : dbo' = [dbo EXCEPT !.pc = "save", !.row = row]
  <2>1. CASE Translate[cache[dbo.vm].state] = "stopped"
    <3>1. [state |-> "stopped", host |-> None] \in VmRow
          /\ [state |-> "stopped", host |-> copy[D].host] \in VmRow
      BY <1>1 DEF VmRow, VmState
    <3> QED BY <2>1, <3>1 DEF UpdateAct
  <2>2. CASE Translate[cache[dbo.vm].state] = "running"
    <3>1. \A o \in Lookup(dbo.vm) :
            [state |-> "running", host |-> IF o = None THEN copy[D].host ELSE o] \in VmRow
      BY <1>1, LookupType DEF VmRow, VmState
    <3> QED BY <2>2, <3>1 DEF UpdateAct
  <2>3. CASE Translate[cache[dbo.vm].state] = "suspended"
    <3>1. [state |-> "suspended", host |-> copy[D].host] \in VmRow
      BY <1>1 DEF VmRow, VmState
    <3> QED BY <2>3, <3>1 DEF UpdateAct
  <2> QED BY <2>1, <2>2, <2>3 DEF UpdateAct
<1>3. LibvirtTypeOK'
  <2>1. UNCHANGED libvirtVars \/ \E o \in Lookup(dbo.vm) : Undefine(dbo.vm, o)
    BY DEF UpdateAct
  <2> QED BY <2>1, LibvirtStays, UndefineLemma DEF IInv
<1>4. DbomaticTypeOK' /\ DbomaticHolds'
  <2>1. PICK row \in VmRow : dbo' = [dbo EXCEPT !.pc = "save", !.row = row]
    BY <1>2
  <2>2. /\ dbo' \in [pc : {"idle", "vnc", "act", "save"}, vm : Vms \cup {None},
                    row : VmRow \cup {None}, touched : BOOLEAN]
        /\ dbo'.vm = dbo.vm /\ dbo'.row = row
    BY <2>1 DEF IInv, DbomaticTypeOK
  <2>3. UNCHANGED <<copy, cache>>
    BY <1>0 DEF recordVars
  <2> QED BY <1>0, <2>2, <2>3 DEF IInv, DbomaticTypeOK, DbomaticHolds
<1> QED BY <1>0, <1>3, <1>4, RecordsStay, DboFrame

\* The final save! makes every other object of the VM stale.
LEMMA UpdateSaveInv ==
  ASSUME IInv, UNCHANGED <<web, tk, restarts>>, UpdateSave
  PROVE  IInv'
<1>0. /\ dbo.pc = "save" /\ dbo.vm \in Vms /\ dbo.row \in VmRow
      /\ copy[D] \in VmObject /\ copy[D].vm = dbo.vm /\ cache[dbo.vm] \in CacheEntry
      /\ copy' = [copy EXCEPT ![D] = None] /\ dbo' = Resting
      /\ UNCHANGED <<tasks, nextTask, libvirtVars>>
  BY DEF UpdateSave, IInv, DbomaticHolds
<1>1. \/ vms' = vms /\ fresh' = fresh \ {D}
      \/ /\ vms' = [vms EXCEPT ![dbo.vm] = dbo.row]
         /\ fresh' = {q \in fresh : copy[q].vm # dbo.vm} \ {D}
  BY DEF UpdateSave
<1>2. OthersKeep(D) /\ copy' \in [Processes -> VmObject \cup {None}]
  BY <1>0 DEF IInv, VmsInv, OthersKeep
<1>3. fresh' \subseteq {q \in Processes : copy'[q] \in VmObject} /\ D \notin fresh'
  BY <1>1, <1>2 DEF IInv, VmsInv, OthersKeep
<1>4. FreshMeansCurrent'
  <2> SUFFICES ASSUME NEW q \in fresh' PROVE vms'[copy'[q].vm] = RowOf(copy'[q])
    BY DEF FreshMeansCurrent, RowOf
  <2>1. q \in fresh /\ copy'[q] = copy[q] /\ copy[q] \in VmObject
    BY <1>1, <1>2, <1>3 DEF OthersKeep, IInv, VmsInv
  <2>2. vms[copy[q].vm] = RowOf(copy[q]) /\ copy[q].vm \in Vms
    BY <2>1 DEF IInv, VmsInv, FreshMeansCurrent, VmObject
  <2> QED BY <1>0, <1>1, <2>1, <2>2 DEF IInv, VmsInv
<1>5. VmsInv'
  BY <1>0, <1>1, <1>2, <1>3, <1>4 DEF IInv, VmsInv
<1>6. TasksInv' /\ LibvirtTypeOK'
  BY <1>0, LibvirtStays DEF IInv, TasksInv, UnusedIds
<1>7. DbomaticTypeOK' /\ DbomaticHolds'
  <2>1. cache' \in [Vms -> CacheEntry \cup {None}]
    <3>1. [cache[dbo.vm] EXCEPT !.synced = TRUE] \in CacheEntry
      BY <1>0 DEF CacheEntry
    <3>2. cache' = cache \/ cache' = [cache EXCEPT ![dbo.vm] = [cache[dbo.vm] EXCEPT !.synced = TRUE]]
      BY DEF UpdateSave, Synced
    <3> QED BY <3>1, <3>2 DEF IInv, DbomaticTypeOK
  <2> QED BY <1>0, <2>1 DEF DbomaticTypeOK, DbomaticHolds, Resting
<1> QED BY <1>2, <1>5, <1>6, <1>7, DboFrame

\* All steps of db-omatic.
LEMMA DbomaticInv ==
  ASSUME IInv, DbomaticActs
  PROVE  IInv'
<1>0. UNCHANGED <<web, tk, restarts>>
  BY DEF DbomaticActs
<1>1. ASSUME NEW v \in Vms, NEW n \in Nodes, ObjectUpdate(v, n) PROVE IInv'
  <2>1. dom[v][n] \in DomainState \ {"none"}
    BY <1>1 DEF ObjectUpdate, IInv, LibvirtTypeOK
  <2>2. pub' \in [Vms -> [Nodes -> DomainState]]
    BY <1>1, <2>1 DEF ObjectUpdate, IInv, LibvirtTypeOK
  <2> QED BY <1>0, <1>1, <2>1, <2>2, UpdatePropsInv DEF ObjectUpdate
<1>2. ASSUME NEW v \in Vms, NEW n \in Nodes, ObjectGone(v, n) PROVE IInv'
  <2>1. pub' \in [Vms -> [Nodes -> DomainState]]
    BY <1>2 DEF ObjectGone, IInv, LibvirtTypeOK, DomainState
  <2>2. CASE UNCHANGED <<recordVars, dom, defined, dbomaticVars>>
    <3>1. LibvirtTypeOK'
      BY <2>1, <2>2 DEF IInv, LibvirtTypeOK
    <3>2. DbomaticTypeOK' /\ DbomaticHolds'
      BY <2>2, RecordsStay, DbomaticFrame DEF IInv, dbomaticVars
    <3> QED BY <1>0, <2>2, <3>1, <3>2, RecordsStay, DboFrame
  <2>3. CASE UpdateProps(v, n, "shutoff", Cached(v, n))
    <3>1. "shutoff" \in DomainState \ {"none"} /\ dbo.pc = "idle"
      BY <1>2 DEF DomainState, ObjectGone
    <3> QED BY <1>0, <2>1, <2>3, <3>1, UpdatePropsInv
  <2> QED BY <1>2, <2>2, <2>3 DEF ObjectGone
<1>3. ASSUME NEW v \in Vms, Resync(v) PROVE IInv'
  <2>1. cache[v] \in CacheEntry
    BY <1>3 DEF Resync, IInv, DbomaticTypeOK
  <2>2. pub' \in [Vms -> [Nodes -> DomainState]]
    BY <1>3 DEF Resync, IInv, LibvirtTypeOK
  <2> QED BY <1>0, <1>3, <2>1, <2>2, EnterUpdateInv DEF Resync
<1> QED BY <1>0, <1>1, <1>2, <1>3, UpdateVncInv, UpdateActInv, UpdateSaveInv
        DEF DbomaticActs, DbomaticStep

\* A guest that powers off.
LEMMA GuestStopsInv ==
  ASSUME IInv, GuestStops
  PROVE  IInv'
<1>1. PICK v \in Vms, n \in Nodes : GuestPowerOff(v, n)
  BY DEF GuestStops
<1>2. UNCHANGED <<recordVars, web, tk, dbomaticVars, restarts>>
  BY <1>1 DEF GuestStops, GuestPowerOff
<1>3. LibvirtTypeOK'
  <2>1. Off(v, n) \in DomainState
    BY DEF Off, DomainState
  <2> QED BY <1>1, <2>1, SetDomainLemma DEF GuestPowerOff, IInv, LibvirtTypeOK
<1>4. DbomaticTypeOK' /\ DbomaticHolds'
  BY <1>2, RecordsStay, DbomaticFrame DEF IInv, dbomaticVars
<1> QED BY <1>2, <1>3, <1>4, RecordsStay, DboFrame

-----------------------------------------------------------------------------
(***************************************************************************)
(* The theorems.                                                           *)
(***************************************************************************)

\* The invariant holds initially ...
LEMMA InitInv == Init => IInv
<1> SUFFICES ASSUME Init PROVE IInv
  OBVIOUS
<1>1. PICK at \in [Vms -> Nodes \cup {None, Deleted}] :
       /\ vms = [v \in Vms |->
                   CASE at[v] = Deleted -> None
                     [] at[v] = None    -> [state |-> "stopped", host |-> None]
                     [] OTHER           -> [state |-> "running", host |-> at[v]]]
       /\ dom = [v \in Vms |-> [n \in Nodes |-> IF at[v] = n THEN "running" ELSE "none"]]
       /\ pub = dom
       /\ defined = {d \in Vms \X Nodes : at[d[1]] = d[2]}
       /\ cache = [v \in Vms |->
                     IF at[v] \in {None, Deleted} THEN None
                     ELSE [node |-> at[v], state |-> "running", synced |-> TRUE]]
  BY DEF Init
<1>2. vms \in [Vms -> VmRow \cup {None, Deleted}]
  <2>1. \A v \in Vms : vms[v] \in VmRow \cup {None}
    BY <1>1 DEF VmRow, VmState
  <2> QED BY <1>1, <2>1
<1>3. VmsInv
  BY <1>2 DEF Init, VmsInv, FreshMeansCurrent
<1>4. TasksInv
  BY MaxTasksAssumption DEF Init, TasksInv, UnusedIds
<1>5. LibvirtTypeOK
  BY <1>1 DEF LibvirtTypeOK, DomainState
<1>6. WuiTypeOK /\ WebHolds
  BY DEF Init, WuiInit, WuiTypeOK, WebHolds, Idle
<1>7. TaskomaticTypeOK /\ TaskomaticHolds
  BY DEF Init, TaskomaticInit, TaskomaticTypeOK, TaskomaticHolds, Locations
<1>8. DbomaticTypeOK /\ DbomaticHolds
  BY <1>1 DEF Init, Resting, DbomaticTypeOK, DbomaticHolds, CacheEntry, DomainState
<1>9. restarts \in 0..MaxRestarts
  BY BoundsAssumption DEF Init
<1> QED BY <1>3, <1>4, <1>5, <1>6, <1>7, <1>8, <1>9 DEF IInv

\* ... is preserved by every step ...
LEMMA NextInv == IInv /\ [Next]_vars => IInv'
<1> SUFFICES ASSUME IInv, [Next]_vars PROVE IInv'
  OBVIOUS
<1>1. CASE WuiActs
  BY <1>1, SvcCreateInv, WuiArriveInv, WuiContinueInv DEF WuiActs, WuiStep
<1>2. CASE TaskomaticActs
  BY <1>2, PollInv, BeginTaskInv, NodeStepInv, ReloadInv, SaveStepInv, FinishTaskInv
     DEF TaskomaticActs, TaskomaticStep
<1>3. CASE DbomaticActs
  BY <1>3, DbomaticInv
<1>4. CASE TaskomaticDies
  BY <1>4, TaskomaticDiesInv
<1>5. CASE GuestStops
  BY <1>5, GuestStopsInv
<1>6. CASE UNCHANGED vars
  <2>1. UNCHANGED <<recordVars, libvirtVars, web, tk, dbomaticVars, restarts>>
    BY <1>6 DEF vars
  <2>2. DbomaticTypeOK' /\ DbomaticHolds'
    BY <2>1, RecordsStay, DbomaticFrame DEF IInv, dbomaticVars
  <2> QED BY <2>1, <2>2, RecordsStay, LibvirtStays, DboFrame
<1> QED BY <1>1, <1>2, <1>3, <1>4, <1>5, <1>6 DEF Next

\* ... and so always holds.
LEMMA Invariance == Spec => []IInv
BY InitInv, NextInv, PTL DEF Spec

\* Type correctness: no step of a request or a daemon stores anything but a
\* VM state, a host or nothing in a row, and none uses an object it has not.
THEOREM TypeCorrect == Spec => []TypeOK
<1>1. IInv => TypeOK
  BY DEF IInv, VmsInv, TasksInv, TypeOK, RecordsTypeOK
<1> QED BY <1>1, Invariance, PTL

\* Optimistic locking: for any number of processes, a Vm object that
\* ActiveRecord would let be saved shows the row as it is.
THEOREM LockingWorks == Spec => []FreshMeansCurrent
<1>1. IInv => FreshMeansCurrent
  BY DEF IInv, VmsInv
<1> QED BY <1>1, Invariance, PTL


-----------------------------------------------------------------------------
(***************************************************************************)
(* Who may change a row.                                                   *)
(***************************************************************************)

\* Process p has written x into the row of its VM, or deleted it.
Writes(p, x) ==
  /\ p \in fresh
  /\ vms' = [vms EXCEPT ![copy[p].vm] = x]
  /\ \/ x \in VmRow
     \/ x = Deleted /\ copy[p].state \in DestroyableStates

\* The vms table changes only by an INSERT or through a current object.
RowChange ==
  \/ vms' = vms
  \/ /\ "create" \in Services
     /\ \E v \in Vms, row \in VmRow : vms[v] = None /\ vms' = [vms EXCEPT ![v] = row]
  \/ \E p \in Processes, x \in VmRow \cup {Deleted} : Writes(p, x)

\* A save! of taskomatic writes only from a current object.
LEMMA SaveVmWrites ==
  ASSUME IInv, NEW here, NEW row \in VmRow, NEW dirty, NEW next,
         SaveVm(here, row, dirty, next)
  PROVE  RowChange
<1>1. CASE vms' = vms
  BY <1>1 DEF RowChange
<1>2. CASE vms' # vms
  <2>1. Savable(P, dirty) /\ Save(P, row, dirty)
    BY <1>2 DEF SaveVm
  <2>2. dirty /\ Write(P, row)
    BY <1>2, <2>1 DEF Save
  <2>3. P \in fresh
    BY <2>1, <2>2 DEF Savable
  <2> QED BY <2>2, <2>3, Different DEF Write, Writes, RowChange
<1> QED BY <1>1, <1>2

\* The same for each of its save! calls.
LEMMA SaveStepWrites ==
  ASSUME IInv, SetVmVncPort \/ SaveStartAttributes \/ SaveVmState \/ MarkMigrating \/ RevertState
  PROVE  RowChange
<1>0. /\ tk.pc \in {"vnc_port", "attrs", "save", "mark_save", "revert_save"}
      /\ tk \in TkRecord /\ tk.job \in Job /\ copy[P] \in VmObject
  <2>1. tk.pc \in {"vnc_port", "attrs", "save", "mark_save", "revert_save"}
    BY DEF SetVmVncPort, SaveStartAttributes, SaveVmState, MarkMigrating, RevertState, SaveVm, At
  <2> QED BY <2>1, TkIsRecord DEF IInv, TaskomaticHolds
<1>1. CASE SaveStartAttributes
  <2> DEFINE row == [RowOf(copy[P]) EXCEPT !.host = tk.dst]
  <2>1. row \in VmRow
    <3>1. tk.dst \in Nodes \cup {None} /\ "stopped" \in VmState
      BY <1>0 DEF TkRecord, VmState
    <3> QED BY <1>0, <3>1, RowOfType
  <2>2. PICK touched \in BOOLEAN :
          SaveVm("attrs", row, touched \/ Changed(P, row), Goto(tk, "save"))
    BY <1>1 DEF SaveStartAttributes
  <2> HIDE DEF row
  <2> QED BY <2>1, <2>2, SaveVmWrites
<1>2. CASE SaveVmState
  <2>1. FinalRow \in VmRow
    BY <1>0, FinalRowType
  <2> QED BY <1>2, <2>1, SaveVmWrites DEF SaveVmState
<1>3. CASE MarkMigrating
  <2>1. WithState("migrating") \in VmRow
    <3>1. "migrating" \in VmState
      BY DEF VmState
    <3> QED BY <1>0, <3>1, RowOfType DEF WithState
  <2> QED BY <1>3, <2>1, SaveVmWrites DEF MarkMigrating
<1>4. CASE RevertState
  <2>1. tk.orig \in VmState
    BY <1>4 DEF RevertState, SaveVm, At, IInv, TaskomaticHolds
  <2>2. WithState(tk.orig) \in VmRow
    BY <1>0, <2>1, RowOfType DEF WithState
  <2> QED BY <1>4, <2>2, SaveVmWrites DEF RevertState
<1>5. CASE SetVmVncPort
  <2>1. RowOf(copy[P]) \in VmRow
    BY <1>0 DEF RowOf, VmObject, VmRow
  <2>2. PICK touched \in BOOLEAN : SaveVm("vnc_port", RowOf(copy[P]), touched, Goto(tk, "attrs"))
    BY <1>5 DEF SetVmVncPort
  <2> QED BY <2>1, <2>2, SaveVmWrites
<1> QED BY <1>1, <1>2, <1>3, <1>4, <1>5

\* Every step of the system changes the vms table in this way.
LEMMA NextRowChange ==
  ASSUME IInv, [Next]_vars
  PROVE  RowChange
<1> USE Different
<1>1. CASE WuiActs
  <2>1. ASSUME "create" \in Services, NEW v \in Vms, SvcCreate(v) PROVE RowChange
    <3>1. [state |-> "pending", host |-> None] \in VmRow
      BY DEF VmRow, VmState
    <3> QED BY <2>1, <3>1 DEF SvcCreate, RowChange
  <2>2. ASSUME NEW r \in Requests, WuiArrive(r) PROVE vms' = vms
    BY <2>2 DEF WuiArrive, VmActionFind, UpdateFind, DestroyFind, CancelFind, recordVars
  <2>3. ASSUME NEW r \in Requests, DestroyCommit(r), vms' # vms PROVE Writes(r, Deleted)
    BY <2>3 DEF DestroyCommit, IsDestroyable, Writes
  <2>4. ASSUME NEW r \in Requests, WuiContinue(r), ~DestroyCommit(r) PROVE vms' = vms
    BY <2>4 DEF WuiContinue, VmActionCheck, VmActionInsert, UpdateCommit, CancelCommit
  <2> QED BY <1>1, <2>1, <2>2, <2>3, <2>4 DEF WuiActs, WuiStep, RowChange
<1>2. CASE TaskomaticActs
  <2>1. ASSUME NEW j \in tk.batch, BeginTask(j) PROVE vms' = vms
    BY <2>1 DEF BeginTask, TaskVmMissing, TaskCreateVm, TaskStartVm, TaskShutdownOrDestroyVm,
       TaskSuspendVm, TaskResumeVm, TaskSaveOrRestoreVm, TaskMigrateVm, Begin, recordVars
  <2>2. ASSUME \/ StartFindHost \/ DefineDomain \/ CreateDomain \/ DomainCommand
               \/ UndefineStopped \/ UndefineShutOff
               \/ MigrateFindHost \/ MigrateDomain \/ MigrateUndefine
        PROVE  vms' = vms
    BY <2>2 DEF StartFindHost, DefineDomain, CreateDomain, DomainCommand, UndefineStopped,
       UndefineShutOff, UndefineDomain, MigrateFindHost, MigrateDomain, MigrateUndefine, recordVars
  <2>3. ASSUME ReloadVm \/ MarkReload \/ RevertReload \/ FinishTask \/ Poll PROVE vms' = vms
    BY <2>3 DEF ReloadVm, MarkReload, RevertReload, Reload, FinishTask, Poll, recordVars
  <2> QED BY <1>2, <2>1, <2>2, <2>3, SaveStepWrites DEF TaskomaticActs, TaskomaticStep, RowChange
<1>3. CASE DbomaticActs
  <2>1. ASSUME NEW v \in Vms, NEW n \in Nodes, ObjectUpdate(v, n) \/ ObjectGone(v, n)
        PROVE  vms' = vms
    BY <2>1 DEF ObjectUpdate, ObjectGone, UpdateProps, EnterUpdate, recordVars
  <2>2. ASSUME NEW v \in Vms, Resync(v) PROVE vms' = vms
    BY <2>2 DEF Resync, EnterUpdate
  <2>3. ASSUME UpdateVnc \/ UpdateAct PROVE vms' = vms
    BY <2>3 DEF UpdateVnc, UpdateAct, recordVars
  <2>4. ASSUME UpdateSave, vms' # vms PROVE Writes(D, dbo.row) /\ dbo.row \in VmRow
    <3>1. dbo.row \in VmRow /\ copy[D].vm = dbo.vm
      BY <2>4 DEF UpdateSave, IInv, DbomaticHolds
    <3> QED BY <2>4, <3>1 DEF UpdateSave, Savable, Writes
  <2> QED BY <1>3, <2>1, <2>2, <2>3, <2>4 DEF DbomaticActs, DbomaticStep, RowChange
<1>4. CASE TaskomaticDies \/ GuestStops \/ UNCHANGED vars
  BY <1>4 DEF TaskomaticDies, TaskomaticRestart, GuestStops, GuestPowerOff, vars, recordVars, RowChange
<1> QED BY <1>1, <1>2, <1>3, <1>4 DEF Next

\* A current object is the row it was loaded from.
LEMMA FreshObject ==
  ASSUME IInv, NEW p \in fresh
  PROVE  /\ p \in Processes /\ copy[p].vm \in Vms
         /\ copy[p] = ObjectOf(copy[p].vm, vms[copy[p].vm])
         /\ copy[p].state = vms[copy[p].vm].state
<1>1. p \in Processes /\ copy[p] \in VmObject /\ vms[copy[p].vm] = RowOf(copy[p])
  BY DEF IInv, VmsInv, FreshMeansCurrent
<1> QED BY <1>1 DEF VmObject, ObjectOf, RowOf

\* No lost update: whichever process changes a VM's row, a request, taskomatic
\* or db-omatic, some process held exactly the row that is overwritten.
THEOREM NothingLost == Spec => NoLostUpdate
<1>1. IInv /\ [Next]_vars =>
        [\A v \in Vms : Live(v) /\ vms'[v] # vms[v] =>
           \E p \in Processes : copy[p] = ObjectOf(v, vms[v])]_vars
  <2> SUFFICES ASSUME IInv, [Next]_vars, NEW v \in Vms, Live(v), vms'[v] # vms[v]
               PROVE  \E p \in Processes : copy[p] = ObjectOf(v, vms[v])
    OBVIOUS
  <2>1. PICK p \in Processes, x \in VmRow \cup {Deleted} : Writes(p, x)
    BY NextRowChange DEF RowChange, Live, IInv, VmsInv
  <2>2. v = copy[p].vm
    BY <2>1 DEF Writes, IInv, VmsInv
  <2> QED BY <2>1, <2>2, FreshObject DEF Writes
<1> QED BY <1>1, Invariance, PTL DEF Spec, NoLostUpdate

\* A row disappears from a destroyable state only.
LEMMA DeletesDestroyable ==
  ASSUME IInv, [Next]_vars, NEW v \in Vms, Live(v), ~Live(v)'
  PROVE  vms[v].state \in DestroyableStates
<1>1. vms'[v] # vms[v] /\ vms'[v] \notin VmRow
  BY NullAssumption DEF Live
<1>2. PICK p \in Processes, x \in VmRow \cup {Deleted} : Writes(p, x)
  BY <1>1, NextRowChange DEF RowChange, Live, IInv, VmsInv
<1>3. v = copy[p].vm /\ x \notin VmRow
  BY <1>1, <1>2 DEF Writes, IInv, VmsInv
<1> QED BY <1>2, <1>3, FreshObject DEF Writes

\* svc_destroy deletes a VM only in a destroyable state, although it decides
\* from an object it loaded earlier.
THEOREM DeletionIsSafe == Spec => DeletedOnlyIfDestroyable
<1>1. IInv /\ [Next]_vars =>
        [\A v \in Vms : Live(v) /\ ~Live(v)' => vms[v].state \in DestroyableStates]_vars
  BY DeletesDestroyable
<1> QED BY <1>1, Invariance, PTL DEF Spec, DeletedOnlyIfDestroyable


-----------------------------------------------------------------------------
(***************************************************************************)
(* Who may change a task.                                                  *)
(***************************************************************************)

\* A row appears where there was none, disappears, or was queued before.
TaskChange ==
  \A t \in TaskIds : tasks'[t] = tasks[t] \/ tasks'[t] = None \/ tasks[t] = None \/ Queued(t)

\* An INSERT uses ids that no task has.
LEMMA InsertChange ==
  ASSUME IInv, NEW v, NEW actions, NEW args, Len(actions) \in Nat, Insert(v, actions, args)
  PROVE  TaskChange
<1> SUFFICES ASSUME NEW t \in TaskIds, tasks[t] # None PROVE tasks'[t] = tasks[t]
  BY DEF TaskChange
<1>1. t \in Nat /\ nextTask \in Nat /\ t < nextTask
  BY MaxTasksAssumption DEF IInv, TasksInv, UnusedIds, TaskIds
<1>2. t \notin nextTask..(nextTask + Len(actions) - 1)
  BY <1>1
<1> QED BY <1>2 DEF Insert

\* Every step of the system changes the tasks table in this way.
LEMMA NextTaskChange ==
  ASSUME IInv, [Next]_vars
  PROVE  TaskChange
<1>s. ASSUME tasks' = tasks PROVE TaskChange
  BY <1>s DEF TaskChange
<1>1. CASE WuiActs
  <2>1. ASSUME NEW v \in Vms, SvcCreate(v) PROVE TaskChange
    <3>1. Insert(v, <<"create_vm", "start_vm">>, None) \/ Insert(v, <<"create_vm">>, None)
      BY <2>1 DEF SvcCreate
    <3>2. Len(<<"create_vm", "start_vm">>) \in Nat /\ Len(<<"create_vm">>) \in Nat
      OBVIOUS
    <3> QED BY <3>1, <3>2, InsertChange
  <2>2. ASSUME NEW r \in Requests, WuiArrive(r) PROVE tasks' = tasks
    BY <2>2 DEF WuiArrive, VmActionFind, UpdateFind, DestroyFind, CancelFind, recordVars
  <2>3. ASSUME NEW r \in Requests, VmActionCheck(r) PROVE tasks' = tasks
    BY <2>3 DEF VmActionCheck
  <2>4. ASSUME NEW r \in Requests, VmActionInsert(r) PROVE TaskChange
    <3>1. Insert(copy[r].vm, <<web[r].action>>, web[r].args) /\ Len(<<web[r].action>>) \in Nat
      BY <2>4 DEF VmActionInsert
    <3> QED BY <3>1, InsertChange
  <2>5. ASSUME NEW r \in Requests, UpdateCommit(r) PROVE TaskChange
    <3>1. CASE \E actions \in UpdateQueues(copy[r].vm, copy[r].state) :
                 Insert(copy[r].vm, actions, None)
      <4>1. PICK actions \in UpdateQueues(copy[r].vm, copy[r].state) :
                 Insert(copy[r].vm, actions, None)
        BY <3>1
      <4>2. Len(actions) \in Nat
        BY UpdateQueuesType
      <4> QED BY <4>1, <4>2, InsertChange
    <3>2. CASE UNCHANGED <<tasks, nextTask>>
      BY <3>2, <1>s
    <3> QED BY <2>5, <3>1, <3>2 DEF UpdateCommit
  <2>6. ASSUME NEW r \in Requests, DestroyCommit(r) PROVE TaskChange
    BY <2>6 DEF DestroyCommit, TaskChange
  <2>7. ASSUME NEW r \in Requests, CancelCommit(r) PROVE TaskChange
    BY <2>7 DEF CancelCommit, TaskChange
  <2> QED BY <1>1, <1>s, <2>1, <2>2, <2>3, <2>4, <2>5, <2>6, <2>7
          DEF WuiActs, WuiStep, WuiContinue
<1>2. CASE TaskomaticActs
  <2>1. ASSUME NEW j \in tk.batch, BeginTask(j) PROVE tasks' = tasks
    BY <2>1 DEF BeginTask, TaskVmMissing, TaskCreateVm, TaskStartVm, TaskShutdownOrDestroyVm,
       TaskSuspendVm, TaskResumeVm, TaskSaveOrRestoreVm, TaskMigrateVm, Begin, recordVars
  <2>2. ASSUME \/ StartFindHost \/ DefineDomain \/ CreateDomain \/ DomainCommand
               \/ UndefineStopped \/ UndefineShutOff
               \/ MigrateFindHost \/ MigrateDomain \/ MigrateUndefine
        PROVE  tasks' = tasks
    BY <2>2 DEF StartFindHost, DefineDomain, CreateDomain, DomainCommand, UndefineStopped,
       UndefineShutOff, UndefineDomain, MigrateFindHost, MigrateDomain, MigrateUndefine, recordVars
  <2>3. ASSUME ReloadVm \/ MarkReload \/ RevertReload \/ Poll PROVE tasks' = tasks
    BY <2>3 DEF ReloadVm, MarkReload, RevertReload, Reload, Poll, recordVars
  <2>4. ASSUME SetVmVncPort \/ SaveStartAttributes \/ SaveVmState \/ MarkMigrating \/ RevertState
        PROVE  tasks' = tasks
    BY <2>4 DEF SetVmVncPort, SaveStartAttributes, SaveVmState, MarkMigrating, RevertState, SaveVm
  <2>5. ASSUME FinishTask PROVE TaskChange
    <3>1. PICK s : SetTaskState(tk.job.id, s)
      BY <2>5 DEF FinishTask
    <3> QED BY <3>1 DEF SetTaskState, TaskChange, IInv, TasksInv
  <2> QED BY <1>2, <1>s, <2>1, <2>2, <2>3, <2>4, <2>5 DEF TaskomaticActs, TaskomaticStep
<1>3. CASE DbomaticActs
  <2>1. ASSUME NEW v \in Vms, NEW n \in Nodes, ObjectUpdate(v, n) \/ ObjectGone(v, n)
        PROVE  tasks' = tasks
    BY <2>1 DEF ObjectUpdate, ObjectGone, UpdateProps, EnterUpdate, recordVars
  <2>2. ASSUME NEW v \in Vms, Resync(v) PROVE tasks' = tasks
    BY <2>2 DEF Resync, EnterUpdate
  <2>3. ASSUME UpdateVnc \/ UpdateAct \/ UpdateSave PROVE tasks' = tasks
    BY <2>3 DEF UpdateVnc, UpdateAct, UpdateSave, recordVars
  <2> QED BY <1>3, <1>s, <2>1, <2>2, <2>3 DEF DbomaticActs, DbomaticStep
<1>4. CASE TaskomaticDies \/ GuestStops \/ UNCHANGED vars
  BY <1>4, <1>s DEF TaskomaticDies, TaskomaticRestart, GuestStops, GuestPowerOff, vars, recordVars
<1> QED BY <1>1, <1>2, <1>3, <1>4 DEF Next

\* A completed task is never rewritten: neither by a cancel that comes too
\* late nor by taskomatic completing a task that was canceled meanwhile.
THEOREM CompletedIsFinal == Spec => CompletedTasksStay
<1>1. IInv /\ [Next]_vars =>
        [\A t \in TaskIds :
           tasks[t] # None /\ tasks[t].state \in CompletedStates
             => tasks'[t] \in {tasks[t], None}]_vars
  <2> SUFFICES ASSUME IInv, [Next]_vars, NEW t \in TaskIds,
                      tasks[t] # None, tasks[t].state \in CompletedStates
               PROVE  tasks'[t] \in {tasks[t], None}
    OBVIOUS
  <2>1. ~Queued(t)
    BY DEF Queued, CompletedStates
  <2> QED BY <2>1, NextTaskChange DEF TaskChange
<1> QED BY <1>1, Invariance, PTL DEF Spec, CompletedTasksStay


=============================================================================
