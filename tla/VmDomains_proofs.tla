--------------------------- MODULE VmDomains_proofs ---------------------------
(***************************************************************************)
(* Proofs about the domains and the rows, for any number of VMs, nodes,    *)
(* requests and tasks.                                                     *)
(*                                                                         *)
(* NeverOnTwoNodes: a VM never runs on two nodes, as long as taskomatic    *)
(* has not died and guests do not power themselves off, if no VM is saved  *)
(* to disk.  Each of the three leaves an inactive domain behind that       *)
(* nobody is about to undefine, and then the property is lost: a start     *)
(* that finds it takes another node.                                       *)
(*                                                                         *)
(* RowsSettle: when both daemons have nothing to do the rows say what the  *)
(* domains do, if VMs are only suspended, resumed and stopped, until       *)
(* taskomatic dies or a guest powers itself off.                           *)
(*                                                                         *)
(* RunningIsRecorded, RunningIsNotDeleted: what remains of it when         *)
(* taskomatic may die and guests may stop: the row of an active VM.        *)
(***************************************************************************)
EXTENDS VmSystem_proofs

-----------------------------------------------------------------------------
(***************************************************************************)
(* The invariant.                                                          *)
(***************************************************************************)

\* The tasks in the table, in taskomatic's hands and about to be queued have
\* actions in A.
TasksIn(A) == \A t \in TaskIds : tasks[t] # None => tasks[t].action \in A
JobsIn(A) ==
  /\ \A j \in tk.batch : j.action \in A
  /\ tk.pc \notin {"idle", "loop"} => tk.job.action \in A
Asked == \A r \in Requests :
  /\ web[r].op \in {"check", "insert"} => web[r].action \in Offered
  /\ web[r].op = "update" => "update" \in Services

Only(A) == TasksIn(A) /\ JobsIn(A) /\ Asked

\* What users may ask for leads to no other tasks.
Allowed(A) ==
  /\ Offered \subseteq A
  /\ "create" \in Services => {"create_vm", "start_vm"} \subseteq A
  /\ "update" \in Services => {"start_vm", "shutdown_vm"} \subseteq A

\* Nobody saves a VM to disk.
Unsaved == Action \ {"save_vm"}

\* Taskomatic has just made the domain of v on n inactive, or defined it, and
\* its next step removes or starts it.
Handled(v, n) ==
  /\ tk.pc \in {"create", "undefine", "undefine_off", "mig_undefine"} /\ Vm = v
  /\ n = IF tk.pc = "create" THEN tk.dst ELSE tk.src

\* An inactive domain is one that taskomatic is about to deal with ...
InactiveIsHandled ==
  \A v \in Vms : \A n \in Nodes : dom[v][n] = "shutoff" => Handled(v, n)

\* ... of two domains of a VM one is inactive ...
OneIsInactive ==
  \A v \in Vms : \A m, n \in Nodes :
    m # n /\ dom[v][m] # "none" /\ dom[v][n] # "none" => "shutoff" \in {dom[v][m], dom[v][n]}

\* ... a VM being started has no domain but the one being made ...
StartsAlone ==
  tk.pc \in {"host", "define", "create"} =>
    \A n \in Nodes :
      \/ dom[Vm][n] = "none"
      \/ tk.pc = "create" /\ n = tk.dst /\ dom[Vm][n] = "shutoff"

\* ... and one that migrates was found on a node.
MigratesFrom == tk.pc \in Migrating => tk.src \in Nodes

DomainsInv == InactiveIsHandled /\ OneIsInactive /\ StartsAlone /\ MigratesFrom

\* What is left of it when taskomatic is not dealing with a domain.
Calm == tk.pc \notin {"create", "undefine", "undefine_off", "mig_undefine"}

-----------------------------------------------------------------------------
(***************************************************************************)
(* No task has an action nobody may ask for.                               *)
(***************************************************************************)

\* New tasks carry the actions they were inserted for.
LEMMA InsertOnly ==
  ASSUME NEW A, IInv, TasksIn(A), NEW v, NEW actions, NEW args, Insert(v, actions, args),
         Len(actions) \in Nat, \A k \in 1..Len(actions) : actions[k] \in A
  PROVE  TasksIn(A)'
<1> SUFFICES ASSUME NEW t \in TaskIds, tasks'[t] # None PROVE tasks'[t].action \in A
  BY DEF TasksIn
<1>1. CASE t \in nextTask..(nextTask + Len(actions) - 1)
  <2>1. nextTask \in Nat
    BY MaxTasksAssumption DEF IInv, TasksInv
  <2>2. t - nextTask + 1 \in 1..Len(actions)
    BY <1>1, <2>1
  <2>3. tasks'[t].action = actions[t - nextTask + 1]
    BY <1>1 DEF Insert
  <2> QED BY <2>2, <2>3
<1>2. CASE t \notin nextTask..(nextTask + Len(actions) - 1)
  BY <1>2 DEF Insert, TasksIn
<1> QED BY <1>1, <1>2

\* The WUI queues what users may ask for, and starts, shutdowns and creations.
LEMMA WuiOnly ==
  ASSUME NEW A, Allowed(A), IInv, TasksIn(A), Asked, WuiActs
  PROVE  TasksIn(A)' /\ Asked'
<1>w. ASSUME NEW r \in Requests, web' = [web EXCEPT ![r] = Idle]
      PROVE  Asked'
  BY <1>w DEF Asked, Idle, IInv, WuiTypeOK
<1>t. ASSUME UNCHANGED tasks PROVE TasksIn(A)'
  BY <1>t DEF TasksIn
<1>1. ASSUME "create" \in Services, NEW v \in Vms, SvcCreate(v) PROVE TasksIn(A)' /\ Asked'
  <2>1. PICK actions \in {<<"create_vm", "start_vm">>, <<"create_vm">>} : Insert(v, actions, None)
    BY <1>1 DEF SvcCreate
  <2>2. Len(actions) \in Nat /\ \A k \in 1..Len(actions) : actions[k] \in A
    BY <1>1, <2>1 DEF Allowed
  <2>3. UNCHANGED web
    BY <1>1 DEF SvcCreate
  <2> QED BY <2>1, <2>2, <2>3, InsertOnly DEF Asked
<1>2. ASSUME NEW r \in Requests, WuiArrive(r) PROVE TasksIn(A)' /\ Asked'
  <2>1. UNCHANGED tasks
    BY <1>2 DEF WuiArrive, VmActionFind, UpdateFind, DestroyFind, CancelFind, recordVars
  <2>2. PICK op, action, args, ts :
          /\ op \in {"check", "update", "destroy", "cancel"}
          /\ Enter(r, op, action, args, ts) /\ (op = "check" => action \in Offered)
          /\ op = "update" => "update" \in Services
    BY <1>2 DEF WuiArrive, VmActionFind, UpdateFind, DestroyFind, CancelFind
  <2>3. Asked'
    BY <2>2 DEF Enter, Asked, IInv, WuiTypeOK
  <2> QED BY <1>t, <2>1, <2>3
<1>3. ASSUME NEW r \in Requests, VmActionCheck(r) PROVE TasksIn(A)' /\ Asked'
  <2>1. UNCHANGED tasks
    BY <1>3 DEF VmActionCheck
  <2>2. web' = [web EXCEPT ![r].op = "insert"] \/ web' = [web EXCEPT ![r] = Idle]
    BY <1>3 DEF VmActionCheck, Leave
  <2>3. web[r].action \in Offered
    BY <1>3 DEF VmActionCheck, Asked
  <2>4. ASSUME web' = [web EXCEPT ![r].op = "insert"] PROVE Asked'
    BY <2>3, <2>4 DEF Asked, IInv, WuiTypeOK
  <2> QED BY <1>t, <1>w, <2>1, <2>2, <2>4
<1>4. ASSUME NEW r \in Requests, VmActionInsert(r) PROVE TasksIn(A)' /\ Asked'
  <2>1. web[r].action \in Offered
    BY <1>4 DEF VmActionInsert, Asked
  <2>2. Insert(copy[r].vm, <<web[r].action>>, web[r].args) /\ web' = [web EXCEPT ![r] = Idle]
    BY <1>4 DEF VmActionInsert, Leave
  <2>3. /\ Len(<<web[r].action>>) \in Nat
        /\ \A k \in 1..Len(<<web[r].action>>) : <<web[r].action>>[k] \in A
    BY <2>1 DEF Allowed
  <2> QED BY <1>w, <2>2, <2>3, InsertOnly
<1>5. ASSUME NEW r \in Requests, UpdateCommit(r) PROVE TasksIn(A)' /\ Asked'
  <2>1. CASE \E actions \in UpdateQueues(copy[r].vm, copy[r].state) :
               Insert(copy[r].vm, actions, None)
    <3>1. PICK actions \in {<<>>, <<"start_vm">>, <<"shutdown_vm", "start_vm">>} :
            Insert(copy[r].vm, actions, None)
      BY <2>1 DEF UpdateQueues
    <3>0. {"start_vm", "shutdown_vm"} \subseteq A
      BY <1>5 DEF UpdateCommit, Asked, Allowed
    <3>2. Len(actions) \in Nat /\ \A k \in 1..Len(actions) : actions[k] \in A
      BY <3>0, <3>1
    <3> QED BY <1>5, <1>w, <3>1, <3>2, InsertOnly DEF UpdateCommit
  <2>2. CASE UNCHANGED tasks
    BY <1>5, <1>t, <1>w, <2>2 DEF UpdateCommit
  <2> QED BY <1>5, <2>1, <2>2 DEF UpdateCommit
<1>6. ASSUME NEW r \in Requests, DestroyCommit(r) PROVE TasksIn(A)' /\ Asked'
  BY <1>6, <1>w DEF DestroyCommit, TasksIn
<1>7. ASSUME NEW r \in Requests, CancelCommit(r) PROVE TasksIn(A)' /\ Asked'
  <2>1. web' = [web EXCEPT ![r] = Idle]
    BY <1>7 DEF CancelCommit, Leave
  <2>2. ASSUME NEW t \in TaskIds, \A u \in web[r].ts : Queued(u),
               tasks'[t] = IF t \in web[r].ts THEN [tasks[t] EXCEPT !.state = "canceled"]
                                              ELSE tasks[t]
        PROVE  tasks'[t] # None => tasks'[t].action \in A
    <3>1. CASE t \in web[r].ts
      <4>1. tasks[t] # None /\ tasks[t] \in TaskRow
        BY <2>2, <3>1 DEF Queued, IInv, TasksInv
      <4>2. tasks'[t].action = tasks[t].action
        BY <2>2, <3>1, <4>1 DEF TaskRow
      <4> QED BY <4>1, <4>2 DEF TasksIn
    <3>2. CASE t \notin web[r].ts
      BY <2>2, <3>2 DEF TasksIn
    <3> QED BY <3>1, <3>2
  <2>3. TasksIn(A)'
    BY <1>7, <1>t, <2>2 DEF CancelCommit, TasksIn
  <2> QED BY <1>w, <2>1, <2>3
<1> QED BY <1>1, <1>2, <1>3, <1>4, <1>5, <1>6, <1>7 DEF WuiActs, WuiStep, WuiContinue

\* Between its first step and task.save! a handler keeps its task.
HandlerStep ==
  \/ StartFindHost \/ DefineDomain \/ CreateDomain
  \/ DomainCommand \/ UndefineStopped \/ UndefineShutOff
  \/ ReloadVm \/ SetVmVncPort \/ SaveStartAttributes \/ SaveVmState
  \/ MarkReload \/ MarkMigrating
  \/ MigrateFindHost \/ MigrateDomain \/ MigrateUndefine
  \/ RevertReload \/ RevertState

\* Where the moves of a handler lead to.
LEMMA Moves ==
  ASSUME NEW k \in TkRecord
  PROVE  /\ \A l : /\ Goto(k, l).pc = l /\ Goto(k, l).job = k.job /\ Goto(k, l).batch = k.batch
                   /\ Goto(k, l).src = k.src /\ Goto(k, l).dst = k.dst
         /\ \A l, n : /\ [Goto(k, l) EXCEPT !.dst = n].pc = l
                      /\ [Goto(k, l) EXCEPT !.dst = n].dst = n
                      /\ [Goto(k, l) EXCEPT !.dst = n].job = k.job
                      /\ [Goto(k, l) EXCEPT !.dst = n].batch = k.batch
                      /\ [Goto(k, l) EXCEPT !.dst = n].src = k.src
         /\ \A r \in {Returned(k), Raised(k)} :
              r.pc = "finish" /\ r.job = k.job /\ r.batch = k.batch /\ r.src = k.src
BY DEF Goto, Returned, Raised, TkRecord

\* Until its handler returns, taskomatic keeps to the task it has begun.
LEMMA HandlerKeepsTask ==
  ASSUME IInv, HandlerStep
  PROVE  /\ tk.pc \notin {"idle", "loop"}
         /\ tk'.job = tk.job /\ tk'.batch = tk.batch /\ tk'.src = tk.src /\ tasks' = tasks
<1>0. tk \in TkRecord
  BY TkIsRecord
<1> DEFINE Moved ==
             \/ tk' \in {Returned(tk), Raised(tk)}
             \/ \E l : tk' = Goto(tk, l)
             \/ \E l, n : tk' = [Goto(tk, l) EXCEPT !.dst = n]
<1>m. ASSUME Moved PROVE tk'.job = tk.job /\ tk'.batch = tk.batch /\ tk'.src = tk.src
  <2>1. CASE tk' \in {Returned(tk), Raised(tk)}
    BY <1>0, <2>1, Moves
  <2>2. CASE \E l : tk' = Goto(tk, l)
    <3>1. PICK l : tk' = Goto(tk, l)
      BY <2>2
    <3> QED BY <1>0, <3>1, Moves
  <2>3. CASE \E l, n : tk' = [Goto(tk, l) EXCEPT !.dst = n]
    <3>1. PICK l, n : tk' = [Goto(tk, l) EXCEPT !.dst = n]
      BY <2>3
    <3> QED BY <1>0, <3>1, Moves
  <2> QED BY <1>m, <2>1, <2>2, <2>3
<1>1. CASE \/ StartFindHost \/ DefineDomain \/ CreateDomain
           \/ DomainCommand \/ UndefineStopped \/ UndefineShutOff
  <2>1. tk.pc \notin {"idle", "loop"} /\ tasks' = tasks
    BY <1>1 DEF StartFindHost, DefineDomain, CreateDomain, DomainCommand,
       UndefineStopped, UndefineShutOff, UndefineDomain, At, recordVars
  <2>2. Moved
    BY <1>1 DEF StartFindHost, DefineDomain, CreateDomain, DomainCommand,
       UndefineStopped, UndefineShutOff, UndefineDomain
  <2> QED BY <1>m, <2>1, <2>2
<1>2. CASE \/ ReloadVm \/ MarkReload \/ RevertReload
  BY <1>0, <1>2, Moves DEF ReloadVm, MarkReload, RevertReload, Reload, At
<1>3. CASE \/ SetVmVncPort \/ SaveStartAttributes \/ SaveVmState
           \/ MarkMigrating \/ RevertState
  BY <1>0, <1>3, Moves DEF SetVmVncPort, SaveStartAttributes, SaveVmState, MarkMigrating,
     RevertState, SaveVm, At
<1>4. CASE \/ MigrateFindHost \/ MigrateDomain \/ MigrateUndefine
  <2>1. tk.pc \notin {"idle", "loop"} /\ tasks' = tasks
    BY <1>4 DEF MigrateFindHost, MigrateDomain, MigrateUndefine, At, recordVars
  <2>2. Moved
    BY <1>4 DEF MigrateFindHost, MigrateDomain, MigrateUndefine
  <2> QED BY <1>m, <2>1, <2>2
<1> QED BY <1>1, <1>2, <1>3, <1>4 DEF HandlerStep

\* Beginning a task: where the handler goes on, and what that tells.
LEMMA BeginMoves ==
  ASSUME IInv, NEW j \in tk.batch, BeginTask(j)
  PROVE  /\ tk.pc = "loop" /\ UNCHANGED <<tasks, libvirtVars>>
         /\ tk'.job = j /\ tk'.batch = tk.batch \ {j}
         /\ tk'.pc \in {"finish", "save", "host", "cmd", "undefine_off", "mark"}
         /\ tk'.pc = "host" => \E o \in Lookup(j.vm) : StateAt(j.vm, o) \notin {"running", "paused"}
         /\ tk'.pc = "mark" => tk'.src # None /\ tk'.src \in Lookup(j.vm)
<1> DEFINE k == Take(j)
<1>0. k \in TkRecord /\ k.job = j /\ k.batch = tk.batch \ {j}
  BY TkIsRecord, TakeType DEF Take, TkRecord
<1>s. \A l, o : LET r == [Goto(k, l) EXCEPT !.src = o]
                IN  r.pc = l /\ r.job = j /\ r.batch = tk.batch \ {j} /\ r.src = o
  BY <1>0 DEF Goto, TkRecord
<1>m. \A o, s : LET r == [Goto(k, "mark") EXCEPT !.src = o, !.orig = s]
                IN  r.pc = "mark" /\ r.job = j /\ r.batch = tk.batch \ {j} /\ r.src = o
  BY <1>0 DEF Goto, TkRecord
<1>e. /\ \A l : Goto(k, l).pc = l /\ Goto(k, l).job = j /\ Goto(k, l).batch = tk.batch \ {j}
      /\ \A r \in {Returned(k), Raised(k)} :
              r.pc = "finish" /\ r.job = j /\ r.batch = tk.batch \ {j}
  BY <1>0, Moves
<1>1. tk.pc = "loop" /\ UNCHANGED <<tasks, libvirtVars>>
  BY DEF BeginTask, TaskVmMissing, TaskCreateVm, TaskStartVm, TaskShutdownOrDestroyVm,
     TaskSuspendVm, TaskResumeVm, TaskSaveOrRestoreVm, TaskMigrateVm, Begin, At, recordVars
<1>2. \/ tk' \in {Returned(k), Raised(k), Goto(k, "save")}
      \/ /\ tk' = Goto(k, "host")
         /\ \E o \in Lookup(j.vm) : StateAt(j.vm, o) \notin {"running", "paused"}
      \/ \E o \in Lookup(j.vm), l \in {"cmd", "undefine_off"} : tk' = [Goto(k, l) EXCEPT !.src = o]
      \/ \E o \in Lookup(j.vm) \ {None} : \E s :
           tk' = [Goto(k, "mark") EXCEPT !.src = o, !.orig = s]
  <2> HIDE DEF k
  <2>1. CASE TaskVmMissing(j) \/ TaskCreateVm(j) \/ TaskStartVm(j)
    BY <2>1 DEF TaskVmMissing, TaskCreateVm, TaskStartVm, k
  <2>2. CASE TaskShutdownOrDestroyVm(j) \/ TaskSuspendVm(j)
    BY <2>2 DEF TaskShutdownOrDestroyVm, TaskSuspendVm, k
  <2>3. CASE TaskResumeVm(j) \/ TaskSaveOrRestoreVm(j)
    BY <2>3 DEF TaskResumeVm, TaskSaveOrRestoreVm, k
  <2>4. CASE TaskMigrateVm(j)
    BY <2>4 DEF TaskMigrateVm, k
  <2> QED BY <2>1, <2>2, <2>3, <2>4 DEF BeginTask
<1> HIDE DEF k
<1>3. CASE tk' \in {Returned(k), Raised(k), Goto(k, "save")}
  BY <1>1, <1>3, <1>e
<1>4. CASE /\ tk' = Goto(k, "host")
           /\ \E o \in Lookup(j.vm) : StateAt(j.vm, o) \notin {"running", "paused"}
  BY <1>1, <1>4, <1>e
<1>5. CASE \E o \in Lookup(j.vm), l \in {"cmd", "undefine_off"} : tk' = [Goto(k, l) EXCEPT !.src = o]
  BY <1>1, <1>5, <1>s
<1>6. CASE \E o \in Lookup(j.vm) \ {None} : \E s :
             tk' = [Goto(k, "mark") EXCEPT !.src = o, !.orig = s]
  <2>0. PICK o \in Lookup(j.vm) \ {None} : \E s :
               tk' = [Goto(k, "mark") EXCEPT !.src = o, !.orig = s]
    BY <1>6
  <2>1. PICK s : tk' = [Goto(k, "mark") EXCEPT !.src = o, !.orig = s]
    BY <2>0
  <2>2. tk'.pc = "mark" /\ tk'.job = j /\ tk'.batch = tk.batch \ {j} /\ tk'.src = o
    BY <2>1, <1>m
  <2> QED BY <1>1, <2>1, <2>2
<1> QED BY <1>2, <1>3, <1>4, <1>5, <1>6

\* Taskomatic takes its jobs from the table, and keeps the actions there.
LEMMA TaskomaticOnly ==
  ASSUME NEW A, IInv, TasksIn(A), JobsIn(A), TaskomaticActs
  PROVE  TasksIn(A)' /\ JobsIn(A)'
<1>1. CASE Poll
  <2>1. \A t \in QueuedTasks : JobOf(t).action \in A
    BY DEF QueuedTasks, Queued, JobOf, TasksIn
  <2>2. tk \in TkRecord /\ UNCHANGED tasks
    BY <1>1, TkIsRecord DEF Poll, recordVars
  <2>3. \/ tk' = tk
        \/ /\ tk'.pc = "loop"
           /\ tk'.batch = {JobOf(t) : t \in QueuedTasks}
    BY <1>1, <2>2 DEF Poll, TkRecord
  <2> QED BY <2>1, <2>2, <2>3 DEF TasksIn, JobsIn
<1>2. CASE \E j \in tk.batch : BeginTask(j)
  BY <1>2, BeginMoves DEF TasksIn, JobsIn
<1>3. CASE HandlerStep
  BY <1>3, HandlerKeepsTask DEF TasksIn, JobsIn
<1>4. CASE FinishTask
  <2>1. tk \in TkRecord
    BY TkIsRecord
  <2>2. tk'.batch = tk.batch /\ tk'.pc \in {"idle", "loop"}
    BY <1>4, <2>1 DEF FinishTask, TkRecord
  <2>3. TasksIn(A)'
    <3>1. PICK s : SetTaskState(tk.job.id, s)
      BY <1>4 DEF FinishTask
    <3>2. CASE Queued(tk.job.id)
      <4>1. tk.job.id \in TaskIds
        BY <1>4, <2>1 DEF FinishTask, At, IInv, TaskomaticHolds, Job
      <4>2. tasks[tk.job.id] # None /\ tasks[tk.job.id] \in TaskRow
        BY <3>2, <4>1 DEF Queued, IInv, TasksInv
      <4>3. [tasks[tk.job.id] EXCEPT !.state = s].action = tasks[tk.job.id].action
        BY <4>2 DEF TaskRow
      <4> QED BY <3>1, <3>2, <4>2, <4>3 DEF SetTaskState, TasksIn, IInv, TasksInv
    <3> QED BY <3>1, <3>2 DEF SetTaskState, TasksIn
  <2> QED BY <2>2, <2>3 DEF JobsIn
<1> QED BY <1>1, <1>2, <1>3, <1>4 DEF TaskomaticActs, TaskomaticStep, HandlerStep

-----------------------------------------------------------------------------
(***************************************************************************)
(* The domains.                                                            *)
(***************************************************************************)

\* The places of a handler that is not migrating, and of one that was not.
LEMMA HandlerMigrates ==
  ASSUME IInv, HandlerStep, tk'.pc \in Migrating
  PROVE  tk.pc \in Migrating
<1>0. tk \in TkRecord
  BY TkIsRecord
<1>g. /\ \A l : Goto(tk, l).pc = l
      /\ \A l, n : [Goto(tk, l) EXCEPT !.dst = n].pc = l
      /\ Returned(tk).pc = "finish" /\ Raised(tk).pc = "finish"
  BY <1>0, Moves
<1>1. CASE MarkReload \/ MarkMigrating \/ MigrateFindHost \/ MigrateDomain \/ MigrateUndefine
           \/ RevertReload \/ RevertState
  BY <1>1 DEF MarkReload, MarkMigrating, MigrateFindHost, MigrateDomain, MigrateUndefine,
     RevertReload, RevertState, Reload, SaveVm, At, Migrating
<1>2. CASE StartFindHost \/ DefineDomain \/ CreateDomain
  <2>1. \/ tk' = Raised(tk) \/ tk' = Goto(tk, "create") \/ tk' = Goto(tk, "reload")
        \/ \E n : tk' = [Goto(tk, "define") EXCEPT !.dst = n]
    BY <1>2 DEF StartFindHost, DefineDomain, CreateDomain
  <2>2. ASSUME NEW n, tk' = [Goto(tk, "define") EXCEPT !.dst = n] PROVE tk'.pc = "define"
    BY <1>0, <2>2, Moves
  <2> QED BY <1>g, <2>1, <2>2 DEF Migrating
<1>3. CASE DomainCommand \/ UndefineStopped \/ UndefineShutOff
  <2>1. tk' \in {Raised(tk), Returned(tk), Goto(tk, "undefine"), Goto(tk, "reload"), Goto(tk, "save")}
    BY <1>3 DEF DomainCommand, UndefineStopped, UndefineShutOff, UndefineDomain
  <2> QED BY <1>g, <2>1 DEF Migrating
<1>4. CASE ReloadVm
  <2>1. tk' \in {Raised(tk), Goto(tk, "vnc_port"), Goto(tk, "save")}
    BY <1>4 DEF ReloadVm, Reload
  <2> QED BY <1>g, <2>1 DEF Migrating
<1>5. CASE SetVmVncPort \/ SaveStartAttributes \/ SaveVmState
  <2>1. tk' \in {Raised(tk), Returned(tk), Goto(tk, "attrs"), Goto(tk, "save")}
    BY <1>5 DEF SetVmVncPort, SaveStartAttributes, SaveVmState, SaveVm
  <2> QED BY <1>g, <2>1 DEF Migrating
<1> QED BY <1>1, <1>2, <1>3, <1>4, <1>5 DEF HandlerStep

\* What a call does to the domains of all VMs.
LEMMA SetDomainEffect ==
  ASSUME LibvirtTypeOK, NEW v \in Vms, NEW n, NEW s, SetDomain(v, n, s)
  PROVE  \A w \in Vms : \A m \in Nodes :
           dom'[w][m] = IF w = v /\ m = n THEN s ELSE dom[w][m]
BY DEF LibvirtTypeOK, SetDomain

\* With nothing under way no domain is inactive and no VM has two; so it
\* stays if nothing is done and no start begins.
LEMMA CalmDomains ==
  ASSUME DomainsInv, Calm
  PROVE  /\ \A v \in Vms : \A n \in Nodes : dom[v][n] # "shutoff"
         /\ \A v \in Vms : \A m, n \in Nodes : dom[v][m] # "none" /\ dom[v][n] # "none" => m = n
BY DEF DomainsInv, InactiveIsHandled, OneIsInactive, Handled, Calm

\* While no inactive domain is being handled, a step that leaves the domains alone
\* and begins no start preserves DomainsInv.
LEMMA CalmStep ==
  ASSUME DomainsInv, Calm, UNCHANGED dom, tk'.pc \notin {"host", "define", "create"},
         tk'.pc \in Migrating => tk'.src \in Nodes
  PROVE  DomainsInv'
<1>1. InactiveIsHandled' /\ OneIsInactive'
  BY CalmDomains DEF InactiveIsHandled, OneIsInactive
<1>2. StartsAlone' /\ MigratesFrom'
  BY DEF StartsAlone, MigratesFrom
<1> QED BY <1>1, <1>2 DEF DomainsInv

\* A handler that starts a VM has found no domain of it.
LEMMA BeginDomains ==
  ASSUME IInv, DomainsInv, NEW j \in tk.batch, BeginTask(j)
  PROVE  DomainsInv'
<1>1. /\ Calm /\ UNCHANGED dom /\ j.vm \in Vms
      /\ tk'.job = j /\ tk'.pc \in {"finish", "save", "host", "cmd", "undefine_off", "mark"}
  BY BeginMoves, TkIsRecord, TakeType DEF Calm, libvirtVars, Job
<1>2. CASE tk'.pc = "host"
  <2>1. PICK o \in Lookup(j.vm) : StateAt(j.vm, o) \notin {"running", "paused"}
    BY <1>2, BeginMoves
  <2>2. \A n \in Nodes : dom[j.vm][n] \in {"none", "running", "paused"}
    BY <1>1, CalmDomains DEF IInv, LibvirtTypeOK, DomainState
  <2>3. \A n \in Nodes : dom[j.vm][n] = "none"
    BY <2>1, <2>2, NodesAssumption DEF Lookup, StateAt
  <2>4. StartsAlone'
    BY <1>1, <2>3 DEF StartsAlone, Vm
  <2>5. InactiveIsHandled' /\ OneIsInactive'
    BY <1>1, CalmDomains DEF InactiveIsHandled, OneIsInactive
  <2>6. MigratesFrom'
    BY <1>2 DEF MigratesFrom, Migrating
  <2> QED BY <2>4, <2>5, <2>6 DEF DomainsInv
<1>3. CASE tk'.pc # "host"
  <2>1. tk'.pc \in Migrating => tk'.src \in Nodes
    BY <1>1, BeginMoves, LookupType DEF Migrating
  <2> QED BY <1>1, <1>3, <2>1, CalmStep
<1> QED BY <1>2, <1>3

\* The steps of a handler: a start makes the only domain of its VM, and an
\* inactive one is gone before the handler goes on.
LEMMA HandlerDomains ==
  ASSUME IInv, DomainsInv, JobsIn(Unsaved), HandlerStep
  PROVE  DomainsInv'
<1>0. /\ tk \in TkRecord /\ tk.pc \notin {"idle", "loop"} /\ Vm \in Vms /\ Vm = tk.job.vm
      /\ tk'.job = tk.job /\ tk'.src = tk.src /\ Vm' = Vm
  BY TkIsRecord, HandlerKeepsTask DEF IInv, TaskomaticHolds, Job, Vm
<1>f. MigratesFrom'
  BY <1>0, HandlerMigrates DEF DomainsInv, MigratesFrom
<1>c. ASSUME Calm, UNCHANGED dom, tk'.pc \notin {"host", "define", "create"}
      PROVE  DomainsInv'
  BY <1>c, <1>f, CalmStep DEF MigratesFrom
<1>g. /\ \A l : Goto(tk, l).pc = l /\ Goto(tk, l).dst = tk.dst
      /\ Returned(tk).pc = "finish" /\ Raised(tk).pc = "finish"
      /\ \A l, n : [Goto(tk, l) EXCEPT !.dst = n].pc = l
  BY <1>0, Moves
<1>t. LibvirtTypeOK /\ \A v \in Vms : \A n \in Nodes : dom[v][n] \in DomainState
  BY DEF IInv, LibvirtTypeOK
\* An undefined domain is gone; then nothing is left to handle.
<1>u. ASSUME tk.pc \in {"create", "undefine", "undefine_off", "mig_undefine"},
             NEW n, n = IF tk.pc = "create" THEN tk.dst ELSE tk.src,
             IF Undefinable(Vm, n) THEN Undefine(Vm, n) ELSE UNCHANGED libvirtVars,
             tk'.pc \notin {"host", "define", "create"}
      PROVE  DomainsInv'
  <2>1. \A v \in Vms : \A m \in Nodes :
          dom'[v][m] = IF dom[v][m] = "shutoff" THEN "none" ELSE dom[v][m]
    <3>1. \A v \in Vms : \A m \in Nodes : dom[v][m] = "shutoff" => v = Vm /\ m = n
      BY <1>u DEF DomainsInv, InactiveIsHandled, Handled
    <3>2. CASE Undefinable(Vm, n)
      <4>1. \A v \in Vms : \A m \in Nodes :
               dom'[v][m] = IF v = Vm /\ m = n THEN "none" ELSE dom[v][m]
        BY <1>0, <1>t, <1>u, <3>2, SetDomainEffect DEF Undefine
      <4> QED BY <3>1, <3>2, <4>1 DEF Undefinable
    <3>3. CASE ~Undefinable(Vm, n)
      BY <1>u, <3>1, <3>3 DEF Undefinable, libvirtVars
    <3> QED BY <3>2, <3>3
  <2>2. InactiveIsHandled' /\ OneIsInactive'
    BY <2>1 DEF DomainsInv, InactiveIsHandled, OneIsInactive
  <2>3. StartsAlone'
    BY <1>u DEF StartsAlone
  <2> QED BY <1>f, <2>2, <2>3 DEF DomainsInv
<1>1. CASE StartFindHost
  <2>1. tk.pc = "host" /\ UNCHANGED dom
    BY <1>1 DEF StartFindHost, At, libvirtVars
  <2>2. CASE tk' = Raised(tk)
    BY <1>c, <1>g, <2>1, <2>2 DEF Calm
  <2>3. CASE \E n \in Capable(Vm) : tk' = [Goto(tk, "define") EXCEPT !.dst = n]
    <3>1. PICK n : tk' = [Goto(tk, "define") EXCEPT !.dst = n]
      BY <2>3
    <3>2. tk'.pc = "define"
      BY <1>g, <3>1
    <3>3. StartsAlone'
      BY <1>0, <2>1, <3>2 DEF DomainsInv, StartsAlone
    <3>4. InactiveIsHandled' /\ OneIsInactive'
      BY <2>1, CalmDomains DEF Calm, InactiveIsHandled, OneIsInactive
    <3> QED BY <1>f, <3>3, <3>4 DEF DomainsInv
  <2> QED BY <1>1, <2>2, <2>3 DEF StartFindHost
<1>2. CASE DefineDomain
  <2>1. tk.pc = "define"
    BY <1>2 DEF DefineDomain, At
  <2>2. CASE tk' = Raised(tk) /\ UNCHANGED libvirtVars
    BY <1>c, <1>g, <2>1, <2>2 DEF Calm, libvirtVars
  <2>3. CASE /\ tk' = Goto(tk, "create")
             /\ SetDomain(Vm, tk.dst, IF Active(Vm, tk.dst) THEN dom[Vm][tk.dst] ELSE "shutoff")
    <3>1. tk'.pc = "create" /\ tk'.dst = tk.dst /\ tk.dst \in Nodes
      BY <1>g, <2>1, <2>3 DEF IInv, TaskomaticHolds
    <3>2. \A n \in Nodes : dom[Vm][n] = "none"
      BY <2>1 DEF DomainsInv, StartsAlone
    <3>3. \A v \in Vms : \A n \in Nodes :
            dom'[v][n] = IF v = Vm /\ n = tk.dst THEN "shutoff" ELSE dom[v][n]
      BY <1>0, <1>t, <2>3, <3>1, <3>2, SetDomainEffect DEF Active
    <3>4. StartsAlone'
      BY <1>0, <3>1, <3>2, <3>3 DEF StartsAlone
    <3>5. InactiveIsHandled'
      BY <1>0, <2>1, <3>1, <3>3, CalmDomains DEF Calm, InactiveIsHandled, Handled
    <3>6. OneIsInactive'
      BY <1>0, <3>3 DEF DomainsInv, OneIsInactive
    <3> QED BY <1>f, <3>4, <3>5, <3>6 DEF DomainsInv
  <2> QED BY <1>2, <2>2, <2>3 DEF DefineDomain
<1>3. CASE CreateDomain
  <2>1. tk.pc = "create"
    BY <1>3 DEF CreateDomain, At
  <2>2. CASE SetDomain(Vm, tk.dst, "running") /\ tk' = Goto(tk, "reload")
    <3>1. \A v \in Vms : \A n \in Nodes :
            dom'[v][n] = IF v = Vm /\ n = tk.dst THEN "running" ELSE dom[v][n]
      BY <1>0, <1>t, <2>2, SetDomainEffect
    <3>2. \A n \in Nodes : n # tk.dst => dom'[Vm][n] = "none"
      BY <1>0, <2>1, <3>1 DEF DomainsInv, StartsAlone
    <3>3. \A v \in Vms : \A n \in Nodes : dom'[v][n] # "shutoff"
      BY <1>0, <2>1, <3>1 DEF DomainsInv, InactiveIsHandled, Handled
    <3>4. OneIsInactive'
      BY <1>0, <3>1, <3>2 DEF DomainsInv, OneIsInactive
    <3>5. tk'.pc = "reload"
      BY <1>g, <2>2
    <3> QED BY <1>f, <3>3, <3>4, <3>5 DEF DomainsInv, InactiveIsHandled, StartsAlone
  <2>3. CASE /\ IF Undefinable(Vm, tk.dst) THEN Undefine(Vm, tk.dst) ELSE UNCHANGED libvirtVars
             /\ tk' = Raised(tk)
    BY <1>g, <1>u, <2>1, <2>3
  <2> QED BY <1>3, <2>2, <2>3 DEF CreateDomain
<1>4. CASE DomainCommand
  <2>1. tk.pc = "cmd" /\ Calm
    BY <1>4 DEF DomainCommand, At, Calm
  <2>2. CASE tk' = Raised(tk) /\ UNCHANGED libvirtVars
    BY <1>c, <1>g, <2>1, <2>2 DEF libvirtVars
  <2>3. CASE \E s \in CommandEffect(Vm, tk.src) :
               /\ SetDomain(Vm, tk.src, s)
               /\ tk' = Goto(tk, IF Doing({"shutdown_vm", "poweroff_vm"}) THEN "undefine"
                                                                          ELSE "reload")
    <3>1. PICK s \in CommandEffect(Vm, tk.src) : SetDomain(Vm, tk.src, s)
      BY <2>3
    <3>2. \A v \in Vms : \A n \in Nodes :
            dom'[v][n] = IF v = Vm /\ n = tk.src THEN s ELSE dom[v][n]
      BY <1>0, <1>t, <3>1, SetDomainEffect
    <3>3. tk'.pc = IF Doing({"shutdown_vm", "poweroff_vm"}) THEN "undefine" ELSE "reload"
      BY <1>g, <2>3
    <3>4. tk.src \in Nodes => /\ dom[Vm][tk.src] # "none"
                              /\ s = "shutoff" => Doing({"poweroff_vm"})
      <4>1. ~Doing({"save_vm"})
        BY <2>1 DEF JobsIn, Unsaved, Doing
      <4>2. tk.src \in Nodes => dom[Vm][tk.src] # "shutoff"
        BY <1>0, <2>1, CalmDomains
      <4> QED BY <3>1, <4>1, <4>2 DEF CommandEffect, Active, Off, Doing
    <3>5. InactiveIsHandled'
      <4> SUFFICES ASSUME NEW v \in Vms, NEW n \in Nodes, dom'[v][n] = "shutoff"
                   PROVE  Handled(v, n)'
        BY DEF InactiveIsHandled
      <4>1. v = Vm /\ n = tk.src /\ s = "shutoff"
        BY <2>1, <3>2, CalmDomains
      <4>2. tk'.pc = "undefine"
        BY <3>3, <3>4, <4>1 DEF Doing
      <4> QED BY <1>0, <4>1, <4>2 DEF Handled
    <3>6. OneIsInactive'
      BY <1>0, <2>1, <3>2, <3>4, CalmDomains DEF OneIsInactive
    <3> QED BY <1>f, <3>3, <3>5, <3>6 DEF DomainsInv, StartsAlone
  <2> QED BY <1>4, <2>2, <2>3 DEF DomainCommand
<1>5. CASE UndefineStopped \/ UndefineShutOff
  <2>1. /\ tk.pc \in {"undefine", "undefine_off"}
        /\ IF Undefinable(Vm, tk.src) THEN Undefine(Vm, tk.src) ELSE UNCHANGED libvirtVars
        /\ tk' \in {Goto(tk, "save"), Returned(tk)}
    BY <1>5 DEF UndefineStopped, UndefineShutOff, UndefineDomain, At
  <2> QED BY <1>g, <1>u, <2>1
<1>6. CASE MigrateDomain
  <2>1. tk.pc = "mig" /\ Calm /\ tk' = Goto(tk, "mig_undefine") /\ tk'.pc = "mig_undefine"
    BY <1>6, <1>g DEF MigrateDomain, At, Calm
  <2>2. CASE UNCHANGED libvirtVars
    BY <1>c, <2>1, <2>2 DEF libvirtVars
  <2>3. CASE /\ tk.src # tk.dst /\ Active(Vm, tk.src) /\ ~Active(Vm, tk.dst)
             /\ dom' = [dom EXCEPT ![Vm][tk.src] = Off(Vm, tk.src), ![Vm][tk.dst] = dom[Vm][tk.src]]
    <3>1. tk.src \in Nodes
      BY <2>1 DEF DomainsInv, MigratesFrom, Migrating
    <3>2. \A v \in Vms : \A n \in Nodes :
            dom'[v][n] = IF v # Vm THEN dom[v][n]
                         ELSE IF n = tk.src THEN Off(Vm, tk.src)
                         ELSE IF n = tk.dst THEN dom[Vm][tk.src] ELSE dom[Vm][n]
      BY <1>0, <1>t, <2>3 DEF LibvirtTypeOK
    <3>3. \A n \in Nodes : n # tk.src => dom[Vm][n] = "none"
      BY <1>0, <2>1, <2>3, <3>1, CalmDomains DEF Active
    <3>4. Off(Vm, tk.src) \in {"none", "shutoff"} /\ dom[Vm][tk.src] \notin {"none", "shutoff"}
      BY <2>3 DEF Off, Active
    <3>5. InactiveIsHandled'
      <4>1. \A v \in Vms : \A n \in Nodes : dom'[v][n] = "shutoff" => v = Vm /\ n = tk.src
        BY <1>0, <2>1, <3>2, <3>3, <3>4, CalmDomains
      <4> QED BY <1>0, <2>1, <4>1 DEF InactiveIsHandled, Handled
    <3>6. OneIsInactive'
      <4> SUFFICES ASSUME NEW v \in Vms, NEW m \in Nodes, NEW n \in Nodes, m # n,
                          dom'[v][m] # "none", dom'[v][n] # "none"
                   PROVE  "shutoff" \in {dom'[v][m], dom'[v][n]}
        BY DEF OneIsInactive
      <4>1. CASE v # Vm
        BY <2>1, <3>2, <4>1, CalmDomains
      <4>2. CASE v = Vm
        <5>1. {m, n} \subseteq {tk.src, tk.dst}
          BY <1>0, <3>2, <3>3, <4>2
        <5> QED BY <1>0, <3>2, <3>4, <4>2, <5>1
      <4> QED BY <4>1, <4>2
    <3> QED BY <1>f, <2>1, <3>5, <3>6 DEF DomainsInv, StartsAlone
  <2> QED BY <1>6, <2>2, <2>3 DEF MigrateDomain
<1>7. CASE MigrateUndefine
  <2>1. /\ tk.pc = "mig_undefine"
        /\ IF Undefinable(Vm, tk.src) THEN Undefine(Vm, tk.src) ELSE UNCHANGED libvirtVars
        /\ tk' \in {Goto(tk, "reload"), Goto(tk, "revert")}
    BY <1>7 DEF MigrateUndefine, At
  <2> QED BY <1>g, <1>u, <2>1
<1>8. CASE MigrateFindHost
  <2>1. /\ tk.pc = "mig_host" /\ Calm /\ UNCHANGED dom
        /\ tk' = Goto(tk, "revert") \/ \E n : tk' = [Goto(tk, "mig") EXCEPT !.dst = n]
    BY <1>8 DEF MigrateFindHost, At, Calm, libvirtVars
  <2>2. tk'.pc \in {"revert", "mig"}
    BY <1>g, <2>1
  <2> QED BY <1>c, <2>1, <2>2
<1>9. CASE ReloadVm \/ MarkReload \/ RevertReload
  <2>1. /\ tk.pc \in {"reload", "mark", "revert"} /\ UNCHANGED dom
        /\ tk' \in {Raised(tk), Goto(tk, "vnc_port"), Goto(tk, "save"), Goto(tk, "mark_save"),
                    Goto(tk, "revert_save")}
    BY <1>9 DEF ReloadVm, MarkReload, RevertReload, Reload, At, libvirtVars
  <2> QED BY <1>c, <1>g, <2>1 DEF Calm
<1>10. CASE SetVmVncPort \/ SaveStartAttributes \/ SaveVmState \/ MarkMigrating \/ RevertState
  <2>1. /\ tk.pc \in {"vnc_port", "attrs", "save", "mark_save", "revert_save"} /\ UNCHANGED dom
        /\ tk' \in {Raised(tk), Returned(tk), Goto(tk, "attrs"), Goto(tk, "save"), Goto(tk, "mig_host")}
    BY <1>10 DEF SetVmVncPort, SaveStartAttributes, SaveVmState, MarkMigrating, RevertState,
       SaveVm, At, libvirtVars
  <2> QED BY <1>c, <1>g, <2>1 DEF Calm
<1> QED BY <1>1, <1>2, <1>3, <1>4, <1>5, <1>6, <1>7, <1>8, <1>9, <1>10 DEF HandlerStep

\* While taskomatic looks for work or completes a task nothing happens to the
\* domains ...
LEMMA PollAndFinishDomains ==
  ASSUME IInv, DomainsInv, Poll \/ FinishTask
  PROVE  DomainsInv'
<1>0. tk \in TkRecord
  BY TkIsRecord
<1>1. Calm /\ UNCHANGED dom
  BY DEF Poll, FinishTask, At, Calm, libvirtVars
<1>2. tk'.pc \in {"idle", "loop"}
  BY <1>0 DEF Poll, FinishTask, At, TkRecord
<1> QED BY <1>1, <1>2, CalmStep DEF Migrating

\* ... which leaves the steps of its handlers.
LEMMA TaskomaticDomains ==
  ASSUME IInv, DomainsInv, JobsIn(Unsaved), TaskomaticActs
  PROVE  DomainsInv'
BY PollAndFinishDomains, BeginDomains, HandlerDomains DEF TaskomaticActs, TaskomaticStep, HandlerStep

\* A step that leaves the domains and taskomatic alone.
LEMMA DomainsStay ==
  ASSUME DomainsInv, UNCHANGED <<dom, tk>>
  PROVE  DomainsInv'
BY DEF DomainsInv, InactiveIsHandled, Handled, OneIsInactive, StartsAlone, MigratesFrom, Vm

\* db-omatic may be quicker than taskomatic to undefine the inactive domain
\* taskomatic is dealing with.
LEMMA DbomaticDomains ==
  ASSUME IInv, DomainsInv, DbomaticActs
  PROVE  DomainsInv'
<1>0. UNCHANGED tk
  BY DEF DbomaticActs
<1>1. CASE \E v \in Vms, n \in Nodes : ObjectUpdate(v, n) \/ ObjectGone(v, n)
  <2>1. UNCHANGED dom
    BY <1>1 DEF ObjectUpdate, ObjectGone, UpdateProps, EnterUpdate
  <2> QED BY <1>0, <2>1, DomainsStay
<1>2. CASE (\E v \in Vms : Resync(v)) \/ UpdateVnc \/ UpdateSave
  <2>1. UNCHANGED dom
    BY <1>2 DEF Resync, EnterUpdate, UpdateVnc, UpdateSave, libvirtVars
  <2> QED BY <1>0, <2>1, DomainsStay
<1>3. CASE UpdateAct
  <2>1. CASE UNCHANGED dom
    BY <1>0, <2>1, DomainsStay
  <2>2. CASE \E o \in Lookup(dbo.vm) : o # None /\ Undefinable(dbo.vm, o) /\ Undefine(dbo.vm, o)
    <3>1. PICK o \in Lookup(dbo.vm) :
            o # None /\ Undefinable(dbo.vm, o) /\ Undefine(dbo.vm, o)
      BY <2>2
    <3>2. dbo.vm \in Vms
      BY <1>3 DEF UpdateAct, IInv, DbomaticHolds
    <3>3. \A v \in Vms : \A n \in Nodes :
            dom'[v][n] = IF v = dbo.vm /\ n = o THEN "none" ELSE dom[v][n]
      BY <3>1, <3>2, SetDomainEffect DEF Undefine, IInv
    <3>4. InactiveIsHandled' /\ OneIsInactive'
      BY <1>0, <3>3 DEF DomainsInv, InactiveIsHandled, Handled, OneIsInactive, Vm
    <3>5. StartsAlone'
      <4> SUFFICES ASSUME tk.pc \in {"host", "define", "create"}, NEW n \in Nodes
                   PROVE  \/ dom'[Vm][n] = "none"
                          \/ tk.pc = "create" /\ n = tk.dst /\ dom'[Vm][n] = "shutoff"
        BY <1>0 DEF StartsAlone, Vm
      <4>1. Vm \in Vms
        BY DEF IInv, TaskomaticHolds, Vm, Job
      <4> QED BY <3>3, <4>1 DEF DomainsInv, StartsAlone
    <3> QED BY <1>0, <3>4, <3>5 DEF DomainsInv, MigratesFrom
  <2>3. UNCHANGED dom \/ \E o \in Lookup(dbo.vm) :
                            o # None /\ Undefinable(dbo.vm, o) /\ Undefine(dbo.vm, o)
    BY <1>3 DEF UpdateAct, libvirtVars
  <2> QED BY <2>1, <2>2, <2>3
<1> QED BY <1>1, <1>2, <1>3 DEF DbomaticActs, DbomaticStep

-----------------------------------------------------------------------------
(***************************************************************************)
(* The theorem.                                                            *)
(***************************************************************************)

\* At first there is nothing to do.
LEMMA InitOnly ==
  ASSUME NEW A, Init
  PROVE  Only(A)
<1>1. tk.pc = "idle" /\ tk.batch = {} /\ \A t \in TaskIds : tasks[t] = None
  BY DEF Init, TaskomaticInit
<1> QED BY <1>1 DEF Only, TasksIn, JobsIn, Asked, Init, WuiInit, Idle

\* The system at rest: each VM has one domain or none, and it runs.
LEMMA InitDomains ==
  ASSUME Init
  PROVE  DomainsInv
<1>1. tk.pc = "idle"
  BY DEF Init, TaskomaticInit
<1>3. PICK at \in [Vms -> Nodes \cup {None, Deleted}] :
        dom = [v \in Vms |-> [n \in Nodes |-> IF at[v] = n THEN "running" ELSE "none"]]
  BY DEF Init
<1>4. InactiveIsHandled /\ OneIsInactive
  BY <1>3 DEF InactiveIsHandled, OneIsInactive
<1> QED BY <1>1, <1>4 DEF DomainsInv, StartsAlone, MigratesFrom, Migrating

\* No step queues or runs a task of another action.
LEMMA NextOnly ==
  ASSUME NEW A, Allowed(A), IInv, Only(A), [Next]_vars
  PROVE  Only(A)'
<1>1. CASE WuiActs
  <2>1. UNCHANGED tk
    BY <1>1 DEF WuiActs
  <2> QED BY <1>1, <2>1, WuiOnly DEF Only, JobsIn
<1>2. CASE TaskomaticActs
  <2>1. UNCHANGED web
    BY <1>2 DEF TaskomaticActs
  <2> QED BY <1>2, <2>1, TaskomaticOnly DEF Only, Asked
<1>3. CASE DbomaticActs \/ GuestStops \/ UNCHANGED vars
  <2>1. UNCHANGED <<web, tk>>
    BY <1>3 DEF DbomaticActs, GuestStops, vars
  <2>2. CASE DbomaticActs
    <3>1. UNCHANGED tasks
      BY <2>2 DEF DbomaticActs, DbomaticStep, ObjectUpdate, ObjectGone, Resync, UpdateProps,
         EnterUpdate, UpdateVnc, UpdateAct, UpdateSave, recordVars
    <3> QED BY <2>1, <3>1 DEF Only, TasksIn, JobsIn, Asked
  <2>3. CASE GuestStops \/ UNCHANGED vars
    <3>1. UNCHANGED tasks
      BY <2>3 DEF GuestStops, GuestPowerOff, vars, recordVars
    <3> QED BY <2>1, <3>1 DEF Only, TasksIn, JobsIn, Asked
  <2> QED BY <1>3, <2>2, <2>3
<1>4. CASE TaskomaticDies
  <2>1. tk'.pc = "idle" /\ tk'.batch = {} /\ UNCHANGED <<tasks, web>>
    BY <1>4 DEF TaskomaticDies, TaskomaticRestart
  <2> QED BY <2>1 DEF Only, TasksIn, JobsIn, Asked
<1> QED BY <1>1, <1>2, <1>3, <1>4 DEF Next

\* No step makes a second domain of a VM active, or leaves an inactive one
\* behind, unless taskomatic dies or a guest stops.
LEMMA NextDomains ==
  ASSUME IInv, Only(Unsaved), restarts = 0 => DomainsInv, ~GuestsStop, [Next]_vars
  PROVE  restarts' = 0 => DomainsInv'
<1>1. CASE WuiActs \/ UNCHANGED vars
  <2>1. UNCHANGED <<dom, tk, restarts>>
    BY <1>1 DEF WuiActs, WuiStep, WuiContinue, SvcCreate, WuiArrive, VmActionFind, UpdateFind,
       DestroyFind, CancelFind, VmActionCheck, VmActionInsert, UpdateCommit, DestroyCommit,
       CancelCommit, vars, libvirtVars
  <2> QED BY <2>1, DomainsStay
<1>2. CASE TaskomaticActs
  <2>1. UNCHANGED restarts
    BY <1>2 DEF TaskomaticActs
  <2> QED BY <1>2, <2>1, TaskomaticDomains DEF Only
<1>3. CASE DbomaticActs
  <2>1. UNCHANGED restarts
    BY <1>3 DEF DbomaticActs
  <2> QED BY <1>3, <2>1, DbomaticDomains
<1>4. CASE TaskomaticDies
  BY <1>4 DEF TaskomaticDies, IInv
<1>5. CASE GuestStops
  BY <1>5 DEF GuestStops
<1> QED BY <1>1, <1>2, <1>3, <1>4, <1>5 DEF Next

\* A VM is active on one node at most, for any number of VMs, nodes, requests
\* and tasks in the queue, whatever the rows say meanwhile: until taskomatic
\* dies, if guests do not power themselves off and no VM is saved to disk.
THEOREM NeverOnTwoNodes ==
  ASSUME ~GuestsStop, "save_vm" \notin Offered
  PROVE  Spec => [](restarts = 0 => NoSplitBrain)
<1> DEFINE Inv == IInv /\ Only(Unsaved) /\ (restarts = 0 => DomainsInv)
<1>1. Init => Inv
  BY InitInv, InitOnly, InitDomains
<1>0. Allowed(Unsaved)
  BY OfferedAssumption, ActionNames DEF Allowed, Unsaved
<1>2. Inv /\ [Next]_vars => Inv'
  BY <1>0, NextInv, NextOnly, NextDomains
<1>3. Inv => (restarts = 0 => NoSplitBrain)
  BY DEF DomainsInv, OneIsInactive, NoSplitBrain, Active
<1> QED BY <1>1, <1>2, <1>3, PTL DEF Spec

-----------------------------------------------------------------------------
(***************************************************************************)
(* What the rows say, if VMs are only suspended, resumed and stopped.  The *)
(* domain of a VM then stays on one node, its home, and is never started   *)
(* again.                                                                  *)
(***************************************************************************)
Pausing == {"suspend_vm", "resume_vm", "poweroff_vm", "shutdown_vm"}

\* The state of the VM whose domain is in the given state.
Says == [none |-> "stopped", shutoff |-> "stopped", running |-> "running", paused |-> "suspended"]

On(s) == s \in {"running", "paused"}

\* The domain of v is on h if it is anywhere, and db-omatic knows it there.
AtHome(v, h) ==
  /\ \A n \in Nodes : n # h => dom[v][n] = "none" /\ pub[v][n] = "none"
  /\ \A n \in Nodes : dom[v][n] # "none" => <<v, n>> \in defined /\ pub[v][n] # "none"
  /\ \A n \in Nodes : pub[v][n] # "none" => cache[v] # None /\ cache[v].state = pub[v][n]
  /\ cache[v] # None => /\ cache[v].node = h /\ cache[v].synced
                        /\ cache[v].state = "shutoff" => ~On(StateAt(v, h))

\* The row of an active domain is one of an active VM on its node.
RowFits(v, h) ==
  /\ vms[v].state \in {"running", "suspended", "stopped"}
  /\ vms[v].state # "stopped" => vms[v].host = h
  /\ On(StateAt(v, h)) => vms[v].state # "stopped"

RowTrue(v, h) == vms[v].state = Says[StateAt(v, h)]

\* db-omatic is updating v, and ...
Updating(v) == dbo.pc # "idle" /\ dbo.vm = v
\* ... its save! will not raise.
WillSave(v) == Updating(v) /\ D \in fresh

\* What db-omatic is about to save: an outdated state of the domain only if the
\* row has that state anyway, and nothing is saved; the end of the domain
\* whatever the row says.
DbomaticPart(v, h) ==
  /\ WillSave(v) =>
       /\ ~dbo.touched
       /\ On(cache[v].state) /\ cache[v].state # StateAt(v, h) => vms[v].state = Says[cache[v].state]
       /\ dbo.pc = "save" =>
            /\ dbo.row.state = Says[cache[v].state]
            /\ On(cache[v].state) => dbo.row.host = h
            /\ ~On(cache[v].state) => StateAt(v, h) = "none"
  /\ Updating(v) /\ ~On(cache[v].state) /\ StateAt(v, h) = "shutoff" => D \in fresh

\* Taskomatic executes a task of v.
Executing(v) == tk.pc \notin {"idle", "loop", "finish"} /\ Vm = v

TaskomaticPart(v, h) == Executing(v) =>
  /\ tk.pc \in {"cmd", "undefine", "reload", "save"} /\ tk.src = h /\ h \in Nodes
  /\ tk.pc = "cmd" => On(dom[v][h]) /\ P \in fresh
  /\ tk.pc = "undefine" => ~Doing({"suspend_vm", "resume_vm"})
  /\ tk.pc = "reload" => Doing({"suspend_vm", "resume_vm"})
  /\ tk.pc \in {"reload", "save"} =>
       dom[v][h] = IF Doing({"suspend_vm"}) THEN "paused"
                   ELSE IF Doing({"resume_vm"}) THEN "running" ELSE "none"

\* The row may be behind the domain while taskomatic, which has just changed the
\* domain, is going to save it and its save! will not raise.
MayBeBehind(v, h) ==
  /\ Executing(v)
  /\ \/ tk.pc = "reload"
     \/ tk.pc = "save" /\ P \in fresh
     \/ tk.pc = "undefine" /\ P \in fresh /\ StateAt(v, h) = "shutoff"

\* Otherwise it is right, or db-omatic is about to save that the domain is gone.
UpToDate(v, h) ==
  /\ StateAt(v, h) # "shutoff"
  /\ \/ RowTrue(v, h)
     \/ WillSave(v) /\ ~On(cache[v].state) /\ StateAt(v, h) = "none"

RowInv(v, h) ==
  /\ AtHome(v, h) /\ RowFits(v, h)
  /\ DbomaticPart(v, h) /\ TaskomaticPart(v, h)
  /\ UpToDate(v, h) \/ MayBeBehind(v, h)

RowsInv == \A v \in Vms : Live(v) => \E h \in Nodes \cup {None} : RowInv(v, h)

\* A step that does not touch v: its row, domain and cache entry, ...
SameVm(v) ==
  /\ vms'[v] = vms[v] /\ dom'[v] = dom[v] /\ pub'[v] = pub[v] /\ cache'[v] = cache[v]
  /\ \A n \in Nodes : <<v, n>> \in defined => <<v, n>> \in defined'
\* ... db-omatic's work on it, ...
SameUpdate(v) ==
  \/ UNCHANGED dbo /\ (Updating(v) => (D \in fresh' <=> D \in fresh))
  \/ ~Updating(v) /\ ~Updating(v)'
\* ... and taskomatic's.
SameTask(v) == UNCHANGED tk /\ (Executing(v) /\ P \in fresh => P \in fresh')

\* A step that concerns another VM, or ends a task of v that left nothing to be
\* saved, leaves its row as right as it was.
LEMMA RowFrame ==
  ASSUME NEW v, NEW h, RowInv(v, h), SameVm(v), SameUpdate(v),
         SameTask(v) \/ (UpToDate(v, h) /\ ~Executing(v)')
  PROVE  RowInv(v, h)'
<1>1. StateAt(v, h)' = StateAt(v, h)
  BY DEF StateAt, SameVm
<1>2. AtHome(v, h)'
  BY <1>1 DEF RowInv, AtHome, SameVm
<1>3. RowFits(v, h)'
  BY <1>1 DEF RowInv, RowFits, SameVm
<1>4. DbomaticPart(v, h)'
  BY <1>1 DEF RowInv, DbomaticPart, WillSave, Updating, SameVm, SameUpdate
<1>5. TaskomaticPart(v, h)'
  BY DEF RowInv, TaskomaticPart, Executing, SameVm, SameTask, Vm, Doing
<1>6. UpToDate(v, h) => UpToDate(v, h)'
  BY <1>1 DEF UpToDate, RowTrue, WillSave, Updating, SameVm, SameUpdate
<1>7. SameTask(v) /\ MayBeBehind(v, h) => MayBeBehind(v, h)'
  BY <1>1 DEF MayBeBehind, Executing, SameTask, Vm
<1> QED BY <1>2, <1>3, <1>4, <1>5, <1>6, <1>7 DEF RowInv

\* Where the handlers of these tasks begin, if they find anything to do.
LEMMA BeginPausing ==
  ASSUME IInv, NEW j \in tk.batch, j.action \in Pausing, BeginTask(j), tk'.pc # "finish"
  PROVE  \E o \in Lookup(j.vm) :
           /\ tk'.src = o /\ P \in fresh'
           /\ \/ tk'.pc = "cmd" /\ On(StateAt(j.vm, o))
              \/ tk'.pc = "undefine_off" /\ StateAt(j.vm, o) = "shutoff"
<1> DEFINE k == Take(j)
<1>0. k \in TkRecord /\ k.job = j /\ j \in Job
  BY TkIsRecord, TakeType
<1> HIDE DEF k
<1>e. Returned(k).pc = "finish" /\ Raised(k).pc = "finish"
  BY <1>0, EndType
<1>s. \A l, o : [Goto(k, l) EXCEPT !.src = o].pc = l /\ [Goto(k, l) EXCEPT !.src = o].src = o
  BY <1>0 DEF Goto, TkRecord
<1>t. \A o \in Lookup(j.vm) : StateAt(j.vm, o) \in {"none", "shutoff", "running", "paused"}
  BY <1>0 DEF IInv, LibvirtTypeOK, DomainState, Lookup, StateAt, Job
<1>p. j.action \notin {"create_vm", "start_vm", "save_vm", "restore_vm", "migrate_vm"}
  BY DEF Pausing
<1>1. \/ TaskShutdownOrDestroyVm(j) \/ TaskSuspendVm(j) \/ TaskResumeVm(j)
  <2>1. ~TaskVmMissing(j)
    BY <1>e DEF TaskVmMissing, k
  <2>2. ~TaskCreateVm(j) /\ ~TaskStartVm(j) /\ ~TaskSaveOrRestoreVm(j) /\ ~TaskMigrateVm(j)
    BY <1>p DEF TaskCreateVm, TaskStartVm, TaskSaveOrRestoreVm, TaskMigrateVm, Begin
  <2> QED BY <2>1, <2>2 DEF BeginTask
<1>2. P \in fresh'
  BY <1>1 DEF TaskShutdownOrDestroyVm, TaskSuspendVm, TaskResumeVm, Begin, Load
<1>3. CASE TaskShutdownOrDestroyVm(j)
  <2>1. PICK o \in Lookup(j.vm) :
          tk' = CASE StateAt(j.vm, o) = "none"    -> Returned(k)
               [] StateAt(j.vm, o) = "shutoff" -> [Goto(k, "undefine_off") EXCEPT !.src = o]
               [] OTHER                        -> [Goto(k, "cmd") EXCEPT !.src = o]
    BY <1>3 DEF TaskShutdownOrDestroyVm, k
  <2>2. StateAt(j.vm, o) # "none"
    BY <1>e, <2>1
  <2>3. CASE StateAt(j.vm, o) = "shutoff"
    <3>1. tk' = [Goto(k, "undefine_off") EXCEPT !.src = o]
      BY <2>1, <2>3
    <3> QED BY <1>2, <1>s, <2>3, <3>1
  <2>4. CASE On(StateAt(j.vm, o))
    <3>1. tk' = [Goto(k, "cmd") EXCEPT !.src = o]
      BY <2>1, <2>4 DEF On
    <3> QED BY <1>2, <1>s, <2>4, <3>1
  <2> QED BY <1>t, <2>2, <2>3, <2>4 DEF On
<1>4. CASE TaskSuspendVm(j) \/ TaskResumeVm(j)
  <2>1. PICK o \in Lookup(j.vm) :
          \/ tk' \in {Returned(k), Raised(k)}
          \/ On(StateAt(j.vm, o)) /\ tk' = [Goto(k, "cmd") EXCEPT !.src = o]
    BY <1>4 DEF TaskSuspendVm, TaskResumeVm, k, On
  <2>2. On(StateAt(j.vm, o)) /\ tk' = [Goto(k, "cmd") EXCEPT !.src = o]
    BY <1>e, <2>1
  <2>3. tk'.pc = "cmd" /\ tk'.src = o
    BY <1>s, <2>2
  <2> QED BY <1>2, <2>2, <2>3
<1> QED BY <1>1, <1>3, <1>4

\* The row has the domain's state when taskomatic begins a task.
LEMMA BeginRow ==
  ASSUME IInv, JobsIn(Pausing), NEW v \in Vms, NEW h \in Nodes \cup {None}, RowInv(v, h),
         NEW j \in tk.batch, BeginTask(j), UNCHANGED dbomaticVars
  PROVE  RowInv(v, h)'
<1>1. tk.pc = "loop" /\ UNCHANGED libvirtVars /\ tk'.job = j /\ j.action \in Pausing
  BY BeginMoves DEF JobsIn
<1>2. UpToDate(v, h)
  BY <1>1 DEF RowInv, MayBeBehind, Executing
<1>3. /\ vms' = vms
      /\ fresh' = fresh \/ fresh' = fresh \cup {P}
  BY DEF BeginTask, TaskVmMissing, TaskCreateVm, TaskStartVm, TaskShutdownOrDestroyVm,
     TaskSuspendVm, TaskResumeVm, TaskSaveOrRestoreVm, TaskMigrateVm, Begin, Load, recordVars
<1>4. SameVm(v) /\ SameUpdate(v)
  BY <1>1, <1>3, Different DEF SameVm, SameUpdate, libvirtVars, dbomaticVars
<1>5. CASE tk'.pc = "finish" \/ j.vm # v
  <2>1. ~Executing(v)'
    BY <1>1, <1>5 DEF Executing, Vm
  <2> QED BY <1>2, <1>4, <2>1, RowFrame
<1>6. CASE tk'.pc # "finish" /\ j.vm = v
  <2>1. PICK o \in Lookup(v) :
           /\ tk'.src = o /\ P \in fresh'
           /\ \/ tk'.pc = "cmd" /\ On(StateAt(v, o))
              \/ tk'.pc = "undefine_off" /\ StateAt(v, o) = "shutoff"
    BY <1>1, <1>6, BeginPausing
  <2>2. o = h /\ h \in Nodes /\ StateAt(v, h) = dom[v][h]
    BY <2>1, NodesAssumption DEF Lookup, StateAt, On, RowInv, AtHome
  <2>3. tk'.pc = "cmd" /\ On(dom[v][h])
    BY <1>2, <2>1, <2>2 DEF UpToDate
  <2>4. TaskomaticPart(v, h)'
    BY <1>1, <2>1, <2>2, <2>3 DEF TaskomaticPart, libvirtVars
  <2>5. StateAt(v, h)' = StateAt(v, h)
    BY <1>1 DEF StateAt, libvirtVars
  <2>6. AtHome(v, h)' /\ RowFits(v, h)' /\ DbomaticPart(v, h)' /\ UpToDate(v, h)'
    BY <1>2, <1>4, <2>5 DEF RowInv, AtHome, RowFits, DbomaticPart, UpToDate, RowTrue, WillSave,
       Updating, SameVm, SameUpdate
  <2> QED BY <2>4, <2>6 DEF RowInv
<1> QED BY <1>5, <1>6

-----------------------------------------------------------------------------
(***************************************************************************)
(* Taskomatic: its handlers and the row.                                   *)
(***************************************************************************)

\* The state of a domain is at its home.
LEMMA StateIs ==
  ASSUME NEW v, NEW h \in Nodes
  PROVE  StateAt(v, h) = dom[v][h] /\ StateAt(v, h)' = dom'[v][h]
BY NodesAssumption DEF StateAt

\* Whatever db-omatic is about to save of an active domain up to date, the row has.
LEMMA SavesNothingNew ==
  ASSUME NEW v, NEW h, RowInv(v, h), UpToDate(v, h), On(StateAt(v, h)), WillSave(v),
         cache[v] # None, cache[v].state \in {"shutoff", "running", "paused"}
  PROVE  vms[v].state = Says[cache[v].state]
BY DEF RowInv, AtHome, DbomaticPart, UpToDate, RowTrue, On

\* The command changes the domain; the row is behind until it is saved.
LEMMA CommandRow ==
  ASSUME IInv, JobsIn(Pausing), NEW v \in Vms, NEW h, RowInv(v, h),
         DomainCommand, Vm = v, UNCHANGED dbomaticVars
  PROVE  RowInv(v, h)'
<1>0. /\ tk.pc = "cmd" /\ Executing(v) /\ UNCHANGED recordVars
      /\ tk.src = h /\ h \in Nodes /\ On(dom[v][h]) /\ P \in fresh /\ tk.job.action \in Pausing
  BY DEF DomainCommand, At, Executing, RowInv, TaskomaticPart, JobsIn
<1>1. StateAt(v, h) = dom[v][h] /\ StateAt(v, h)' = dom'[v][h]
  BY <1>0, StateIs
<1>2. UpToDate(v, h) /\ RowTrue(v, h)
  BY <1>0, <1>1 DEF RowInv, MayBeBehind, UpToDate, On
<1>3. UNCHANGED <<vms, fresh, cache, dbo>>
  BY <1>0 DEF recordVars, dbomaticVars
<1>m. /\ Raised(tk).pc = "finish"
      /\ \A l : Goto(tk, l).pc = l /\ Goto(tk, l).job = tk.job /\ Goto(tk, l).src = tk.src
  BY TkIsRecord, Moves
<1>4. CASE tk' = Raised(tk) /\ UNCHANGED libvirtVars
  <2>1. ~Executing(v)'
    BY <1>4, <1>m DEF Executing
  <2>2. SameVm(v) /\ SameUpdate(v)
    BY <1>3, <1>4 DEF SameVm, SameUpdate, libvirtVars
  <2> QED BY <1>2, <2>1, <2>2, RowFrame
<1>5. CASE \E s \in CommandEffect(Vm, tk.src) :
             /\ SetDomain(Vm, tk.src, s)
             /\ tk' = Goto(tk, IF Doing({"shutdown_vm", "poweroff_vm"}) THEN "undefine"
                                                                        ELSE "reload")
             /\ UNCHANGED defined
  <2>1. PICK s \in CommandEffect(v, h) :
             /\ SetDomain(v, h, s)
             /\ tk' = Goto(tk, IF Doing({"shutdown_vm", "poweroff_vm"}) THEN "undefine"
                                                                        ELSE "reload")
             /\ UNCHANGED defined
    BY <1>0, <1>5
  <2>2. /\ \A n \in Nodes : dom'[v][n] = IF n = h THEN s ELSE dom[v][n]
        /\ UNCHANGED pub
    <3>1. \A w \in Vms : \A m \in Nodes : dom'[w][m] = IF w = v /\ m = h THEN s ELSE dom[w][m]
      BY <2>1, SetDomainEffect DEF IInv
    <3> QED BY <1>0, <2>1, <3>1 DEF SetDomain, On
  <2>3. Off(v, h) = "shutoff"
    BY <1>0 DEF RowInv, AtHome, On, Off
  <2>4. s \in {"running", "paused", "shutoff"}
    BY <1>0, <2>1, <2>3 DEF CommandEffect, On, Active
  <2>5. tk'.job = tk.job /\ tk'.src = h /\ Executing(v)'
    BY <1>0, <1>m, <2>1 DEF Executing, Vm
  <2>6. AtHome(v, h)'
    <3>1. cache[v] # None => cache[v].state # "shutoff"
      BY <1>0, <1>1 DEF RowInv, AtHome
    <3> QED BY <1>0, <1>1, <1>3, <2>1, <2>2, <2>4, <3>1 DEF RowInv, AtHome, On
  <2>7. RowFits(v, h)'
    BY <1>0, <1>1, <1>3 DEF RowInv, RowFits
  <2>8. DbomaticPart(v, h)'
    <3>1. Updating(v) => cache[v] # None /\ cache[v].state \in {"shutoff", "running", "paused"}
      BY EntryAssumption DEF Updating, IInv, DbomaticHolds, CacheEntry, DomainState
    <3>2. Updating(v) => On(cache[v].state)
      BY <1>0, <1>1, <3>1 DEF RowInv, AtHome, On
    <3>3. WillSave(v) => vms[v].state = Says[cache[v].state]
      BY <1>0, <1>1, <1>2, <3>1, SavesNothingNew DEF WillSave
    <3> QED BY <1>3, <3>2, <3>3 DEF RowInv, DbomaticPart, WillSave, Updating
  <2>9. CASE Doing({"shutdown_vm", "poweroff_vm"})
    <3>1. tk'.pc = "undefine"
      BY <1>m, <2>1, <2>9
    <3>2. ~Doing({"suspend_vm", "resume_vm"})'
      BY <2>5, <2>9 DEF Doing
    <3>3. TaskomaticPart(v, h)'
      BY <1>0, <2>5, <3>1, <3>2 DEF TaskomaticPart
    <3>4. s \in {dom[v][h], "shutoff"}
      BY <2>1, <2>3, <2>9 DEF CommandEffect, Doing
    <3>5. CASE s = "shutoff"
      BY <1>0, <1>1, <1>3, <2>2, <2>5, <2>6, <2>7, <2>8, <3>1, <3>3, <3>5 DEF RowInv, MayBeBehind
    <3>6. CASE s = dom[v][h]
      <4>1. UpToDate(v, h)'
        BY <1>0, <1>1, <1>2, <1>3, <2>2, <3>6 DEF UpToDate, RowTrue
      <4> QED BY <2>6, <2>7, <2>8, <3>3, <4>1 DEF RowInv
    <3> QED BY <3>4, <3>5, <3>6
  <2>10. CASE ~Doing({"shutdown_vm", "poweroff_vm"})
    <3>1. tk'.pc = "reload"
      BY <1>m, <2>1, <2>10
    <3>2. tk.job.action \in {"suspend_vm", "resume_vm"}
      BY <1>0, <2>10 DEF Pausing, Doing
    <3>3. s = IF Doing({"suspend_vm"}) THEN "paused" ELSE "running"
      BY <2>1, <3>2 DEF CommandEffect, Doing
    <3>4. TaskomaticPart(v, h)'
      BY <1>0, <2>2, <2>5, <3>1, <3>2, <3>3 DEF TaskomaticPart, Doing
    <3> QED BY <2>5, <2>6, <2>7, <2>8, <3>1, <3>4 DEF RowInv, MayBeBehind
  <2> QED BY <2>9, <2>10
<1> QED BY <1>4, <1>5 DEF DomainCommand

\* An inactive domain is undefined, and the row will be saved.
LEMMA UndefineRow ==
  ASSUME IInv, NEW v \in Vms, NEW h, RowInv(v, h),
         UndefineStopped, Vm = v, UNCHANGED dbomaticVars
  PROVE  RowInv(v, h)'
<1>0. /\ tk.pc = "undefine" /\ Executing(v) /\ UNCHANGED recordVars
      /\ tk.src = h /\ h \in Nodes /\ ~Doing({"suspend_vm", "resume_vm"})
  BY DEF UndefineStopped, UndefineDomain, At, Executing, RowInv, TaskomaticPart
<1>1. StateAt(v, h) = dom[v][h] /\ StateAt(v, h)' = dom'[v][h]
  BY <1>0, StateIs
<1>3. UNCHANGED <<vms, fresh, cache, dbo>>
  BY <1>0 DEF recordVars, dbomaticVars
<1>m. /\ Returned(tk).pc = "finish"
      /\ Goto(tk, "save").pc = "save" /\ Goto(tk, "save").job = tk.job /\ Goto(tk, "save").src = tk.src
  BY TkIsRecord, Moves
<1>4. CASE ~Undefinable(v, h)
  <2>1. tk' = Returned(tk) /\ UNCHANGED libvirtVars
    BY <1>0, <1>4 DEF UndefineStopped, UndefineDomain
  <2>2. ~Executing(v)'
    BY <1>m, <2>1 DEF Executing
  <2>3. SameVm(v) /\ SameUpdate(v)
    BY <1>3, <2>1 DEF SameVm, SameUpdate, libvirtVars
  <2>4. UpToDate(v, h)
    BY <1>0, <1>1, <1>4 DEF RowInv, MayBeBehind, Undefinable
  <2> QED BY <2>2, <2>3, <2>4, RowFrame
<1>5. CASE Undefinable(v, h)
  <2>1. dom[v][h] = "shutoff" /\ Undefine(v, h) /\ tk' = Goto(tk, "save")
    BY <1>0, <1>5 DEF UndefineStopped, UndefineDomain, Undefinable
  <2>2. /\ \A n \in Nodes : dom'[v][n] = IF n = h THEN "none" ELSE dom[v][n]
        /\ UNCHANGED pub /\ defined' = defined \ {<<v, h>>}
    <3>1. \A w \in Vms : \A m \in Nodes : dom'[w][m] = IF w = v /\ m = h THEN "none" ELSE dom[w][m]
      BY <2>1, SetDomainEffect DEF IInv, Undefine
    <3> QED BY <1>0, <2>1, <3>1 DEF SetDomain, Undefine
  <2>3. tk'.pc = "save" /\ tk'.job = tk.job /\ tk'.src = h /\ Executing(v)'
    BY <1>0, <1>m, <2>1 DEF Executing, Vm
  <2>4. P \in fresh
    BY <1>0, <1>1, <2>1 DEF RowInv, UpToDate, MayBeBehind
  <2>5. AtHome(v, h)'
    BY <1>0, <1>1, <1>3, <2>2 DEF RowInv, AtHome, On
  <2>6. RowFits(v, h)'
    BY <1>0, <1>1, <1>3, <2>2 DEF RowInv, RowFits, On
  <2>7. DbomaticPart(v, h)'
    BY <1>0, <1>1, <1>3, <2>1, <2>2 DEF RowInv, DbomaticPart, WillSave, Updating, On
  <2>8. TaskomaticPart(v, h)'
    BY <1>0, <2>2, <2>3 DEF TaskomaticPart, Doing
  <2> QED BY <1>3, <2>3, <2>4, <2>5, <2>6, <2>7, <2>8 DEF RowInv, MayBeBehind
<1> QED BY <1>4, <1>5

\* The reload makes sure that the save! can succeed.
LEMMA ReloadRow ==
  ASSUME IInv, NEW v \in Vms, NEW h, RowInv(v, h), Live(v),
         ReloadVm, Vm = v, UNCHANGED dbomaticVars
  PROVE  RowInv(v, h)'
<1>0. /\ tk.pc = "reload" /\ Executing(v) /\ Doing({"suspend_vm", "resume_vm"})
      /\ UNCHANGED <<vms, libvirtVars>> /\ fresh' = fresh \cup {P} /\ tk' = Goto(tk, "save")
  BY DEF ReloadVm, Reload, Load, At, Executing, RowInv, TaskomaticPart, Doing
<1>1. tk'.pc = "save" /\ tk'.job = tk.job /\ tk'.src = tk.src /\ Executing(v)'
  BY <1>0, TkIsRecord, Moves DEF Executing, Vm
<1>2. StateAt(v, h)' = StateAt(v, h)
  BY <1>0 DEF StateAt, libvirtVars
<1>3. SameVm(v) /\ SameUpdate(v)
  BY <1>0, Different DEF SameVm, SameUpdate, libvirtVars, dbomaticVars
<1>4. AtHome(v, h)' /\ RowFits(v, h)' /\ DbomaticPart(v, h)'
  BY <1>2, <1>3 DEF RowInv, AtHome, RowFits, DbomaticPart, WillSave, Updating, SameVm, SameUpdate
<1>5. TaskomaticPart(v, h)'
  BY <1>0, <1>1 DEF RowInv, TaskomaticPart, Doing, libvirtVars
<1>6. MayBeBehind(v, h)'
  BY <1>0, <1>1 DEF MayBeBehind
<1> QED BY <1>4, <1>5, <1>6 DEF RowInv

\* What save! writes: the state the domain has been brought to.
LEMMA FinalRowFits ==
  ASSUME IInv, JobsIn(Pausing), NEW v \in Vms, NEW h, RowInv(v, h), Executing(v),
         tk.pc = "save", P \in fresh
  PROVE  /\ FinalRow.state = Says[StateAt(v, h)]
         /\ On(StateAt(v, h)) => FinalRow.host = h
         /\ copy[P].vm = v /\ vms[v] = RowOf(copy[P])
<1>1. tk.job.action \in Pausing /\ copy[P].vm = v /\ vms[v] = RowOf(copy[P])
  BY DEF JobsIn, Executing, Vm, IInv, TaskomaticHolds, VmsInv, FreshMeansCurrent
<1>2. h \in Nodes /\ StateAt(v, h) = IF Doing({"suspend_vm"}) THEN "paused"
                                      ELSE IF Doing({"resume_vm"}) THEN "running" ELSE "none"
  BY StateIs DEF RowInv, TaskomaticPart
<1>3. CASE Doing({"shutdown_vm", "poweroff_vm"})
  <2>1. FinalRow = [state |-> "stopped", host |-> None]
    BY <1>1, <1>3 DEF FinalRow, Doing, Pausing
  <2> QED BY <1>1, <1>2, <1>3, <2>1 DEF Doing, Says, On
<1>4. CASE ~Doing({"shutdown_vm", "poweroff_vm"})
  <2>1. tk.job.action \in {"suspend_vm", "resume_vm"}
    BY <1>1, <1>4 DEF Pausing, Doing
  <2>2. FinalRow = WithState(Transition[tk.job.action].success)
    BY <2>1 DEF FinalRow, Doing
  <2>3. Transition[tk.job.action].success = IF Doing({"suspend_vm"}) THEN "suspended" ELSE "running"
    BY <2>1 DEF Transition, Doing
  <2>4. FinalRow.state = Transition[tk.job.action].success /\ FinalRow.host = vms[v].host
    BY <1>1, <2>2 DEF WithState, RowOf
  <2>5. On(StateAt(v, h)) /\ Says[StateAt(v, h)] = Transition[tk.job.action].success
    BY <1>2, <2>1, <2>3 DEF On, Says, Doing
  <2>6. vms[v].host = h
    BY <2>5 DEF RowInv, RowFits
  <2> QED BY <1>1, <2>4, <2>5, <2>6
<1> QED BY <1>3, <1>4

\* The save! brings the row up to date, or somebody else has.
LEMMA SaveRow ==
  ASSUME IInv, JobsIn(Pausing), NEW v \in Vms, NEW h, RowInv(v, h), Live(v),
         SaveVmState, Vm = v, UNCHANGED dbomaticVars
  PROVE  RowInv(v, h)'
<1>0. /\ tk.pc = "save" /\ Executing(v) /\ UNCHANGED libvirtVars
      /\ tk' \in {Returned(tk), Raised(tk)}
  BY DEF SaveVmState, SaveVm, At, Executing
<1>1. ~Executing(v)'
  BY <1>0, TkIsRecord, Moves DEF Executing
<1>2. CASE P \notin fresh
  <2>1. UpToDate(v, h)
    BY <1>0, <1>2 DEF RowInv, MayBeBehind
  <2>2. UNCHANGED <<vms, fresh>>
    BY <1>2 DEF SaveVmState, SaveVm, Savable, Save
  <2>3. SameVm(v) /\ SameUpdate(v)
    BY <1>0, <2>2 DEF SameVm, SameUpdate, libvirtVars, dbomaticVars
  <2> QED BY <1>1, <2>1, <2>3, RowFrame
<1>3. CASE P \in fresh
  <2>1. /\ FinalRow.state = Says[StateAt(v, h)] /\ (On(StateAt(v, h)) => FinalRow.host = h)
        /\ copy[P].vm = v /\ vms[v] = RowOf(copy[P])
    BY <1>0, <1>3, FinalRowFits
  <2>2. h \in Nodes /\ StateAt(v, h) \in {"none", "running", "paused"}
    BY <1>0, StateIs DEF RowInv, TaskomaticPart
  <2>3. vms'[v] = FinalRow
    <3>1. CASE Changed(P, FinalRow)
      BY <1>3, <2>1, <3>1 DEF SaveVmState, SaveVm, Savable, Save, Write, IInv, VmsInv
    <3>2. CASE ~Changed(P, FinalRow)
      BY <2>1, <3>2 DEF SaveVmState, SaveVm, Save, Changed
    <3> QED BY <3>1, <3>2
  <2>4. D \in fresh' /\ Updating(v) => D \in fresh /\ vms'[v] = vms[v]
    <3>1. Updating(v) => copy[D].vm = v
      BY DEF Updating, IInv, DbomaticHolds
    <3>2. CASE Changed(P, FinalRow)
      BY <1>3, <2>1, <3>1, <3>2, Different DEF SaveVmState, SaveVm, Savable, Save, Write
    <3>3. CASE ~Changed(P, FinalRow)
      BY <3>3 DEF SaveVmState, SaveVm, Save
    <3> QED BY <3>2, <3>3
  <2>5. StateAt(v, h)' = StateAt(v, h)
    BY <1>0 DEF StateAt, libvirtVars
  <2>6. AtHome(v, h)'
    BY <1>0, <2>5 DEF RowInv, AtHome, libvirtVars, dbomaticVars
  <2>7. RowFits(v, h)'
    BY <2>1, <2>2, <2>3, <2>5 DEF RowFits, Says, On
  <2>8. DbomaticPart(v, h)'
    BY <1>0, <2>2, <2>4, <2>5 DEF RowInv, DbomaticPart, WillSave, Updating, libvirtVars, dbomaticVars
  <2>9. TaskomaticPart(v, h)'
    BY <1>1 DEF TaskomaticPart
  <2>10. UpToDate(v, h)'
    BY <2>1, <2>2, <2>3, <2>5 DEF UpToDate, RowTrue
  <2> QED BY <2>6, <2>7, <2>8, <2>9, <2>10 DEF RowInv
<1> QED BY <1>2, <1>3

\* A handler is neither looking for a task nor completing one.
LEMMA HandlerPlaces ==
  ASSUME HandlerStep
  PROVE  tk.pc \notin {"idle", "loop", "finish"}
BY DEF HandlerStep, StartFindHost, DefineDomain, CreateDomain, DomainCommand,
   UndefineStopped, UndefineShutOff, UndefineDomain, ReloadVm, Reload, SetVmVncPort,
   SaveStartAttributes, SaveVmState, SaveVm, MarkReload, MarkMigrating, MigrateFindHost,
   MigrateDomain, MigrateUndefine, RevertReload, RevertState, At

\* A handler touches the VM of its task only.
LEMMA HandlerTouches ==
  ASSUME IInv, NEW v \in Vms, HandlerStep, Vm # v, UNCHANGED dbomaticVars
  PROVE  SameVm(v) /\ SameUpdate(v)
<1>0. /\ Vm \in Vms /\ copy[P].vm = Vm /\ LibvirtTypeOK /\ VmsInv
      /\ UNCHANGED <<cache, dbo>> /\ (Updating(v) => copy[D].vm = v)
  BY HandlerPlaces DEF IInv, TaskomaticHolds, DbomaticHolds, Vm, Job, dbomaticVars, Updating
<1>d. ASSUME NEW n, NEW s, SetDomain(Vm, n, s)
      PROVE  dom'[v] = dom[v] /\ pub'[v] = pub[v]
  BY <1>0, <1>d DEF SetDomain, LibvirtTypeOK
<1>u. ASSUME NEW n, Undefine(Vm, n)
      PROVE  /\ dom'[v] = dom[v] /\ pub'[v] = pub[v]
             /\ \A m \in Nodes : <<v, m>> \in defined => <<v, m>> \in defined'
  BY <1>0, <1>d, <1>u DEF Undefine
<1>l. ASSUME UNCHANGED recordVars, dom'[v] = dom[v], pub'[v] = pub[v],
             \A m \in Nodes : <<v, m>> \in defined => <<v, m>> \in defined'
      PROVE  SameVm(v) /\ SameUpdate(v)
  BY <1>0, <1>l DEF SameVm, SameUpdate, recordVars
<1>f. ASSUME UNCHANGED <<recordVars, libvirtVars>> PROVE SameVm(v) /\ SameUpdate(v)
  BY <1>f, <1>l DEF libvirtVars
<1>1. CASE StartFindHost \/ MigrateFindHost
  BY <1>1, <1>f DEF StartFindHost, MigrateFindHost
<1>2. CASE DefineDomain
  BY <1>2, <1>d, <1>f, <1>l DEF DefineDomain
<1>3. CASE CreateDomain
  BY <1>3, <1>d, <1>u, <1>f, <1>l DEF CreateDomain
<1>4. CASE DomainCommand
  BY <1>4, <1>d, <1>f, <1>l DEF DomainCommand
<1>5. CASE UndefineStopped \/ UndefineShutOff \/ MigrateUndefine
  BY <1>5, <1>u, <1>f, <1>l DEF UndefineStopped, UndefineShutOff, UndefineDomain, MigrateUndefine
<1>6. CASE MigrateDomain
  <2>1. dom'[v] = dom[v] /\ pub'[v] = pub[v] /\ UNCHANGED defined
    BY <1>0, <1>6 DEF MigrateDomain, LibvirtTypeOK, libvirtVars
  <2> QED BY <1>6, <1>l, <2>1 DEF MigrateDomain
<1>7. CASE ReloadVm \/ MarkReload \/ RevertReload
  <2>1. UNCHANGED <<vms, libvirtVars>> /\ (fresh' = fresh \/ fresh' = fresh \cup {P})
    BY <1>7 DEF ReloadVm, MarkReload, RevertReload, Reload, Load
  <2> QED BY <1>0, <2>1, Different DEF SameVm, SameUpdate, libvirtVars
<1>8. CASE SetVmVncPort \/ SaveStartAttributes \/ SaveVmState \/ MarkMigrating \/ RevertState
  <2>1. /\ UNCHANGED libvirtVars
        /\ UNCHANGED <<vms, fresh>> \/ \E row : Write(P, row)
    BY <1>8 DEF SetVmVncPort, SaveStartAttributes, SaveVmState, MarkMigrating, RevertState,
       SaveVm, Save
  <2>2. vms'[v] = vms[v] /\ (Updating(v) => (D \in fresh' <=> D \in fresh))
    BY <1>0, <2>1, Different DEF Write, VmsInv
  <2> QED BY <1>0, <2>1, <2>2 DEF SameVm, SameUpdate, libvirtVars
<1> QED BY <1>1, <1>2, <1>3, <1>4, <1>5, <1>6, <1>7, <1>8 DEF HandlerStep

\* A VM whose task is executed is at one of four places of a handler.
LEMMA TaskomaticRows ==
  ASSUME IInv, JobsIn(Pausing), NEW v \in Vms, NEW h \in Nodes \cup {None}, RowInv(v, h), Live(v),
         TaskomaticActs
  PROVE  RowInv(v, h)'
<1>0. UNCHANGED dbomaticVars
  BY DEF TaskomaticActs
<1>1. CASE \E j \in tk.batch : BeginTask(j)
  BY <1>0, <1>1, BeginRow
<1>2. CASE Poll \/ FinishTask
  <2>1. tk.pc \in {"idle", "finish"} /\ tk'.pc \in {"idle", "loop"}
    BY <1>2, TkIsRecord DEF Poll, FinishTask, At, TkRecord
  <2>2. UpToDate(v, h) /\ ~Executing(v)'
    BY <2>1 DEF RowInv, MayBeBehind, Executing
  <2>3. UNCHANGED <<vms, libvirtVars>> /\ (fresh' = fresh \/ fresh' = fresh \ {P})
    BY <1>2 DEF Poll, FinishTask, Release, recordVars
  <2>4. SameVm(v) /\ SameUpdate(v)
    BY <1>0, <2>3, Different DEF SameVm, SameUpdate, libvirtVars, dbomaticVars
  <2> QED BY <2>2, <2>4, RowFrame
<1>3. CASE HandlerStep /\ Vm # v
  <2>1. UpToDate(v, h)
    BY <1>3 DEF RowInv, MayBeBehind, Executing
  <2>2. ~Executing(v)'
    BY <1>3, HandlerKeepsTask DEF Executing, Vm
  <2> QED BY <1>0, <1>3, <2>1, <2>2, HandlerTouches, RowFrame
<1>4. CASE HandlerStep /\ Vm = v
  <2>1. tk.pc \in {"cmd", "undefine", "reload", "save"}
    BY <1>4, HandlerPlaces DEF RowInv, TaskomaticPart, Executing
  <2>2. DomainCommand \/ UndefineStopped \/ ReloadVm \/ SaveVmState
    BY <1>4, <2>1 DEF HandlerStep, StartFindHost, DefineDomain, CreateDomain,
       UndefineShutOff, UndefineDomain, SetVmVncPort, SaveStartAttributes, SaveVm,
       MarkReload, Reload, MarkMigrating, MigrateFindHost, MigrateDomain, MigrateUndefine,
       RevertReload, RevertState, At
  <2> QED BY <1>0, <1>4, <2>2, CommandRow, UndefineRow, ReloadRow, SaveRow
<1> QED BY <1>1, <1>2, <1>3, <1>4 DEF TaskomaticActs, TaskomaticStep, HandlerStep

-----------------------------------------------------------------------------
(***************************************************************************)
(* db-omatic: publications and the row.                                    *)
(***************************************************************************)

\* An update begins with what has been published, or with the end of the domain.
LEMMA EnterRow ==
  ASSUME IInv, NEW v \in Vms, NEW h \in Nodes, RowInv(v, h), Live(v), dbo.pc = "idle",
         NEW s \in {"shutoff", "running", "paused"}, NEW e \in CacheEntry, EnterUpdate(v, e),
         e.node = h, e.state = s, e.synced, UNCHANGED tk,
         \/ s = dom[v][h] /\ pub' = [pub EXCEPT ![v][h] = s]
         \/ s = "shutoff" /\ dom[v][h] = "none" /\ pub' = [pub EXCEPT ![v][h] = "none"]
  PROVE  RowInv(v, h)'
<1>1. /\ UNCHANGED <<vms, dom, defined>> /\ fresh' = fresh \cup {D} /\ cache'[v] = e
      /\ dbo' = [pc |-> "vnc", vm |-> v, row |-> None, touched |-> FALSE]
  BY DEF EnterUpdate, Load, IInv, DbomaticTypeOK
<1>2. StateAt(v, h) = dom[v][h] /\ StateAt(v, h)' = dom[v][h]
  BY <1>1, StateIs
<1>3. \A n \in Nodes : pub'[v][n] = IF n # h THEN pub[v][n] ELSE IF s = dom[v][h] THEN s ELSE "none"
  BY DEF IInv, LibvirtTypeOK
<1>4. AtHome(v, h)'
  BY <1>1, <1>2, <1>3, EntryAssumption DEF RowInv, AtHome, On
<1>5. RowFits(v, h)'
  BY <1>1, <1>2 DEF RowInv, RowFits
<1>6. DbomaticPart(v, h)'
  <2>1. On(s) => s = dom[v][h]
    BY DEF On
  <2>2. cache'[v].state = s /\ D \in fresh' /\ dbo'.pc = "vnc" /\ ~dbo'.touched
    BY <1>1
  <2> QED BY <1>2, <2>1, <2>2 DEF DbomaticPart, WillSave, Updating
<1>7. TaskomaticPart(v, h)'
  BY <1>1 DEF RowInv, TaskomaticPart, Executing, Vm, Doing
<1>8. UpToDate(v, h) => UpToDate(v, h)'
  BY <1>1, <1>2 DEF UpToDate, RowTrue, WillSave, Updating
<1>9. MayBeBehind(v, h) => MayBeBehind(v, h)'
  BY <1>1, <1>2 DEF MayBeBehind, Executing, Vm
<1> QED BY <1>4, <1>5, <1>6, <1>7, <1>8, <1>9 DEF RowInv

\* Publications of the domain of v.
LEMMA PublishRow ==
  ASSUME IInv, NEW v \in Vms, NEW h \in Nodes \cup {None}, RowInv(v, h), Live(v),
         NEW n \in Nodes, ObjectUpdate(v, n) \/ ObjectGone(v, n), UNCHANGED tk
  PROVE  RowInv(v, h)'
<1>0. dbo.pc = "idle"
  BY DEF ObjectUpdate, ObjectGone
<1>1. n = h /\ h \in Nodes /\ pub[v][n] # "none"
  BY DEF ObjectUpdate, ObjectGone, RowInv, AtHome
<1>2. cache[v] # None /\ cache[v].node = h /\ cache[v].synced /\ cache[v].synced \in BOOLEAN
  BY <1>1 DEF RowInv, AtHome, IInv, DbomaticTypeOK, CacheEntry
<1>3. dom[v][h] \in {"none", "shutoff", "running", "paused"}
  BY <1>1 DEF IInv, LibvirtTypeOK, DomainState
<1>4. CASE ObjectUpdate(v, n)
  <2> DEFINE e == [node |-> n, state |-> dom[v][n],
                   synced |-> Cached(v, n) /\ pub[v][n] # "none" /\ cache[v].synced]
  <2>1. EnterUpdate(v, e) /\ dom[v][h] # "none" /\ pub' = [pub EXCEPT ![v][h] = dom[v][h]]
    BY <1>1, <1>4 DEF ObjectUpdate, UpdateProps
  <2>2. e.node = h /\ e.state = dom[v][h] /\ e.synced /\ e \in CacheEntry
    BY <1>1, <1>2, <1>3, <2>1 DEF Cached, CacheEntry, DomainState
  <2> HIDE DEF e
  <2> QED BY <1>0, <1>1, <1>3, <2>1, <2>2, EnterRow
<1>5. CASE ObjectGone(v, n)
  <2>1. dom[v][h] = "none" /\ pub' = [pub EXCEPT ![v][h] = "none"]
    BY <1>1, <1>5 DEF ObjectGone
  <2>2. CASE UNCHANGED <<recordVars, dom, defined, dbomaticVars>>
    <3>1. \A m \in Nodes : pub'[v][m] = IF m = h THEN "none" ELSE pub[v][m]
      BY <2>1 DEF IInv, LibvirtTypeOK
    <3>2. StateAt(v, h)' = StateAt(v, h)
      BY <2>2 DEF StateAt
    <3>3. AtHome(v, h)'
      BY <2>1, <2>2, <3>1, <3>2 DEF RowInv, AtHome, dbomaticVars
    <3>4. RowFits(v, h)' /\ DbomaticPart(v, h)' /\ TaskomaticPart(v, h)'
      BY <2>2, <3>2 DEF RowInv, RowFits, DbomaticPart, WillSave, Updating, TaskomaticPart, Executing,
         Vm, Doing, recordVars, dbomaticVars
    <3>5. UpToDate(v, h)' \/ MayBeBehind(v, h)'
      BY <2>2, <3>2 DEF RowInv, UpToDate, RowTrue, WillSave, Updating, MayBeBehind, Executing, Vm,
         recordVars, dbomaticVars
    <3> QED BY <3>3, <3>4, <3>5 DEF RowInv
  <2>3. CASE UpdateProps(v, n, "shutoff", Cached(v, n))
    <3> DEFINE e == [node |-> n, state |-> "shutoff", synced |-> Cached(v, n) /\ cache[v].synced]
    <3>1. EnterUpdate(v, e)
      BY <2>3 DEF UpdateProps
    <3>2. e.node = h /\ e.state = "shutoff" /\ e.synced /\ e \in CacheEntry
      BY <1>1, <1>2 DEF Cached, CacheEntry, DomainState
    <3> HIDE DEF e
    <3> QED BY <1>0, <1>1, <2>1, <3>1, <3>2, EnterRow
  <2> QED BY <1>5, <2>2, <2>3 DEF ObjectGone
<1> QED BY <1>4, <1>5

\* What an update of v works on.
LEMMA UpdateOf ==
  ASSUME IInv, NEW v, Updating(v)
  PROVE  /\ cache[v] # None /\ cache[v].state \in {"shutoff", "running", "paused"}
         /\ copy[D].vm = v /\ D \in Processes
         /\ D \in fresh => vms[v] = RowOf(copy[D])
BY EntryAssumption, Different DEF Updating, IInv, DbomaticHolds, CacheEntry, DomainState, VmsInv, FreshMeansCurrent

\* The QMF part.
LEMMA ActRow ==
  ASSUME IInv, NEW v \in Vms, NEW h \in Nodes \cup {None}, RowInv(v, h), Live(v),
         UpdateAct, dbo.vm = v, UNCHANGED tk
  PROVE  RowInv(v, h)'
<1> DEFINE c == cache[v].state
<1>0. /\ Updating(v) /\ dbo.pc = "act" /\ UNCHANGED <<vms, fresh, copy, cache>>
      /\ c \in {"shutoff", "running", "paused"} /\ cache[v] # None
  BY UpdateOf DEF UpdateAct, Updating, recordVars
<1>d. ASSUME NEW row, dbo' = [dbo EXCEPT !.pc = "save", !.row = row]
      PROVE  dbo'.pc = "save" /\ dbo'.row = row /\ dbo'.vm = v /\ dbo'.touched = dbo.touched
  BY <1>d DEF IInv, DbomaticTypeOK
<1>t. Translate[c] = Says[c]
  BY <1>0 DEF Translate, Says
<1>1. CASE c = "shutoff"
  <2>1. StateAt(v, h) \in {"none", "shutoff"}
    <3>1. ~On(StateAt(v, h))
      BY <1>0, <1>1 DEF RowInv, AtHome
    <3> QED BY <3>1 DEF On, StateAt, IInv, LibvirtTypeOK, DomainState
  <2>2. PICK o \in Lookup(v), host \in Nodes \cup {None} :
           /\ dbo' = [dbo EXCEPT !.pc = "save", !.row = [state |-> "stopped", host |-> host]]
           /\ IF o # None /\ Undefinable(v, o) THEN Undefine(v, o) ELSE UNCHANGED libvirtVars
    <3>1. copy[D].host \in Nodes \cup {None}
      BY <1>0 DEF Updating, IInv, DbomaticHolds, VmObject
    <3>2. Translate[cache[dbo.vm].state] = "stopped"
      BY <1>1 DEF Translate
    <3>3. PICK o \in Lookup(v) :
                 IF o # None /\ Undefinable(v, o)
                 THEN /\ Undefine(v, o)
                      /\ dbo' = [dbo EXCEPT !.pc = "save", !.row = [state |-> "stopped", host |-> None]]
                 ELSE /\ UNCHANGED libvirtVars
                      /\ dbo' = [dbo EXCEPT !.pc = "save", !.row = [state |-> "stopped", host |-> copy[D].host]]
      BY <3>2 DEF UpdateAct
    <3> QED BY <3>1, <3>3
  <2>3. dbo'.pc = "save" /\ dbo'.row.state = "stopped" /\ dbo'.vm = v /\ dbo'.touched = dbo.touched
    BY <1>d, <2>2
  <2>4. Updating(v)' /\ (WillSave(v)' <=> WillSave(v))
    BY <1>0, <2>3 DEF Updating, WillSave
  <2>5. CASE StateAt(v, h) = "none"
    <3>1. \A n \in Nodes : dom[v][n] = "none"
      BY <2>5, NodesAssumption DEF RowInv, AtHome, StateAt
    <3>2. UNCHANGED libvirtVars
      BY <2>2, <3>1 DEF Lookup
    <3>3. StateAt(v, h)' = "none"
      BY <2>5, <3>2 DEF StateAt, libvirtVars
    <3>4. AtHome(v, h)' /\ RowFits(v, h)'
      BY <1>0, <2>5, <3>2, <3>3 DEF RowInv, AtHome, RowFits, libvirtVars
    <3>5. DbomaticPart(v, h)'
      BY <1>0, <1>1, <2>3, <2>4, <3>3 DEF RowInv, DbomaticPart, On, Says
    <3>6. TaskomaticPart(v, h)'
      BY <1>0, <3>2 DEF RowInv, TaskomaticPart, Executing, Vm, Doing, libvirtVars
    <3>7. UpToDate(v, h)' \/ MayBeBehind(v, h)'
      BY <1>0, <2>4, <2>5, <3>3 DEF RowInv, UpToDate, RowTrue, MayBeBehind, Executing, Vm
    <3> QED BY <3>4, <3>5, <3>6, <3>7 DEF RowInv
  <2>6. CASE StateAt(v, h) = "shutoff"
    <3>1. h \in Nodes /\ dom[v][h] = "shutoff"
      BY <2>6 DEF StateAt
    <3>2. o = h
      BY <3>1, NodesAssumption DEF Lookup, RowInv, AtHome
    <3>3. Undefine(v, h)
      BY <2>2, <3>1, <3>2, NodesAssumption DEF Undefinable
    <3>4. /\ \A n \in Nodes : dom'[v][n] = IF n = h THEN "none" ELSE dom[v][n]
          /\ UNCHANGED pub /\ defined' = defined \ {<<v, h>>}
      <4>1. \A w \in Vms : \A m \in Nodes : dom'[w][m] = IF w = v /\ m = h THEN "none" ELSE dom[w][m]
        BY <3>3, SetDomainEffect DEF IInv, Undefine
      <4> QED BY <3>1, <3>3, <4>1 DEF SetDomain, Undefine
    <3>5. StateAt(v, h)' = "none"
      BY <3>1, <3>4, StateIs
    <3>6. D \in fresh
      BY <1>0, <1>1, <2>6 DEF RowInv, DbomaticPart, On
    <3>7. tk.pc = "undefine" /\ Executing(v)
      BY <2>6, <3>1 DEF RowInv, UpToDate, MayBeBehind, TaskomaticPart
    <3>8. AtHome(v, h)'
      BY <1>0, <3>1, <3>4, <3>5 DEF RowInv, AtHome, On
    <3>9. RowFits(v, h)'
      BY <1>0, <3>5 DEF RowInv, RowFits, On
    <3>10. DbomaticPart(v, h)'
      BY <1>0, <1>1, <2>3, <2>4, <2>6, <3>5 DEF RowInv, DbomaticPart, WillSave, On, Says
    <3>11. TaskomaticPart(v, h)'
      BY <1>0, <3>7 DEF RowInv, TaskomaticPart, Executing, Vm, Doing
    <3>12. UpToDate(v, h)'
      BY <1>0, <1>1, <2>4, <3>5, <3>6 DEF UpToDate, WillSave, On
    <3> QED BY <3>8, <3>9, <3>10, <3>11, <3>12 DEF RowInv
  <2> QED BY <2>1, <2>5, <2>6
<1>2. CASE On(c)
  <2>1. Translate[cache[dbo.vm].state] = Says[c] /\ Says[c] \in {"running", "suspended"}
    BY <1>0, <1>2, <1>t DEF Says, On, Updating
  <2>2. /\ UNCHANGED libvirtVars
        /\ \E o \in Lookup(v) \cup {None} :
             dbo' = [dbo EXCEPT !.pc = "save", !.row = [state |-> Says[c],
                                                 host |-> IF o = None THEN copy[D].host ELSE o]]
    BY <2>1 DEF UpdateAct
  <2>3. PICK o \in Lookup(v) \cup {None} :
             dbo' = [dbo EXCEPT !.pc = "save", !.row = [state |-> Says[c],
                                                 host |-> IF o = None THEN copy[D].host ELSE o]]
    BY <2>2
  <2>4. /\ dbo'.pc = "save" /\ dbo'.vm = v /\ dbo'.touched = dbo.touched
        /\ dbo'.row.state = Says[c] /\ dbo'.row.host = IF o = None THEN copy[D].host ELSE o
    <3> DEFINE row == [state |-> Says[c], host |-> IF o = None THEN copy[D].host ELSE o]
    <3>1. dbo' = [dbo EXCEPT !.pc = "save", !.row = row]
      BY <2>3
    <3>2. row.state = Says[c] /\ row.host = IF o = None THEN copy[D].host ELSE o
      OBVIOUS
    <3> HIDE DEF row
    <3>3. /\ dbo'.pc = "save" /\ dbo'.vm = v /\ dbo'.touched = dbo.touched /\ dbo'.row = row
      BY <1>d, <3>1
    <3> QED
      BY <3>2, <3>3
  <2>5. Updating(v)' /\ (WillSave(v)' <=> WillSave(v)) /\ StateAt(v, h)' = StateAt(v, h)
    BY <1>0, <2>2, <2>4 DEF Updating, WillSave, StateAt, libvirtVars
  <2>6. WillSave(v) => dbo'.row.host = h
    <3>1. o # None => o = h
      BY NodesAssumption DEF Lookup, RowInv, AtHome
    <3>2. WillSave(v) => vms[v].state # "stopped"
      <4>1. CASE c = StateAt(v, h)
        BY <1>2, <4>1 DEF RowInv, RowFits
      <4>2. CASE c # StateAt(v, h)
        BY <1>2, <2>1, <4>2 DEF RowInv, DbomaticPart
      <4> QED BY <4>1, <4>2
    <3>3. WillSave(v) => copy[D].host = vms[v].host
      BY <1>0, UpdateOf DEF WillSave, RowOf
    <3> QED BY <2>4, <3>1, <3>2, <3>3 DEF RowInv, RowFits
  <2>7. AtHome(v, h)' /\ RowFits(v, h)'
    BY <1>0, <2>2, <2>5 DEF RowInv, AtHome, RowFits, libvirtVars
  <2>8. DbomaticPart(v, h)'
    BY <1>0, <1>2, <2>4, <2>5, <2>6 DEF RowInv, DbomaticPart
  <2>9. TaskomaticPart(v, h)'
    BY <1>0, <2>2 DEF RowInv, TaskomaticPart, Executing, Vm, Doing, libvirtVars
  <2>10. UpToDate(v, h)' \/ MayBeBehind(v, h)'
    BY <1>0, <2>5 DEF RowInv, UpToDate, RowTrue, MayBeBehind, Executing, Vm
  <2> QED BY <2>7, <2>8, <2>9, <2>10 DEF RowInv
<1> QED BY <1>0, <1>1, <1>2 DEF On

\* Without a VNC console to forward nothing is saved before the QMF part.
LEMMA VncRow ==
  ASSUME IInv, ForwardVnc = {}, NEW v \in Vms, NEW h, RowInv(v, h),
         UpdateVnc, dbo.vm = v, UNCHANGED tk
  PROVE  RowInv(v, h)'
<1>1. /\ Updating(v) /\ UNCHANGED <<vms, dom, pub, defined, cache, fresh>>
      /\ dbo'.pc = "act" /\ dbo'.vm = v /\ ~dbo'.touched
  <2>1. (dbo.vm \in ForwardVnc) = FALSE
    OBVIOUS
  <2>2. fresh' = fresh /\ dbo' = [dbo EXCEPT !.pc = "act", !.touched = FALSE]
    BY <2>1, Zenon DEF UpdateVnc
  <2>3. dbo'.pc = "act" /\ dbo'.vm = v /\ ~dbo'.touched
    BY <2>2 DEF IInv, DbomaticTypeOK
  <2> QED BY <2>2, <2>3 DEF UpdateVnc, Updating, libvirtVars
<1>2. StateAt(v, h)' = StateAt(v, h) /\ Updating(v)' /\ (WillSave(v)' <=> WillSave(v))
  BY <1>1 DEF StateAt, Updating, WillSave
<1>3. AtHome(v, h)' /\ RowFits(v, h)'
  BY <1>1, <1>2 DEF RowInv, AtHome, RowFits
<1>4. DbomaticPart(v, h)'
  BY <1>1, <1>2 DEF RowInv, DbomaticPart
<1>5. TaskomaticPart(v, h)'
  BY <1>1 DEF RowInv, TaskomaticPart, Executing, Vm, Doing
<1>6. UpToDate(v, h)' \/ MayBeBehind(v, h)'
  BY <1>1, <1>2 DEF RowInv, UpToDate, RowTrue, MayBeBehind, Executing, Vm
<1> QED BY <1>3, <1>4, <1>5, <1>6 DEF RowInv

\* What the save! at the end of an update does to the row of its VM.
LEMMA UpdateWrites ==
  ASSUME IInv, NEW v \in Vms, NEW h, RowInv(v, h), Live(v), UpdateSave, dbo.vm = v
  PROVE  /\ vms'[v] = IF D \in fresh THEN dbo.row ELSE vms[v]
         /\ vms'[v] = vms[v] => fresh' = fresh \ {D}
<1>1. Updating(v) /\ (D \in fresh => ~dbo.touched /\ vms[v] = RowOf(copy[D]))
  BY UpdateOf DEF UpdateSave, Updating, WillSave, RowInv, DbomaticPart
<1>2. vms \in [Vms -> VmRow \cup {None, Deleted}]
  BY DEF IInv, VmsInv
<1>3. CASE D \notin fresh
  BY <1>3 DEF UpdateSave, Savable
<1>4. CASE D \in fresh /\ Changed(D, dbo.row)
  BY <1>1, <1>2, <1>4 DEF UpdateSave, Savable, Changed
<1>5. CASE D \in fresh /\ ~Changed(D, dbo.row)
  BY <1>1, <1>5 DEF UpdateSave, Savable, Changed
<1> QED BY <1>3, <1>4, <1>5

\* The save! of an update either brings the row up to date or changes nothing.
LEMMA UpdateSaveRow ==
  ASSUME IInv, NEW v \in Vms, NEW h \in Nodes \cup {None}, RowInv(v, h), Live(v),
         UpdateSave, dbo.vm = v, UNCHANGED tk
  PROVE  RowInv(v, h)'
<1> DEFINE c == cache[v].state
<1>0. /\ Updating(v) /\ dbo.pc = "save" /\ UNCHANGED libvirtVars
      /\ cache[v] # None /\ c \in {"shutoff", "running", "paused"}
      /\ StateAt(v, h)' = StateAt(v, h)
  BY UpdateOf DEF UpdateSave, Updating, StateAt, libvirtVars
<1>1. ~Updating(v)'
  BY DEF UpdateSave, Updating, Resting
<1>2. AtHome(v, h)'
  <2>1. cache' = cache \/ cache' = Synced(v)
    BY DEF UpdateSave
  <2>2. cache \in [Vms -> CacheEntry \cup {None}]
    BY DEF IInv, DbomaticTypeOK
  <2>3. cache[v] \in CacheEntry /\ cache[v].synced
    BY <1>0, <2>2 DEF RowInv, AtHome
  <2>4. cache'[v] = cache[v]
    <3>1. ASSUME NEW e \in CacheEntry, e.synced PROVE [e EXCEPT !.synced = TRUE] = e
      <4>1. e.synced = TRUE
        BY <3>1 DEF CacheEntry
      <4> QED BY <4>1 DEF CacheEntry
    <3>2. Synced(v)[v] = [cache[v] EXCEPT !.synced = TRUE]
      BY <2>2 DEF Synced
    <3> QED BY <2>1, <2>3, <3>1, <3>2
  <2> QED BY <1>0, <2>4 DEF RowInv, AtHome, libvirtVars
<1>3. DbomaticPart(v, h)'
  BY <1>1 DEF DbomaticPart, WillSave
<1>4. TaskomaticPart(v, h) /\ dbo.row \in VmRow /\ vms[v] \in VmRow
  BY <1>0 DEF RowInv, IInv, DbomaticHolds, VmsInv, Live
<1>5. CASE vms'[v] = vms[v]
  <2>1. fresh' = fresh \ {D}
    BY <1>5, UpdateWrites
  <2>2. P \in fresh => P \in fresh'
    BY <2>1, Different
  <2>3. RowFits(v, h)'
    BY <1>0, <1>5 DEF RowInv, RowFits
  <2>4. TaskomaticPart(v, h)'
    BY <1>0, <1>4, <2>2 DEF TaskomaticPart, Executing, Vm, Doing, libvirtVars
  <2>5. MayBeBehind(v, h) => MayBeBehind(v, h)'
    BY <1>0, <2>2 DEF MayBeBehind, Executing, Vm
  <2>6. RowTrue(v, h) => RowTrue(v, h)'
    BY <1>0, <1>5 DEF RowTrue
  <2>7. WillSave(v) /\ ~On(c) /\ StateAt(v, h) = "none" => RowTrue(v, h)'
    <3>1. ASSUME WillSave(v), ~On(c), StateAt(v, h) = "none"
          PROVE  vms'[v].state = Says["shutoff"]
      BY <1>0, <3>1, UpdateWrites DEF WillSave, RowInv, DbomaticPart, On
    <3> QED BY <1>0, <3>1 DEF RowTrue, Says
  <2>8. UpToDate(v, h) => UpToDate(v, h)'
    BY <1>0, <2>6, <2>7 DEF UpToDate
  <2> QED BY <1>2, <1>3, <2>3, <2>4, <2>5, <2>8 DEF RowInv
<1>6. CASE vms'[v] # vms[v]
  <2>1. D \in fresh /\ vms'[v] = dbo.row /\ WillSave(v)
    BY <1>0, <1>6, UpdateWrites DEF WillSave
  <2>2. /\ dbo.row.state = Says[c]
        /\ On(c) => dbo.row.host = h
        /\ ~On(c) => StateAt(v, h) = "none"
        /\ On(c) /\ c # StateAt(v, h) => vms[v].state = Says[c]
    BY <1>0, <2>1 DEF RowInv, DbomaticPart
  <2>3. On(c) => vms[v].state # Says[c]
    <3> SUFFICES ASSUME On(c), vms[v].state = Says[c] PROVE FALSE
      OBVIOUS
    <3>1. vms[v].host = h
      BY DEF RowInv, RowFits, On, Says
    <3>2. dbo.row = vms[v]
      BY <1>4, <2>2, <3>1 DEF VmRow
    <3> QED BY <1>6, <2>1, <3>2
  <2>4. RowTrue(v, h)' /\ StateAt(v, h) # "shutoff"
    <3>1. CASE On(c)
      BY <1>0, <2>1, <2>2, <2>3, <3>1 DEF RowTrue, On
    <3>2. CASE ~On(c)
      <4>1. Says[c] = "stopped"
        BY <1>0, <3>2 DEF On, Says
      <4>2. vms'[v].state = "stopped" /\ StateAt(v, h)' = "none"
        BY <1>0, <2>1, <2>2, <3>2, <4>1
      <4> QED BY <1>0, <4>2 DEF RowTrue, Says
    <3> QED BY <3>1, <3>2
  <2>5. UpToDate(v, h)'
    BY <1>0, <2>4 DEF UpToDate
  <2>6. RowFits(v, h)'
    <3>1. CASE On(c)
      <4>1. Says[c] \in {"running", "suspended"} /\ vms'[v].host = h
        BY <2>1, <2>2, <3>1 DEF On, Says
      <4> QED BY <2>1, <2>2, <4>1 DEF RowFits
    <3>2. CASE ~On(c)
      <4>1. Says[c] = "stopped"
        BY <1>0, <3>2 DEF On, Says
      <4> QED BY <1>0, <2>1, <2>2, <3>2, <4>1 DEF RowFits, On
    <3> QED BY <3>1, <3>2
  <2>7. ~(Executing(v) /\ tk.pc = "cmd")
    <3> SUFFICES ASSUME Executing(v), tk.pc = "cmd" PROVE FALSE
      OBVIOUS
    <3>1. h \in Nodes /\ On(StateAt(v, h))
      BY <1>4, StateIs DEF TaskomaticPart
    <3>2. RowTrue(v, h)
      BY <3>1 DEF RowInv, MayBeBehind, UpToDate, On
    <3>3. On(c) /\ c = StateAt(v, h)
      BY <2>2, <2>3, <3>1 DEF On
    <3> QED BY <2>3, <3>2, <3>3 DEF RowTrue
  <2>8. TaskomaticPart(v, h)'
    BY <1>0, <1>4, <2>7 DEF TaskomaticPart, Executing, Vm, Doing, libvirtVars
  <2> QED BY <1>2, <1>3, <2>5, <2>6, <2>8 DEF RowInv
<1> QED BY <1>5, <1>6

-----------------------------------------------------------------------------
(***************************************************************************)
(* All steps, and the theorem.                                             *)
(***************************************************************************)

\* A step of db-omatic that concerns another VM.
LEMMA OtherUpdate ==
  ASSUME IInv, NEW v \in Vms, NEW w \in Vms, w # v, UNCHANGED tk,
         \/ \E n \in Nodes : ObjectUpdate(w, n) \/ ObjectGone(w, n)
         \/ Resync(w)
         \/ dbo.vm = w /\ (UpdateVnc \/ UpdateAct \/ UpdateSave)
  PROVE  SameVm(v) /\ SameUpdate(v) /\ SameTask(v)
<1>0. /\ LibvirtTypeOK /\ vms \in [Vms -> VmRow \cup {None, Deleted}]
      /\ cache \in [Vms -> CacheEntry \cup {None}]
      /\ Executing(v) => copy[P].vm = v
  BY DEF IInv, VmsInv, DbomaticTypeOK, TaskomaticHolds, Executing, Vm
<1>1. ASSUME NEW e, EnterUpdate(w, e), dbo.pc = "idle", NEW n \in Nodes,
             pub' = pub \/ \E s : pub' = [pub EXCEPT ![w][n] = s]
      PROVE  SameVm(v) /\ SameUpdate(v) /\ SameTask(v)
  <2>1. vms'[v] = vms[v] /\ dom'[v] = dom[v] /\ pub'[v] = pub[v] /\ defined' = defined
    BY <1>0, <1>1 DEF EnterUpdate, LibvirtTypeOK
  <2>2. cache'[v] = cache[v] /\ (dbo' = dbo \/ dbo'.vm = w) /\ fresh \subseteq fresh'
    BY <1>0, <1>1 DEF EnterUpdate, Load
  <2> QED BY <1>1, <2>1, <2>2 DEF SameVm, SameUpdate, SameTask, Updating
<1>2. CASE \E n \in Nodes : ObjectUpdate(w, n)
  <2>1. PICK n \in Nodes : ObjectUpdate(w, n)
    BY <1>2
  <2>2. dbo.pc = "idle" /\ (\E e : EnterUpdate(w, e)) /\ \E s : pub' = [pub EXCEPT ![w][n] = s]
    BY <2>1 DEF ObjectUpdate, UpdateProps
  <2> QED BY <1>1, <2>2
<1>3. CASE \E n \in Nodes : ObjectGone(w, n)
  <2>1. PICK n \in Nodes : ObjectGone(w, n)
    BY <1>3
  <2>2. dbo.pc = "idle" /\ pub' = [pub EXCEPT ![w][n] = "none"]
    BY <2>1 DEF ObjectGone
  <2>3. CASE UNCHANGED <<recordVars, dom, defined, dbomaticVars>>
    <3>1. pub'[v] = pub[v]
      BY <2>2
    <3> QED BY <2>2, <2>3, <3>1 DEF SameVm, SameUpdate, SameTask, Updating, recordVars, dbomaticVars
  <2>4. CASE \E e : EnterUpdate(w, e)
    BY <1>1, <2>2, <2>4
  <2> QED BY <2>1, <2>3, <2>4 DEF ObjectGone, UpdateProps
<1>4. CASE Resync(w)
  <2>1. dbo.pc = "idle" /\ EnterUpdate(w, cache[w]) /\ pub' = pub /\ cache[w].node \in Nodes
    BY <1>0, <1>4 DEF Resync, CacheEntry
  <2> QED BY <1>1, <2>1
<1>5. CASE dbo.vm = w /\ (UpdateVnc \/ UpdateAct \/ UpdateSave)
  <2>1. /\ ~Updating(v)
        /\ dbo'.vm = w \/ dbo'.pc = "idle"
    <3>1. dbo.vm = w /\ \A x, y : /\ [dbo EXCEPT !.pc = "act", !.touched = x].vm = w
                                  /\ [dbo EXCEPT !.pc = "save", !.row = y].vm = w
      BY <1>5 DEF IInv, DbomaticTypeOK
    <3>2. CASE UpdateVnc
      BY <3>1, <3>2 DEF UpdateVnc, Updating
    <3>3. CASE UpdateAct
      <4>1. \E y : dbo' = [dbo EXCEPT !.pc = "save", !.row = y]
        BY <3>3 DEF UpdateAct
      <4> QED
        BY <1>1, <3>1, <3>3, <4>1 DEF UpdateAct, Updating
    <3>4. CASE UpdateSave
      BY <3>1, <3>4 DEF UpdateSave, Resting, Updating
    <3> QED BY <1>5, <3>2, <3>3, <3>4
  <2>2. SameUpdate(v)
    BY <2>1 DEF SameUpdate, Updating
  <2>3. CASE UpdateVnc
    <3>1. fresh' = fresh \/ fresh' = {q \in fresh : copy[q].vm # w} \cup {D}
      BY <1>5, <2>3 DEF UpdateVnc
    <3>2. Executing(v) /\ P \in fresh => P \in fresh'
      BY <1>0, <3>1
    <3> QED BY <2>2, <2>3, <3>2 DEF UpdateVnc, SameVm, SameTask, libvirtVars
  <2>4. CASE UpdateAct
    <3>1. UNCHANGED <<vms, fresh, cache>>
      BY <2>4 DEF UpdateAct, recordVars
    <3>2. CASE UNCHANGED libvirtVars
      BY <2>2, <3>1, <3>2 DEF SameVm, SameTask, libvirtVars
    <3>3. CASE \E o : Undefine(w, o)
      <4>1. dom'[v] = dom[v] /\ pub'[v] = pub[v]
            /\ \A n \in Nodes : <<v, n>> \in defined => <<v, n>> \in defined'
        BY <1>0, <3>3 DEF Undefine, SetDomain, LibvirtTypeOK
      <4> QED BY <2>2, <3>1, <4>1 DEF SameVm, SameTask
    <3>4. UNCHANGED libvirtVars \/ \E o : Undefine(w, o)
      BY <1>5, <2>4 DEF UpdateAct
    <3> QED BY <3>2, <3>3, <3>4
  <2>5. CASE UpdateSave
    <3>1. UNCHANGED <<dom, pub, defined>> /\ vms'[v] = vms[v] /\ cache'[v] = cache[v]
      BY <1>0, <1>5, <2>5 DEF UpdateSave, Synced, libvirtVars
    <3>2. Executing(v) /\ P \in fresh => P \in fresh'
      BY <1>0, <1>5, <2>5, Different DEF UpdateSave
    <3> QED BY <2>2, <3>1, <3>2 DEF SameVm, SameTask
  <2> QED BY <1>5, <2>3, <2>4, <2>5
<1> QED BY <1>2, <1>3, <1>4, <1>5

\* Every step of db-omatic concerns one VM.
LEMMA DbomaticTurns ==
  ASSUME IInv, DbomaticActs
  PROVE  \E w \in Vms :
           \/ \E n \in Nodes : ObjectUpdate(w, n) \/ ObjectGone(w, n)
           \/ Resync(w)
           \/ dbo.vm = w /\ (UpdateVnc \/ UpdateAct \/ UpdateSave)
<1>1. UpdateVnc \/ UpdateAct \/ UpdateSave => dbo.vm \in Vms
  BY DEF UpdateVnc, UpdateAct, UpdateSave, IInv, DbomaticHolds
<1> QED BY <1>1 DEF DbomaticActs, DbomaticStep

\* db-omatic's part: a synced entry is never tried again.
LEMMA DbomaticRows ==
  ASSUME IInv, ForwardVnc = {}, NEW v \in Vms, NEW h \in Nodes \cup {None}, RowInv(v, h),
         Live(v), DbomaticActs
  PROVE  RowInv(v, h)'
<1>0. UNCHANGED tk
  BY DEF DbomaticActs
<1>1. PICK w \in Vms :
         \/ \E n \in Nodes : ObjectUpdate(w, n) \/ ObjectGone(w, n)
         \/ Resync(w)
         \/ dbo.vm = w /\ (UpdateVnc \/ UpdateAct \/ UpdateSave)
  BY DbomaticTurns
<1>2. CASE w # v
  BY <1>0, <1>1, <1>2, OtherUpdate, RowFrame
<1>3. CASE w = v
  <2>1. ~Resync(v)
    BY DEF Resync, RowInv, AtHome
  <2> QED BY <1>0, <1>1, <1>3, <2>1, PublishRow, VncRow, ActRow, UpdateSaveRow
<1> QED BY <1>2, <1>3

\* A request changes rows only by creating or destroying the VM.
LEMMA WuiTouches ==
  ASSUME IInv, Asked, Services \cap {"create", "update"} = {},
         NEW v \in Vms, Live(v), Live(v)', WuiActs
  PROVE  SameVm(v) /\ SameUpdate(v) /\ SameTask(v)
<1>0. UNCHANGED <<tk, dbo, cache, dom, pub, defined>>
  BY DEF WuiActs, WuiStep, WuiContinue, SvcCreate, WuiArrive, VmActionFind, UpdateFind, DestroyFind,
     CancelFind, VmActionCheck, VmActionInsert, UpdateCommit, DestroyCommit, CancelCommit,
     dbomaticVars, libvirtVars
<1>1. PICK r \in Requests : WuiArrive(r) \/ WuiContinue(r)
  BY DEF WuiActs, WuiStep
<1>2. r # P /\ r # D
  BY RequestsAssumption DEF P, D
<1>3. \/ UNCHANGED <<vms, fresh>>
      \/ vms' = vms /\ (fresh' = fresh \cup {r} \/ fresh' = fresh \ {r})
      \/ DestroyCommit(r) /\ fresh' = {q \in fresh : copy[q].vm # copy[r].vm}
         /\ vms' = [vms EXCEPT ![copy[r].vm] = Deleted]
  <2>1. ~UpdateCommit(r)
    BY DEF UpdateCommit, Asked
  <2>2. CASE WuiArrive(r)
    BY <2>2 DEF WuiArrive, VmActionFind, UpdateFind, DestroyFind, CancelFind, Load, recordVars
  <2>3. CASE VmActionCheck(r) \/ VmActionInsert(r) \/ CancelCommit(r) \/ DestroyCommit(r)
    BY <2>3 DEF VmActionCheck, VmActionInsert, CancelCommit, DestroyCommit, Leave, Release
  <2> QED BY <1>1, <2>1, <2>2, <2>3 DEF WuiContinue
<1>4. /\ vms'[v] = vms[v]
      /\ Updating(v) => (D \in fresh' <=> D \in fresh)
      /\ Executing(v) /\ P \in fresh => P \in fresh'
  <2>1. CASE vms' = vms /\ (fresh' = fresh \/ fresh' = fresh \cup {r} \/ fresh' = fresh \ {r})
    BY <1>2, <2>1
  <2>2. CASE fresh' = {q \in fresh : copy[q].vm # copy[r].vm}
             /\ vms' = [vms EXCEPT ![copy[r].vm] = Deleted]
    <3>1. copy[r].vm # v
      BY <2>2 DEF Live, IInv, VmsInv
    <3>2. (Updating(v) => copy[D].vm = v) /\ (Executing(v) => copy[P].vm = v)
      BY DEF IInv, DbomaticHolds, TaskomaticHolds, Updating, Executing, Vm
    <3> QED BY <2>2, <3>1, <3>2 DEF IInv, VmsInv
  <2> QED BY <1>3, <2>1, <2>2
<1> QED BY <1>0, <1>4 DEF SameVm, SameUpdate, SameTask

\* A VM that was not created, or is deleted, stays so: nobody creates VMs.
LEMMA NoNewVms ==
  ASSUME IInv, Services \cap {"create", "update"} = {}, NEW v \in Vms, Live(v)', [Next]_vars
  PROVE  Live(v)
<1>1. CASE vms' = vms
  BY <1>1 DEF Live
<1>2. ASSUME NEW p \in Processes, NEW x \in VmRow \cup {Deleted}, Writes(p, x) PROVE Live(v)
  <2>1. CASE copy[p].vm = v
    <3>1. vms[v] = RowOf(copy[p]) /\ copy[p] \in VmObject
      BY <1>2, <2>1 DEF Writes, IInv, VmsInv, FreshMeansCurrent
    <3>2. vms[v] \in VmRow
      BY <3>1 DEF RowOf, VmObject, VmRow
    <3> QED BY <3>2, NullAssumption DEF Live
  <2>2. CASE copy[p].vm # v
    BY <1>2, <2>2 DEF Writes, Live, IInv, VmsInv
  <2> QED BY <2>1, <2>2
<1> QED BY <1>1, <1>2, NextRowChange DEF RowChange

\* The rows stay right through every step, unless taskomatic dies or a guest stops.
LEMMA NextRows ==
  ASSUME IInv, Only(Pausing), restarts = 0 => RowsInv, ~GuestsStop, ForwardVnc = {},
         Services \cap {"create", "update"} = {}, [Next]_vars
  PROVE  restarts' = 0 => RowsInv'
<1>1. CASE TaskomaticDies \/ GuestStops
  BY <1>1 DEF TaskomaticDies, GuestStops, IInv
<1>2. ASSUME WuiActs \/ TaskomaticActs \/ DbomaticActs \/ UNCHANGED vars, restarts' = 0
      PROVE  RowsInv'
  <2>0. RowsInv
    BY <1>2 DEF WuiActs, TaskomaticActs, DbomaticActs, vars
  <2> SUFFICES ASSUME NEW v \in Vms, Live(v)'
               PROVE  \E h \in Nodes \cup {None} : RowInv(v, h)'
    BY DEF RowsInv
  <2>1. Live(v)
    BY NoNewVms
  <2>2. PICK h \in Nodes \cup {None} : RowInv(v, h)
    BY <2>0, <2>1 DEF RowsInv
  <2>3. CASE WuiActs
    BY <2>1, <2>2, <2>3, WuiTouches, RowFrame DEF Only
  <2>4. CASE TaskomaticActs
    BY <2>1, <2>2, <2>4, TaskomaticRows DEF Only
  <2>5. CASE DbomaticActs
    BY <2>1, <2>2, <2>5, DbomaticRows
  <2>6. CASE UNCHANGED vars
    <3>1. SameVm(v) /\ SameUpdate(v) /\ SameTask(v)
      BY <2>6 DEF vars, recordVars, libvirtVars, dbomaticVars, SameVm, SameUpdate, SameTask
    <3> QED BY <2>2, <3>1, RowFrame
  <2> QED BY <1>2, <2>2, <2>3, <2>4, <2>5, <2>6
<1> QED BY <1>1, <1>2 DEF Next

\* At first every domain runs where its row says, and db-omatic knows.
LEMMA InitRows ==
  ASSUME Init
  PROVE  RowsInv
<1>1. tk.pc = "idle" /\ dbo.pc = "idle"
  BY DEF Init, TaskomaticInit, Resting
<1>2. PICK at \in [Vms -> Nodes \cup {None, Deleted}] :
       /\ vms = [v \in Vms |->
                   CASE at[v] = Deleted -> None
                     [] at[v] = None    -> [state |-> "stopped", host |-> None]
                     [] OTHER           -> [state |-> "running", host |-> at[v]]]
       /\ dom = [v \in Vms |-> [n \in Nodes |-> IF at[v] = n THEN "running" ELSE "none"]]
       /\ pub = dom
       /\ defined = {d \in Vms \X Nodes : at[d[1]] = d[2]}
       /\ cache = [v \in Vms |->
                     IF at[v] \in {None, Deleted} THEN None
                     ELSE [node |-> at[v], state |-> "running", synced |-> TRUE]]
  BY DEF Init
<1> SUFFICES ASSUME NEW v \in Vms, Live(v)
             PROVE  \E h \in Nodes \cup {None} : RowInv(v, h)
  BY DEF RowsInv
<1>3. /\ at[v] = None => vms[v] = [state |-> "stopped", host |-> None]
      /\ at[v] # None => at[v] # Deleted
  <2>1. CASE at[v] = None
    BY <1>2, <2>1 DEF Live
  <2>2. CASE at[v] # None
    BY <1>2, <2>2 DEF Live
  <2> QED BY <2>1, <2>2
<1>4. DbomaticPart(v, at[v]) /\ TaskomaticPart(v, at[v])
  BY <1>1 DEF DbomaticPart, WillSave, Updating, TaskomaticPart, Executing
<1>5. CASE at[v] = None
  <2>1. vms[v].state = "stopped" /\ cache[v] = None /\ StateAt(v, None) = "none"
    BY <1>2, <1>3, <1>5 DEF StateAt
  <2>2. \A n \in Nodes : dom[v][n] = "none" /\ pub[v][n] = "none"
    BY <1>2, <1>5, NodesAssumption
  <2>3. AtHome(v, None) /\ RowFits(v, None) /\ UpToDate(v, None)
    BY <2>1, <2>2 DEF AtHome, RowFits, UpToDate, RowTrue, Says, On
  <2> QED BY <1>4, <1>5, <2>3 DEF RowInv
<1>6. CASE at[v] # None
  <2>0. at[v] \in Nodes
    BY <1>3, <1>6
  <2>1. /\ vms[v].state = "running" /\ vms[v].host = at[v]
        /\ cache[v] = [node |-> at[v], state |-> "running", synced |-> TRUE]
    BY <1>2, <1>3, <1>6
  <2>2. \A n \in Nodes : dom[v][n] = (IF n = at[v] THEN "running" ELSE "none") /\ pub[v][n] = dom[v][n]
    BY <1>2
  <2>3. StateAt(v, at[v]) = "running" /\ <<v, at[v]>> \in defined
    BY <1>2, <1>6, <2>0, <2>2 DEF StateAt
  <2>4. cache[v] # None
    <3>1. [node |-> at[v], state |-> "running", synced |-> TRUE] \in CacheEntry
      BY <2>0 DEF CacheEntry, DomainState
    <3> QED BY <2>1, <3>1, EntryAssumption
  <2>5. AtHome(v, at[v]) /\ RowFits(v, at[v]) /\ UpToDate(v, at[v])
    BY <2>0, <2>1, <2>2, <2>3, <2>4 DEF AtHome, RowFits, UpToDate, RowTrue, Says, On
  <2> QED BY <1>4, <2>0, <2>5 DEF RowInv
<1> QED BY <1>5, <1>6

\* When both daemons have nothing to do the row is not behind the domain.
LEMMA RowsInvSettles ==
  ASSUME IInv, RowsInv
  PROVE  SettledRowsAgree
<1> SUFFICES ASSUME Settled, NEW v \in Vms, Live(v)
             PROVE  /\ vms[v].state = "running"   <=> \E n \in Nodes : dom[v][n] = "running"
                    /\ vms[v].state = "suspended" <=> \E n \in Nodes : dom[v][n] = "paused"
                    /\ \A n \in Nodes : Active(v, n) => vms[v].host = n
  BY DEF SettledRowsAgree
<1>1. PICK h \in Nodes \cup {None} : RowInv(v, h)
  BY DEF RowsInv
<1>2. UpToDate(v, h) /\ ~WillSave(v)
  BY <1>1 DEF Settled, RowInv, MayBeBehind, Executing, WillSave, Updating
<1>3. RowTrue(v, h) /\ StateAt(v, h) \in {"none", "running", "paused"}
  BY <1>2 DEF UpToDate, StateAt, IInv, LibvirtTypeOK, DomainState
<1>4. \A n \in Nodes : dom[v][n] # "none" => n = h /\ StateAt(v, h) = dom[v][n]
  BY <1>1, NodesAssumption DEF RowInv, AtHome, StateAt
<1>5. StateAt(v, h) # "none" => h \in Nodes /\ dom[v][h] = StateAt(v, h)
  BY DEF StateAt
<1>6. vms[v].state = Says[StateAt(v, h)]
  BY <1>3 DEF RowTrue
<1>7. \A n \in Nodes : Active(v, n) => vms[v].host = n
  BY <1>1, <1>4 DEF Active, On, RowInv, RowFits
<1>8. CASE StateAt(v, h) = "none"
  BY <1>4, <1>6, <1>7, <1>8 DEF Says
<1>9. CASE StateAt(v, h) = "running"
  BY <1>4, <1>5, <1>6, <1>7, <1>9 DEF Says
<1>10. CASE StateAt(v, h) = "paused"
  BY <1>4, <1>5, <1>6, <1>7, <1>10 DEF Says
<1> QED BY <1>3, <1>8, <1>9, <1>10

\* When both daemons have nothing left to do the row of every VM says what its
\* domain does and where, whatever order they wrote it in: until taskomatic dies,
\* if VMs are only suspended, resumed, powered off, shut down and deleted, no
\* console is forwarded and guests do not power themselves off.
THEOREM RowsSettle ==
  ASSUME ~GuestsStop, Offered \subseteq Pausing, Services \cap {"create", "update"} = {},
         ForwardVnc = {}
  PROVE  Spec => []SettledRowsAgree
<1> DEFINE Inv == IInv /\ Only(Pausing) /\ (restarts = 0 => RowsInv)
<1>1. Init => Inv
  BY InitInv, InitOnly, InitRows
<1>0. Allowed(Pausing)
  BY DEF Allowed
<1>2. Inv /\ [Next]_vars => Inv'
  BY <1>0, NextInv, NextOnly, NextRows
<1>3. Inv => SettledRowsAgree
  BY RowsInvSettles DEF SettledRowsAgree
<1> QED BY <1>1, <1>2, <1>3, PTL DEF Spec

-----------------------------------------------------------------------------
(***************************************************************************)
(* What the rows say of active domains, at any moment and although         *)
(* taskomatic may die and guests may stop, if VMs are not started,         *)
(* restored or moved: then no domain becomes active.                       *)
(***************************************************************************)
Lasting == Pausing \cup {"save_vm", "create_vm"}

\* Where the handlers of these tasks are.
InLasting ==
  /\ tk.pc \in {"idle", "loop", "cmd", "undefine", "undefine_off", "reload", "save", "finish"}
  /\ tk.pc = "cmd" => ~Doing({"create_vm"})

\* The row and db-omatic's entry of v, whose domain on n is active.
Recorded(v, n) ==
  /\ Live(v) /\ vms[v].state \in {"running", "suspended"} /\ vms[v].host = n
  /\ \A m \in Nodes : m # n => dom[v][m] = "none" /\ pub[v][m] = "none"
  /\ cache[v] # None => cache[v].state # "shutoff"

\* Nobody is about to save anything else.
KeepsRecord(v, n) ==
  /\ Executing(v) =>
       /\ tk.pc # "undefine_off" /\ tk.src = n
       /\ tk.pc \in {"reload", "save"} => Doing({"suspend_vm", "resume_vm"})
  /\ Updating(v) /\ dbo.pc = "save" =>
       /\ dbo.row.state \in {"running", "suspended"}
       /\ D \in fresh => dbo.row.host = n

RunsInv == InLasting /\ \A v \in Vms, n \in Nodes : Active(v, n) => Recorded(v, n) /\ KeepsRecord(v, n)

\* Where the handlers of these tasks begin, if they find anything to do.
LEMMA BeginLasting ==
  ASSUME IInv, NEW j \in tk.batch, j.action \in Lasting, BeginTask(j), tk'.pc # "finish"
  PROVE  \/ tk'.pc = "save" /\ Live(j.vm) /\ vms[j.vm].state = "pending"
         \/ \E o \in Lookup(j.vm) :
              /\ o # None /\ tk'.src = o /\ j.action # "create_vm"
              /\ \/ tk'.pc = "cmd"
                 \/ tk'.pc = "undefine_off" /\ StateAt(j.vm, o) = "shutoff"
<1> DEFINE k == Take(j)
<1>0. k \in TkRecord /\ k.job = j /\ j \in Job
  BY TkIsRecord, TakeType
<1> HIDE DEF k
<1>e. Returned(k).pc = "finish" /\ Raised(k).pc = "finish"
  BY <1>0, EndType
<1>s. \A l, o : [Goto(k, l) EXCEPT !.src = o].pc = l /\ [Goto(k, l) EXCEPT !.src = o].src = o
  BY <1>0 DEF Goto, TkRecord
<1>1. CASE j.action \in Pausing
  <2>1. PICK o \in Lookup(j.vm) :
           /\ tk'.src = o
           /\ \/ tk'.pc = "cmd" /\ On(StateAt(j.vm, o))
              \/ tk'.pc = "undefine_off" /\ StateAt(j.vm, o) = "shutoff"
    BY <1>1, BeginPausing
  <2>2. o # None
    BY <2>1 DEF On, StateAt
  <2> QED BY <1>1, <2>1, <2>2 DEF Pausing
<1>2. CASE j.action = "create_vm"
  <2>1. ~TaskVmMissing(j)
    BY <1>e DEF TaskVmMissing, k
  <2>2. TaskCreateVm(j)
    BY <1>2, <2>1 DEF BeginTask, TaskStartVm, TaskShutdownOrDestroyVm, TaskSuspendVm, TaskResumeVm,
       TaskSaveOrRestoreVm, TaskMigrateVm, Begin
  <2>3. Live(j.vm) /\ tk' = IF vms[j.vm].state = "pending" THEN Goto(k, "save") ELSE Raised(k)
    BY <2>2 DEF TaskCreateVm, Begin, k
  <2>4. Goto(k, "save").pc = "save"
    BY <1>0, Moves
  <2> QED BY <1>e, <2>3, <2>4
<1>3. CASE j.action = "save_vm"
  <2>1. ~TaskVmMissing(j)
    BY <1>e DEF TaskVmMissing, k
  <2>2. TaskSaveOrRestoreVm(j)
    BY <1>3, <2>1 DEF BeginTask, TaskCreateVm, TaskStartVm, TaskShutdownOrDestroyVm, TaskSuspendVm,
       TaskResumeVm, TaskMigrateVm, Begin
  <2>3. PICK o \in Lookup(j.vm) : tk' = IF o = None THEN Raised(k) ELSE [Goto(k, "cmd") EXCEPT !.src = o]
    BY <2>2 DEF TaskSaveOrRestoreVm, k
  <2>4. o # None /\ tk' = [Goto(k, "cmd") EXCEPT !.src = o]
    BY <1>e, <2>3
  <2> QED BY <1>3, <1>s, <2>4
<1> QED BY <1>1, <1>2, <1>3 DEF Lasting

\* Of the steps of a handler these tasks take five.
LEMMA LastingSteps ==
  ASSUME InLasting, HandlerStep
  PROVE  DomainCommand \/ UndefineStopped \/ UndefineShutOff \/ ReloadVm \/ SaveVmState
BY DEF InLasting, HandlerStep, StartFindHost, DefineDomain, CreateDomain, SetVmVncPort,
   SaveStartAttributes, SaveVm, MarkReload, Reload, MarkMigrating, MigrateFindHost, MigrateDomain,
   MigrateUndefine, RevertReload, RevertState, At

\* They lead from one of these places to another.
LEMMA NextInLasting ==
  ASSUME IInv, JobsIn(Lasting), InLasting, [Next]_vars
  PROVE  InLasting'
<1>1. CASE UNCHANGED tk
  BY <1>1 DEF InLasting, Doing
<1>2. CASE Poll \/ FinishTask \/ TaskomaticDies
  <2>1. tk'.pc \in {"idle", "loop"}
    <3>1. tk \in TkRecord
      BY TkIsRecord
    <3>2. CASE Poll
      BY <3>1, <3>2 DEF Poll, At, TkRecord
    <3>3. CASE FinishTask
      BY <3>1, <3>3 DEF FinishTask, TkRecord
    <3>4. CASE TaskomaticDies
      BY <3>4 DEF TaskomaticDies, TaskomaticRestart
    <3> QED BY <1>2, <3>2, <3>3, <3>4
  <2> QED BY <2>1 DEF InLasting
<1>3. ASSUME NEW j \in tk.batch, BeginTask(j) PROVE InLasting'
  <2>1. j.action \in Lasting /\ tk'.job = j
    BY <1>3, BeginMoves DEF JobsIn
  <2>2. tk'.pc \in {"save", "cmd", "undefine_off", "finish"} /\ (tk'.pc = "cmd" => j.action # "create_vm")
    BY <1>3, <2>1, BeginLasting
  <2> QED BY <2>1, <2>2 DEF InLasting, Doing
<1>4. CASE HandlerStep
  <2>1. /\ \A l : Goto(tk, l).pc = l
        /\ Returned(tk).pc = "finish" /\ Raised(tk).pc = "finish"
    BY TkIsRecord, Moves
  <2>2. tk.pc \notin {"idle", "loop", "finish"} /\ tk.job.action \in Lasting
    BY <1>4, HandlerPlaces DEF JobsIn
  <2>3. CASE DomainCommand \/ UndefineStopped \/ UndefineShutOff
    <3>1. tk' \in {Raised(tk), Returned(tk), Goto(tk, "undefine"), Goto(tk, "reload"), Goto(tk, "save")}
      BY <2>3 DEF DomainCommand, UndefineStopped, UndefineShutOff, UndefineDomain
    <3> QED BY <2>1, <3>1 DEF InLasting
  <2>4. CASE ReloadVm
    <3>1. ~Doing({"start_vm"})
      BY <2>2 DEF Doing, Lasting, Pausing
    <3>2. tk' \in {Goto(tk, "save"), Raised(tk)}
      BY <2>4, <3>1 DEF ReloadVm, Reload
    <3> QED BY <2>1, <3>2 DEF InLasting
  <2>5. CASE SaveVmState
    <3>1. tk' \in {Returned(tk), Raised(tk)}
      BY <2>5 DEF SaveVmState, SaveVm
    <3> QED BY <2>1, <3>1 DEF InLasting
  <2> QED BY <1>4, <2>3, <2>4, <2>5, LastingSteps
<1> QED BY <1>1, <1>2, <1>3, <1>4 DEF Next, WuiActs, TaskomaticActs, TaskomaticStep, HandlerStep,
        DbomaticActs, GuestStops, vars

\* No domain becomes active.
LEMMA NoneWakes ==
  ASSUME IInv, JobsIn(Lasting), InLasting, [Next]_vars,
         NEW v \in Vms, NEW n \in Nodes, Active(v, n)'
  PROVE  Active(v, n)
<1>0. LibvirtTypeOK
  BY DEF IInv
<1>1. CASE UNCHANGED dom
  BY <1>1 DEF Active
<1>s. ASSUME NEW w \in Vms, NEW m, NEW s, SetDomain(w, m, s), s \in {"running", "paused"} => Active(w, m)
      PROVE  Active(v, n)
  <2>1. dom'[v][n] = IF v = w /\ n = m THEN s ELSE dom[v][n]
    BY <1>0, <1>s, SetDomainEffect
  <2> QED BY <1>s, <2>1 DEF Active
<1>u. ASSUME NEW w \in Vms, NEW m, Undefine(w, m) PROVE Active(v, n)
  BY <1>s, <1>u DEF Undefine
<1>2. CASE TaskomaticActs
  <2>1. CASE HandlerStep
    <3>1. Vm \in Vms /\ tk.job.action \in Lasting
      BY <2>1, HandlerPlaces DEF IInv, TaskomaticHolds, Vm, Job, JobsIn
    <3>2. CASE DomainCommand
      <4>1. CASE UNCHANGED libvirtVars
        BY <1>1, <4>1 DEF libvirtVars
      <4>2. ASSUME NEW s \in CommandEffect(Vm, tk.src), SetDomain(Vm, tk.src, s)
            PROVE  Active(v, n)
        <5>1. tk.job.action \in Lasting \ {"create_vm"}
          BY <3>1, <3>2 DEF InLasting, DomainCommand, At, Doing
        <5>2. s \in {"running", "paused"} => Active(Vm, tk.src)
          BY <5>1 DEF CommandEffect, Doing, Lasting, Pausing, Off, Active
        <5> QED BY <1>s, <3>1, <4>2, <5>2
      <4> QED BY <3>2, <4>1, <4>2 DEF DomainCommand
    <3>3. CASE UndefineStopped \/ UndefineShutOff
      <4>1. Undefine(Vm, tk.src) \/ UNCHANGED dom
        BY <3>3 DEF UndefineStopped, UndefineShutOff, UndefineDomain, libvirtVars
      <4> QED BY <1>1, <1>u, <3>1, <4>1
    <3>4. CASE ReloadVm \/ SaveVmState
      <4>1. UNCHANGED dom
        BY <3>4 DEF ReloadVm, Reload, SaveVmState, SaveVm, libvirtVars
      <4> QED BY <1>1, <4>1
    <3> QED BY <2>1, <3>2, <3>3, <3>4, LastingSteps
  <2>2. CASE Poll \/ FinishTask
    BY <1>1, <2>2 DEF Poll, FinishTask, libvirtVars
  <2>3. CASE \E j \in tk.batch : BeginTask(j)
    BY <1>1, <2>3, BeginMoves DEF libvirtVars
  <2> QED BY <1>2, <2>1, <2>2, <2>3 DEF TaskomaticActs, TaskomaticStep, HandlerStep
<1>3. CASE DbomaticActs
  <2>1. CASE UpdateAct
    <3>1. dbo.vm \in Vms
      BY <2>1 DEF UpdateAct, IInv, DbomaticHolds
    <3>2. UNCHANGED libvirtVars \/ \E o : Undefine(dbo.vm, o)
      BY <2>1 DEF UpdateAct
    <3> QED BY <1>1, <1>u, <3>1, <3>2 DEF libvirtVars
  <2>2. CASE ~UpdateAct
    <3>1. UNCHANGED dom
      BY <1>3, <2>2 DEF DbomaticActs, DbomaticStep, ObjectUpdate, ObjectGone, UpdateProps, Resync,
         EnterUpdate, UpdateVnc, UpdateSave, libvirtVars
    <3> QED BY <1>1, <3>1
  <2> QED BY <2>1, <2>2
<1>4. CASE GuestStops
  <2>1. PICK w \in Vms, m \in Nodes : GuestPowerOff(w, m)
    BY <1>4 DEF GuestStops
  <2> QED BY <1>s, <2>1 DEF GuestPowerOff, Off, Active
<1>5. CASE WuiActs \/ TaskomaticDies \/ UNCHANGED vars
  <2>1. UNCHANGED dom
    BY <1>5 DEF WuiActs, WuiStep, WuiContinue, SvcCreate, WuiArrive, VmActionFind, UpdateFind,
       DestroyFind, CancelFind, VmActionCheck, VmActionInsert, UpdateCommit, DestroyCommit,
       CancelCommit, TaskomaticDies, TaskomaticRestart, vars, libvirtVars
  <2> QED BY <1>1, <2>1
<1> QED BY <1>2, <1>3, <1>4, <1>5 DEF Next

\* A step that concerns another VM, or ends a task of v, keeps what is recorded.
LEMMA RecordedFrame ==
  ASSUME NEW v \in Vms, NEW n \in Nodes, Recorded(v, n), KeepsRecord(v, n), SameVm(v), SameUpdate(v),
         UNCHANGED tk \/ ~Executing(v)'
  PROVE  Recorded(v, n)' /\ KeepsRecord(v, n)'
<1>1. Recorded(v, n)'
  BY DEF Recorded, SameVm, Live
<1>2. KeepsRecord(v, n)'
  BY DEF KeepsRecord, SameUpdate, Executing, Updating, Vm, Doing
<1> QED BY <1>1, <1>2

\* The domain of v is looked up where it is active.
LEMMA LookupActive ==
  ASSUME NEW v, NEW n \in Nodes, Active(v, n), Recorded(v, n)
  PROVE  Lookup(v) = {n} /\ StateAt(v, n) = dom[v][n] /\ dom[v][n] \in {"running", "paused"}
BY NodesAssumption DEF Active, Recorded, Lookup, StateAt

\* Taskomatic saves nothing of an active domain but that it has suspended or resumed it.
LEMMA TaskomaticRecords ==
  ASSUME IInv, JobsIn(Lasting), InLasting, NEW v \in Vms, NEW n \in Nodes, Active(v, n), Active(v, n)',
         Recorded(v, n), KeepsRecord(v, n), TaskomaticActs
  PROVE  Recorded(v, n)' /\ KeepsRecord(v, n)'
<1>0. UNCHANGED dbomaticVars /\ LibvirtTypeOK
  BY DEF TaskomaticActs, IInv
<1>1. ASSUME NEW j \in tk.batch, BeginTask(j)
      PROVE  Recorded(v, n)' /\ KeepsRecord(v, n)'
  <2>1. UNCHANGED libvirtVars /\ tk'.job = j /\ j.action \in Lasting
    BY <1>1, BeginMoves DEF JobsIn
  <2>2. /\ vms' = vms
        /\ fresh' = fresh \/ fresh' = fresh \cup {P}
    BY <1>1 DEF BeginTask, TaskVmMissing, TaskCreateVm, TaskStartVm, TaskShutdownOrDestroyVm,
       TaskSuspendVm, TaskResumeVm, TaskSaveOrRestoreVm, TaskMigrateVm, Begin, Load, recordVars
  <2>3. SameVm(v) /\ SameUpdate(v)
    BY <1>0, <2>1, <2>2, Different DEF SameVm, SameUpdate, libvirtVars, dbomaticVars
  <2>4. CASE tk'.pc = "finish" \/ j.vm # v
    <3>1. ~Executing(v)'
      BY <2>1, <2>4 DEF Executing, Vm
    <3> QED BY <2>3, <3>1, RecordedFrame
  <2>5. CASE tk'.pc # "finish" /\ j.vm = v
    <3>1. ~(tk'.pc = "save" /\ vms[v].state = "pending")
      BY DEF Recorded
    <3>2. PICK o \in Lookup(v) :
              /\ tk'.src = o
              /\ \/ tk'.pc = "cmd"
                 \/ tk'.pc = "undefine_off" /\ StateAt(v, o) = "shutoff"
      BY <1>1, <2>1, <2>5, <3>1, BeginLasting
    <3>3. tk'.src = n /\ tk'.pc = "cmd"
      BY <3>2, LookupActive
    <3>4. Recorded(v, n)'
      BY <2>3 DEF Recorded, SameVm, Live
    <3>5. KeepsRecord(v, n)'
      BY <2>3, <3>3 DEF KeepsRecord, SameUpdate, Updating
    <3> QED BY <3>4, <3>5
  <2> QED BY <2>4, <2>5
<1>2. CASE Poll \/ FinishTask
  <2>0. tk \in TkRecord
    BY TkIsRecord
  <2>1. tk'.pc \in {"idle", "loop"}
    <3>1. CASE Poll
      BY <2>0, <3>1 DEF Poll, At, TkRecord
    <3>2. CASE FinishTask
      BY <2>0, <3>2 DEF FinishTask, TkRecord
    <3> QED BY <1>2, <3>1, <3>2
  <2>2. UNCHANGED <<vms, libvirtVars>> /\ (fresh' = fresh \/ fresh' = fresh \ {P})
    BY <1>2 DEF Poll, FinishTask, Release, recordVars
  <2>3. SameVm(v) /\ SameUpdate(v) /\ ~Executing(v)'
    BY <1>0, <2>1, <2>2, Different DEF SameVm, SameUpdate, Executing, libvirtVars, dbomaticVars
  <2> QED BY <2>3, RecordedFrame
<1>3. CASE HandlerStep /\ Vm # v
  <2>1. ~Executing(v)'
    BY <1>3, HandlerKeepsTask DEF Executing, Vm
  <2> QED BY <1>0, <1>3, <2>1, HandlerTouches, RecordedFrame
<1>4. CASE HandlerStep /\ Vm = v
  <2>1. /\ Executing(v) /\ tk.job.action \in Lasting /\ copy[P].vm = v
        /\ tk'.job = tk.job /\ tk'.src = tk.src /\ tk.src = n /\ tk.pc # "undefine_off"
    BY <1>4, HandlerPlaces, HandlerKeepsTask
    DEF Executing, JobsIn, KeepsRecord, IInv, TaskomaticHolds, Vm
  <2>m. /\ \A l : Goto(tk, l).pc = l
        /\ Returned(tk).pc = "finish" /\ Raised(tk).pc = "finish"
    BY TkIsRecord, Moves
  <2>2. CASE DomainCommand
    <3>1. tk.pc = "cmd" /\ UNCHANGED recordVars /\ tk.job.action # "create_vm"
      BY <2>2 DEF DomainCommand, At, InLasting, Doing
    <3>2. UNCHANGED libvirtVars \/ \E s \in CommandEffect(v, n) : SetDomain(v, n, s)
      BY <1>4, <2>1, <2>2 DEF DomainCommand
    <3>3. dom'[v][n] \in {"running", "paused"}
          /\ \A m \in Nodes : m # n => dom'[v][m] = dom[v][m] /\ pub'[v][m] = pub[v][m]
      <4>1. CASE UNCHANGED libvirtVars
        BY <4>1 DEF libvirtVars, Active
      <4>2. CASE \E s \in CommandEffect(v, n) : SetDomain(v, n, s)
        <5>1. UNCHANGED pub
          BY <4>2 DEF SetDomain, Active
        <5>2. \A m \in Nodes : m # n => dom'[v][m] = dom[v][m]
          BY <1>0, <4>2 DEF SetDomain, LibvirtTypeOK
        <5> QED BY <5>1, <5>2 DEF Active
      <4> QED BY <3>2, <4>1, <4>2
    <3>4. Recorded(v, n)'
      BY <1>0, <3>1, <3>3 DEF Recorded, Live, recordVars, dbomaticVars
    <3>5. tk'.pc \in {"finish", "undefine", "reload"} /\ (tk'.pc = "reload" => Doing({"suspend_vm", "resume_vm"}))
      <4>1. CASE tk' = Raised(tk)
        BY <2>m, <4>1
      <4>2. CASE Doing({"shutdown_vm", "poweroff_vm"}) /\ tk' = Goto(tk, "undefine")
        BY <2>m, <4>2
      <4>3. CASE ~Doing({"shutdown_vm", "poweroff_vm"}) /\ tk' = Goto(tk, "reload")
                 /\ \E s \in CommandEffect(v, n) : SetDomain(v, n, s)
        <5>1. PICK s \in CommandEffect(v, n) : SetDomain(v, n, s)
          BY <4>3
        <5>2. dom'[v][n] = s
          BY <1>0, <5>1, SetDomainEffect
        <5>3. s # "none" /\ s # "shutoff"
          BY <5>2 DEF Active
        <5>4. ~Doing({"save_vm"})
          BY <5>1, <5>3 DEF CommandEffect, Doing, Off
        <5> QED BY <2>1, <2>m, <3>1, <4>3, <5>4 DEF Lasting, Pausing, Doing
      <4> QED BY <1>4, <2>1, <2>2, <4>1, <4>2, <4>3 DEF DomainCommand
    <3>6. KeepsRecord(v, n)'
      BY <1>0, <2>1, <3>1, <3>5 DEF KeepsRecord, Executing, Updating, Doing, recordVars, dbomaticVars
    <3> QED BY <3>4, <3>6
  <2>3. CASE UndefineStopped
    <3>1. ~Undefinable(v, n)
      BY DEF Undefinable, Active
    <3>2. tk' = Returned(tk) /\ UNCHANGED <<recordVars, libvirtVars>>
      BY <1>4, <2>1, <2>3, <3>1 DEF UndefineStopped, UndefineDomain
    <3>3. SameVm(v) /\ SameUpdate(v) /\ ~Executing(v)'
      BY <1>0, <2>m, <3>2 DEF SameVm, SameUpdate, Executing, recordVars, libvirtVars, dbomaticVars
    <3> QED BY <3>3, RecordedFrame
  <2>4. CASE ReloadVm
    <3>1. tk.pc = "reload" /\ Doing({"suspend_vm", "resume_vm"})
      BY <2>1, <2>4 DEF ReloadVm, Reload, At, KeepsRecord
    <3>2. tk' = Goto(tk, "save") /\ fresh' = fresh \cup {P} /\ UNCHANGED <<vms, libvirtVars>>
      BY <1>4, <2>4, <3>1 DEF ReloadVm, Reload, Recorded, Load, Doing
    <3>3. SameVm(v) /\ SameUpdate(v)
      BY <1>0, <3>2, Different DEF SameVm, SameUpdate, libvirtVars, dbomaticVars
    <3>4. Recorded(v, n)'
      BY <3>3 DEF Recorded, SameVm, Live
    <3>5. KeepsRecord(v, n)'
      BY <2>1, <2>m, <3>1, <3>2, <3>3 DEF KeepsRecord, SameUpdate, Updating, Doing
    <3> QED BY <3>4, <3>5
  <2>5. CASE SaveVmState
    <3>1. /\ tk.pc = "save" /\ Doing({"suspend_vm", "resume_vm"}) /\ tk' \in {Returned(tk), Raised(tk)}
          /\ UNCHANGED libvirtVars
          /\ UNCHANGED <<vms, fresh>> \/ (P \in fresh /\ Write(P, FinalRow))
      BY <2>1, <2>5 DEF SaveVmState, SaveVm, At, KeepsRecord, Savable, Save
    <3>2. ~Executing(v)'
      BY <2>m, <3>1 DEF Executing
    <3>3. CASE UNCHANGED <<vms, fresh>>
      <4>1. SameVm(v) /\ SameUpdate(v)
        BY <1>0, <3>1, <3>3 DEF SameVm, SameUpdate, libvirtVars, dbomaticVars
      <4> QED BY <3>2, <4>1, RecordedFrame
    <3>4. CASE P \in fresh /\ Write(P, FinalRow)
      <4>1. vms[v] = RowOf(copy[P])
        BY <2>1, <3>4 DEF IInv, VmsInv, FreshMeansCurrent
      <4>2. FinalRow = WithState(Transition[tk.job.action].success)
        BY <3>1 DEF FinalRow, Doing
      <4>3. Transition[tk.job.action].success \in {"running", "suspended"}
        BY <3>1 DEF Transition, Doing
      <4>4. FinalRow.state \in {"running", "suspended"} /\ FinalRow.host = n
        BY <4>1, <4>2, <4>3 DEF WithState, RowOf, Recorded
      <4>5. vms'[v] = FinalRow /\ FinalRow \in VmRow
        <5>1. FinalRow \in VmRow
          BY <2>1, FinalRowType, TkIsRecord DEF Executing, IInv, TaskomaticHolds
        <5> QED BY <2>1, <3>4, <5>1 DEF Write, IInv, VmsInv
      <4>6. Recorded(v, n)'
        BY <1>0, <3>1, <4>4, <4>5, NullAssumption DEF Recorded, Live, libvirtVars, dbomaticVars
      <4>7. Updating(v) => D \notin fresh'
        BY <2>1, <3>4, Different DEF Updating, IInv, DbomaticHolds, Write
      <4>8. KeepsRecord(v, n)'
        BY <1>0, <3>2, <4>7 DEF KeepsRecord, Updating, dbomaticVars
      <4> QED BY <4>6, <4>8
    <3> QED BY <3>1, <3>3, <3>4
  <2>6. ~UndefineShutOff
    BY <2>1 DEF UndefineShutOff, UndefineDomain, At
  <2> QED BY <1>4, <2>2, <2>3, <2>4, <2>5, <2>6, LastingSteps
<1> QED BY <1>1, <1>2, <1>3, <1>4 DEF TaskomaticActs, TaskomaticStep, HandlerStep

\* An update of v begins with an entry that is not shut off.
LEMMA EnterRecorded ==
  ASSUME IInv, NEW v \in Vms, NEW n \in Nodes, Recorded(v, n), KeepsRecord(v, n),
         NEW e \in CacheEntry, e.state # "shutoff", EnterUpdate(v, e), UNCHANGED tk,
         \A m \in Nodes : m # n => pub'[v][m] = pub[v][m]
  PROVE  Recorded(v, n)' /\ KeepsRecord(v, n)'
<1>1. /\ UNCHANGED <<vms, dom>> /\ cache'[v] = e /\ Live(v)
      /\ dbo' = [pc |-> "vnc", vm |-> v, row |-> None, touched |-> FALSE]
  BY DEF EnterUpdate, Recorded, IInv, DbomaticTypeOK
<1>2. Recorded(v, n)'
  BY <1>1 DEF Recorded, Live
<1>3. KeepsRecord(v, n)'
  BY <1>1 DEF KeepsRecord, Executing, Vm, Doing
<1> QED BY <1>2, <1>3

\* db-omatic saves of an active domain that it runs or is suspended, and where.
LEMMA DbomaticRecords ==
  ASSUME IInv, NEW v \in Vms, NEW n \in Nodes, Active(v, n),
         Recorded(v, n), KeepsRecord(v, n), DbomaticActs
  PROVE  Recorded(v, n)' /\ KeepsRecord(v, n)'
<1>0. UNCHANGED tk /\ LibvirtTypeOK
  BY DEF DbomaticActs, IInv
<1>1. PICK w \in Vms :
         \/ \E m \in Nodes : ObjectUpdate(w, m) \/ ObjectGone(w, m)
         \/ Resync(w)
         \/ dbo.vm = w /\ (UpdateVnc \/ UpdateAct \/ UpdateSave)
  BY DbomaticTurns
<1>2. CASE w # v
  BY <1>0, <1>1, <1>2, OtherUpdate, RecordedFrame
<1>3. ASSUME NEW m \in Nodes, ObjectUpdate(v, m) PROVE Recorded(v, n)' /\ KeepsRecord(v, n)'
  <2>1. m = n /\ dom[v][n] \in {"running", "paused"}
    BY <1>3 DEF ObjectUpdate, Recorded, Active
  <2> DEFINE e == [node |-> n, state |-> dom[v][n],
                   synced |-> Cached(v, n) /\ pub[v][n] # "none" /\ cache[v].synced]
  <2>2. EnterUpdate(v, e) /\ pub' = [pub EXCEPT ![v][n] = dom[v][n]]
    BY <1>3, <2>1 DEF ObjectUpdate, UpdateProps
  <2>3. e.state = dom[v][n] /\ e \in CacheEntry
    <3>1. (Cached(v, n) /\ pub[v][n] # "none" /\ cache[v].synced) \in BOOLEAN
      BY DEF Cached, IInv, DbomaticTypeOK, CacheEntry
    <3> QED BY <2>1, <3>1 DEF CacheEntry, DomainState
  <2> HIDE DEF e
  <2>4. \A k \in Nodes : k # n => pub'[v][k] = pub[v][k]
    BY <1>0, <2>2 DEF LibvirtTypeOK
  <2> QED BY <1>0, <2>1, <2>2, <2>3, <2>4, EnterRecorded
<1>4. ASSUME NEW m \in Nodes PROVE ~ObjectGone(v, m)
  BY DEF ObjectGone, Recorded, Active
<1>5. CASE Resync(v)
  <2>1. cache[v] \in CacheEntry /\ cache[v].state # "shutoff"
    BY <1>5 DEF Resync, Recorded, IInv, DbomaticTypeOK
  <2> QED BY <1>0, <1>5, <2>1, EnterRecorded DEF Resync
<1>6. CASE dbo.vm = v /\ UpdateVnc
  <2>1. UNCHANGED <<vms, dom, pub, cache>> /\ dbo'.pc = "act"
    BY <1>6 DEF UpdateVnc, libvirtVars, IInv, DbomaticTypeOK
  <2>2. Recorded(v, n)' /\ KeepsRecord(v, n)'
    BY <1>0, <2>1 DEF Recorded, Live, KeepsRecord, Executing, Vm, Doing
  <2> QED BY <2>2
<1>7. CASE dbo.vm = v /\ UpdateAct
  <2>1. /\ Updating(v) /\ UNCHANGED <<vms, fresh, cache>>
        /\ cache[v] # None /\ cache[v].state \in {"running", "paused"}
        /\ D \in fresh => copy[D].host = n
    <3>1. Updating(v) /\ UNCHANGED <<vms, fresh, cache>>
      BY <1>7 DEF UpdateAct, Updating, recordVars
    <3>2. /\ cache[v] # None /\ cache[v].state \in {"shutoff", "running", "paused"}
          /\ D \in fresh => vms[v] = RowOf(copy[D])
      BY <3>1, UpdateOf
    <3>3. D \in fresh => copy[D].host = n
      BY <3>2 DEF Recorded, RowOf
    <3> QED BY <3>1, <3>2, <3>3 DEF Recorded
  <2>2. Translate[cache[v].state] \in {"running", "suspended"}
    BY <2>1 DEF Translate
  <2>3. /\ UNCHANGED libvirtVars
        /\ \E o \in Lookup(v) \cup {None} :
             dbo' = [dbo EXCEPT !.pc = "save", !.row = [state |-> Translate[cache[v].state],
                                                 host |-> IF o = None THEN copy[D].host ELSE o]]
    BY <1>7, <2>2 DEF UpdateAct
  <2>4. PICK o \in {n, None} :
             dbo' = [dbo EXCEPT !.pc = "save", !.row = [state |-> Translate[cache[v].state],
                                                 host |-> IF o = None THEN copy[D].host ELSE o]]
    <3>1. Lookup(v) \cup {None} = {n, None}
      BY LookupActive
    <3> QED BY <2>3, <3>1
  <2>5. /\ dbo'.pc = "save" /\ dbo'.row.state = Translate[cache[v].state]
        /\ dbo'.row.host = IF o = None THEN copy[D].host ELSE o
    BY <2>4 DEF IInv, DbomaticTypeOK
  <2>6. Recorded(v, n)'
    BY <2>1, <2>3 DEF Recorded, Live, libvirtVars
  <2>7. KeepsRecord(v, n)'
    BY <1>0, <2>1, <2>2, <2>5, NodesAssumption DEF KeepsRecord, Executing, Vm, Doing
  <2> QED BY <2>6, <2>7
<1>8. CASE dbo.vm = v /\ UpdateSave
  <2>1. /\ Updating(v) /\ dbo.pc = "save" /\ dbo.row \in VmRow /\ cache[v] \in CacheEntry
        /\ UNCHANGED libvirtVars /\ dbo'.pc = "idle"
    BY <1>8 DEF UpdateSave, Updating, Resting, IInv, DbomaticHolds
  <2>2. vms'[v] = vms[v] \/ (D \in fresh /\ vms'[v] = dbo.row)
    BY <1>8 DEF UpdateSave, Savable, IInv, VmsInv
  <2>3. cache'[v] # None => cache'[v].state # "shutoff"
    <3>1. cache' = cache \/ cache' = Synced(v)
      BY <1>8 DEF UpdateSave
    <3>2. Synced(v)[v] = [cache[v] EXCEPT !.synced = TRUE]
      BY DEF Synced, IInv, DbomaticTypeOK
    <3>3. [cache[v] EXCEPT !.synced = TRUE].state = cache[v].state /\ cache[v] # None
      BY <2>1, EntryAssumption DEF CacheEntry
    <3>4. cache[v].state # "shutoff"
      BY <3>3 DEF Recorded
    <3>5. Synced(v)[v].state = cache[v].state
      BY <3>2, <3>3
    <3>6. CASE cache' = cache
      BY <3>4, <3>6
    <3>7. CASE cache' = Synced(v)
      BY <3>4, <3>5, <3>7
    <3> QED BY <3>1, <3>6, <3>7
  <2>4. Live(v)' /\ vms'[v].state \in {"running", "suspended"} /\ vms'[v].host = n
    <3>1. CASE vms'[v] = vms[v]
      BY <3>1 DEF Recorded, Live
    <3>2. CASE D \in fresh /\ vms'[v] = dbo.row
      BY <2>1, <3>2, NullAssumption DEF KeepsRecord, Live
    <3> QED BY <2>2, <3>1, <3>2
  <2>5. Recorded(v, n)'
    BY <2>1, <2>3, <2>4 DEF Recorded, libvirtVars
  <2>6. KeepsRecord(v, n)'
    BY <1>0, <2>1 DEF KeepsRecord, Updating, Executing, Vm, Doing
  <2> QED BY <2>5, <2>6
<1> QED BY <1>1, <1>2, <1>3, <1>4, <1>5, <1>6, <1>7, <1>8

\* All steps together, also those of users, a dying taskomatic and a guest.
LEMMA NextRuns ==
  ASSUME IInv, Only(Lasting), RunsInv, Services \cap {"create", "update"} = {}, [Next]_vars
  PROVE  RunsInv'
<1>1. InLasting'
  BY NextInLasting DEF Only, RunsInv
<1> SUFFICES ASSUME NEW v \in Vms, NEW n \in Nodes, Active(v, n)'
             PROVE  Recorded(v, n)' /\ KeepsRecord(v, n)'
  BY <1>1 DEF RunsInv
<1>2. Active(v, n)
  BY NoneWakes DEF Only, RunsInv
<1>3. Recorded(v, n) /\ KeepsRecord(v, n)
  BY <1>2 DEF RunsInv
<1>4. CASE WuiActs
  <2>1. vms[v].state \notin DestroyableStates /\ Live(v)
    BY <1>3 DEF Recorded, DestroyableStates
  <2>2. Live(v)'
    BY <2>1, DeletesDestroyable
  <2>3. UNCHANGED tk
    BY <1>4 DEF WuiActs
  <2> QED BY <1>3, <1>4, <2>1, <2>2, <2>3, WuiTouches, RecordedFrame DEF Only
<1>5. CASE TaskomaticActs
  BY <1>2, <1>3, <1>5, TaskomaticRecords DEF Only, RunsInv
<1>6. CASE DbomaticActs
  BY <1>2, <1>3, <1>6, DbomaticRecords
<1>7. CASE TaskomaticDies \/ UNCHANGED vars
  <2>1. UNCHANGED <<vms, dom, pub, defined, cache, dbo>> /\ (fresh' = fresh \/ fresh' = fresh \ {P})
        /\ (UNCHANGED tk \/ tk'.pc = "idle")
    BY <1>7 DEF TaskomaticDies, TaskomaticRestart, Release, vars, recordVars, libvirtVars, dbomaticVars
  <2>2. SameVm(v) /\ SameUpdate(v) /\ (UNCHANGED tk \/ ~Executing(v)')
    BY <2>1, Different DEF SameVm, SameUpdate, Executing
  <2> QED BY <1>3, <2>2, RecordedFrame
<1>8. CASE GuestStops
  <2>0. LibvirtTypeOK
    BY DEF IInv
  <2>1. PICK w \in Vms, m \in Nodes : GuestPowerOff(w, m)
    BY <1>8 DEF GuestStops
  <2>2. UNCHANGED <<vms, fresh, cache, dbo, tk, defined>>
    BY <1>8, <2>1 DEF GuestStops, GuestPowerOff, recordVars, dbomaticVars
  <2>3. w # v
    <3> SUFFICES ASSUME w = v PROVE FALSE
      OBVIOUS
    <3>1. m = n
      BY <2>1, <1>3 DEF GuestPowerOff, Recorded
    <3>2. dom'[v][n] = Off(v, n)
      BY <2>0, <2>1, <3>1, SetDomainEffect DEF GuestPowerOff
    <3> QED BY <3>2 DEF Off, Active
  <2>4. dom'[v] = dom[v] /\ pub'[v] = pub[v]
    BY <2>0, <2>1, <2>3 DEF GuestPowerOff, SetDomain, LibvirtTypeOK
  <2>5. SameVm(v) /\ SameUpdate(v)
    BY <2>2, <2>4 DEF SameVm, SameUpdate
  <2> QED BY <1>3, <2>2, <2>5, RecordedFrame
<1> QED BY <1>4, <1>5, <1>6, <1>7, <1>8 DEF Next

\* At first the row of every running domain is right.
LEMMA InitRuns ==
  ASSUME Init
  PROVE  RunsInv
<1>1. tk.pc = "idle" /\ dbo.pc = "idle"
  BY DEF Init, TaskomaticInit, Resting
<1>2. PICK at \in [Vms -> Nodes \cup {None, Deleted}] :
       /\ vms = [v \in Vms |->
                   CASE at[v] = Deleted -> None
                     [] at[v] = None    -> [state |-> "stopped", host |-> None]
                     [] OTHER           -> [state |-> "running", host |-> at[v]]]
       /\ dom = [v \in Vms |-> [n \in Nodes |-> IF at[v] = n THEN "running" ELSE "none"]]
       /\ pub = dom
       /\ cache = [v \in Vms |->
                     IF at[v] \in {None, Deleted} THEN None
                     ELSE [node |-> at[v], state |-> "running", synced |-> TRUE]]
  BY DEF Init
<1> SUFFICES ASSUME NEW v \in Vms, NEW n \in Nodes, Active(v, n)
             PROVE  Recorded(v, n) /\ KeepsRecord(v, n)
  BY <1>1 DEF RunsInv, InLasting
<1>4. at[v] = n /\ n \notin {None, Deleted}
  BY <1>2, NodesAssumption DEF Active
<1>5. \A m \in Nodes : m # n => dom[v][m] = "none" /\ pub[v][m] = "none"
  BY <1>2, <1>4
<1>6. vms[v] = [state |-> "running", host |-> n] /\ (cache[v] # None => cache[v].state = "running")
  BY <1>2, <1>4
<1>7. Live(v)
  <2>1. vms[v] \in VmRow
    BY <1>6 DEF VmRow, VmState
  <2> QED BY <2>1, NullAssumption DEF Live
<1>8. Recorded(v, n)
  BY <1>5, <1>6, <1>7 DEF Recorded
<1> QED BY <1>1, <1>8 DEF KeepsRecord, Executing, Updating

\* The row of a VM whose domain is active always says that it runs or is
\* suspended, and on the right host, whenever taskomatic died, whatever guests
\* stopped and whichever consoles are forwarded: if VMs are not started, restored
\* or migrated.
THEOREM RunningIsRecorded ==
  ASSUME Offered \subseteq Lasting, Services \cap {"create", "update"} = {}
  PROVE  Spec => []ActiveIsRecorded
<1> DEFINE Inv == IInv /\ Only(Lasting) /\ RunsInv
<1>1. Init => Inv
  BY InitInv, InitOnly, InitRuns
<1>0. Allowed(Lasting)
  BY DEF Allowed
<1>2. Inv /\ [Next]_vars => Inv'
  BY <1>0, NextInv, NextOnly, NextRuns
<1>3. Inv => ActiveIsRecorded
  BY DEF RunsInv, Recorded, ActiveIsRecorded
<1> QED BY <1>1, <1>2, <1>3, PTL DEF Spec

\* So nobody deletes a VM that runs, although svc_destroy asks the row only.
THEOREM RunningIsNotDeleted ==
  ASSUME Offered \subseteq Lasting, Services \cap {"create", "update"} = {}
  PROVE  Spec => NotDeletedWhileRunning
<1>1. IInv /\ ActiveIsRecorded /\ [Next]_vars =>
        [\A v \in Vms : Live(v) /\ ~Live(v)' => \A n \in Nodes : ~Active(v, n)]_vars
  <2> SUFFICES ASSUME IInv, ActiveIsRecorded, [Next]_vars, NEW v \in Vms, Live(v), ~Live(v)',
                      NEW n \in Nodes, Active(v, n)
               PROVE  FALSE
    OBVIOUS
  <2>1. vms[v].state \in DestroyableStates
    BY DeletesDestroyable
  <2> QED BY <2>1 DEF ActiveIsRecorded, DestroyableStates
<1> QED BY <1>1, Invariance, RunningIsRecorded, PTL DEF Spec, NotDeletedWhileRunning
=============================================================================
