-------------------------------- MODULE Wui ---------------------------------
(***************************************************************************)
(* app/services/vm_service.rb and task_service.rb, as called by the WUI's  *)
(* controllers and by the QMF agent: requests that read the tables, decide *)
(* and write.  Several requests run at the same time; web[r] is where      *)
(* request r is.  Reading and writing are separate steps, a transaction    *)
(* that only writes is one step.  A request that raises ends: idle.        *)
(***************************************************************************)
EXTENDS Libvirt

CONSTANTS Offered,   \* the VM actions the users ask for
          Services   \* the service calls they make

ASSUME OfferedAssumption == Offered \subseteq Action

ASSUME ServicesAssumption ==
  Services \subseteq {"create", "action", "update", "destroy", "cancel"}

VARIABLE web

Idle == [op |-> "idle", action |-> None, args |-> None, ts |-> {}]

WuiTypeOK ==
  web \in [Requests -> [op     : {"idle", "check", "insert", "update", "destroy", "cancel"},
                        action : Action \cup {None},
                        args   : Nodes \cup {None},
                        ts     : SUBSET TaskIds]]

WuiInit == web = [r \in Requests |-> Idle]

Enter(r, op, action, args, ts) ==
  /\ web[r] = Idle
  /\ web' = [web EXCEPT ![r] = [op |-> op, action |-> action, args |-> args, ts |-> ts]]

Leave(r) == web' = [web EXCEPT ![r] = Idle] /\ Release(r)

-----------------------------------------------------------------------------
\* svc_create: one transaction; no row of it is visible before it commits.
SvcCreate(v) ==
  /\ vms[v] = None
  /\ vms' = [vms EXCEPT ![v] = [state |-> "pending", host |-> None]]
  /\ \E start_now \in BOOLEAN :
       Insert(v, IF start_now THEN <<"create_vm", "start_vm">> ELSE <<"create_vm">>, None)
  /\ UNCHANGED <<copy, fresh, libvirtVars, web>>

-----------------------------------------------------------------------------
\* svc_vm_action, queue_action: find the VM, ...
VmActionFind(r, v, a, arg) ==
  /\ Live(v) /\ a \in Offered /\ (arg # None => a = "migrate_vm")
  /\ Enter(r, "check", a, arg, {})
  /\ Load(r, v)
  /\ UNCHANGED <<vms, tasks, nextTask, libvirtVars>>

\* ... refuse unless get_action_list has the action (whether the quota leaves
\* resources_for_start? is left open), ...
VmActionCheck(r) ==
  /\ web[r].op = "check"
  /\ \E resources \in BOOLEAN :
       IF web[r].action \in GetActionList(copy[r].state, QueueOf(copy[r].vm), resources)
       THEN /\ web' = [web EXCEPT ![r].op = "insert"]
            /\ UNCHANGED <<copy, fresh>>
       ELSE Leave(r)
  /\ UNCHANGED <<vms, tasks, nextTask, libvirtVars>>

\* ... and save the task.
VmActionInsert(r) ==
  /\ web[r].op = "insert"
  /\ Insert(copy[r].vm, <<web[r].action>>, web[r].args)
  /\ Leave(r)
  /\ UNCHANGED <<vms, libvirtVars>>

-----------------------------------------------------------------------------
\* svc_update: find; then, in one transaction, update the attributes and
\* queue a start, or a shutdown and a start, if the list allows the first.
UpdateFind(r, v) ==
  /\ Live(v)
  /\ Enter(r, "update", None, None, {})
  /\ Load(r, v)
  /\ UNCHANGED <<vms, tasks, nextTask, libvirtVars>>

UpdateQueues(v, s) ==
  LET list == GetActionList(s, QueueOf(v), TRUE) IN
  {<<>>}
    \cup {<<"start_vm">> : x \in list \cap {"start_vm"}}
    \cup {<<"shutdown_vm", "start_vm">> : x \in list \cap {"shutdown_vm"}}

UpdateCommit(r) ==
  /\ web[r].op = "update"
  /\ LET v == copy[r].vm IN
     \E touched \in BOOLEAN :
       IF Savable(r, touched)
       THEN /\ \E actions \in UpdateQueues(v, copy[r].state) : Insert(v, actions, None)
            /\ copy' = [copy EXCEPT ![r] = None]
            /\ fresh' = (IF touched THEN {q \in fresh : copy[q].vm # v} ELSE fresh) \ {r}
       ELSE Release(r) /\ UNCHANGED <<tasks, nextTask>>
  /\ web' = [web EXCEPT ![r] = Idle]
  /\ UNCHANGED <<vms, libvirtVars>>

-----------------------------------------------------------------------------
\* svc_destroy: find, is_destroyable?; then Vm#destroy, which asks again of
\* the same object, and deletes the tasks and the row in a transaction.
DestroyFind(r, v) ==
  /\ Live(v) /\ IsDestroyable(vms[v].state, QueueOf(v))
  /\ Enter(r, "destroy", None, None, {})
  /\ Load(r, v)
  /\ UNCHANGED <<vms, tasks, nextTask, libvirtVars>>

\* Mutant: DELETE without the lock_version condition.
DestroyCommitUnlocked(r) ==
  /\ web[r].op = "destroy"
  /\ LET v == copy[r].vm IN
     IF IsDestroyable(copy[r].state, QueueOf(v)) /\ Live(v)
     THEN /\ vms' = [vms EXCEPT ![v] = Deleted]
          /\ tasks' = [t \in TaskIds |->
                         IF tasks[t] # None /\ tasks[t].vm = v THEN None ELSE tasks[t]]
          /\ copy' = [copy EXCEPT ![r] = None]
          /\ fresh' = {q \in fresh : copy[q].vm # v}
     ELSE Release(r) /\ UNCHANGED <<vms, tasks>>
  /\ web' = [web EXCEPT ![r] = Idle]
  /\ UNCHANGED <<nextTask, libvirtVars>>

DestroyCommit(r) ==
  /\ web[r].op = "destroy"
  /\ LET v == copy[r].vm IN
     IF IsDestroyable(copy[r].state, QueueOf(v)) /\ r \in fresh
     THEN /\ vms' = [vms EXCEPT ![v] = Deleted]
          /\ tasks' = [t \in TaskIds |->
                         IF tasks[t] # None /\ tasks[t].vm = v THEN None ELSE tasks[t]]
          /\ copy' = [copy EXCEPT ![r] = None]
          /\ fresh' = {q \in fresh : copy[q].vm # v}
     ELSE Release(r) /\ UNCHANGED <<vms, tasks>>
  /\ web' = [web EXCEPT ![r] = Idle]
  /\ UNCHANGED <<nextTask, libvirtVars>>

-----------------------------------------------------------------------------
\* svc_cancel_queued_tasks (all queued tasks of a VM, in a transaction) and
\* TaskService#svc_cancel (one task): find the tasks, ...
CancelFind(r, v, ts) ==
  /\ Live(v)
  /\ ts # {} /\ (ts = QueuedOf(v) \/ \E t \in QueuedOf(v) : ts = {t})
  /\ Enter(r, "cancel", None, None, ts)
  /\ UNCHANGED <<recordVars, libvirtVars>>

\* ... cancel them; one that was completed or deleted meanwhile raises and
\* rolls everything back.
CancelCommit(r) ==
  /\ web[r].op = "cancel"
  /\ tasks' = IF \A t \in web[r].ts : Queued(t)
              THEN [t \in TaskIds |-> IF t \in web[r].ts
                                      THEN [tasks[t] EXCEPT !.state = "canceled"]
                                      ELSE tasks[t]]
              ELSE tasks
  /\ Leave(r)
  /\ UNCHANGED <<vms, nextTask, libvirtVars>>

-----------------------------------------------------------------------------
\* A user's request arrives.
WuiArrive(r) ==
  \E v \in Vms :
    \/ "action" \in Services /\ \E a \in Offered, arg \in Nodes \cup {None} :
                                  VmActionFind(r, v, a, arg)
    \/ "update"  \in Services /\ UpdateFind(r, v)
    \/ "destroy" \in Services /\ DestroyFind(r, v)
    \/ "cancel"  \in Services /\ \E ts \in SUBSET QueuedOf(v) : CancelFind(r, v, ts)

\* A request that was let in goes on.
WuiContinue(r) ==
  \/ VmActionCheck(r)
  \/ VmActionInsert(r)
  \/ UpdateCommit(r)
  \/ DestroyCommit(r)
  \/ CancelCommit(r)

WuiStep ==
  \/ "create" \in Services /\ \E v \in Vms : SvcCreate(v)
  \/ \E r \in Requests : WuiArrive(r) \/ WuiContinue(r)
=============================================================================
