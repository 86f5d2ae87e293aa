----------------------------- MODULE Taskomatic -----------------------------
(***************************************************************************)
(* task-omatic/taskomatic.rb and task_vm.rb: the daemon that executes the  *)
(* queued VmTasks, one after the other.  Its place in the code is tk.pc;   *)
(* a step is one database access or one QMF call, with the local           *)
(* computation around it:                                                  *)
(*                                                                         *)
(*   idle     mainloop: about to poll            loop     next task        *)
(*   host     start: find_capable_host           define   domainDefineXML  *)
(*   create   domain.create                      cmd      the QMF call     *)
(*   undefine, undefine_off  vm.undefine after it, or instead of it        *)
(*   reload   db_vm.reload                                                 *)
(*   vnc_port, attrs   start: save! of the port and of host_id etc.        *)
(*   save     save! of state                                               *)
(*   mark, mark_save         migrate: set_vm_state(migrating)              *)
(*   mig_host, mig, mig_undefine   migrate: inside begin ... rescue        *)
(*   revert, revert_save     migrate: set_vm_state(vm_orig_state)          *)
(*   finish   task.save!                                                   *)
(***************************************************************************)
EXTENDS Libvirt

VARIABLE tk

P == "taskomatic"

\* A task object of the batch: the columns a handler reads.
Job == [id : TaskIds, vm : Vms, action : Action, args : Nodes \cup {None}]

JobOf(t) == [id |-> t, vm |-> tasks[t].vm,
             action |-> tasks[t].action, args |-> tasks[t].args]

Locations == {"idle", "loop", "host", "define", "create", "cmd", "undefine",
              "undefine_off", "reload", "vnc_port", "attrs", "save", "mark", "mark_save",
              "mig_host", "mig", "mig_undefine", "revert", "revert_save", "finish"}

TaskomaticTypeOK ==
  tk \in [pc    : Locations,
          batch : SUBSET Job,              \* loaded, not begun
          job   : Job \cup {None},         \* being executed
          src   : Nodes \cup {None},       \* where its domain was found
          dst   : Nodes \cup {None},       \* where it is put
          orig  : VmState \cup {None},     \* migrate's vm_orig_state
          ok    : BOOLEAN]                 \* no exception so far

TaskomaticInit == tk = [pc |-> "idle", batch |-> {}, job |-> None, src |-> None,
                        dst |-> None, orig |-> None, ok |-> TRUE]

\* How a handler goes on, returns, or raises.
Goto(r, l)  == [r EXCEPT !.pc = l]
Returned(r) == [r EXCEPT !.pc = "finish", !.ok = TRUE]
Raised(r)   == [r EXCEPT !.pc = "finish", !.ok = FALSE]

At(l) == tk.pc = l
\* The VM of the current task, and the action.
Vm     == tk.job.vm
Doing(actions) == tk.job.action \in actions

-----------------------------------------------------------------------------
\* mainloop: Task.find(:all, state queued), in no particular order.  A row
\* that cannot be loaded makes the find raise: the batch stays empty.
Poll ==
  /\ At("idle")
  /\ LET found == IF \E t \in TaskIds : Dangling(t) THEN {}
                  ELSE {JobOf(t) : t \in QueuedTasks}
     IN  tk' = IF found = {} THEN tk ELSE [tk EXCEPT !.pc = "loop", !.batch = found]
  /\ UNCHANGED <<recordVars, libvirtVars>>

\* The next task object of the batch, whatever became of its row since.
Take(j) == [tk EXCEPT !.batch = @ \ {j}, !.job = j]

\* Every handler begins by loading task.vm; with the row gone it raises.
TaskVmMissing(j) ==
  /\ At("loop") /\ j \in tk.batch /\ ~Live(j.vm)
  /\ tk' = Raised(Take(j))
  /\ UNCHANGED <<recordVars, libvirtVars>>

Begin(j, actions) ==
  /\ At("loop") /\ j \in tk.batch /\ Live(j.vm) /\ j.action \in actions
  /\ Load(P, j.vm)
  /\ UNCHANGED <<vms, tasks, nextTask, libvirtVars>>

TaskCreateVm(j) ==
  /\ Begin(j, {"create_vm"})
  /\ tk' = IF vms[j.vm].state = "pending" THEN Goto(Take(j), "save")
                                          ELSE Raised(Take(j))

\* Mutant: believes the row instead of asking libvirt.
TaskStartVmByRow(j) ==
  /\ Begin(j, {"start_vm"})
  /\ tk' = IF vms[j.vm].state = "running" THEN Returned(Take(j))
                                          ELSE Goto(Take(j), "host")

\* Mutant: relies on get_action_list to queue a start for stopped VMs only.
TaskStartVmUnchecked(j) ==
  /\ Begin(j, {"start_vm"})
  /\ tk' = Goto(Take(j), "host")

\* A running domain is success, a paused one an error; an inactive one or
\* none at all is started.
TaskStartVm(j) ==
  /\ Begin(j, {"start_vm"})
  /\ \E o \in Lookup(j.vm) :
       tk' = CASE StateAt(j.vm, o) = "running" -> Returned(Take(j))
               [] StateAt(j.vm, o) = "paused"  -> Raised(Take(j))
               [] OTHER                        -> Goto(Take(j), "host")

\* No domain object: "VM already shut down?", success.  (The states
\* "suspended" and "saved" the handler also tests for are names of Vm states;
\* no domain reports them.)
TaskShutdownOrDestroyVm(j) ==
  /\ Begin(j, {"shutdown_vm", "poweroff_vm"})
  /\ \E o \in Lookup(j.vm) :
       tk' = CASE StateAt(j.vm, o) = "none"    -> Returned(Take(j))
               [] StateAt(j.vm, o) = "shutoff" -> [Goto(Take(j), "undefine_off") EXCEPT !.src = o]
               [] OTHER                        -> [Goto(Take(j), "cmd") EXCEPT !.src = o]

TaskSuspendVm(j) ==
  /\ Begin(j, {"suspend_vm"})
  /\ \E o \in Lookup(j.vm) :
       tk' = IF StateAt(j.vm, o) = "running"
             THEN [Goto(Take(j), "cmd") EXCEPT !.src = o]
             ELSE Raised(Take(j))

TaskResumeVm(j) ==
  /\ Begin(j, {"resume_vm"})
  /\ \E o \in Lookup(j.vm) :
       tk' = CASE StateAt(j.vm, o) = "running" -> Returned(Take(j))
               [] StateAt(j.vm, o) = "paused"  -> [Goto(Take(j), "cmd") EXCEPT !.src = o]
               [] OTHER                        -> Raised(Take(j))

TaskSaveOrRestoreVm(j) ==
  /\ Begin(j, {"save_vm", "restore_vm"})
  /\ \E o \in Lookup(j.vm) :
       tk' = IF o = None THEN Raised(Take(j))
                         ELSE [Goto(Take(j), "cmd") EXCEPT !.src = o]

\* find_vm refuses a VM without host_id; migrate one without domain.
TaskMigrateVm(j) ==
  /\ Begin(j, {"migrate_vm"})
  /\ \E o \in Lookup(j.vm) :
       tk' = IF vms[j.vm].host = None \/ o = None
             THEN Raised(Take(j))
             ELSE [Goto(Take(j), "mark") EXCEPT !.src = o, !.orig = vms[j.vm].state]

-----------------------------------------------------------------------------
\* The hosts find_capable_host may return: any enabled host with room (which
\* hosts have, and the round robin over them, are left open) unless the VM's
\* domain was found active on it.
Capable(v) == {n \in Nodes : \E o \in Lookup(v) : o = n => ~Active(v, n)}

\* start: pick a host, connect its storage.  Either may raise.
StartFindHost ==
  /\ At("host")
  /\ \/ tk' = Raised(tk)
     \/ \E n \in Capable(Vm) : tk' = [Goto(tk, "define") EXCEPT !.dst = n]
  /\ UNCHANGED <<recordVars, libvirtVars>>

DefineDomain ==
  /\ At("define")
  /\ \/ /\ tk' = Raised(tk)
        /\ UNCHANGED libvirtVars
     \/ /\ tk' = Goto(tk, "create")
        /\ defined' = defined \cup {<<Vm, tk.dst>>}
        /\ SetDomain(Vm, tk.dst, IF Active(Vm, tk.dst) THEN dom[Vm][tk.dst] ELSE "shutoff")
  /\ UNCHANGED recordVars

\* create fails on an active or vanished domain, and for the node's own
\* reasons; the handler then undefines what it defined.
CreateDomain ==
  /\ At("create")
  /\ \/ /\ dom[Vm][tk.dst] = "shutoff"
        /\ SetDomain(Vm, tk.dst, "running")
        /\ tk' = Goto(tk, "reload")
        /\ UNCHANGED defined
     \/ /\ IF Undefinable(Vm, tk.dst) THEN Undefine(Vm, tk.dst) ELSE UNCHANGED libvirtVars
        /\ tk' = Raised(tk)
  /\ UNCHANGED recordVars

\* The QMF call of the other handlers: what it does to the domain, and from
\* which states.  A shutdown call only asks the guest.
CommandEffect(v, n) ==
  CASE Doing({"shutdown_vm"})            -> IF Active(v, n) THEN {dom[v][n]} ELSE {}
    [] Doing({"poweroff_vm", "save_vm"}) -> IF Active(v, n) THEN {Off(v, n)} ELSE {}
    [] Doing({"suspend_vm"})             -> IF dom[v][n] = "running" THEN {"paused"} ELSE {}
    [] Doing({"resume_vm"})              -> IF dom[v][n] = "paused" THEN {"running"} ELSE {}
    [] OTHER                             -> IF dom[v][n] = "shutoff" THEN {"running"} ELSE {}

DomainCommand ==
  /\ At("cmd")
  /\ \/ /\ tk' = Raised(tk)
        /\ UNCHANGED libvirtVars
     \/ \E s \in CommandEffect(Vm, tk.src) :
          /\ SetDomain(Vm, tk.src, s)
          /\ tk' = Goto(tk, IF Doing({"shutdown_vm", "poweroff_vm"}) THEN "undefine"
                                                                      ELSE "reload")
          /\ UNCHANGED defined
  /\ UNCHANGED recordVars

\* Mutant: the row is set to stopped whether or not undefine succeeds.
UndefineDomainIgnored(here, done) ==
  /\ At(here)
  /\ tk' = done
  /\ IF Undefinable(Vm, tk.src) THEN Undefine(Vm, tk.src) ELSE UNCHANGED libvirtVars
  /\ UNCHANGED recordVars

\* After a stop the domain is undefined; only if that succeeds is the row set
\* to stopped here, from the object loaded at the start (no reload).  A domain
\* found shut off at the start is undefined and the row left alone.
UndefineDomain(here, done) ==
  /\ At(here)
  /\ IF Undefinable(Vm, tk.src)
     THEN Undefine(Vm, tk.src) /\ tk' = done
     ELSE UNCHANGED libvirtVars /\ tk' = Returned(tk)
  /\ UNCHANGED recordVars

UndefineStopped == UndefineDomain("undefine", Goto(tk, "save"))
UndefineShutOff == UndefineDomain("undefine_off", Returned(tk))

-----------------------------------------------------------------------------
\* db_vm.reload raises when the row is gone.
Reload(here, next, missing) ==
  /\ At(here)
  /\ IF Live(Vm) THEN Load(P, Vm) /\ tk' = next
                 ELSE UNCHANGED <<copy, fresh>> /\ tk' = missing
  /\ UNCHANGED <<vms, tasks, nextTask, libvirtVars>>

ReloadVm == Reload("reload", Goto(tk, IF Doing({"start_vm"}) THEN "vnc_port" ELSE "save"),
                   Raised(tk))

\* save! of the object with the columns of row; StaleObjectError is raised.
SaveVm(here, row, dirty, next) ==
  /\ At(here)
  /\ IF Savable(P, dirty) THEN Save(P, row, dirty) /\ tk' = next
                          ELSE UNCHANGED <<vms, copy, fresh>> /\ tk' = Raised(tk)
  /\ UNCHANGED <<tasks, nextTask, libvirtVars>>

WithState(s) == [RowOf(copy[P]) EXCEPT !.state = s]

\* start: set_vm_vnc_port, if the domain's XML could be read.
SetVmVncPort ==
  \E touched \in BOOLEAN : SaveVm("vnc_port", RowOf(copy[P]), touched, Goto(tk, "attrs"))

\* start: memory_used, boot_device and host_id.  The first two may have
\* changed even if host_id has not.
SaveStartAttributes ==
  LET row == [RowOf(copy[P]) EXCEPT !.host = tk.dst] IN
  \E touched \in BOOLEAN :
    SaveVm("attrs", row, touched \/ Changed(P, row), Goto(tk, "save"))

\* Mutant: writes libvirt's name of the state.
FinalRowUntranslated ==
  IF Doing({"shutdown_vm", "poweroff_vm"}) THEN [state |-> "shutoff", host |-> None]
  ELSE WithState(Transition[tk.job.action].success)

\* The last save! of a handler.
FinalRow ==
  CASE Doing({"shutdown_vm", "poweroff_vm"}) -> [state |-> "stopped", host |-> None]
    [] Doing({"migrate_vm"})                 -> [state |-> "running", host |-> tk.dst]
    [] OTHER                                 -> WithState(Transition[tk.job.action].success)

SaveVmState == SaveVm("save", FinalRow, Changed(P, FinalRow), Returned(tk))

-----------------------------------------------------------------------------
\* migrate: set_vm_state(db_vm, migrating), before the begin.
MarkReload == Reload("mark", Goto(tk, "mark_save"), Raised(tk))
MarkMigrating ==
  SaveVm("mark_save", WithState("migrating"), Changed(P, WithState("migrating")),
         Goto(tk, "mig_host"))

\* The target: the host asked for, unless the row says the VM is on it, or
\* any capable one.  This, its node and its storage may raise.
MigrateFindHost ==
  /\ At("mig_host")
  /\ \/ tk' = Goto(tk, "revert")
     \/ \E n \in IF tk.job.args # None THEN {tk.job.args} \ {copy[P].host} ELSE Capable(Vm) :
          tk' = [Goto(tk, "mig") EXCEPT !.dst = n]
  /\ UNCHANGED <<recordVars, libvirtVars>>

\* An error of the migration itself is only logged.
MigrateDomain ==
  /\ At("mig")
  /\ \/ UNCHANGED libvirtVars
     \/ /\ tk.src # tk.dst /\ Active(Vm, tk.src) /\ ~Active(Vm, tk.dst)
        /\ dom' = [dom EXCEPT ![Vm][tk.src] = Off(Vm, tk.src), ![Vm][tk.dst] = dom[Vm][tk.src]]
        /\ pub' = IF dom[Vm][tk.dst] = "none" THEN [pub EXCEPT ![Vm][tk.dst] = "none"] ELSE pub
        /\ UNCHANGED defined
  /\ tk' = Goto(tk, "mig_undefine")
  /\ UNCHANGED recordVars

\* Then the source is undefined, if it can be, and its storage torn down.
MigrateUndefine ==
  /\ At("mig_undefine")
  /\ IF Undefinable(Vm, tk.src) THEN Undefine(Vm, tk.src) ELSE UNCHANGED libvirtVars
  /\ tk' \in {Goto(tk, "reload"), Goto(tk, "revert")}
  /\ UNCHANGED recordVars

RevertReload == Reload("revert", Goto(tk, "revert_save"), Raised(tk))
RevertState ==
  SaveVm("revert_save", WithState(tk.orig), Changed(P, WithState(tk.orig)), Raised(tk))

-----------------------------------------------------------------------------
\* task.state = ...; task.save!.  A task canceled or deleted meanwhile keeps
\* its row: the StaleObjectError is only logged.
FinishTask ==
  /\ At("finish")
  /\ SetTaskState(tk.job.id, IF tk.ok THEN "finished" ELSE "failed")
  /\ Release(P)
  /\ tk' = [tk EXCEPT !.pc = IF tk.batch = {} THEN "idle" ELSE "loop",
                      !.job = None, !.src = None, !.dst = None,
                      !.orig = None, !.ok = TRUE]
  /\ UNCHANGED <<vms, nextTask, libvirtVars>>

\* The daemon dies and is started again: the queue is all it remembers.
TaskomaticRestart ==
  /\ ~At("idle")
  /\ Release(P)
  /\ tk' = [pc |-> "idle", batch |-> {}, job |-> None, src |-> None,
            dst |-> None, orig |-> None, ok |-> TRUE]
  /\ UNCHANGED <<vms, tasks, nextTask, libvirtVars>>

BeginTask(j) ==
  \/ TaskVmMissing(j)
  \/ TaskCreateVm(j)
  \/ TaskStartVm(j)
  \/ TaskShutdownOrDestroyVm(j)
  \/ TaskSuspendVm(j)
  \/ TaskResumeVm(j)
  \/ TaskSaveOrRestoreVm(j)
  \/ TaskMigrateVm(j)

\* One step of the daemon while it lives.
TaskomaticStep ==
  \/ Poll
  \/ \E j \in tk.batch : BeginTask(j)
  \/ StartFindHost \/ DefineDomain \/ CreateDomain
  \/ DomainCommand \/ UndefineStopped \/ UndefineShutOff
  \/ ReloadVm \/ SetVmVncPort \/ SaveStartAttributes \/ SaveVmState
  \/ MarkReload \/ MarkMigrating
  \/ MigrateFindHost \/ MigrateDomain \/ MigrateUndefine
  \/ RevertReload \/ RevertState
  \/ FinishTask
=============================================================================
