------------------------------ MODULE Storage -------------------------------
(***************************************************************************)
(* The volumes of an NFS storage pool: the requests that create, delete    *)
(* and assign them (storage_volume_service.rb, storage_pool_service.rb,    *)
(* vm.rb), the three tasks taskomatic carries out for them (taskomatic.rb, *)
(* task_storage.rb), and the files themselves.  As in Taskomatic, a step   *)
(* of the daemon is one access to the database or one call of a node:      *)
(*                                                                         *)
(*   idle   about to poll           next     next task of the batch        *)
(*   create createVolumeXML         reload, save   db_volume after it      *)
(*   delete volume.delete           orphan   task_target = nil             *)
(*   row    db_volume.destroy       scan     add_volume_to_db, one by one  *)
(*   finish task.save!              clean    the orphaned tasks go         *)
(*                                                                         *)
(* Locking is optimistic (lock_version): a loaded row can be saved only if *)
(* the row is as it was loaded.                                            *)
(***************************************************************************)
EXTENDS Naturals, FiniteSets, Sequences

CONSTANTS
  Names,       \* file names, which are the keys of the volumes too
  MaxRows,     \* bound: rows ever made; their ids are not used again
  MaxTasks,    \* bound: tasks queued
  MaxFaults,   \* bound: errors of nodes, lost answers and crashes
  None, Gone   \* NULL or no row yet; a destroyed row

Ids     == 1..MaxRows
TaskIds == 1..MaxTasks

\* A row of storage_volumes and one of tasks, as far as they decide anything.
Row == [name : Names, key : Names \cup {None},
        state : {"pending_setup", "available", "pending_deletion"}]

TaskRow == [action : {"create_volume", "delete_volume", "refresh_pool"},
            target : Ids \cup {None, Gone},
            state  : {"queued", "finished", "failed", "canceled"}]

ASSUME StorageAssumption ==
  /\ MaxRows \in Nat /\ MaxTasks \in Nat /\ MaxFaults \in Nat
  /\ None \notin Names /\ Gone # None

\* NULL and what is destroyed are no ids and no rows.
ASSUME NullAssumption ==
  \A x \in {None, Gone} : x \notin Ids \cup Row \cup TaskRow \cup [id : Ids, row : Row]

VARIABLES
  rows,        \* table storage_volumes
  tasks,       \* table tasks
  disk,        \* files of the pool
  lost,        \* volumes whose file was deleted, made again or not
  inUse,       \* volumes assigned to VMs
  doomed,      \* volumes somebody asked to delete
  late,        \* those of inUse for which svc_destroy's checks were passed before
  request,     \* an svc_destroy between its checks and its transaction: the row
  phase, batch, job,   \* taskomatic
  faults

database == <<rows, tasks>>
files    == <<disk, lost>>
usage    == <<inUse, doomed, late>>
daemon   == <<phase, batch, job>>
vars     == <<database, files, usage, request, daemon, faults>>

Live(i)    == rows[i] \notin {None, Gone}
FreshIds   == {i \in Ids : rows[i] = None}
FreshTasks == {t \in TaskIds : tasks[t] = None}
Least(S)   == CHOOSE i \in S : \A j \in S : i <= j
Queued     == {t \in TaskIds : tasks[t] \notin {None, Gone} /\ tasks[t].state = "queued"}

Task(act, target) == [action |-> act, target |-> target, state |-> "queued"]

\* The row of the task's volume has gone and the task has not: loading such a task
\* raises (StorageVolumeTask#after_initialize).
Dangling == \E t \in Queued : tasks[t].target \in Ids /\ ~Live(tasks[t].target)

Fault == faults < MaxFaults /\ faults' = faults + 1

-----------------------------------------------------------------------------
(* The requests.                                                           *)

\* svc_create: nothing compares the name with the other volumes'.
SvcCreate(name) ==
  /\ FreshIds # {} /\ FreshTasks # {}
  /\ LET i == Least(FreshIds)
     IN /\ rows' = [rows EXCEPT ![i] = [name |-> name, key |-> None, state |-> "pending_setup"]]
        /\ tasks' = [tasks EXCEPT ![Least(FreshTasks)] = Task("create_volume", i)]
  /\ UNCHANGED <<files, usage, request, daemon, faults>>

\* Mutant: the volume may be in use.
SvcDestroyCheckUnused(i) ==
  /\ request = None /\ Live(i)
  /\ request' = [id |-> i, row |-> rows[i]]
  /\ UNCHANGED <<database, files, usage, daemon, faults>>

\* svc_destroy: the lookup and the checks.
SvcDestroyCheck(i) ==
  /\ request = None /\ Live(i) /\ i \notin inUse
  /\ request' = [id |-> i, row |-> rows[i]]
  /\ UNCHANGED <<database, files, usage, daemon, faults>>

\* svc_destroy: the transaction.  Of a volume that was pending_deletion already
\* nothing is saved and so nothing is compared.
SvcDestroy ==
  /\ request # None /\ request' = None
  /\ LET i == request.id
     IN IF request.row.state # "pending_deletion" /\ rows[i] # request.row
        THEN UNCHANGED <<database, doomed>>
        ELSE /\ FreshTasks # {}
             /\ rows' = IF Live(i) THEN [rows EXCEPT ![i].state = "pending_deletion"] ELSE rows
             /\ tasks' = [tasks EXCEPT ![Least(FreshTasks)] = Task("delete_volume", i)]
             /\ doomed' = doomed \cup {i}
  /\ UNCHANGED <<files, inUse, late, daemon, faults>>

SvcRefresh ==
  /\ FreshTasks # {}
  /\ tasks' = [tasks EXCEPT ![Least(FreshTasks)] = Task("refresh_pool", None)]
  /\ UNCHANGED <<rows, files, usage, request, daemon, faults>>

\* A VM is saved with the volumes its form offered; the row is found, its state
\* is not looked at.
Assign(i) ==
  /\ Live(i) /\ i \notin inUse
  /\ inUse' = inUse \cup {i}
  /\ late' = IF i \in doomed \/ (request # None /\ request.id = i) THEN late \cup {i} ELSE late
  /\ UNCHANGED <<database, files, doomed, request, daemon, faults>>

Release(i) ==
  /\ i \in inUse
  /\ inUse' = inUse \ {i} /\ late' = late \ {i}
  /\ UNCHANGED <<database, files, doomed, request, daemon, faults>>

\* TaskService#svc_cancel asks the target of the task for the user's permission:
\* it raises if the target has gone or was taken away.
SvcCancel(t) ==
  /\ t \in Queued /\ tasks[t].target # Gone
  /\ tasks[t].target \in Ids => Live(tasks[t].target)
  /\ tasks' = [tasks EXCEPT ![t].state = "canceled"]
  /\ UNCHANGED <<rows, files, usage, request, daemon, faults>>

-----------------------------------------------------------------------------
(* taskomatic: the loop.                                                   *)

Goto(p) == phase' = p /\ UNCHANGED <<batch, job>>
Ends(s) == phase' = "finish" /\ job' = [job EXCEPT !.state = s] /\ UNCHANGED batch

\* A dangling task makes the whole find raise.
Poll ==
  /\ phase = "idle" /\ Queued # {} /\ ~Dangling
  /\ batch' = Queued /\ phase' = "next"
  /\ UNCHANGED <<database, files, usage, request, job, faults>>

Handler(t) ==
  CASE tasks[t].action = "create_volume" -> "create"
    [] tasks[t].action = "delete_volume" -> "delete"
    [] OTHER -> "scan"

\* The next task, as it was loaded.  A handler raises if its volume has gone, and
\* if no host is found.
NextTask(t) ==
  /\ phase = "next" /\ t \in batch
  /\ batch' = batch \ {t}
  /\ LET gone == tasks[t] = Gone \/ (tasks[t].action # "refresh_pool"
                                       /\ (tasks[t].target = Gone \/ ~Live(tasks[t].target)))
         row  == IF gone \/ tasks[t].target = None THEN None ELSE rows[tasks[t].target]
         id   == IF row = None THEN None ELSE tasks[t].target
     IN \/ /\ job' = [task |-> t, id |-> id, row |-> row,
                      state |-> IF gone THEN "failed" ELSE "finished"]
           /\ phase' = IF gone THEN "finish" ELSE Handler(t)
           /\ UNCHANGED faults
        \/ /\ ~gone /\ Fault
           /\ job' = [task |-> t, id |-> id, row |-> row, state |-> "failed"]
           /\ phase' = "finish"
  /\ UNCHANGED <<database, files, usage, request>>

\* task.save!: a task that was cancelled or destroyed meanwhile stays so, unless the
\* handler has loaded it again (delete_volume).
Finish ==
  /\ phase = "finish"
  /\ tasks' = IF tasks[job.task] # Gone
                   /\ (tasks[job.task].state = "queued" \/ tasks[job.task].target = Gone)
              THEN [tasks EXCEPT ![job.task].state = job.state] ELSE tasks
  /\ phase' = "next" /\ job' = None
  /\ UNCHANGED <<rows, files, usage, request, batch, faults>>

\* The end of the loop: the orphaned tasks are destroyed.
CleanUp ==
  /\ phase = "next" /\ batch = {}
  /\ tasks' = [t \in TaskIds |->
                 IF tasks[t] \notin {None, Gone} /\ tasks[t].target = Gone THEN Gone ELSE tasks[t]]
  /\ phase' = "idle"
  /\ UNCHANGED <<rows, files, usage, request, batch, job, faults>>

\* taskomatic dies and is started again.
Crash ==
  /\ phase # "idle" /\ Fault
  /\ phase' = "idle" /\ batch' = {} /\ job' = None
  /\ UNCHANGED <<database, files, usage, request>>

-----------------------------------------------------------------------------
(* task_create_volume.  From here on its errors are logged and swallowed: *)
(* the task ends finished.                                                 *)

\* Mutant: what the call returned is not looked at.
CreateVolUnchecked ==
  /\ phase = "create" /\ Goto("reload")
  /\ \/ disk' = disk \cup {job.row.name} /\ UNCHANGED faults
     \/ Fault /\ UNCHANGED disk
  /\ UNCHANGED <<database, lost, usage, request>>

\* Mutant: an error ends the turn of the loop, before task.save!.
CreateVolSkips ==
  /\ phase = "create"
  /\ \/ /\ job.row.name \notin disk
        /\ disk' = disk \cup {job.row.name} /\ Goto("reload")
        /\ UNCHANGED faults
     \/ /\ job.row.name \in disk
        /\ Goto("next") /\ UNCHANGED <<disk, faults>>
  /\ UNCHANGED <<database, lost, usage, request>>

\* createVolumeXML fails if there is such a file; the answer may be lost.
CreateVol ==
  /\ phase = "create"
  /\ \/ /\ job.row.name \notin disk
        /\ disk' = disk \cup {job.row.name} /\ Goto("reload")
        /\ UNCHANGED faults
     \/ /\ job.row.name \in disk
        /\ Goto("finish") /\ UNCHANGED <<disk, faults>>
     \/ /\ Fault /\ Goto("finish")
        /\ disk' \in {disk, disk \cup {job.row.name}}
  /\ UNCHANGED <<database, lost, usage, request>>

Reload ==
  /\ phase = "reload"
  /\ phase' = IF Live(job.id) THEN "save" ELSE "finish"
  /\ job' = IF Live(job.id) THEN [job EXCEPT !.row = rows[job.id]] ELSE job
  /\ UNCHANGED <<database, files, usage, request, batch, faults>>

SaveVol ==
  /\ phase = "save"
  /\ rows' = IF rows[job.id] # job.row THEN rows
             ELSE [rows EXCEPT ![job.id].key = job.row.name, ![job.id].state = "available"]
  /\ Goto("finish")
  /\ UNCHANGED <<tasks, files, usage, request, faults>>

-----------------------------------------------------------------------------
(* task_delete_volume.                                                     *)

\* The volume is looked up by the key the row had; one that is not found counts
\* as deleted, and so does one whose deletion the node refuses.
DeleteVol ==
  /\ phase = "delete"
  /\ \/ disk' = disk \ {job.row.key} /\ Goto("orphan") /\ UNCHANGED faults
     \/ Fault /\ Goto("orphan") /\ UNCHANGED disk
     \/ Fault /\ Ends("failed") /\ disk' \in {disk, disk \ {job.row.key}}
  /\ lost' = lost \cup {i \in Ids : Live(i) /\ rows[i].key \in disk \ disk'}
  /\ UNCHANGED <<database, usage, request>>

\* task.reload raises if the task has gone.
Orphan ==
  /\ phase = "orphan"
  /\ IF tasks[job.task] = Gone THEN Ends("failed") /\ UNCHANGED tasks
     ELSE tasks' = [tasks EXCEPT ![job.task].target = Gone] /\ Goto("row")
  /\ UNCHANGED <<rows, files, usage, request, faults>>

\* Mutant: the assignments stay.
DestroyRowKeepsUse ==
  /\ phase = "row" /\ Goto("finish")
  /\ rows' = [rows EXCEPT ![job.id] = Gone]
  /\ tasks' = [t \in TaskIds |-> IF tasks[t] \notin {None, Gone} /\ tasks[t].target = job.id
                                 THEN Gone ELSE tasks[t]]
  /\ UNCHANGED <<files, usage, request, faults>>

\* The row goes with its tasks and with its assignments.
DestroyRow ==
  /\ phase = "row" /\ Goto("finish")
  /\ rows' = [rows EXCEPT ![job.id] = Gone]
  /\ tasks' = [t \in TaskIds |-> IF tasks[t] \notin {None, Gone} /\ tasks[t].target = job.id
                                 THEN Gone ELSE tasks[t]]
  /\ inUse' = inUse \ {job.id} /\ late' = late \ {job.id}
  /\ UNCHANGED <<files, doomed, request, faults>>

-----------------------------------------------------------------------------
(* task_refresh_pool.                                                      *)

\* Mutant: compares names, not keys.
MissingByName == {n \in disk : ~\E i \in Ids : Live(i) /\ rows[i].name = n}

\* Files without a row that has their key.
Missing == {n \in disk : ~\E i \in Ids : Live(i) /\ rows[i].key = n}

\* Rows whose file has gone are left alone.
Scan ==
  /\ phase = "scan"
  /\ IF Missing = {} \/ FreshIds = {} THEN Goto("finish") /\ UNCHANGED rows
     ELSE /\ \E n \in Missing :
               rows' = [rows EXCEPT ![Least(FreshIds)] =
                          [name |-> n, key |-> n, state |-> "available"]]
          /\ UNCHANGED daemon
  /\ UNCHANGED <<tasks, files, usage, request, faults>>

-----------------------------------------------------------------------------
Init ==
  /\ rows = [i \in Ids |-> None] /\ tasks = [t \in TaskIds |-> None]
  /\ disk \in SUBSET Names /\ lost = {}
  /\ inUse = {} /\ doomed = {} /\ late = {} /\ request = None
  /\ phase = "idle" /\ batch = {} /\ job = None /\ faults = 0

Wui ==
  \/ \E n \in Names : SvcCreate(n)
  \/ \E i \in Ids : SvcDestroyCheck(i) \/ Assign(i) \/ Release(i)
  \/ SvcDestroy \/ SvcRefresh
  \/ \E t \in TaskIds : SvcCancel(t)

Taskomatic ==
  \/ Poll \/ \E t \in TaskIds : NextTask(t)
  \/ CreateVol \/ Reload \/ SaveVol
  \/ DeleteVol \/ Orphan \/ DestroyRow
  \/ Scan \/ Finish \/ CleanUp

Next == Wui \/ Taskomatic \/ Crash

Spec == Init /\ [][Next]_vars

\* taskomatic runs.
FairSpec == Spec /\ WF_<<database, disk, daemon>>(Taskomatic)

-----------------------------------------------------------------------------
(* Properties.                                                             *)

\* The variables have their types; the handlers work on rows.
TypeOK ==
  /\ \A i \in Ids : Live(i) => rows[i] \in Row
  /\ \A t \in TaskIds : tasks[t] \notin {None, Gone} => tasks[t] \in TaskRow
  /\ disk \subseteq Names /\ lost \subseteq Ids
  /\ inUse \subseteq {i \in Ids : Live(i)}
  /\ late \subseteq inUse /\ doomed \subseteq Ids
  /\ batch \subseteq TaskIds
  /\ phase \in {"create", "reload", "save", "delete", "orphan", "row"} => job.id \in Ids

\* Two volumes are two files, unless the file of one was deleted (for the other, or
\* for itself by a call whose answer was lost, so that its row stayed) and made
\* again: neither a refresh nor a repeated task makes a second row for a file.
OneRowPerFile ==
  \A i, j \in Ids \ lost :
    i # j /\ Live(i) /\ Live(j) /\ rows[i].key # None => rows[i].key # rows[j].key

\* An available volume has its file, unless a deletion has removed it since: errors
\* and lost answers that taskomatic swallows when it creates a volume do not make
\* it available.
AvailableHasFile ==
  \A i \in Ids \ lost : Live(i) /\ rows[i].state = "available" => rows[i].key \in disk

\* The file of a volume in use stays, unless the VM got it after svc_destroy had
\* found it unused, or another row for the same file is being deleted.
InUseKept ==
  [][\A i \in inUse :
       rows[i].key \in disk \ disk' =>
         i \in late \/ \E j \in doomed \ {i} : Live(j) /\ rows[j].key = rows[i].key]_vars

\* Every queued task ends, unless a dangling one blocks the poll.
TasksEnd == \A t \in TaskIds : t \in Queued ~> (t \notin Queued \/ Dangling)

\* A refresh finds the files that have no volume, those included whose name a
\* volume that could not be created has.
Unknown(n) == n \in disk /\ \A i \in Ids : Live(i) => rows[i].key # n

Discovered ==
  \A n \in Names :
    (Unknown(n) /\ phase = "scan") ~> (~Unknown(n) \/ FreshIds = {} \/ faults > 0)
=============================================================================
