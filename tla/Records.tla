------------------------------ MODULE Records -------------------------------
(***************************************************************************)
(* The part of the oVirt database the VM life cycle lives in: the vms and  *)
(* tasks tables, and the ActiveRecord objects the processes have loaded    *)
(* from vms.                                                               *)
(*                                                                         *)
(* Both tables have a lock_version column, so ActiveRecord locks           *)
(* optimistically: an UPDATE or DELETE issued from an object whose         *)
(* lock_version is not the row's any more touches no row and raises        *)
(* StaleObjectError.  The number itself is never used for anything else,   *)
(* so the model keeps, instead of numbers, the set of processes whose      *)
(* loaded object still has the row's lock_version: `fresh'.  An object     *)
(* with no changed attribute is saved without an UPDATE at all (partial    *)
(* updates), stale or not.                                                 *)
(*                                                                         *)
(* A task row is written only to leave the state queued, so a loaded task  *)
(* is stale exactly when its row is not queued any more: task objects need *)
(* no entry in `fresh'.                                                    *)
(***************************************************************************)
EXTENDS Naturals, Sequences, VmStates

CONSTANTS Vms,       \* the ids (and uuids) VMs may be given; never reused
          Nodes,     \* the managed hosts
          Requests,  \* concurrent WUI requests (one per mongrel process)
          MaxTasks,  \* how many tasks users create: bounds the id sequence
          None,      \* SQL NULL; also: no row, no object
          Deleted    \* marks the id of a VM whose row has been deleted

ASSUME MaxTasksAssumption == MaxTasks \in Nat

VARIABLES vms,      \* the vms table
          tasks,    \* the tasks table, VmTasks only
          nextTask, \* the next value of the tasks id sequence
          copy,     \* the Vm object each process has in memory
          fresh     \* the processes whose Vm object has the row's lock_version

recordVars == <<vms, tasks, nextTask, copy, fresh>>

-----------------------------------------------------------------------------
TaskIds   == 1..MaxTasks
Processes == Requests \cup {"taskomatic", "dbomatic"}

\* The daemons are processes of their own.
ASSUME RequestsAssumption == Requests \cap {"taskomatic", "dbomatic"} = {}

\* The columns of a vms row that other components decide by.
VmRow == [state : VmState, host : Nodes \cup {None}]

\* A row that is missing is no row.
ASSUME NullAssumption == \A x \in {None, Deleted} : x \notin VmRow

\* NULL is no host, nor is the mark.
ASSUME NodesAssumption == None \notin Nodes /\ Deleted \notin Nodes

\* A Vm object in memory.
VmObject == [vm : Vms, state : VmState, host : Nodes \cup {None}]

\* Task::COMPLETED_STATES; taskomatic never stores running or paused.
CompletedStates == {"finished", "failed", "canceled"}
TaskState       == {"queued"} \cup CompletedStates

\* args of a migrate_vm task holds the id of the target host, if any.
TaskRow == [vm : Vms, action : Action, args : Nodes \cup {None}, state : TaskState]

RecordsTypeOK ==
  /\ vms \in [Vms -> VmRow \cup {None, Deleted}]
  /\ tasks \in [TaskIds -> TaskRow \cup {None}]
  /\ nextTask \in 1..(MaxTasks + 1)
  /\ copy \in [Processes -> VmObject \cup {None}]
  /\ fresh \subseteq {p \in Processes : copy[p] \in VmObject}

-----------------------------------------------------------------------------
\* The vms table.

Live(v) == vms[v] \notin {None, Deleted}

RowOf(obj) == [state |-> obj.state, host |-> obj.host]

ObjectOf(v, row) == [vm |-> v, state |-> row.state, host |-> row.host]

\* Vm.find, task.vm or reload: p's object becomes the row as it is now.
Load(p, v) ==
  /\ copy' = [copy EXCEPT ![p] = ObjectOf(v, vms[v])]
  /\ fresh' = fresh \cup {p}

\* The object goes out of scope.
Release(p) ==
  /\ copy' = [copy EXCEPT ![p] = None]
  /\ fresh' = fresh \ {p}

\* p's object has an attribute to write when its columns are set to row.
Changed(p, row) == row # RowOf(copy[p])

\* Mutant: other objects of the VM would still pass for current.
WriteKeepsVersion(p, row) ==
  LET v == copy[p].vm IN
  /\ vms' = [vms EXCEPT ![v] = row]
  /\ copy' = [copy EXCEPT ![p] = ObjectOf(v, row)]
  /\ fresh' = fresh \cup {p}

\* The UPDATE of save!: the row gets a new lock_version, which every other
\* object of the same VM lacks.
Write(p, row) ==
  LET v == copy[p].vm IN
  /\ vms' = [vms EXCEPT ![v] = row]
  /\ copy' = [copy EXCEPT ![p] = ObjectOf(v, row)]
  /\ fresh' = {q \in fresh : copy[q].vm # v} \cup {p}

\* Mutant: no lock_version column, so every save! goes through.
SavableUnlocked(p, dirty) == dirty \in BOOLEAN

\* save! does not raise: there is nothing to write, or the row still has the
\* object's lock_version.
Savable(p, dirty) == dirty => p \in fresh

Save(p, row, dirty) ==
  IF dirty THEN Write(p, row) ELSE UNCHANGED <<vms, copy, fresh>>

-----------------------------------------------------------------------------
\* The tasks table.

Queued(t) == tasks[t] # None /\ tasks[t].state = "queued"

QueuedTasks == {t \in TaskIds : Queued(t)}

\* vm.tasks.queued, as a set and, in the order of the ids, as the sequence
\* of its actions.
QueuedOf(v) == {t \in QueuedTasks : tasks[t].vm = v}

QueueOf(v) ==
  LET ids == SelectSeq([i \in TaskIds |-> i], LAMBDA t : t \in QueuedOf(v))
  IN  [k \in DOMAIN ids |-> tasks[ids[k]].action]

\* VmTask.new(...).save! for the given actions, in this order.
Insert(v, actions, args) ==
  LET n == Len(actions) IN
  /\ nextTask + n <= MaxTasks + 1
  /\ nextTask' = nextTask + n
  /\ tasks' = [t \in TaskIds |->
                 IF t \in nextTask..(nextTask + n - 1)
                 THEN [vm |-> v, action |-> actions[t - nextTask + 1],
                       args |-> args, state |-> "queued"]
                 ELSE tasks[t]]

\* Mutants: the row is written whatever has become of it; and the outcome is
\* saved on success only.
SetTaskStateUnlocked(t, s) ==
  tasks' = IF tasks[t] # None THEN [tasks EXCEPT ![t].state = s] ELSE tasks

SetTaskStateOnSuccess(t, s) ==
  tasks' = IF Queued(t) /\ s = "finished" THEN [tasks EXCEPT ![t].state = s] ELSE tasks

\* task.save! with a new state: nothing happens to a row that was updated or
\* deleted since the task was loaded (StaleObjectError).
SetTaskState(t, s) ==
  tasks' = IF Queued(t) THEN [tasks EXCEPT ![t].state = s] ELSE tasks

\* VmTask#after_initialize follows task_target when the row is loaded, so a
\* queued task whose VM is gone cannot be loaded.
Dangling(t) == Queued(t) /\ ~Live(tasks[t].vm)
=============================================================================
