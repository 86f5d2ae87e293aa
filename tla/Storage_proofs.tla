---------------------------- MODULE Storage_proofs ----------------------------
(***************************************************************************)
(* Proofs about Storage for any number of names, rows, tasks and faults:   *)
(* its type correctness, and that a file has one volume, an available      *)
(* volume its file, and a volume in use keeps it.                          *)
(***************************************************************************)
EXTENDS Storage, TLAPS, WellFoundedInduction

-----------------------------------------------------------------------------
(***************************************************************************)
(* The inductive invariant.                                                *)
(***************************************************************************)

\* A volume has no key yet or its name for one; an available one has a key.
RowsInv ==
  /\ rows \in [Ids -> Row \cup {None, Gone}]
  /\ \A i \in Ids : Live(i) =>
       /\ rows[i].key \in {None, rows[i].name}
       /\ rows[i].state = "available" => rows[i].key # None

\* The tasks that name a volume, or named one that is destroyed, are those that
\* create and delete; somebody has asked for the latter.
TasksInv ==
  /\ tasks \in [TaskIds -> TaskRow \cup {None, Gone}]
  /\ \A t \in TaskIds : tasks[t] \notin {None, Gone} =>
       /\ tasks[t].action = "refresh_pool" <=> tasks[t].target = None
       /\ tasks[t].target \in Ids => rows[tasks[t].target] # None
       /\ tasks[t].action = "delete_volume" => tasks[t].target \in doomed \cup {Gone}
  /\ batch \subseteq {t \in TaskIds : tasks[t] # None}

\* A volume in use was so before anybody looked whether it may be deleted, or
\* is known to be late.
UsageInv ==
  /\ inUse \subseteq {i \in Ids : Live(i)} /\ late \subseteq inUse
  /\ doomed \subseteq {i \in Ids : rows[i] # None}
  /\ request # None => request \in [id : Ids, row : Row] /\ rows[request.id] # None
  /\ \A i \in inUse : i \in doomed \/ (request # None /\ request.id = i) => i \in late

\* taskomatic is in the handler of a volume's task, or of a found volume; what
\* it has at hand.
Handling == phase \in {"create", "reload", "save", "delete", "orphan", "row"}

Job == [task : TaskIds, id : Ids \cup {None}, row : Row \cup {None},
        state : {"finished", "failed"}]

\* A handler has the row it works on, with its name and its key, and one that
\* deletes was asked to.
JobInv ==
  /\ phase \in {"idle", "next", "finish", "scan"} \/ Handling
  /\ phase \notin {"idle", "next"} => job \in Job /\ tasks[job.task] # None
  /\ Handling => /\ job.id \in Ids /\ Live(job.id) /\ job.row \in Row
                 /\ job.row.name = rows[job.id].name /\ job.row.key = rows[job.id].key
  /\ phase \in {"delete", "orphan", "row"} =>
       /\ job.id \in doomed
       /\ tasks[job.task] # Gone => tasks[job.task].action = "delete_volume"

\* A volume with a key has its file until that is deleted.  The file taskomatic
\* has just made is nobody else's.
FilesInv ==
  /\ disk \subseteq Names /\ lost \subseteq {i \in Ids : rows[i] # None}
  /\ \A i \in Ids \ lost : Live(i) /\ rows[i].key # None => rows[i].key \in disk
  /\ phase \in {"reload", "save"} =>
       /\ job.row.name \in disk
       /\ \A i \in Ids \ (lost \cup {job.id}) : Live(i) => rows[i].key # job.row.name

IInv == RowsInv /\ TasksInv /\ UsageInv /\ JobInv /\ FilesInv /\ OneRowPerFile

-----------------------------------------------------------------------------
(***************************************************************************)
(* The operators.                                                          *)
(***************************************************************************)

\* The least of some numbers is one of them.
LEMMA LeastIsMember ==
  ASSUME NEW S \in SUBSET Nat, S # {}
  PROVE  Least(S) \in S
<1>1. PICK x \in S : \A y \in S : ~(<<y, x>> \in OpToRel(<, Nat))
  BY WFMin, NatLessThanWellFounded
<1>2. ASSUME NEW y \in S PROVE x <= y
  <2>1. x \in Nat /\ y \in Nat /\ <<y, x>> \in Nat \X Nat
    OBVIOUS
  <2>2. ~(<<y, x>>[1] < <<y, x>>[2])
    BY <1>1, <2>1 DEF OpToRel
  <2> QED BY <2>1, <2>2
<1> QED BY <1>2 DEF Least

\* The row and the task that are made are new.
LEMMA FreshMembers ==
  /\ FreshIds # {} => Least(FreshIds) \in Ids /\ rows[Least(FreshIds)] = None
  /\ FreshTasks # {} => Least(FreshTasks) \in TaskIds /\ tasks[Least(FreshTasks)] = None
<1>1. FreshIds \in SUBSET Nat /\ FreshTasks \in SUBSET Nat
  BY StorageAssumption DEF FreshIds, FreshTasks, Ids, TaskIds
<1> QED BY <1>1, LeastIsMember DEF FreshIds, FreshTasks

\* Where a step leaves the rows alone, what is said of them stays ...
LEMMA RowsStay ==
  ASSUME RowsInv, OneRowPerFile, UNCHANGED <<rows, lost>>
  PROVE  RowsInv' /\ OneRowPerFile'
BY DEF RowsInv, OneRowPerFile, Live

\* ... and so with the tasks, if the batch does not grow ...
LEMMA TasksStay ==
  ASSUME TasksInv, UNCHANGED <<rows, tasks>>, doomed \subseteq doomed', batch' \subseteq batch
  PROVE  TasksInv'
BY DEF TasksInv

\* ... with the volumes' use ...
LEMMA UsageStays ==
  ASSUME UsageInv, UNCHANGED <<rows, usage, request>>
  PROVE  UsageInv'
BY DEF UsageInv, usage, Live

\* ... with the files, unless taskomatic has just made one ...
LEMMA FilesStay ==
  ASSUME FilesInv, UNCHANGED <<rows, files>>,
         UNCHANGED <<phase, job>> \/ phase' \notin {"reload", "save"}
  PROVE  FilesInv'
BY DEF FilesInv, files, Live

\* A task stays what it is for, and does not go back to being unmade.
TasksKept ==
  \A t \in TaskIds : tasks[t] # None =>
    /\ tasks'[t] # None
    /\ tasks'[t] # Gone => tasks[t] # Gone /\ tasks'[t].action = tasks[t].action

\* ... and with the job of taskomatic.
LEMMA JobStays ==
  ASSUME JobInv, UNCHANGED <<rows, phase, job>>, doomed \subseteq doomed',
         TasksKept
  PROVE  JobInv'
BY DEF JobInv, Handling, Live, Job, TasksKept

\* A queued task that is new.
LEMMA NewTask ==
  ASSUME TasksInv, FreshTasks # {}, NEW act, NEW target,
         tasks' = [tasks EXCEPT ![Least(FreshTasks)] = Task(act, target)],
         \A i \in Ids : rows[i] # None => rows'[i] # None,
         doomed \subseteq doomed', UNCHANGED batch,
         \/ act = "refresh_pool" /\ target = None
         \/ act = "create_volume" /\ target \in Ids /\ rows'[target] # None
         \/ act = "delete_volume" /\ target \in doomed' /\ target \in Ids /\ rows'[target] # None
  PROVE  TasksInv' /\ TasksKept
<1> DEFINE u == Least(FreshTasks)
<1>1. u \in TaskIds /\ tasks[u] = None
  BY FreshMembers
<1> HIDE DEF u
<1>2. None \notin Ids
  BY NullAssumption
<1>3. /\ Task(act, target) \in TaskRow /\ Task(act, target) \notin {None, Gone}
      /\ Task(act, target).action = act /\ Task(act, target).target = target
  BY NullAssumption DEF Task, TaskRow
<1>4. \A t \in TaskIds : tasks'[t] = IF t = u THEN Task(act, target) ELSE tasks[t]
  BY <1>1 DEF TasksInv, u
<1>5. tasks' \in [TaskIds -> TaskRow \cup {None, Gone}]
  BY <1>3 DEF TasksInv
<1>6. batch' \subseteq {t \in TaskIds : tasks'[t] # None}
  BY <1>3, <1>4 DEF TasksInv
<1>7. ASSUME NEW t \in TaskIds, tasks'[t] \notin {None, Gone}
      PROVE  /\ tasks'[t].action = "refresh_pool" <=> tasks'[t].target = None
             /\ tasks'[t].target \in Ids => rows'[tasks'[t].target] # None
             /\ tasks'[t].action = "delete_volume" => tasks'[t].target \in doomed' \cup {Gone}
  <2>1. CASE t = u
    BY <1>2, <1>3, <1>4, <2>1
  <2>2. CASE t # u
    BY <1>4, <1>7, <2>2 DEF TasksInv
  <2> QED BY <2>1, <2>2
<1> QED BY <1>1, <1>3, <1>4, <1>5, <1>6, <1>7 DEF TasksInv, TasksKept

\* A new row takes no file that another row has.
LEMMA NewRow ==
  ASSUME IInv, FreshIds # {}, NEW row \in Row,
         rows' = [rows EXCEPT ![Least(FreshIds)] = row],
         UNCHANGED <<files, usage, request, phase, job>>,
         TasksKept,
         \/ row.key = None /\ row.state # "available"
         \/ /\ phase = "scan" /\ row.key = row.name /\ row.key \in disk
            /\ \A i \in Ids : Live(i) => rows[i].key # row.key
  PROVE  RowsInv' /\ UsageInv' /\ JobInv' /\ FilesInv' /\ OneRowPerFile'
<1> DEFINE u == Least(FreshIds)
<1>1. u \in Ids /\ rows[u] = None
  BY FreshMembers
<1> HIDE DEF u
<1>2. \A i \in Ids : rows'[i] = IF i = u THEN row ELSE rows[i]
  BY <1>1 DEF IInv, RowsInv, u
<1>3. row \notin {None, Gone} /\ None \notin Names
  BY NullAssumption, StorageAssumption
<1>4. \A i \in Ids : Live(i)' <=> i = u \/ Live(i)
  BY <1>2, <1>3 DEF Live
<1>5. RowsInv'
  <2>1. rows' \in [Ids -> Row \cup {None, Gone}]
    BY DEF IInv, RowsInv
  <2>2. row.key \in {None, row.name} /\ row.state = "available" => row.key # None
    BY <1>3 DEF Row
  <2> QED BY <1>2, <1>4, <2>1, <2>2 DEF IInv, RowsInv
<1>6. UsageInv'
  BY <1>2, <1>3, <1>4 DEF IInv, UsageInv, usage
<1>7. ~Live(u)
  BY <1>1 DEF Live
<1>8. JobInv'
  BY <1>2, <1>4, <1>7 DEF IInv, JobInv, Handling, Job, usage, TasksKept
<1>9. FilesInv'
  <2>1. \A i \in Ids \ lost' : Live(i)' /\ rows'[i].key # None => rows'[i].key \in disk'
    BY <1>2, <1>4 DEF IInv, FilesInv, files
  <2>2. phase \in {"reload", "save"} => row.key = None /\ job.row.name # None
    BY <1>3 DEF IInv, JobInv, Handling, Row
  <2> QED BY <1>2, <1>3, <1>4, <2>1, <2>2 DEF IInv, FilesInv, files
<1>10. OneRowPerFile'
  <2> SUFFICES ASSUME NEW i \in Ids \ lost, NEW j \in Ids \ lost, i # j, Live(i)', Live(j)',
                      rows'[i].key # None
               PROVE  rows'[i].key # rows'[j].key
    BY DEF OneRowPerFile, files
  <2>1. CASE i # u /\ j # u
    BY <1>2, <1>4, <2>1 DEF IInv, OneRowPerFile
  <2>2. CASE i = u
    BY <1>2, <1>4, <2>2
  <2>3. CASE j = u
    BY <1>2, <1>4, <2>3
  <2> QED BY <2>1, <2>2, <2>3
<1> QED BY <1>5, <1>6, <1>8, <1>9, <1>10

-----------------------------------------------------------------------------
(***************************************************************************)
(* The requests.                                                           *)
(***************************************************************************)

\* A volume begins without a key, with the task that makes its file.
LEMMA SvcCreateInv ==
  ASSUME IInv, NEW name \in Names, SvcCreate(name)
  PROVE  IInv'
<1> DEFINE u   == Least(FreshIds)
           row == [name |-> name, key |-> None, state |-> "pending_setup"]
<1>1. row \in Row /\ row.key = None /\ row.state # "available"
  BY DEF Row
<1>2. /\ FreshIds # {} /\ FreshTasks # {} /\ rows' = [rows EXCEPT ![u] = row]
      /\ tasks' = [tasks EXCEPT ![Least(FreshTasks)] = Task("create_volume", u)]
      /\ UNCHANGED <<files, usage, request, phase, batch, job, doomed>>
  BY DEF SvcCreate, daemon, usage
<1>3. u \in Ids /\ rows[u] = None
  BY <1>2, FreshMembers
<1> HIDE DEF u, row
<1>4. \A i \in Ids : rows'[i] = IF i = u THEN row ELSE rows[i]
  BY <1>2, <1>3 DEF IInv, RowsInv
<1>5. row # None
  BY <1>1, NullAssumption
<1>6. TasksInv' /\ TasksKept
  BY <1>2, <1>3, <1>4, <1>5, NewTask DEF IInv
<1>7. RowsInv' /\ UsageInv' /\ JobInv' /\ FilesInv' /\ OneRowPerFile'
  BY <1>1, <1>2, <1>6, NewRow DEF u
<1> QED BY <1>6, <1>7 DEF IInv

\* svc_destroy finds a volume that is not in use.
LEMMA SvcDestroyCheckInv ==
  ASSUME IInv, NEW i \in Ids, SvcDestroyCheck(i)
  PROVE  IInv'
<1>1. UNCHANGED <<rows, tasks, files, usage, phase, batch, job, doomed>>
  BY DEF SvcDestroyCheck, database, daemon, usage
<1>2. rows[i] \in Row /\ request' = [id |-> i, row |-> rows[i]] /\ i \notin inUse /\ request = None
  BY DEF SvcDestroyCheck, IInv, RowsInv, Live
<1>3. request' \in [id : Ids, row : Row] /\ request'.id = i /\ rows[i] # None
  BY <1>2, NullAssumption
<1>4. UsageInv'
  BY <1>1, <1>2, <1>3 DEF IInv, UsageInv, usage, Live
<1> QED BY <1>1, <1>4, RowsStay, TasksStay, FilesStay, JobStays DEF IInv, files, TasksKept

\* ... and then asks for its deletion.
LEMMA SvcDestroyInv ==
  ASSUME IInv, SvcDestroy
  PROVE  IInv'
<1> DEFINE i == request.id
<1>1. /\ i \in Ids /\ rows[i] # None /\ request # None /\ request' = None
      /\ UNCHANGED <<files, inUse, late, phase, batch, job>>
  BY DEF SvcDestroy, IInv, UsageInv, daemon
<1> HIDE DEF i
<1>2. CASE UNCHANGED <<rows, tasks, doomed>>
  <2>1. UsageInv'
    BY <1>1, <1>2 DEF IInv, UsageInv, Live
  <2> QED BY <1>1, <1>2, <2>1, RowsStay, TasksStay, FilesStay, JobStays DEF IInv, files, TasksKept
<1>3. CASE /\ FreshTasks # {}
           /\ rows' = IF Live(i) THEN [rows EXCEPT ![i].state = "pending_deletion"] ELSE rows
           /\ tasks' = [tasks EXCEPT ![Least(FreshTasks)] = Task("delete_volume", i)]
           /\ doomed' = doomed \cup {i}
  <2>1. \A j \in Ids : Live(j) => rows[j] \in Row
    BY DEF IInv, RowsInv, Live
  <2>2. /\ \A j \in Ids : Live(j) => /\ rows'[j] \in Row /\ rows'[j].name = rows[j].name
                                     /\ rows'[j].key = rows[j].key
                                     /\ rows'[j].state \in {rows[j].state, "pending_deletion"}
        /\ \A j \in Ids : ~Live(j) => rows'[j] = rows[j]
        /\ rows' \in [Ids -> Row \cup {None, Gone}]
    <3>1. CASE ~Live(i)
      BY <1>3, <2>1, <3>1 DEF IInv, RowsInv
    <3>2. CASE Live(i)
      <4> DEFINE new == [rows[i] EXCEPT !.state = "pending_deletion"]
      <4>1. /\ new \in Row /\ new.name = rows[i].name /\ new.key = rows[i].key
            /\ new.state = "pending_deletion"
        BY <1>1, <2>1, <3>2 DEF Row
      <4>2. rows' = [rows EXCEPT ![i] = new]
        BY <1>3, <3>2
      <4> HIDE DEF new
      <4>3. \A j \in Ids : rows'[j] = IF j = i THEN new ELSE rows[j]
        BY <4>2 DEF IInv, RowsInv
      <4>4. rows' \in [Ids -> Row \cup {None, Gone}]
        BY <4>1, <4>2 DEF IInv, RowsInv
      <4> QED BY <2>1, <3>2, <4>1, <4>3, <4>4
    <3> QED BY <3>1, <3>2
  <2>3. /\ \A j \in Ids : Live(j)' <=> Live(j)
        /\ \A j \in Ids : rows'[j] # None <=> rows[j] # None
    BY <2>2, NullAssumption DEF Live
  <2>4. TasksInv' /\ TasksKept
    BY <1>1, <1>3, <2>3, NewTask DEF IInv
  <2>5. RowsInv' /\ OneRowPerFile'
    BY <1>1, <2>2, <2>3 DEF IInv, RowsInv, OneRowPerFile, files
  <2>6. UsageInv'
    BY <1>1, <1>3, <2>3 DEF IInv, UsageInv, i
  <2>7. JobInv'
    BY <1>1, <1>3, <2>2, <2>3, <2>4 DEF IInv, JobInv, Handling, Job, TasksKept
  <2>8. FilesInv'
    BY <1>1, <2>2, <2>3 DEF IInv, FilesInv, files
  <2> QED BY <2>4, <2>5, <2>6, <2>7, <2>8 DEF IInv
<1> QED BY <1>2, <1>3 DEF SvcDestroy, database, i

\* A refresh is queued.
LEMMA SvcRefreshInv ==
  ASSUME IInv, SvcRefresh
  PROVE  IInv'
<1>1. UNCHANGED <<rows, files, usage, request, phase, batch, job, doomed>>
  BY DEF SvcRefresh, daemon, usage
<1>2. TasksInv' /\ TasksKept
  BY <1>1, NewTask DEF SvcRefresh, IInv
<1> QED BY <1>1, <1>2, RowsStay, UsageStays, FilesStay, JobStays DEF IInv, files

\* A VM gets a volume, or gives it back.
LEMMA AssignReleaseInv ==
  ASSUME IInv, NEW i \in Ids, Assign(i) \/ Release(i)
  PROVE  IInv'
<1>1. UNCHANGED <<rows, tasks, files, request, phase, batch, job, doomed>>
  BY DEF Assign, Release, database, daemon
<1>2. UsageInv'
  BY <1>1 DEF Assign, Release, IInv, UsageInv, Live
<1> QED BY <1>1, <1>2, RowsStay, TasksStay, FilesStay, JobStays DEF IInv, files, TasksKept

\* A task's state is all that changes in it.
LEMMA TaskStateInv ==
  ASSUME IInv, NEW t \in TaskIds, tasks[t] \notin {None, Gone},
         NEW s \in {"finished", "failed", "canceled"},
         tasks' = [tasks EXCEPT ![t].state = s], UNCHANGED <<rows, doomed>>, batch' \subseteq batch
  PROVE  TasksInv' /\ TasksKept
<1> DEFINE new == [tasks[t] EXCEPT !.state = s]
<1>1. tasks[t] \in TaskRow
  BY DEF IInv, TasksInv
<1>2. new \in TaskRow /\ new.action = tasks[t].action /\ new.target = tasks[t].target
  BY <1>1 DEF TaskRow
<1>3. new \notin {None, Gone}
  BY <1>2, NullAssumption
<1> HIDE DEF new
<1>4. tasks' = [tasks EXCEPT ![t] = new]
  BY DEF new
<1>5. \A u \in TaskIds : tasks'[u] = IF u = t THEN new ELSE tasks[u]
  BY <1>4 DEF IInv, TasksInv
<1>6. tasks' \in [TaskIds -> TaskRow \cup {None, Gone}]
  BY <1>2, <1>4 DEF IInv, TasksInv
<1> QED BY <1>2, <1>3, <1>5, <1>6 DEF IInv, TasksInv, TasksKept

\* A task is cancelled.
LEMMA SvcCancelInv ==
  ASSUME IInv, NEW t \in TaskIds, SvcCancel(t)
  PROVE  IInv'
<1>1. UNCHANGED <<rows, files, usage, request, phase, batch, job, doomed>>
  BY DEF SvcCancel, daemon, usage
<1>2. TasksInv' /\ TasksKept
  BY <1>1, TaskStateInv DEF SvcCancel, Queued
<1> QED BY <1>1, <1>2, RowsStay, UsageStays, FilesStay, JobStays DEF IInv, files

-----------------------------------------------------------------------------
(***************************************************************************)
(* taskomatic's loop.                                                      *)
(***************************************************************************)

\* The queued tasks are all there, so that taskomatic can take them up.
LEMMA PollInv ==
  ASSUME IInv, Poll
  PROVE  IInv'
<1>1. UNCHANGED <<rows, tasks, files, usage, request, job, doomed>> /\ phase' = "next"
  BY DEF Poll, database, usage
<1>2. TasksInv'
  BY <1>1 DEF Poll, IInv, TasksInv, Queued
<1>3. JobInv'
  BY <1>1 DEF JobInv, Handling
<1> QED BY <1>1, <1>2, <1>3, RowsStay, UsageStays, FilesStay DEF IInv, files

\* A handler is entered for a volume that is there.
LEMMA NextTaskInv ==
  ASSUME IInv, NEW t \in TaskIds, NextTask(t)
  PROVE  IInv'
<1>1. UNCHANGED <<rows, tasks, files, usage, request, doomed>> /\ batch' = batch \ {t} /\ t \in batch
  BY DEF NextTask, database, usage
<1> DEFINE gone == tasks[t] = Gone \/ (tasks[t].action # "refresh_pool"
                                       /\ (tasks[t].target = Gone \/ ~Live(tasks[t].target)))
           row  == IF gone \/ tasks[t].target = None THEN None ELSE rows[tasks[t].target]
           id   == IF row = None THEN None ELSE tasks[t].target
<1>2. /\ job' \in {[task |-> t, id |-> id, row |-> row, state |-> s] : s \in {"finished", "failed"}}
      /\ phase' = "finish" \/ (~gone /\ phase' = Handler(t))
  BY DEF NextTask
<1>3. tasks[t] # None /\ tasks[t] \in TaskRow \cup {Gone}
  BY <1>1 DEF IInv, TasksInv
<1>4. ASSUME ~gone, tasks[t].target # None
      PROVE  /\ tasks[t].target \in Ids /\ Live(tasks[t].target) /\ row \in Row
             /\ id = tasks[t].target /\ row = rows[id]
  <2>1. tasks[t] \in TaskRow /\ tasks[t].action # "refresh_pool"
    BY <1>3, <1>4, NullAssumption DEF IInv, TasksInv
  <2>2. tasks[t].target \in Ids /\ Live(tasks[t].target)
    BY <1>4, <2>1 DEF TaskRow
  <2>3. rows[tasks[t].target] \in Row
    BY <2>2 DEF IInv, RowsInv, Live
  <2> QED BY <1>4, <2>2, <2>3, NullAssumption
<1>5. ASSUME ~gone, tasks[t].target = None PROVE Handler(t) = "scan"
  <2>1. tasks[t].action = "refresh_pool"
    BY <1>3, <1>5, NullAssumption DEF IInv, TasksInv
  <2> QED BY <2>1 DEF Handler
<1>6. ASSUME ~gone, tasks[t].target # None
      PROVE  /\ Handler(t) \in {"create", "delete"}
             /\ Handler(t) = "delete" => id \in doomed /\ tasks[t].action = "delete_volume"
  <2>1. tasks[t] \in TaskRow /\ tasks[t].action # "refresh_pool"
    BY <1>3, <1>6, NullAssumption DEF IInv, TasksInv
  <2>2. tasks[t].action = "create_volume" \/ tasks[t].action = "delete_volume"
    BY <2>1 DEF TaskRow
  <2>3. tasks[t].action = "delete_volume" => id \in doomed
    BY <1>4, <1>6, <2>1, NullAssumption DEF IInv, TasksInv
  <2> QED BY <2>2, <2>3 DEF Handler
<1>7. id \in Ids \cup {None} /\ row \in Row \cup {None}
  BY <1>4
<1> HIDE DEF gone, row, id
<1>8. job' \in Job /\ job'.task = t /\ job'.id = id /\ job'.row = row
  BY <1>2, <1>7 DEF Job
<1>9. JobInv'
  <2>1. CASE phase' = "finish"
    BY <1>1, <1>3, <1>8, <2>1 DEF JobInv, Handling
  <2>2. CASE ~gone /\ phase' = Handler(t) /\ tasks[t].target = None
    BY <1>1, <1>3, <1>5, <1>8, <2>2 DEF JobInv, Handling
  <2>3. CASE ~gone /\ phase' = Handler(t) /\ tasks[t].target # None
    BY <1>1, <1>3, <1>4, <1>6, <1>8, <2>3 DEF JobInv, Handling, Live, TasksKept
  <2> QED BY <1>2, <2>1, <2>2, <2>3
<1>10. phase' \notin {"reload", "save"}
  BY <1>2, <1>5, <1>6
<1> QED BY <1>1, <1>9, <1>10, RowsStay, TasksStay, UsageStays, FilesStay DEF IInv, files

\* What a task came to is stored.
LEMMA FinishInv ==
  ASSUME IInv, Finish
  PROVE  IInv'
<1>1. UNCHANGED <<rows, files, usage, request, batch, doomed>> /\ phase = "finish" /\ phase' = "next"
  BY DEF Finish, usage
<1>2. job \in Job /\ tasks[job.task] # None
  BY <1>1 DEF IInv, JobInv
<1>3. TasksInv'
  <2>1. CASE UNCHANGED tasks
    BY <1>1, <2>1, TasksStay DEF IInv
  <2>2. CASE tasks[job.task] # Gone /\ tasks' = [tasks EXCEPT ![job.task].state = job.state]
    <3>1. job.task \in TaskIds /\ job.state \in {"finished", "failed", "canceled"}
      BY <1>2 DEF Job
    <3> QED BY <1>1, <1>2, <2>2, <3>1, TaskStateInv
  <2> QED BY <2>1, <2>2 DEF Finish
<1>4. JobInv'
  BY <1>1 DEF JobInv, Handling
<1> QED BY <1>1, <1>3, <1>4, RowsStay, UsageStays, FilesStay DEF IInv, files

\* The tasks without a volume go.
LEMMA CleanUpInv ==
  ASSUME IInv, CleanUp
  PROVE  IInv'
<1>1. UNCHANGED <<rows, files, usage, request, batch, doomed>> /\ phase' = "idle" /\ batch = {}
  BY DEF CleanUp, usage
<1>2. TasksInv'
  BY <1>1 DEF CleanUp, IInv, TasksInv
<1>3. JobInv'
  BY <1>1 DEF JobInv, Handling
<1> QED BY <1>1, <1>2, <1>3, RowsStay, UsageStays, FilesStay DEF IInv, files

\* A restart forgets the job.
LEMMA CrashInv ==
  ASSUME IInv, Crash
  PROVE  IInv'
<1>1. UNCHANGED <<rows, tasks, files, usage, request, doomed>> /\ phase' = "idle" /\ batch' = {}
  BY DEF Crash, database, usage
<1>2. JobInv'
  BY <1>1 DEF JobInv, Handling
<1> QED BY <1>1, <1>2, RowsStay, TasksStay, UsageStays, FilesStay DEF IInv, files

-----------------------------------------------------------------------------
(***************************************************************************)
(* taskomatic's handlers.                                                  *)
(***************************************************************************)

\* From place to place of the same handler, or to its end.
LEMMA GotoInv ==
  ASSUME IInv, UNCHANGED <<rows, tasks, doomed>>,
         Handling \/ phase = "scan", NEW p, phase' = p,
         \/ p = "finish"
         \/ p \in {"create", "reload", "save"} /\ Handling
         \/ p \in {"orphan", "row"} /\ phase \in {"delete", "orphan"},
         job' = job \/ (p = "finish" /\ job' = [job EXCEPT !.state = "failed"])
  PROVE  JobInv'
<1>1. job \in Job /\ tasks[job.task] # None
  BY DEF IInv, JobInv, Handling
<1>2. job' \in Job /\ job'.task = job.task
  BY <1>1 DEF Job
<1>3. CASE p = "finish"
  BY <1>1, <1>2, <1>3 DEF JobInv, Handling
<1>4. CASE p # "finish"
  BY <1>1, <1>2, <1>4 DEF IInv, JobInv, Handling, Live
<1> QED BY <1>3, <1>4

\* The file is made if there is none of its name: any volume that has this key has
\* lost its file then.
LEMMA CreateVolInv ==
  ASSUME IInv, CreateVol
  PROVE  IInv'
<1>1. UNCHANGED <<rows, tasks, lost, usage, request, batch, job, doomed>> /\ phase = "create" /\ Handling
  BY DEF CreateVol, Goto, Ends, database, usage, Handling
<1>2. job.id \in Ids /\ job.row \in Row /\ job.row.name \in Names
  BY <1>1 DEF IInv, JobInv, Row
<1>3. phase' \in {"reload", "finish"}
  BY DEF CreateVol, Goto
<1>4. JobInv'
  BY <1>1, <1>3, GotoInv
<1>5. disk' \in {disk, disk \cup {job.row.name}}
  BY DEF CreateVol, Goto
<1>6. phase' = "reload" => job.row.name \notin disk /\ disk' = disk \cup {job.row.name}
  BY DEF CreateVol, Goto
<1>7. FilesInv'
  <2>1. /\ disk' \subseteq Names /\ lost' \subseteq {i \in Ids : rows'[i] # None}
        /\ \A i \in Ids \ lost' : Live(i)' /\ rows'[i].key # None => rows'[i].key \in disk'
    BY <1>1, <1>2, <1>5 DEF IInv, FilesInv, Live
  <2>2. phase' # "save"
    BY <1>3
  <2>3. ASSUME phase' = "reload"
        PROVE  /\ job'.row.name \in disk'
               /\ \A i \in Ids \ (lost' \cup {job'.id}) : Live(i)' => rows'[i].key # job'.row.name
    <3>1. None \notin Names
      BY StorageAssumption
    <3> QED BY <1>1, <1>2, <1>6, <2>3, <3>1 DEF IInv, FilesInv, Live
  <2> QED BY <2>1, <2>2, <2>3 DEF FilesInv
<1> QED BY <1>1, <1>4, <1>7, RowsStay, TasksStay, UsageStays DEF IInv

\* The row is loaded again: it has changed its state at most.
LEMMA ReloadInv ==
  ASSUME IInv, Reload
  PROVE  IInv'
<1>1. UNCHANGED <<rows, tasks, files, usage, request, batch, doomed>> /\ phase = "reload" /\ Handling
  BY DEF Reload, database, usage, Handling
<1>2. job \in Job /\ job.id \in Ids /\ Live(job.id) /\ rows[job.id] \in Row
  BY <1>1 DEF IInv, JobInv, RowsInv, Live
<1>3. phase' = "save" /\ job' = [job EXCEPT !.row = rows[job.id]]
  BY <1>2 DEF Reload
<1>4. /\ job' \in Job /\ job'.row = rows[job.id] /\ job'.id = job.id /\ job'.task = job.task
      /\ job'.row.name = job.row.name
  BY <1>1, <1>2, <1>3 DEF Job, IInv, JobInv
<1>5. JobInv'
  BY <1>1, <1>2, <1>3, <1>4 DEF IInv, JobInv, Handling, Live
<1>6. FilesInv'
  BY <1>1, <1>3, <1>4 DEF IInv, FilesInv, files, Live
<1> QED BY <1>1, <1>5, <1>6, RowsStay, TasksStay, UsageStays DEF IInv, files

\* The volume gets the key of the file that was made for it.
LEMMA SaveVolInv ==
  ASSUME IInv, SaveVol
  PROVE  IInv'
<1>1. /\ UNCHANGED <<tasks, files, usage, request, batch, job, doomed>> /\ phase = "save" /\ Handling
      /\ phase' = "finish"
  BY DEF SaveVol, Goto, usage, Handling
<1>2. JobInv'
  BY <1>1 DEF IInv, JobInv, Handling
<1>3. CASE UNCHANGED rows
  BY <1>1, <1>2, <1>3, RowsStay, TasksStay, UsageStays, FilesStay DEF IInv, files
<1>4. CASE rows[job.id] = job.row /\ rows' = [rows EXCEPT ![job.id].key = job.row.name,
                                                          ![job.id].state = "available"]
  <2> DEFINE u   == job.id
             n   == job.row.name
             new == [job.row EXCEPT !.key = n, !.state = "available"]
  <2>1. u \in Ids /\ Live(u) /\ job.row \in Row /\ rows[u] = job.row
    BY <1>1, <1>4 DEF IInv, JobInv
  <2>2. new \in Row /\ new.name = n /\ new.key = n /\ n \in Names
    BY <2>1 DEF Row
  <2>3. rows' = [rows EXCEPT ![u] = new]
    BY <1>4, <2>1 DEF IInv, RowsInv
  <2>4. new \notin {None, Gone} /\ None \notin Names
    BY <2>2, NullAssumption, StorageAssumption
  <2>5. n \in disk /\ \A i \in Ids \ (lost \cup {u}) : Live(i) => rows[i].key # n
    BY <1>1 DEF IInv, FilesInv
  <2> HIDE DEF u, n, new
  <2>6. \A i \in Ids : rows'[i] = IF i = u THEN new ELSE rows[i]
    BY <2>1, <2>3 DEF IInv, RowsInv
  <2>7. \A i \in Ids : Live(i)' <=> Live(i)
    BY <2>1, <2>4, <2>6 DEF Live
  <2>8. \A i \in Ids : rows'[i] # None <=> rows[i] # None
    BY <2>1, <2>4, <2>6 DEF Live
  <2>9. RowsInv'
    <3>1. rows' \in [Ids -> Row \cup {None, Gone}]
      BY <2>2, <2>3 DEF IInv, RowsInv
    <3> QED BY <2>2, <2>4, <2>6, <2>7, <3>1 DEF IInv, RowsInv
  <2>10. TasksInv'
    BY <1>1, <2>8 DEF IInv, TasksInv
  <2>11. UsageInv'
    BY <1>1, <2>7, <2>8 DEF IInv, UsageInv, usage
  <2>12. FilesInv'
    BY <1>1, <2>2, <2>5, <2>6, <2>7, <2>8 DEF IInv, FilesInv, files
  <2>13. OneRowPerFile'
    BY <1>1, <2>2, <2>5, <2>6, <2>7 DEF IInv, OneRowPerFile, files
  <2> QED BY <1>2, <2>9, <2>10, <2>11, <2>12, <2>13 DEF IInv
<1> QED BY <1>3, <1>4 DEF SaveVol

\* The file goes, and with it those of all volumes that have its key.
LEMMA DeleteVolInv ==
  ASSUME IInv, DeleteVol
  PROVE  IInv'
<1>1. UNCHANGED <<rows, tasks, usage, request, batch, doomed>> /\ phase = "delete" /\ Handling
  BY DEF DeleteVol, Goto, Ends, database, usage, Handling
<1>2. \/ phase' = "orphan" /\ job' = job
      \/ phase' = "finish" /\ job' = [job EXCEPT !.state = "failed"]
  BY DEF DeleteVol, Goto, Ends
<1>3. JobInv'
  BY <1>1, <1>2, GotoInv
<1>4. /\ disk' \subseteq disk
      /\ lost' = lost \cup {i \in Ids : Live(i) /\ rows[i].key \in disk \ disk'}
  BY DEF DeleteVol, Goto, Ends
<1>5. FilesInv'
  BY <1>1, <1>2, <1>4 DEF IInv, FilesInv, Live
<1>6. OneRowPerFile' /\ RowsInv'
  BY <1>1, <1>4 DEF IInv, OneRowPerFile, RowsInv, Live
<1> QED BY <1>1, <1>3, <1>5, <1>6, TasksStay, UsageStays DEF IInv

\* The task is freed from its volume.
LEMMA OrphanInv ==
  ASSUME IInv, Orphan
  PROVE  IInv'
<1>1. /\ UNCHANGED <<rows, files, usage, request, batch, doomed>> /\ phase = "orphan" /\ Handling
      /\ phase' \in {"finish", "row"}
  BY DEF Orphan, Goto, Ends, usage, Handling
<1>2. job \in Job /\ tasks[job.task] # None /\ job.task \in TaskIds
  BY <1>1 DEF IInv, JobInv, Job
<1>3. CASE tasks[job.task] = Gone
  <2>1. phase' = "finish" /\ job' = [job EXCEPT !.state = "failed"] /\ UNCHANGED tasks
    BY <1>3 DEF Orphan, Ends
  <2>2. JobInv'
    BY <1>1, <2>1, GotoInv
  <2> QED BY <1>1, <2>1, <2>2, RowsStay, TasksStay, UsageStays, FilesStay DEF IInv, files
<1>4. CASE tasks[job.task] # Gone
  <2> DEFINE t   == job.task
             new == [tasks[t] EXCEPT !.target = Gone]
  <2>1. phase' = "row" /\ job' = job /\ tasks' = [tasks EXCEPT ![t] = new]
    BY <1>4 DEF Orphan, Goto
  <2>2. tasks[t] \in TaskRow
    BY <1>2, <1>4 DEF IInv, TasksInv
  <2>3. new \in TaskRow /\ new.action = tasks[t].action /\ new.target = Gone
    BY <2>2 DEF TaskRow
  <2> HIDE DEF t, new
  <2>4. new \notin {None, Gone} /\ Gone \notin Ids /\ Gone # None
    BY <2>3, NullAssumption, StorageAssumption
  <2>5. \A u \in TaskIds : tasks'[u] = IF u = t THEN new ELSE tasks[u]
    BY <2>1 DEF IInv, TasksInv
  <2>6. tasks' \in [TaskIds -> TaskRow \cup {None, Gone}]
    BY <2>1, <2>3 DEF IInv, TasksInv
  <2>7. new.action = "delete_volume"
    BY <1>1, <1>4, <2>3 DEF IInv, JobInv, t
  <2>8. TasksInv'
    BY <1>1, <2>3, <2>4, <2>5, <2>6, <2>7 DEF IInv, TasksInv
  <2>9. JobInv'
    <3>1. TasksKept
      BY <1>4, <2>3, <2>4, <2>5 DEF TasksKept, t
    <3> QED BY <1>1, <1>2, <2>1, <3>1 DEF IInv, JobInv, Handling, Live, TasksKept
  <2> QED BY <1>1, <2>1, <2>8, <2>9, RowsStay, UsageStays, FilesStay DEF IInv, files
<1> QED BY <1>3, <1>4

\* The row goes with its tasks and its assignments.
LEMMA DestroyRowInv ==
  ASSUME IInv, DestroyRow
  PROVE  IInv'
<1> DEFINE u == job.id
<1>1. /\ UNCHANGED <<files, doomed, request, batch, job>> /\ phase = "row" /\ phase' = "finish"
      /\ rows' = [rows EXCEPT ![u] = Gone]
      /\ inUse' = inUse \ {u} /\ late' = late \ {u}
  BY DEF DestroyRow, Goto
<1>2. job \in Job /\ tasks[job.task] # None /\ job.task \in TaskIds /\ u \in Ids
  BY <1>1 DEF IInv, JobInv, Job, Handling
<1> HIDE DEF u
<1>3. /\ rows' \in [Ids -> Row \cup {None, Gone}]
      /\ \A i \in Ids : rows'[i] = IF i = u THEN Gone ELSE rows[i]
  BY <1>1, <1>2 DEF IInv, RowsInv
<1>4. \A i \in Ids : Live(i)' <=> Live(i) /\ i # u
  BY <1>3 DEF Live
<1>5. Gone # None
  BY StorageAssumption
<1>6. \A t \in TaskIds : tasks'[t] \in {tasks[t], Gone} /\ (tasks[t] = None => tasks'[t] = None)
  BY DEF DestroyRow
<1>7. RowsInv' /\ OneRowPerFile'
  BY <1>1, <1>3, <1>4 DEF IInv, RowsInv, OneRowPerFile, files
<1>8. TasksInv'
  <2>1. tasks' \in [TaskIds -> TaskRow \cup {None, Gone}]
    BY DEF DestroyRow, IInv, TasksInv
  <2> QED BY <1>1, <1>3, <1>5, <1>6, <2>1 DEF IInv, TasksInv
<1>9. UsageInv'
  BY <1>1, <1>3, <1>4, <1>5 DEF IInv, UsageInv
<1>10. JobInv'
  BY <1>1, <1>2, <1>5, <1>6 DEF JobInv, Handling
<1>11. FilesInv'
  BY <1>1, <1>3, <1>4, <1>5 DEF IInv, FilesInv, files
<1> QED BY <1>7, <1>8, <1>9, <1>10, <1>11 DEF IInv

\* A row that a refresh makes is the only one for its file.
LEMMA ScanInv ==
  ASSUME IInv, Scan
  PROVE  IInv'
<1>1. UNCHANGED <<tasks, files, usage, request, batch, job, doomed>> /\ phase = "scan"
  BY DEF Scan, Goto, daemon, usage
<1>2. CASE UNCHANGED rows /\ Goto("finish")
  <2>1. JobInv'
    BY <1>1, <1>2, GotoInv DEF Goto
  <2> QED BY <1>1, <1>2, <2>1, RowsStay, TasksStay, UsageStays, FilesStay DEF IInv, files, Goto
<1>3. CASE /\ FreshIds # {} /\ UNCHANGED daemon
           /\ \E n \in Missing :
                rows' = [rows EXCEPT ![Least(FreshIds)] = [name |-> n, key |-> n, state |-> "available"]]
  <2>1. PICK n \in Missing :
          rows' = [rows EXCEPT ![Least(FreshIds)] = [name |-> n, key |-> n, state |-> "available"]]
    BY <1>3
  <2> DEFINE row == [name |-> n, key |-> n, state |-> "available"]
  <2>2. n \in disk /\ n \in Names /\ \A i \in Ids : Live(i) => rows[i].key # n
    BY DEF Missing, IInv, FilesInv
  <2>3. row \in Row /\ row.key = row.name /\ row.key = n
    BY <2>2 DEF Row
  <2>4. rows' = [rows EXCEPT ![Least(FreshIds)] = row]
    BY <2>1
  <2> HIDE DEF row
  <2>5. TasksKept
    BY <1>1 DEF TasksKept
  <2>6. RowsInv' /\ UsageInv' /\ JobInv' /\ FilesInv' /\ OneRowPerFile'
    BY <1>1, <1>3, <2>2, <2>3, <2>4, <2>5, NewRow DEF daemon
  <2>7. TasksInv'
    <3>1. Least(FreshIds) \in Ids /\ row # None
      BY <1>3, <2>3, FreshMembers, NullAssumption
    <3>2. \A i \in Ids : rows[i] # None => rows'[i] # None
      BY <2>4, <3>1 DEF IInv, RowsInv
    <3> QED BY <1>1, <3>2 DEF IInv, TasksInv
  <2> QED BY <2>6, <2>7 DEF IInv
<1> QED BY <1>2, <1>3 DEF Scan

-----------------------------------------------------------------------------
(***************************************************************************)
(* The theorems.                                                           *)
(***************************************************************************)

\* The invariant holds initially ...
LEMMA InitInv == Init => IInv
<1> SUFFICES ASSUME Init PROVE IInv
  OBVIOUS
<1>1. RowsInv /\ OneRowPerFile /\ \A i \in Ids : ~Live(i)
  BY DEF Init, RowsInv, OneRowPerFile, Live
<1>2. TasksInv /\ UsageInv /\ JobInv
  BY DEF Init, TasksInv, UsageInv, JobInv, Handling
<1>3. FilesInv
  BY <1>1 DEF Init, FilesInv
<1> QED BY <1>1, <1>2, <1>3 DEF IInv

\* ... is preserved by every step ...
LEMMA NextInv == IInv /\ [Next]_vars => IInv'
<1> SUFFICES ASSUME IInv, [Next]_vars PROVE IInv'
  OBVIOUS
<1>1. CASE Wui
  BY <1>1, SvcCreateInv, SvcDestroyCheckInv, AssignReleaseInv, SvcDestroyInv, SvcRefreshInv,
     SvcCancelInv DEF Wui
<1>2. CASE Taskomatic
  BY <1>2, PollInv, NextTaskInv, CreateVolInv, ReloadInv, SaveVolInv, DeleteVolInv, OrphanInv,
     DestroyRowInv, ScanInv, FinishInv, CleanUpInv DEF Taskomatic
<1>3. CASE Crash
  BY <1>3, CrashInv
<1>4. CASE UNCHANGED vars
  <2>1. /\ UNCHANGED <<rows, tasks, files, usage, request, phase, batch, job, doomed>>
        /\ UNCHANGED <<rows, files>>
    BY <1>4 DEF vars, database, daemon, usage
  <2>2. TasksKept
    BY <2>1 DEF TasksKept
  <2> QED BY <2>1, <2>2, RowsStay, TasksStay, UsageStays, FilesStay, JobStays DEF IInv, files
<1> QED BY <1>1, <1>2, <1>3, <1>4 DEF Next

\* ... and so always holds.
LEMMA Invariance == Spec => []IInv
BY InitInv, NextInv, PTL DEF Spec

\* Type correctness: the handlers of taskomatic work on rows, and nothing but rows
\* and tasks is stored, through errors, lost answers and restarts.
THEOREM TypeCorrect == Spec => []TypeOK
<1>1. IInv => TypeOK
  BY DEF IInv, RowsInv, TasksInv, UsageInv, JobInv, FilesInv, TypeOK, Live, Handling
<1> QED BY <1>1, Invariance, PTL

\* Of two volumes with the same file one has lost its own, for any number of
\* volumes, tasks and faults: taskomatic makes no second row for a file that
\* is there.
THEOREM FilesHaveOneRow == Spec => []OneRowPerFile
<1>1. IInv => OneRowPerFile
  BY DEF IInv
<1> QED BY <1>1, Invariance, PTL

\* A volume is available only once its file is there, and it stays so until a
\* deletion removes the file.
THEOREM AvailableIsThere == Spec => []AvailableHasFile
<1>1. IInv => AvailableHasFile
  BY DEF IInv, RowsInv, FilesInv, AvailableHasFile
<1> QED BY <1>1, Invariance, PTL

\* taskomatic removes the file of a volume in use only if the VM got the volume
\* after svc_destroy had passed its checks, or for another row of the same file.
THEOREM UsedIsKept == Spec => InUseKept
<1> DEFINE Kept == \A i \in inUse :
       rows[i].key \in disk \ disk' =>
         i \in late \/ \E j \in doomed \ {i} : Live(j) /\ rows[j].key = rows[i].key
<1>1. ASSUME IInv, [Next]_vars PROVE Kept
  <2> SUFFICES ASSUME NEW i \in inUse, rows[i].key \in disk \ disk'
               PROVE  i \in late \/ \E j \in doomed \ {i} : Live(j) /\ rows[j].key = rows[i].key
    OBVIOUS
  <2>1. DeleteVol
    <3>1. CASE Wui \/ Crash \/ UNCHANGED vars
      BY <3>1 DEF Wui, SvcCreate, SvcDestroyCheck, SvcDestroy, SvcRefresh, SvcCancel, Assign,
         Release, Crash, vars, files
    <3>2. CASE Poll \/ (\E t \in TaskIds : NextTask(t)) \/ Finish \/ CleanUp
      BY <3>2 DEF Poll, NextTask, Finish, CleanUp, files
    <3>3. CASE CreateVol \/ Reload \/ SaveVol \/ Orphan \/ DestroyRow \/ Scan
      BY <3>3 DEF CreateVol, Reload, SaveVol, Orphan, DestroyRow, Scan, files
    <3> QED BY <1>1, <3>1, <3>2, <3>3 DEF Next, Taskomatic
  <2>2. rows[i].key = job.row.key /\ phase = "delete" /\ Handling
    BY <2>1 DEF DeleteVol, Handling
  <2>3. job.id \in doomed /\ Live(job.id) /\ rows[job.id].key = rows[i].key
    BY <1>1, <2>2 DEF IInv, JobInv
  <2>4. job.id = i => i \in late
    BY <1>1, <2>3 DEF IInv, UsageInv
  <2> QED BY <2>3, <2>4
<1>2. IInv /\ [Next]_vars => [Kept]_vars
  BY <1>1
<1> QED BY <1>2, Invariance, PTL DEF Spec, InUseKept
=============================================================================
