# A TLA+ verification project for ovirt-server

ovirt-server manages virtual machines on a set of nodes. A Rails application
(the *WUI*) and two daemons, *taskomatic* and *db-omatic*, work on one database;
the daemons talk to libvirt on the nodes over a QMF message bus. The project
models how these processes interleave on the same rows and the same libvirt
domains, and the parts of the web pages that work asynchronously on their own:
the serial console, the grids and the navigation tree. It checks the models with
TLC and proves part of the results with TLAPS.

All paths below are relative to the repository; the code is in `src/src/`, but the
console page, which is `src/anyterm/anyterm.js`.

## 1. The system

| Component | Code | State it keeps | Operations |
|---|---|---|---|
| VM and task records | `app/models/vm.rb`, `vm_task.rb`, `task.rb` | tables `vms`, `tasks` (with `lock_version`) | `get_pending_state`, `get_action_list`, `queue_action`, `is_destroyable?`, `destroy`, `cancel` |
| WUI services | `app/services/*.rb` | none between requests; the objects a request has loaded | `svc_create`, `svc_update`, `svc_destroy`, `svc_vm_action`, `svc_cancel_queued_tasks`, `svc_cancel` |
| taskomatic | `task-omatic/taskomatic.rb`, `task_vm.rb`, `task_storage.rb` | the batch of tasks it has loaded, the handler's objects | one handler per task action |
| db-omatic | `db-omatic/db_omatic.rb`, `vnc.rb` | `@cached_objects`, `@heartbeats` | `object_update`, heartbeats, `agent_connected`/`disconnected`, `db_init_cleanup` |
| libvirt, QMF (external) | used by the daemons | domains, their definitions, publications | define, create, shutdown, destroy, suspend, resume, save, restore, migrate, undefine |
| quotas | `app/models/quota.rb`, `vm_resource_pool.rb` | limits, sums over pools | `available_resources_for_vm` |
| pools, permissions | `app/models/pool.rb`, `permission.rb` | nested-set tree, inherited grants | create, move, destroy, grant, revoke |
| storage | `app/models/storage_*.rb`, `task_storage.rb`, `storage_*_service.rb` | pools, volumes and their states | refresh, create and delete volume |
| hosts, networks | `app/models/host.rb`, `nic.rb`, ... | host state, enabled flag | enable, disable, clear VMs |
| host-browser, host-register | `host-browser/*.rb` | a session per node | the identification dialogue |
| console page | `anyterm/anyterm.js` | typed keys, the request under way, the text shown | key events, `send`, `rcv`, `create_term`, `close_term` |
| grids | `public/javascripts/flexigrid.js`, `json_hash` | columns, page, order, rows, `loading` | `populate`, `addData`, `changePage`, `changeSort`, `toggleCol`, `switchCol` |
| navigation tree | `public/javascripts/ovirt.tree.js`, `tree_controller.rb` | the nodes shown; the server keeps nothing | `processTree`, `return_filtered_list`, `processChildren` |
| other front ends | controllers, views, `ovirt-agent`, `vnc-proxy`, `host-collect` | none that others decide by | |

How they interact. A user's action becomes a row of `tasks`; taskomatic polls
the table, executes the tasks over QMF, and writes the outcome into `vms` and
`tasks`. libvirt-qpid publishes every change of a domain; db-omatic translates
it and writes it into `vms` as well. So three kinds of processes write the same
`vms` row, each from an object loaded earlier, and nothing but ActiveRecord's
optimistic locking orders them. A save that lost the race raises
`StaleObjectError`, which each of the callers handles in its own way (fail the
task, drop the update, show an error).

The pages ask the server again and again (`XMLHttpRequest`): each keeps state of
its own between a request and its answer, while the user goes on working with
it. Nothing but a flag of the page (`send_in_progress`, `loading`), or nothing at
all (the tree), keeps two requests from overlapping.

The hard behaviours are therefore: objects read before a QMF call and saved
after it; decisions (`get_action_list`, `is_destroyable?`) that are outdated
when they are acted upon; tasks canceled while they are executed; publications
that arrive late or never; daemons that die between an effect and its record;
handlers that raise half-way; answers that arrive late, in another order or not
at all, at a page that has changed meanwhile. `PROJECT.json` lists each at its line under
`hazards`, with the properties that would show it going wrong.

What makes the components correct:
* records: a save or a delete by an object that is not current has no effect;
* services: a VM is deleted only in a destroyable state, without tasks, without
  a running domain; a completed task is final;
* taskomatic: a VM never runs on two nodes; every queued task is completed;
* db-omatic: when things calm down, the row says what the domain does;
* storage: two volumes are two files, the file of a volume in use stays, a
  volume that is not there does not look available;
* console: keys arrive in order, once, and in the end; the screen is the server's;
* grids: cells stay under their headers, and the rows, the pager and the order
  belong together and become current;
* tree: the differences add up to the tree the user may see.

## 2. The modules

```
VmStates      tables of vm.rb and vm_task.rb, pure operators
  Records     vms and tasks, loaded objects, optimistic locking
    Libvirt   (external) domains, definitions, publications
      Wui         requests of users
      Taskomatic  the task daemon
      DbOmatic    the monitoring daemon
        VmSystem      their composition: Init, Next, fairness, properties
          MCVmSystem      symmetry, for TLC
          VmSystem_proofs types, locking and deletion, for TLAPS
            VmDomains_proofs  which domains exist, and when the rows agree with them
HostMonitor   hosts, agents and heartbeats of db-omatic
  MCHostMonitor
  HostMonitor_proofs  types and the two handlers outside of each other's lock
    HostRows_proofs   what the rows say of hosts and VMs
Storage       volumes of a pool, their tasks and files
  Storage_proofs
KeyChannel    what the console promises for the keys
Console       the console page, implements KeyChannel
  Console_proofs
Grid          a grid and its server
  Grid_proofs
NavTree       the tree of pools and its server
  NavTree_proofs
```

### VmStates
The state names, `VmTask::ACTIONS` as `Transition`, `EFFECTIVE_STATE`, and what
is computed from them: `GetPendingState` follows the queued actions from the
current state, `GetActionList` the actions offered, `IsDestroyable`.

### Records
`vms[v]` is the row (its `state` and `host_id`), `None` before it is created and
`Deleted` after; `tasks[t]` likewise. `copy[p]` is the Vm object process `p` has
in memory. ActiveRecord compares `lock_version`s; only whether an object's
version is the row's matters, so the model keeps the set `fresh` of processes
whose object is current. `Load` is find or reload, `Write` an UPDATE (all other
objects of the row stop being fresh), `Savable` says that `save!` does not raise.
Partial updates are modelled: an object without a changed attribute is saved
without an UPDATE, stale or not. Columns that no one decides by (VNC port,
memory, description) are represented by a free choice `touched`: the save may
write the row, and so bump the version, without changing `state` or `host`.
A task is written only to leave `queued`, so a loaded task is stale exactly when
its row is not queued.

### Libvirt (external)
`dom[v][n]` is `none`, `shutoff`, `running` or `paused`; `defined` the persistent
definitions; `pub[v][n]` the state last published. A lookup by uuid returns any
one object on any node. Undefine works on inactive domains only. A domain that
came by live migration has no persistent definition and vanishes with its guest.

### Wui
`web[r]` is where request `r` is. Find, check and insert of `svc_vm_action` are
separate steps; `svc_update`, `svc_destroy` and the cancellations are a find and
a committing transaction. Whether the quota leaves resources is a free choice.
A request that raises just ends.

### Taskomatic
`tk.pc` is the place in the code; each step is one database access or one QMF
call. `Poll` loads the batch, `BeginTask` takes any task of it (there is no ORDER
BY), even one that was canceled since. Handlers raise wherever the code can:
no host, no storage, a failing QMF call, a stale save, a row that is gone.
`FinishTask` is `task.save!`. `TaskomaticRestart` is a death at any point.

### DbOmatic
`cache[v]` is the entry of `@cached_objects`, `dbo` the `update_domain_state` in
progress (the handlers run under one monitor). `ObjectUpdate`, `ObjectGone` and
`Resync` begin one; `UpdateVnc` (the save in `VmVnc.forward`/`close`), `UpdateAct`
(lookup, undefine, host) and `UpdateSave` follow.

### HostMonitor
The other half of db-omatic: which hosts are up. Nodes have agents (`boot[n]`
counts them) that fall silent and come back, the same one or a new one with new
object ids; `told` is what has been published. `cache` is `@cached_objects`,
keyed by agent and object, `beats` and `old` are `@heartbeats`. The three threads
of the daemon are separate: the QMF callbacks (`UpdateProps`, `AgentHeartbeat`,
and `AgentDeleted` with `DropObject`, `DropDone`, outside of the monitor), the
main thread (`CheckHeartbeats`, `CheckAgent`, `CheckObject`, `Checked`, in the
monitor) and the threads that sleep 20 seconds (`CheckDeadVms`). The update of one
object is one step; a save that loses against another process is a choice,
`MaxLost` times. `Restart` is a new process after `db_init_cleanup`. Time is not
counted: a heartbeat may grow old (`Lapse`) only while its agent is silent, and the
sleeping threads may wake at any time.

### Storage
The volumes of one NFS pool. `rows` is `storage_volumes` (name, key, state), `disk`
the files, `inUse` the assignments to VMs. `svc_destroy` is a check and a
transaction; taskomatic is `phase`, one step per database access or call of a
node as in `Taskomatic`, and may die between any two (`Crash`). Errors are raised
where the code raises them and swallowed where it swallows them (`CreateVol`:
the task ends `finished`); a node's answer may be lost after the effect. `doomed`,
`late` and `lost` are history: the volumes somebody asked to delete, the assignments
that came after a deletion's check, and the volumes whose file was deleted, whether
or not a file of the same name was made since. The model has no LVM pools, and a refresh
adds its volumes one at a time.

### Console and KeyChannel
A key is its number in the order of typing; `kb_buf` and the batches are
sequences of them. `Press` goes through `keydown` and `keypress`, which decide for
each kind of key whether it is sent, passed on or kept by the page. A request is
a record in `sends` or `rcvs`; the server handles it before, after or without the
answer getting through, and the answer has a kind: fine, an `E` message, empty,
or a status other than 200, on which `handle_resp_error(null)` raises and the
rest of the handler is not executed. `ProcessEditscript` interprets the commands
`d`, `k` and `i`; `Scripts` are the external server's ways to describe a change.
`KeyChannel` is the abstract view: one queue of waiting keys, from whose front
batches are delivered or lost. The refinement maps the queue to the keys of the
request the server has not handled followed by `kb_buf`.

### Grid
`header`, `boxes` and the `cells` of the rows are the three copies of the order
and visibility of the columns; `page`, `pages`, `newp`, `rp` and `sort` are the
fields of `p`. A request carries what it was sent with, and `AddData` combines the
answer with what `p` holds by then, as the code does. `json_hash` answers with a
page (`PageOf`) of the rows there are in their order (`InOrder`); other users change
them (`ChangeRow`). `shown` and
`sameRp` are history for the properties. Dragging is one step, since nothing else
of the user's can happen before the button is released.

### NavTree
The database has pools with parents and direct grants; what is inherited is
computed. A node of the page is its pool, the number of its copy (two overlapping
answers may both append a pool), the label, the hidden input and the path to it.
Selectors by id find the first copy, the submitted form's last input wins on the
server. `ProcessChildren` appends the new pools level by level (`AppendLevel`), parents
before children as the nested answer has them. A pool is shown at most once for each
poll under way, so copies are numbered up to `MaxRequests`. Up to `MaxRequests` polls are under way in any order and may fail.

### Simplifications
* A VM has one domain object per node, and the properties of an object precede
  its statistics, so `update_stats` never creates the entry.
* qemu reports no `blocked`, `crashed`, `shutdown` or `nostate`.
* Which VMs have `forward_vnc` set (`ForwardVnc`) does not change in a run.
* Ids and uuids are never reused.
* Guests stop only from `running`.
* In `VmSystem` the hosts stay up, and in `HostMonitor` taskomatic is one action
  (`PutVm`: a start or a migration that succeeds). `db_init_cleanup` ends before
  the first callback, and none of its saves fails.

## 3. The runs

The runs of the VM life cycle instantiate `MCVmSystem` with one VM. Rows of different VMs share
nothing but the batch of taskomatic and the one update db-omatic has in
progress, and both are serial; a second VM adds interleavings that commute. Two
nodes are what migration, a restart elsewhere and late publications need; two
requests what check-then-act between users needs. Bounds: `MaxTasks` (the ids of
the tasks table), `MaxRestarts`, and the sets `Offered` and `Services` that
choose which requests users make. Symmetry is used over nodes and requests in
the safety runs only. Deadlock is checked: taskomatic polls forever.

The runs of `MCHostMonitor` have one VM, two nodes where migration matters and one
where repeated outages do; `MaxBoots`, `MaxOutages`, `MaxLost` and `MaxRestarts`
bound the agents per node, the outages, the lost saves and the restarts. Deadlock
is not checked where `agent_deleted` occurs (`QmfDeletes`), since it can end the
daemon.

Two larger instances than `pause` were checked as well: `SettledRowsAgree` with 4
tasks and no restart (13 million states), and `ActiveIsRecorded` and
`NotDeletedWhileRunning` with saving, `create_vm`, VNC forwarding, guests that stop
and a restart (966 000 states, 2 tasks). Both hold.

The other runs check the components' own modules. `storage` has one file name
(files of different names share nothing but the batch), three rows, three tasks
and one fault: a second row for a file, a repeated deletion and a refresh between
them all fit. `console` has three keys, pastes of two, screens of two positions
and one failure: a batch under way, one waiting and one more key. `grid` has three
columns, so that a move can pass over one, three rows on pages of one or two,
and one change by others. `tree` has two pools, nested or not, two requests and
three changes. Deadlock is not checked in `storage` and `console`, whose users may
have nothing left to do.

| Run | Instance | Shows |
|---|---|---|
| `pause` | suspend, resume, poweroff, shutdown, cancel, destroy; 3 tasks, 1 restart | `SettledRowsAgree`, as long as taskomatic has not died; `ActiveIsRecorded` and `NotDeletedWhileRunning` also when it has |
| `migration` | migrate, start; 2 tasks | `NoSplitBrain` although failed migrations are only logged |
| `deletion` | create, start, cancel, destroy; two users; guests stop | `CompletedTasksStay`, `DeletedOnlyIfDestroyable` |
| `progress` | create, save, restore, cancel, destroy; 1 restart; fairness | `QueueDrains`, `CompletedTasksStay` |
| `concurrent` | start, poweroff, update; two users, 2 nodes; VNC forwarded | `TypeOK`, `FreshMeansCurrent`, `NoLostUpdate`, and `NoSplitBrain` although both users pass the check |
| `hosts` | 2 nodes, 2 agents each, 1 outage, `agent_deleted`; starts and migrations | `TypeOK`, `ReportingIsReachable`, `QuietRowsAgree` |
| `heartbeat` | 1 node, 2 outages, 1 lost save, 1 restart; fairness | `DownIsNoticed`, `ReportingIsReachable` |
| `console` | 3 keys, 2 changes of the screen, 1 failure; fairness | `KeysInOrder` (the refinement of `KeyChannel`), `NothingForgotten`, `KeysArrive`, `ScreenAgrees`, `ScreenArrives` |
| `grid` | 3 columns, 3 rows, 1 change; fairness | `CellsUnderHeaders`, `PagerDescribesBody`, `NeverOlder`, `LoadingEnds`, `UpToDate` |
| `tree` | 2 pools, 2 overlapping polls, 3 changes; fairness | `TreeMatches`, `CurrentIsShown`, `GoneVanishes`, `NewAppears` |
| `storage` | 3 volumes of one name, 3 tasks, 1 fault; fairness | `OneRowPerFile`, `AvailableHasFile`, `InUseKept`, `TasksEnd`, `Discovered` |

One run ends in a violation, of something a comment of the code says
(`findings` quotes it):

| Run | The code | What happens |
|---|---|---|
| `delete_running` | `vm.rb:391`, `NotDeletedWhileRunning` | a start canceled while it is executed is executed to the end; with the queue empty and the row still stopped the VM is deleted under a running domain |

It takes a start: without one the same property holds (`pause`, and
`RunningIsNotDeleted` below). Other instances lead to the same violation in three more ways: taskomatic dies
after `create` and the repeated start finds the domain running and ends without
updating the row; `start_vm` fails after `create`, because the row was saved by
somebody else in between; a late shutoff of an earlier domain is recorded over
the running state.

### Where the properties stop
These limits were found while choosing the instances and are part of what the
project says about the code.
* `NoSplitBrain` holds as long as no inactive domain is left on a node that
  taskomatic is not dealing with. Three things leave one. taskomatic dies between
  `domainDefineXML` and `create`: the definition stays on the first node, and the
  repeated start may take another one. The guest powers itself off, or the VM is
  saved: its domain stays defined where it was until db-omatic or a later task
  undefines it. In each case a start creates the domain on another node, and a
  further start whose lookup returns the inactive object starts that one too (two
  nodes, two users and three or four tasks are enough). The runs that check
  `NoSplitBrain` and the theorem about it have none of the three.
* `SettledRowsAgree` holds for suspend, resume, poweroff and shutdown. It fails with
  start: the shutoff of the old domain may be published after the VM was started
  on another node, and db-omatic writes stopped for good (the comment at
  `taskomatic.rb:430` expects it to write the same as taskomatic). It fails with
  save and restore (a saved VM's domain is reported
  shut off and recorded as stopped), and with VNC forwarding plus poweroff: the
  save in `VmVnc.close` makes taskomatic's object stale, its task fails, and if
  the last publication is lost the row stays running.
  It says nothing once taskomatic has died. If it dies after the undefine of a
  poweroff, before its save, the row says running for good, as the repeated task finds
  no domain and writes nothing. If a VM is suspended and resumed between two
  publications and it dies after the resume, before its save, the row stays suspended:
  db-omatic sees no change. What the row of an active domain still says then is
  `ActiveIsRecorded`: that it is active, and where.
* `QuietRowsAgree` supposes that db-omatic has seen each VM on the host its row
  names: if the node is lost between a start and the first publication of the
  domain, no object is cached and the row stays running. It says nothing of
  unreachable VMs either: a node that reboots so fast that the sleeping thread
  looks before the old agent's heartbeat lapses leaves them unreachable.
* A VM with a queue such as start, poweroff can be deleted, tasks included: the
  queue leads back to stopped, and `is_destroyable?` (`vm.rb:399`) compares the
  pending state with the current one.
* Updates of db-omatic that lose the optimistic lock are announced as retried
  (`db_omatic.rb:229` and `257`), but both retries are commented out. A domain
  that never changes again keeps its outdated row, and a dead host whose update
  is lost stays available, since `timed_out` is set all the same. Hence `lost = 0`
  in `Quiet`, and the exemption of lost saves in `DownIsNoticed`.
* `agent_deleted` calls `agent_disconnected` without entering the monitor
  (`db_omatic.rb:415`; the comment at lines 33-34 says what the monitor is for).
  Between two steps of `check_heartbeats` it lets a dead host be marked available
  again and its heartbeat be forgotten, or ends the loop with an exception; so
  `heartbeat` has no `agent_deleted`. What holds all the same, `hosts` checks.
* A task that is inserted after its VM was deleted cannot be loaded:
  `VmTask#after_initialize` raises, every poll raises with it, and nothing is
  executed for anybody any more; the clean-up of orphaned tasks
  (`taskomatic.rb:955`) does not reach it. `QueueDrains` exempts such a queue, and
  `TasksEnd` the same for volumes, where the two steps of `svc_destroy` lead to it.
* The "double check" of the sleeping thread (`db_omatic.rb:279`) tests the result
  of `@qmfc.objects` for nil; it is an Array (`taskomatic.rb:262` takes its
  length), so VMs on a host that is gone again are set to stopped although they
  may run.
* `db_init_cleanup` (`db_omatic.rb:488`) asks the Array of all VMs for its uuid;
  the exception is taken for a VM that is not found, so every VM is stopped in the
  database until its domain is published again.
* A row can be `stopped` and keep its `host_id`: db-omatic clears it only when
  its own undefine succeeds.

* Storage. The state of a volume is not looked at when it is assigned to a VM
  (`vm.rb:228`), so a VM that gets a volume whose deletion is queued loses it:
  `late` in `InUseKept`. A deletion the node refuses is not noticed
  (`taskomatic.rb:831`): the row goes, the file stays and a refresh brings it back
  as another volume. A deletion whose answer is lost leaves a row without a file;
  if a new volume takes the name, deleting the old row again deletes the new file.
  `create_volume` reloads the row and saves it as available, also over a deletion
  requested meanwhile, and dies or fails without the task showing it.
* Console. A poll that fails ends the receive loop, although the terminal stays
  open and keys are still sent. After a refused send the buffer waits for the next
  key. A close request that fails leaves the keyboard handlers in place.
* Grids. `$.ajax` has no error handler (`flexigrid.js:602`): after a failure `loading`
  stays set and the grid ignores everything until the page is loaded again. A
  reload asked for while one is under way is dropped (`flexigrid.js:567`), so the grid
  may show rows older than the dialog that asked. Changing the rows per page under
  way (`flexigrid.js:1170`) leaves a pager that counts with a page size the rows were
  not fetched with. After deletions a page beyond the last can be shown, empty.
* Tree. With overlapping polls a pool may be shown twice and a stale copy keep an
  old name, until it is deleted or the page is loaded again. A pool that becomes
  visible without its parent has no place to be appended to and is missing until
  then; `NewAppears` and `Matches` say so.

### Fairness
`progress` uses `VmSystem`'s `FairSpec`: weak fairness of
taskomatic's loop (it sleeps 5 seconds and rescues everything), of db-omatic's
callbacks and timer, and of each request that was let in. Nothing is assumed of
users and guests. `heartbeat` uses `HostMonitor`'s:
weak fairness of the threads and of time (`Lapse`), and strong fairness of the
heartbeats of connected agents, which have to wait for the monitor but are sent
again and again. Nothing is assumed of the nodes, of the QMF library's own
`agent_deleted` or of restarts.

`storage` supposes that taskomatic runs. `console`, `grid` and `tree` suppose that a
request is answered or fails in the end and that the browser calls the handler;
`tree` also that the timer of the page goes on (`_tree.rhtml:16`) and that not every
request fails (strong fairness of `Serve`). Nothing is assumed of users, other
users or failures, so every liveness property there names the failures that
excuse it.

## 4. The proofs

`VmSystem_proofs` proves, for all values of the constants (any number of VMs,
nodes, requests, tasks and restarts, any offered actions):

| Theorem | Statement |
|---|---|
| `TypeCorrect` | `Spec => []TypeOK` |
| `LockingWorks` | `Spec => []FreshMeansCurrent` |
| `NothingLost` | `Spec => NoLostUpdate` |
| `DeletionIsSafe` | `Spec => DeletedOnlyIfDestroyable` |
| `CompletedIsFinal` | `Spec => CompletedTasksStay` |

They rest on one inductive invariant `IInv`. `TypeOK` alone is not inductive:
that the row written by a handler has the right type depends on the object it
was computed from and on the place in the code (a `tk.dst` that is still `None`
must not be saved as the host of a started VM; `copy[P]` must be an object where
it is saved). So `IInv` adds to the types
* `VmsInv`: rows are rows, and fresh objects show them (`FreshMeansCurrent`);
* `TasksInv`: ids from `nextTask` on are unused, so an insert overwrites nothing;
* `WebHolds`: a request past its find holds an object of the VM;
* `TaskomaticHolds`: what the daemon's locals are at each location;
* `DbomaticHolds`: what the update in progress has loaded and is to save.

There is one lemma per action and part of `IInv` the action disturbs, one per
component step, and `PTL` combines them. The action properties follow from
`IInv` and a second case split: only `Write`, `UpdateSave` and `DestroyCommit`
change rows, and each needs a fresh object.

Assumptions: those named in `Records`, `Wui`, `DbOmatic` and `VmSystem` (bounds
are naturals, the daemons are not requests, NULL and the mark of a deleted row are
not nodes, NULL is not a row or a cache entry, the offered actions are actions). TLC evaluates them in every run.

`VmDomains_proofs` proves `NeverOnTwoNodes`: `Spec => [](restarts = 0 => NoSplitBrain)`
if guests do not power off by themselves and `save_vm` is not offered. These are
the hypotheses without which TLC finds a VM on two nodes ("Where the properties
stop"); both runs that check `NoSplitBrain` satisfy them. That no two domains of a VM
are active is not inductive, since `create` makes active what is defined. The
invariant `DomainsInv` says where a domain may be inactive, and what taskomatic
knows while it works on one:
* `InactiveIsHandled`: an inactive domain is one that taskomatic has just defined or
  made inactive, and its next step starts or removes it;
* `OneIsInactive`: of two domains of a VM one is inactive;
* `StartsAlone`: from the lookup to `create` no other domain of the VM appears, for
  domains are made by taskomatic alone and it executes one task at a time;
* `MigratesFrom`: a migration starts from the node of the one active domain.

The rows play no part in it: whatever `get_action_list` let in, what protects the VM
is the lookup at the beginning of the handler and that taskomatic is sequential.

`RowsSettle`, in the same module, is about the rows:
`Spec => []SettledRowsAgree` (which is about the time before taskomatic dies) if VMs are only suspended, resumed,
powered off, shut down and deleted, none is created or updated, no console is
forwarded and guests do not power off by themselves. `pause` satisfies these
hypotheses, and "Where the properties stop" says how a start, a saved VM or
forwarding breaks the property. The invariant `RowsInv` says for each VM that
* its domain stays on one node, its home, where db-omatic knows it as last published
  (`AtHome`), and the row of an active domain names that node (`RowFits`);
* db-omatic, if its `save!` will go through, saves an outdated state of an active
  domain only if the row has that state anyway, so that nothing is written, and
  stopped only once the domain is gone (`DbomaticPart`);
* taskomatic's object is current when it changes the domain, and what it is about
  to save is what the domain has become (`TaskomaticPart`);
* the row agrees with the domain, or db-omatic is about to write that the domain is
  gone (`UpToDate`), or taskomatic is about to write (`MayBeBehind`).

The last part carries the argument: each daemon writes from its own view, and
whichever comes second loses the optimistic lock. That the loser is never the one
who knows better needs the other parts: db-omatic's write bumps the lock version
only if it changes the row, and it changes it only to what the domain has become by
then; an older state of an active domain the row has already.
`RunningIsRecorded` (`Spec => []ActiveIsRecorded`) and `RunningIsNotDeleted`
(`Spec => NotDeletedWhileRunning`) hold for any number of restarts, with forwarded
consoles and guests that power off by themselves, if VMs are suspended, resumed,
stopped, saved, created by `create_vm` and deleted: while a domain is active its row
exists, is running or suspended and names the node. `svc_destroy` asks the row and never
the node, so this is what keeps it from deleting a VM that runs. A start, a
restore or a migration is excluded, since it makes a domain active before the row is
saved, which is how `delete_running` fails. Their
invariant `RunsInv` says of each active domain that
* its row is as stated, no other domain of the VM is known, and db-omatic does not hold
  it for shut off (`Recorded`);
* what taskomatic or db-omatic is about to save keeps the row so (`KeepsRecord`):
  taskomatic is not at the undefine of a domain found off, and saves only
  after a suspend or resume.

Without a start no domain becomes active, so only the steps that write the row or read
it for a later write can disturb it.

That `Only(A)` is an invariant (no task is queued or executed but of the actions A)
is proved once for all these theorems.

`HostMonitor_proofs` proves `MonitorTypeCorrect` (`Spec => []TypeOK`) and
`HandledObjectsAreCached`, for any number of nodes, agents, VMs and outages. Its
`IInv` adds to the types that cached objects have a state of their kind
(`EntriesFit`, or the translation would be undefined) and that whatever
`check_heartbeats` and `agent_deleted` have still to handle is cached (`PassHolds`,
`DropHolds`): entries are removed by publications only, which one of them keeps out
by the monitor and the other by running in the same thread.

`HostRows_proofs` builds on it: `ReportingStaysReachable` (`Spec => ReportingIsReachable`)
and `QuietRowsTrue` (`Spec => []QuietRowsAgree`), for any number of nodes, agents, VMs,
outages, lost saves and restarts. Both are about what db-omatic may conclude from
its cache. `KnownInv` relates the cache to the world:
* `Unique`: no two agents have an object of the same domain, or of the same host, in
  the cache, since `WithNewObject` throws the older one out;
* `Remembered`, `UpToNow`: what a present agent published is cached, and an entry has
  the state published last; `NotYet`: agents to come have published nothing;
* `Whereabouts`, `Halts`, `There`: what was published since the domain was last put on a
  node says where it is; published as shut off, it does not run; published as running
  by a node's present agent, it exists.

The first theorem follows from `Unique` by a case split on who handles which entry. The
second needs `RowsFollow`: as long as no save lost the optimistic lock, the row of a
VM or host is what its entry translates to. `Quiet` makes these entries current.

`Storage_proofs` proves the type invariant (`TypeCorrect`) and the safety properties of
`Storage`: `FilesHaveOneRow`, `AvailableIsThere` and `UsedIsKept`, for any number of
names, rows, tasks and faults. `IInv` adds to the types
* `RowsInv`, `TasksInv`: a key is the row's name, an available row has one, and a
  queued deletion is of a volume somebody asked to delete;
* `UsageInv`: a volume in use is known to be `late`, or nobody had looked yet whether it
  may be deleted;
* `JobInv`: the row the handler works on at each step, and that one that deletes was
  asked to;
* `FilesInv`: the key of a row whose file was never deleted is on the disk, and the
  file taskomatic has just made is no other such row's.

The work on them changed a property. `OneRowPerFile` and `AvailableHasFile` used to
exempt volumes that somebody had asked to delete (`doomed`), which is too few for five
tasks: a deletion whose answer is lost, repeated after another volume has taken the
name, deletes the file of a volume nobody asked to delete, and a third volume makes
it again. They now exempt the volumes whose file was deleted (`lost`).

`Console_proofs` proves that the console implements `KeyChannel` (`KeysStayInOrder`)
and that no keys are forgotten in the buffer (`KeysAreNotForgotten`), for any number
of keys, batches and failures. The refinement needs the invariant `KInv`: at most
one send request exists, and it exists only while `send_in_progress`; without
it two batches could be under way and the queue would have no order. Each action
of the page is then a step of the channel or leaves it alone.

`ConsoleTypeCorrect` and `ScreenStaysRight` (`[]TypeOK` and `[]ScreenAgrees`) rest on
`ConsoleInv`: there is at most one poll, and what its answer makes of the text displayed
is what the server believes is displayed (`ScreensFit`); before the session is open
nothing is asked (`NotOpenYet`); and without a failure the receive loop goes on
(`LoopGoesOn`). The lemma under it, `ScriptFits`, says that each of the server's
scripts, applied to the text it was made from, gives the new text. The assumption is
that `None` is not an answer (`NullAssumption`). The interpreter of edit scripts is a
recursive function; the lemmas read it as a trace of states and show by the
least counterexample that a script has only one.

`Grid_proofs` proves `RowsNeverOlder` from the invariant `RInv` (as long as the grid
loads there is at most one request, and its answer has seen at least what is shown),
and `CellsStayUnderHeaders` from `CInv`: the axes of the headers are a permutation
of the columns (`ToggleCol` finds its header by axis), cells and boxes follow
them, and a visible column remains. That one is not inductive without the
permutation, and its lemmas state what `InsertAt` after `RemoveAt` (a drag) does to
every position.

`GridTypeCorrect` and `PagerTellsTheRows` (`[]TypeOK` and `[]PagerDescribesBody`) use a
third invariant, `PInv`: a request asks for a positive page with the present order
(changing it while loading is refused), its answer holds that page of as many rows
as it says there are, and the last page is computed with the page size the request
was sent with. The lemmas under it are arithmetic (`PagesOf`: how many rows the last
page has) and that a finite set of rows can be listed in order (`InOrderIs`).

`NavTree_proofs` proves the three safety properties of the tree, for any number of pools,
names, changes and overlapping polls. `TreeTypeCorrect` and `CurrentStaysShown`
(`[]TypeOK` and `[]CurrentIsShown`) follow from `TreeInv`:
* `PoolsInv`: the pools of the database are a forest (`Nested`: no pool is above itself,
  and the pools above one are above each other), or the answer's paths would not be paths;
* `PageInv`: ids and copies are unique, each step of a node's path is a node with the rest
  of the path (`Tree`), and the current pool is shown;
* `ReqsInv`: an answer is made of such lists;
* `RoomInv`: a pool is never shown more than `MaxRequests` times, because a copy is made
  only by the answer to a request that did not know the pool, and of these there
  are never more than there is room for copies.

`DifferencesAddUp` (`Spec => TreeMatches`) says that what the polls add and take
away makes the tree the user may see, unless polls overlapped. `MatchInv` adds
* `RootedInv`: every pool the user may see hangs under its parent, if that is visible;
* `AnswersInv`: an answer is the difference between the server's list and the items
  the request was sent with (`Described`), and pools do not move (`Unmoved`);
* `OneAtATime`, as long as no polls overlapped: one request, each pool shown once and in
  its place, and the items sent are those of the page.

The handler is then followed in three parts: deletion takes away the pools to be
deleted and what is below them, nothing else (`Pruned`); the rest is fit to be updated
(`Updatable`); and once k levels are appended, the page shows with their present names
what it kept and the list's new pools of these levels, as far as their parents are
shown, and nothing else (`Exact`). Deletion in any order and the levels
are recursive functions, read as traces as above.

Only model-checked are the liveness properties, since fairness is out of the prover's
reach, and of course the violation.

## 5. Not modelled

`PROJECT.json` has the full list with reasons.
* Quotas, the copies of inherited permissions, VNC ports and iptables rules,
  uptime accounting (`vm_observer.rb:62` adds the time a VM was stopped if it goes
  from stopped over unreachable to running), and host-browser's dialogue: not yet.
* LVM pools, the starting and stopping of libvirt pools around a task, and the
  deletion of a pool with queued tasks.
* The tree widget of the storage pages (second half of `ovirt.tree.js`), which draws
  its data once, and the callbacks of `ovirt.js`, which only call what `Grid` and
  `NavTree` model.
* The details of a selected row (`show_vms.rhtml:98`): one call of jQuery whose
  answers nothing orders.
* Pure presentation (controllers, views, graphs), byte copying (`vnc-proxy`),
  statistics (`host-collect`) and configuration (installer). The QMF agent calls
  the services that are modelled. Log messages, descriptions and search are left
  out everywhere.
* Vendored JavaScript: jQuery in four copies, Prototype, script.aculo.us and the
  jQuery plugins. They are nine tenths of the 27 000 lines of JavaScript in the
  repository, so the share of all JavaScript that the modules stand for stays small
  although the project's own pages with state are covered; the system itself is
  written in Ruby.

## 6. Plan

1. Quotas: `available_resources_for_vm` as an operator against a reference, and
   the check-then-create of two requests.
2. The copies of inherited permissions against the inheritance `NavTree` computes.
3. VNC forwarding: ports and rules, at most one VM per port.
4. host-browser: the dialogue with a booting node, reconciliation of nics.
5. Proofs for the parts above: their invariants.
