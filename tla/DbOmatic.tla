------------------------------ MODULE DbOmatic ------------------------------
(***************************************************************************)
(* db-omatic/db_omatic.rb: the daemon that follows the domains on the QMF  *)
(* bus and writes what it sees into the vms table.  Its handlers run under *)
(* one monitor, so there is at most one update in progress: dbo.  Steps:   *)
(* find the row (and enter the handler), set up or tear down the VNC       *)
(* forwarding ("vnc"), talk to QMF ("act"), save!.                         *)
(***************************************************************************)
EXTENDS Libvirt

CONSTANT ForwardVnc  \* the VMs whose VNC console is forwarded (forward_vnc)

ASSUME ForwardVncAssumption == ForwardVnc \subseteq Vms

VARIABLES cache,  \* @cached_objects: the entry for each VM's domain
          dbo     \* the update_domain_state in progress

dbomaticVars == <<cache, dbo>>

D == "dbomatic"

\* update_props drops every older entry with the same uuid and name, so a VM
\* has at most one.
CacheEntry == [node : Nodes, state : DomainState \ {"none"}, synced : BOOLEAN]

\* nil is no entry.
ASSUME EntryAssumption == None \notin CacheEntry

DbomaticTypeOK ==
  /\ cache \in [Vms -> CacheEntry \cup {None}]
  /\ dbo \in [pc      : {"idle", "vnc", "act", "save"},
              vm      : Vms \cup {None},
              row     : VmRow \cup {None},   \* the columns to be saved
              touched : BOOLEAN]             \* another column has changed, unsaved

Resting == [pc |-> "idle", vm |-> None, row |-> None, touched |-> FALSE]

\* Mutant: a paused domain taken for a stopped one.
TranslateInactive == [running |-> "running", paused |-> "stopped", shutoff |-> "stopped"]

\* The translation of a domain's state to a VM state.
Translate == [running |-> "running", paused |-> "suspended", shutoff |-> "stopped"]

Synced(v) == [cache EXCEPT ![v].synced = TRUE]

-----------------------------------------------------------------------------
\* update_domain_state(entry) up to the find.  A VM that is not in the
\* database counts as synced.
EnterUpdate(v, entry) ==
  /\ IF Live(v)
     THEN /\ Load(D, v)
          /\ cache' = [cache EXCEPT ![v] = entry]
          /\ dbo' = [pc |-> "vnc", vm |-> v, row |-> None, touched |-> FALSE]
     ELSE /\ UNCHANGED <<copy, fresh>>
          /\ cache' = [cache EXCEPT ![v] = [entry EXCEPT !.synced = TRUE]]
          /\ UNCHANGED dbo
  /\ UNCHANGED <<vms, tasks, nextTask, dom, defined>>

\* update_props: an object that is not in the cache (new, or dropped in favour
\* of another node's) gets an entry, not synced yet; a state that differs
\* from the cached one is passed on.
UpdateProps(v, n, s, known) ==
  EnterUpdate(v, [node   |-> n, state |-> s,
                  synced |-> known /\ cache[v].synced])

Cached(v, n) == cache[v] # None /\ cache[v].node = n

\* A domain object is published when its state has changed.
ObjectUpdate(v, n) ==
  /\ dbo.pc = "idle"
  /\ dom[v][n] \notin {"none", pub[v][n]}
  /\ UpdateProps(v, n, dom[v][n], Cached(v, n) /\ pub[v][n] # "none")
  /\ pub' = [pub EXCEPT ![v][n] = dom[v][n]]

\* The object is gone.  If it was last seen shut off and that had not been
\* published yet, its last publication may say so; nothing else tells
\* db-omatic, which has no handler for deleted objects.
ObjectGone(v, n) ==
  /\ dbo.pc = "idle"
  /\ dom[v][n] = "none" /\ pub[v][n] # "none"
  /\ pub' = [pub EXCEPT ![v][n] = "none"]
  /\ \/ UNCHANGED <<recordVars, dom, defined, dbomaticVars>>
     \/ pub[v][n] # "shutoff" /\ UpdateProps(v, n, "shutoff", Cached(v, n))

\* check_heartbeats, agent_connected: an entry that was never synced is
\* tried again with the state it holds.
Resync(v) ==
  /\ dbo.pc = "idle"
  /\ cache[v] # None /\ ~cache[v].synced
  /\ EnterUpdate(v, cache[v])
  /\ UNCHANGED pub

\* VmVnc.forward and close: save! of a new forward_vnc_port, unless an error
\* comes first.  Every error is only logged, StaleObjectError too; the object
\* then still has the change.
UpdateVnc ==
  /\ dbo.pc = "vnc"
  /\ \E forward \in {FALSE, dbo.vm \in ForwardVnc} :
       /\ fresh' = IF forward /\ D \in fresh THEN {q \in fresh : copy[q].vm # dbo.vm} \cup {D}
                                            ELSE fresh
       /\ dbo' = [dbo EXCEPT !.pc = "act", !.touched = forward /\ D \notin fresh]
  /\ UNCHANGED <<vms, tasks, nextTask, copy, libvirtVars, cache>>

\* The QMF part: a stopped domain (whichever object the lookup returns) is
\* undefined, which also clears host_id; a running one tells the host.
UpdateAct ==
  /\ dbo.pc = "act"
  /\ LET v    == dbo.vm
         s    == Translate[cache[v].state]
         host == copy[D].host
         To(row) == dbo' = [dbo EXCEPT !.pc = "save", !.row = row]
     IN  \/ /\ s = "stopped"
            /\ \E o \in Lookup(v) :
                 IF o # None /\ Undefinable(v, o)
                 THEN Undefine(v, o) /\ To([state |-> s, host |-> None])
                 ELSE UNCHANGED libvirtVars /\ To([state |-> s, host |-> host])
         \/ /\ s = "running"
            /\ \E o \in Lookup(v) :
                 To([state |-> s, host |-> IF o = None THEN host ELSE o])
            /\ UNCHANGED libvirtVars
         \/ /\ s = "suspended"
            /\ To([state |-> s, host |-> host])
            /\ UNCHANGED libvirtVars
  /\ UNCHANGED <<recordVars, cache>>

\* save!.  StaleObjectError is logged and the update given up.
UpdateSave ==
  /\ dbo.pc = "save"
  /\ LET dirty == dbo.touched \/ Changed(D, dbo.row) IN
     IF Savable(D, dirty)
     THEN /\ vms' = IF dirty THEN [vms EXCEPT ![dbo.vm] = dbo.row] ELSE vms
          /\ fresh' = (IF dirty THEN {q \in fresh : copy[q].vm # dbo.vm} ELSE fresh) \ {D}
          /\ cache' = Synced(dbo.vm)
     ELSE /\ fresh' = fresh \ {D}
          /\ UNCHANGED <<vms, cache>>
  /\ copy' = [copy EXCEPT ![D] = None]
  /\ dbo' = Resting
  /\ UNCHANGED <<tasks, nextTask, libvirtVars>>

DbomaticStep ==
  \/ \E v \in Vms, n \in Nodes : ObjectUpdate(v, n) \/ ObjectGone(v, n)
  \/ \E v \in Vms : Resync(v)
  \/ UpdateVnc
  \/ UpdateAct
  \/ UpdateSave
=============================================================================
