------------------------------ MODULE Libvirt -------------------------------
(***************************************************************************)
(* External: the libvirt domains on the managed nodes and the QMF bus that *)
(* libvirt-qpid publishes them on, modelled from how taskomatic and        *)
(* db-omatic use them.  A VM's domain on a node is absent ("none"),        *)
(* inactive ("shutoff") or active ("running", "paused"); qemu/kvm reports  *)
(* no other state.  A domain defined on a node (domainDefineXML) survives  *)
(* its guest as "shutoff"; one that arrived by live migration has only     *)
(* transient XML and vanishes when the guest stops.                        *)
(***************************************************************************)
EXTENDS Records

VARIABLES dom,      \* dom[v][n]: state of VM v's domain on node n
          defined,  \* the <<v, n>> with a persistent definition
          pub       \* pub[v][n]: the state db-omatic last received of it

libvirtVars == <<dom, defined, pub>>

DomainState == {"none", "shutoff", "running", "paused"}

LibvirtTypeOK ==
  /\ dom \in [Vms -> [Nodes -> DomainState]]
  /\ defined \subseteq Vms \X Nodes
  /\ pub \in [Vms -> [Nodes -> DomainState]]

Active(v, n) == dom[v][n] \in {"running", "paused"}

\* qmfc.object(:class => 'domain', 'uuid' => ...): some object with the VM's
\* uuid, whichever node it is on, or nil.
Lookup(v) ==
  LET present == {n \in Nodes : dom[v][n] # "none"}
  IN  IF present = {} THEN {None} ELSE present

\* The state the object o has, "none" for nil.
StateAt(v, o) == IF o = None THEN "none" ELSE dom[v][o]

\* The domain's new state.  A domain that appears on the node is a new
\* object, of which nothing has been published; one that disappears keeps
\* its pub until db-omatic has seen the last of the object.
SetDomain(v, n, s) ==
  /\ dom' = [dom EXCEPT ![v][n] = s]
  /\ pub' = IF dom[v][n] = "none" THEN [pub EXCEPT ![v][n] = "none"] ELSE pub

\* The state a domain has once its guest is gone.
Off(v, n) == IF <<v, n>> \in defined THEN "shutoff" ELSE "none"

\* undefine succeeds on an inactive domain only.
Undefinable(v, n) == dom[v][n] = "shutoff"

Undefine(v, n) ==
  /\ SetDomain(v, n, "none")
  /\ defined' = defined \ {<<v, n>>}

\* The guest powers itself off, on its own account or because an earlier
\* shutdown request reached it.
GuestPowerOff(v, n) ==
  /\ dom[v][n] = "running"
  /\ SetDomain(v, n, Off(v, n))
  /\ UNCHANGED defined
  /\ UNCHANGED recordVars
=============================================================================
