------------------------------ MODULE VmStates ------------------------------
(***************************************************************************)
(* The tables of app/models/vm.rb and app/models/vm_task.rb: the states of *)
(* a VM row, the actions a VmTask may carry, and what the WUI derives from *)
(* them when it decides which action may be queued and whether a VM may be *)
(* deleted.  Nothing here is a state machine: every operator is a function *)
(* of a VM's state column and of the actions of its queued tasks, given in *)
(* the order of their ids.                                                 *)
(***************************************************************************)
EXTENDS Naturals, Sequences

\* Vm::ALL_STATES
VmState == {"pending", "creating", "running", "unreachable", "powering_off",
            "stopping", "stopped", "starting", "suspending", "suspended",
            "resuming", "saving", "saved", "restoring", "migrating",
            "create_failed", "invalid"}

\* Vm::DESTROYABLE_STATES
DestroyableStates == {"pending", "stopped", "create_failed", "invalid"}

\* Vm::EFFECTIVE_STATE: the state a transitional state is heading for.
EffectiveState ==
  [s \in VmState |->
     CASE s \in {"creating", "stopping", "powering_off"}              -> "stopped"
       [] s \in {"starting", "resuming", "restoring", "migrating"}    -> "running"
       [] s = "suspending"                                            -> "suspended"
       [] s = "saving"                                                -> "saved"
       [] OTHER                                                       -> s]

\* VmTask::ACTIONS: the state each action needs, and the one it leads to.
Transition ==
  [create_vm   |-> [start |-> "pending",   success |-> "stopped"],
   start_vm    |-> [start |-> "stopped",   success |-> "running"],
   shutdown_vm |-> [start |-> "running",   success |-> "stopped"],
   poweroff_vm |-> [start |-> "running",   success |-> "stopped"],
   suspend_vm  |-> [start |-> "running",   success |-> "suspended"],
   resume_vm   |-> [start |-> "suspended", success |-> "running"],
   save_vm     |-> [start |-> "running",   success |-> "saved"],
   restore_vm  |-> [start |-> "saved",     success |-> "running"],
   migrate_vm  |-> [start |-> "running",   success |-> "running"]]

Action == DOMAIN Transition

-----------------------------------------------------------------------------
\* The state the VM is expected to be in when task k of the queue q begins.
StateBefore(s, q, k) ==
  IF k = 1 THEN EffectiveState[s] ELSE Transition[q[k - 1]].success

\* Vm#get_pending_state: follow the queued actions from the current state;
\* the first one that does not start where its predecessor ends makes the
\* result "invalid".
GetPendingState(s, q) ==
  IF \E k \in DOMAIN q : Transition[q[k]].start # StateBefore(s, q, k)
  THEN "invalid"
  ELSE StateBefore(s, q, Len(q) + 1)

\* VmTask.valid_actions_for_vm_state, without a user.
ValidActions(s) == {a \in Action : Transition[a].start = s}

\* Vm#get_action_list: the valid actions of the pending state, less the ones
\* that need resources when resources_for_start? says there are none.
GetActionList(s, q, resources) ==
  ValidActions(GetPendingState(s, q))
    \ (IF resources THEN {} ELSE {"start_vm", "restore_vm"})

\* Vm#is_destroyable?
IsDestroyable(s, q) ==
  /\ s \in DestroyableStates
  /\ GetPendingState(s, q) = s
=============================================================================
