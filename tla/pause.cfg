SPECIFICATION Spec
CONSTANTS
  Vms = {v1}
  Nodes = {n1, n2}
  Requests = {r1}
  MaxTasks = 3
  None = None
  Deleted = Deleted
  Offered = {"suspend_vm", "resume_vm", "poweroff_vm", "shutdown_vm"}
  Services = {"action", "cancel", "destroy"}
  ForwardVnc = {}
  MaxRestarts = 1
  GuestsStop = FALSE
SYMMETRY Symmetry
INVARIANTS SettledRowsAgree ActiveIsRecorded
PROPERTIES NotDeletedWhileRunning
