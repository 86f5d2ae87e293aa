SPECIFICATION Spec
CONSTANTS
  Vms = {v1}
  Nodes = {n1, n2}
  Requests = {r1}
  MaxTasks = 1
  None = None
  Deleted = Deleted
  Offered = {"start_vm"}
  Services = {"action", "cancel", "destroy"}
  ForwardVnc = {}
  MaxRestarts = 0
  GuestsStop = FALSE
SYMMETRY Symmetry
PROPERTIES NotDeletedWhileRunning
