SPECIFICATION Spec
CONSTANTS
  Vms = {v1}
  Nodes = {n1}
  Requests = {r1, r2}
  MaxTasks = 2
  None = None
  Deleted = Deleted
  Offered = {"start_vm"}
  Services = {"create", "action", "destroy", "cancel"}
  ForwardVnc = {}
  MaxRestarts = 0
  GuestsStop = TRUE
SYMMETRY Symmetry
PROPERTIES CompletedTasksStay DeletedOnlyIfDestroyable
