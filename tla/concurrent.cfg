SPECIFICATION Spec
CONSTANTS
  Vms = {v1}
  Nodes = {n1, n2}
  Requests = {r1, r2}
  MaxTasks = 2
  None = None
  Deleted = Deleted
  Offered = {"start_vm", "poweroff_vm"}
  Services = {"action", "update"}
  ForwardVnc = {v1}
  MaxRestarts = 0
  GuestsStop = FALSE
SYMMETRY Symmetry
INVARIANTS TypeOK FreshMeansCurrent 
 
