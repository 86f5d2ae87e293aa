SPECIFICATION FairSpec
CONSTANTS
  Vms = {v1}
  Nodes = {n1}
  Requests = {r1}
  MaxTasks = 2
  None = None
  Deleted = Deleted
  Offered = {"save_vm", "restore_vm"}
  Services = {"create", "action", "cancel", "destroy"}
  ForwardVnc = {}
  MaxRestarts = 1
  GuestsStop = FALSE
PROPERTIES QueueDrains CompletedTasksStay
