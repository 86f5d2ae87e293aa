SPECIFICATION Spec
CONSTANTS
  Nodes = {n1, n2}
  Vms = {v1}
  None = None
  MaxBoots = 2
  MaxOutages = 1
  MaxLost = 0
  MaxRestarts = 0
  QmfDeletes = TRUE
SYMMETRY Symmetry
INVARIANTS TypeOK 
 
CHECK_DEADLOCK FALSE
