SPECIFICATION FairSpec
CONSTANTS
  Nodes = {n1}
  Vms = {v1}
  None = None
  MaxBoots = 2
  MaxOutages = 2
  MaxLost = 1
  MaxRestarts = 1
  QmfDeletes = FALSE
PROPERTIES DownIsNoticed ReportingIsReachable
