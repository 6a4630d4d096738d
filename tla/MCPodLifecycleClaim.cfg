SPECIFICATION Spec
CONSTANTS
  Pods = {p1}
  Clients = {c1}
  None = none
  Environments <- MCEnvironments
  MigrationLimit = 2
  StartupLimit = 4
  ReadLimit = 1
  RequestLimit = 2
  DrainLimit = 2
  MetricsLimit = 2
  Grace = 3
INVARIANT DrainsWithinGrace
