SPECIFICATION FairSpec
CONSTANTS
  Pods = {p1, p2}
  Clients = {c1}
  None = none
  Environments <- MCEnvironments
  MigrationLimit = 1
  StartupLimit = 2
  ReadLimit = 1
  RequestLimit = 2
  DrainLimit = 2
  MetricsLimit = 2
  Grace = 3
INVARIANTS
  IInv
  AppliedOnce
  WedgedLockReported
  StartedRequestsAnswered
PROPERTIES
  EveryPodSettles
  SettlesInTime
