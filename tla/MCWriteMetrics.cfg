SPECIFICATION MetricsSpec
CONSTANTS
  Clients = {c1, c2}
  Plans = {starter}
  starter = starter
  enterprise = enterprise
  name0 = name0
  name1 = name1
  off = off
  on = on
  plain = plain
  logo = logo
  basic = basic
  extended = extended
  Null = null
  Bad = bad
  Malformed = malformed
  Unlimited = unlimited
  None = none
  MaxInt = 2
  MaxVersion = 3
  Seed <- MCSeed
  Legal <- MCLegal
  Bodies <- MCBodies
  MaxCounted = 4
SYMMETRY ClientSymmetry
INVARIANTS
  TypeOK
  IInv
  NoLostUpdate
  OnlySentFieldsChange
  ChecksMirrored
  ConflictReportsNewer
  OkIsCommitted
  CountersExplained
PROPERTY RequestsAreAtomic
