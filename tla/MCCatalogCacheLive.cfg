SPECIFICATION FairSpec
CONSTANTS
  Readers = {r1, r2}
  Writers = {w1}
  TTL = 2
  Deadline = 2
  MaxVersion = 2
  None = none
INVARIANTS
  IInv
  BoundedStaleness
  StaleReadExplained
PROPERTIES
  CacheHeals
  KeepsPromise
