SPECIFICATION FairSpec
CONSTANTS
  Clients = {c1, c2}
  Ids = {i0, i1, i2}
  Codes = {k0, k1}
  Names = {n0}
  Blank = blank
  Unset = unset
  None = none
  SeedId = i0
  SeedCode = k0
  SeedName = n0
  MaxVersion = 2
INVARIANT UniqueCodes
PROPERTIES
  EveryRequestAnswered
  RefinesRegister
  RequestsAreAtomic
