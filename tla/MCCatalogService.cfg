SPECIFICATION ServiceSpec
CONSTANTS
  Clients = {c1}
  Readers = {r1}
  Ids = {i0, i1, i2}
  Codes = {k0, k1, k2}
  Names = {n0}
  Blank = blank
  Unset = unset
  None = none
  SeedId = i0
  SeedCode = k0
  SeedName = n0
  MaxVersion = 2
SYMMETRY ServiceSymmetry
INVARIANTS
  ServiceInv
  ListsAreSnapshots
  EditsFromListsAreSafe
PROPERTY ImplementsApi
