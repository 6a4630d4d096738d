SPECIFICATION Spec
CONSTANTS
  Clients = {c1, c2}
  Ids = {i0, i1}
  Codes = {k0, k1}
  Names = {n0, n1}
  Blank = blank
  Unset = unset
  None = none
  SeedId = i0
  SeedCode = k0
  SeedName = n0
  MaxVersion = 3
SYMMETRY ClientSymmetry
INVARIANTS
  TypeOK
  IInv
  NoLostUpdate
  ImmutableFieldsKept
  ConflictReportsNewer
  OkIsCommitted
