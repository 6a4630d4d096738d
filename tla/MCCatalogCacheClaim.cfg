SPECIFICATION Spec
CONSTANTS
  Readers = {r1, r2}
  Writers = {w1}
  TTL = 2
  Deadline = 1
  MaxVersion = 2
  None = none
INVARIANTS
  WritesVisibleImmediately
