SPECIFICATION Spec
CONSTANTS
  Doc = {a, b, r}
  Rejected = {r}
  Lossy = {b}
  MaxAdds = 1
  MaxGen = 2
  MaxFaults = 1
  a = a
  b = b
  r = r
INVARIANTS
  TypeOK DiskComplete AckedDurable SeenStaysVisible
PROPERTIES
  SegmentsImmutable GenerationsIncrease NrtSpec
CHECK_DEADLOCK FALSE
