SPECIFICATION Spec
CONSTANTS
  Thread = {t1, t2}
  Name = {n1}
  Doc = {d1}
  Writer = {x1, x2, x3}
  None = None
  MaxStarts = 2
SYMMETRY Symmetry
INVARIANTS
  AckedKept
CHECK_DEADLOCK FALSE
