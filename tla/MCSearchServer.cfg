SPECIFICATION Spec
CONSTANTS
  Thread = {t1, t2}
  Name = {n1, n2}
  Doc = {d1, d2}
  Writer = {x1, x2, x3}
  None = None
  MaxStarts = 2
SYMMETRY Symmetry
INVARIANTS
  TypeOK WritersOwned WriterInUseLives KeptUnlessRaced SearchesShow StopSeals
CHECK_DEADLOCK FALSE
