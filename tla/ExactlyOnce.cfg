SPECIFICATION ProcessSpec
CONSTANTS
  Doc = {a, b}
  Rejected = {}
  Lossy = {}
  MaxAdds = 1
  MaxGen = 3
  MaxFaults = 0
  a = a
  b = b
INVARIANT ExactlyOnce
CHECK_DEADLOCK FALSE
