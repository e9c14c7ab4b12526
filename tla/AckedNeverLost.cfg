SPECIFICATION ProcessSpec
CONSTANTS
  Doc = {a, b}
  Rejected = {}
  Lossy = {}
  MaxAdds = 1
  MaxGen = 2
  MaxFaults = 0
  a = a
  b = b
INVARIANT AckedNeverLost
CHECK_DEADLOCK FALSE
