CONSTANTS
  SEGSIZE = 2
  BlockRange = 8
  MaxRexmt = 2
  Lengths = {0, 1, 4, 5}
  Reads = {1, 3}
  Seeks = {0, 3}
  Session = {1, 2}
  Extra = 1
SPECIFICATION Spec
INVARIANTS ReadExact FlashedWhole StoredExact
PROPERTIES UpdateEnds
CHECK_DEADLOCK FALSE
