\* After a call that keeps heap_sem every caller waits for ever.
CHECK_DEADLOCK FALSE
SPECIFICATION Spec
CONSTANTS
  t1 = t1
  t2 = t2
  Null = Null
  Thread <- Two
  Sizes <- Asked
  mem_size_aligned = 120
  MaxBlocks = 2
SYMMETRY Perms
INVARIANTS Tiled Coalesced UsedExact UsedIsHeld
PROPERTIES OnlyCutHides RefinesRegions
