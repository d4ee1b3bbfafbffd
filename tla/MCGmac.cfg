\* The frames of both directions end, and the threads wait for the next one.
CHECK_DEADLOCK FALSE
SPECIFICATION Spec
CONSTANTS
  None = None
  TxDescCount = 3
  RxDescCount = 2
  MailCap = 2
  Frames = 5
  Arrivals = 3
INVARIANTS TxRing RxRing
PROPERTY NobodyStarves
