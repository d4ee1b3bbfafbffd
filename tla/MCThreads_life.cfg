CONSTANTS
  idle = idle
  shell = shell
  a = a
  b = b
  Thread = {idle, shell, a, b}
  Idle = idle
  Shell = shell
  Busy = {shell}
  Wait = {heap}
  Dead = dead
  Lock = {heap}
  Heap = heap
  Off = {}
  Creator = {a, b}
  Victim = {a, b}
  Taker = {a, b}
  IdleDelay = 1
  TickRange = 8
  MaxTick = 3
  MaxValue = 1
  None = None
  AllocFails = TRUE
  Priority <- MCPriority
  prio <- MCprio
  slice <- MCslice
  Times <- MCTimes
SPECIFICATION Spec
INVARIANTS Placement OneOwner WalksStay Inductive
PROPERTIES DeadStayDead
