CONSTANTS
  idle = idle
  shell = shell
  a = a
  b = b
  Thread = {idle, shell, a, b}
  Idle = idle
  Shell = shell
  Busy = {}
  Wait = {heap, sem1}
  Dead = dead
  Lock = {heap}
  Heap = heap
  Off = {}
  Creator = {}
  Victim = {}
  Taker = {b}
  IdleDelay = 1
  TickRange = 8
  MaxTick = 3
  MaxValue = 1
  None = None
  AllocFails = FALSE
  Priority <- MCPriority
  prio <- MCprio
  slice <- MCslice
  Times <- MCTimes
SPECIFICATION Spec
INVARIANTS BlocksUntilResumed
CHECK_DEADLOCK FALSE
