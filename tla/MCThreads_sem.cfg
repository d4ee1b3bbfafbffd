CONSTANTS
  idle = idle
  shell = shell
  a = a
  b = b
  Thread = {idle, shell, a, b}
  Idle = idle
  Shell = shell
  Busy = {shell}
  Wait = {heap, sem1}
  Dead = dead
  Lock = {heap}
  Heap = heap
  Off = {}
  Creator = {}
  Victim = {}
  Taker = {a, b, shell}
  IdleDelay = 1
  TickRange = 8
  MaxTick = 2
  MaxValue = 1
  None = None
  AllocFails = FALSE
  Priority <- MCPriority
  prio <- MCprio
  slice <- MCslice
  Times <- MCForeverOrOne
SPECIFICATION FairSpec
INVARIANTS NoFault GroupExact TimersExact DispatchExact OnlyRunningRuns NoIdleToken NoneOverdue
PROPERTIES TimersFire
