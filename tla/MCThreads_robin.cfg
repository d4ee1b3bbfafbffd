CONSTANTS
  idle = idle
  shell = shell
  a = a
  b = b
  Thread = {idle, shell, a, b}
  Idle = idle
  Shell = shell
  Busy = {shell}
  Wait = {heap, sem1}
  Dead = dead
  Lock = {heap}
  Heap = heap
  Off = {}
  Creator = {a}
  Victim = {b}
  Taker = {a}
  IdleDelay = 1
  TickRange = 3
  MaxTick = 3
  MaxValue = 1
  None = None
  AllocFails = FALSE
  Priority <- MCOnePriority
  prio <- MCprioEqual
  slice <- MCslice
  Times <- MCForever
SPECIFICATION FairSpec
PROPERTIES RoundRobin
