CONSTANTS
  m1 = m1
  m2 = m2
  idle = idle
  s = s
  b = b
  r = r
  Thread = {idle, s, b, r}
  Sender = {s, b}
  Receiver = {b, r}
  SendQ = sendq
  RecvQ = recvq
  Wait = {sendq, recvq}
  Dead = dead
  Msg = {m1, m2}
  NoMsg = NoMsg
  Size = 2
  Fetches = {0, 1}
  Isr = {m1}
  TickRange = 8
  MaxTick = 3
  Priority <- MCPriority
  prio <- MCprio
  slice <- MCslice
  Posted <- MCPosted
  Posts <- MCPosts
SPECIFICATION Spec
INVARIANTS ForeverWaits
