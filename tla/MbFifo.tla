------------------------------- MODULE MbFifo -------------------------------
(***************************************************************************)
(* What a mailbox promises its callers: a FIFO of at most Capacity         *)
(* messages.  A message that was accepted is delivered once, to one        *)
(* receive, in the order of acceptance.  Mailbox, the ring and the wait    *)
(* queues of os/thread.c, is shown to implement it.                        *)
(***************************************************************************)
EXTENDS Integers, Sequences

CONSTANTS Msg,       \* the messages, pointers in the code
          NoMsg,     \* what was delivered before the first receive
          Capacity   \* how many messages are kept

VARIABLES queue,     \* the messages that wait, oldest first
          got        \* the message delivered last

vars == <<queue, got>>

Init == queue = <<>> /\ got = NoMsg

Accept(v) ==
  /\ Len(queue) < Capacity
  /\ queue' = Append(queue, v)
  /\ UNCHANGED got

Deliver ==
  /\ queue # <<>>
  /\ got' = Head(queue)
  /\ queue' = Tail(queue)

Next == Deliver \/ \E v \in Msg : Accept(v)

Spec == Init /\ [][Next]_vars

=============================================================================
