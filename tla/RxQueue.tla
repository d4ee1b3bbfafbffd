------------------------------ MODULE RxQueue ------------------------------
(***************************************************************************)
(* What the console receive path promises the shell: a bounded FIFO of     *)
(* characters that drops its oldest character when a new one arrives and   *)
(* there is no room.  UartFifo, the ring buffer of os/getchar.c, is shown  *)
(* to implement it with Capacity = UART_BUF_SIZE - 1.                      *)
(***************************************************************************)
EXTENDS Integers, Sequences

CONSTANTS Char,      \* the characters the UART can deliver
          NoChar,    \* what getchar has returned before its first return
          Capacity   \* how many unread characters are kept

VARIABLES queue,     \* the unread characters, oldest first
          ch         \* the character getchar returned last

vars == <<queue, ch>>

Init == queue = <<>> /\ ch = NoChar

\* A character arrives; the oldest unread one makes room for it.
Receive(c) ==
  /\ queue' = Append(IF Len(queue) = Capacity THEN Tail(queue) ELSE queue, c)
  /\ UNCHANGED ch

\* getchar returns the oldest unread character.
Return ==
  /\ queue # <<>>
  /\ ch' = Head(queue)
  /\ queue' = Tail(queue)

Next == Return \/ \E c \in Char : Receive(c)

Spec == Init /\ [][Next]_vars

=============================================================================
