------------------------------ MODULE UartFifo ------------------------------
(***************************************************************************)
(* The console receive ring of os/getchar.c: the UART2 interrupt handler   *)
(* rt_hw_serial_isr puts characters, getchar polls _serial_int_rx for one. *)
(* Both touch the ring with interrupts disabled, so each is one step.      *)
(***************************************************************************)
EXTENDS Integers, Sequences

CONSTANTS Char,            \* the characters the UART can deliver
          NoChar,          \* content of a cell nothing was written to
          UART_BUF_SIZE    \* getchar.c: 16

ASSUME SizeAssumption == UART_BUF_SIZE \in Nat /\ UART_BUF_SIZE >= 2

VARIABLES buffer,          \* rx_fifo->buffer
          put_index,       \* rx_fifo->put_index
          get_index,       \* rx_fifo->get_index
          is_full,         \* rx_fifo->is_full
          ch               \* the character getchar returned last

vars == <<buffer, put_index, get_index, is_full, ch>>

Index == 0 .. UART_BUF_SIZE - 1

\* Mutant: the wrap test is off by one.
Advance_Late(index) == IF index + 1 > UART_BUF_SIZE THEN 0 ELSE index + 1

\* index += 1, back to 0 at the end of the buffer
Advance(index) == IF index + 1 >= UART_BUF_SIZE THEN 0 ELSE index + 1

\* uart2GetCharInit (the memset writes a zero byte to every cell)
Init ==
  /\ buffer = [i \in Index |-> NoChar]
  /\ put_index = 0
  /\ get_index = 0
  /\ is_full = 0
  /\ ch = NoChar

\* Mutant: the writer catches up with the reader and does not push it on.
isr_NoDrop(c) ==
  /\ buffer' = [buffer EXCEPT ![put_index] = c]
  /\ put_index' = Advance(put_index)
  /\ is_full' = IF put_index' = get_index THEN 1 ELSE is_full
  /\ UNCHANGED <<get_index, ch>>

\* One turn of the loop of rt_hw_serial_isr: the UART has character c.
rt_hw_serial_isr(c) ==
  /\ buffer' = [buffer EXCEPT ![put_index] = c]
  /\ put_index' = Advance(put_index)
  /\ \/ /\ put_index' = get_index
        /\ get_index' = Advance(get_index)
        /\ is_full' = 1
     \/ /\ put_index' # get_index
        /\ UNCHANGED <<get_index, is_full>>
  /\ UNCHANGED ch

\* Mutant: the reader forgets to clear is_full.
getchar_KeepFull ==
  /\ ~ (get_index = put_index /\ is_full = 0)
  /\ ch' = buffer[get_index]
  /\ get_index' = Advance(get_index)
  /\ UNCHANGED <<buffer, put_index, is_full>>

\* getchar's polling loop leaves when _serial_int_rx finds a character.
getchar ==
  /\ ~ (get_index = put_index /\ is_full = 0)
  /\ ch' = buffer[get_index]
  /\ get_index' = Advance(get_index)
  /\ is_full' = 0
  /\ UNCHANGED <<buffer, put_index>>

Next == getchar \/ \E c \in Char : rt_hw_serial_isr(c)

Spec == Init /\ [][Next]_vars

-----------------------------------------------------------------------------
\* The number of unread characters, and the i-th oldest of them.
Unread == IF put_index >= get_index THEN put_index - get_index
          ELSE put_index - get_index + UART_BUF_SIZE
Cell(i) == IF get_index + i - 1 >= UART_BUF_SIZE
           THEN get_index + i - 1 - UART_BUF_SIZE
           ELSE get_index + i - 1
Pending == [i \in 1 .. Unread |-> buffer[Cell(i)]]

Queue == INSTANCE RxQueue WITH queue <- Pending, Capacity <- UART_BUF_SIZE - 1

\* Every variable keeps its type: the indices stay inside the buffer.
TypeOK ==
  /\ buffer \in [Index -> Char \cup {NoChar}]
  /\ put_index \in Index
  /\ get_index \in Index
  /\ is_full \in {0, 1}
  /\ ch \in Char \cup {NoChar}

\* getchar's emptiness test reads "the indices meet and the ring is not
\* full": is_full is set only while the ring holds UART_BUF_SIZE - 1
\* characters, so the indices never meet with is_full = 1 and getchar never
\* returns a cell that holds no unread character.
FullFlagInv == is_full = 1 => Unread = UART_BUF_SIZE - 1

\* The ring implements a drop-oldest FIFO of UART_BUF_SIZE - 1 characters:
\* whatever the interleaving of interrupts and polls, getchar returns the
\* characters in order of arrival, loses only the oldest, and only when full.
RefinesRxQueue == Queue!Spec

=============================================================================
