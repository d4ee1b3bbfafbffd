--------------------------- MODULE UartFifoProofs ---------------------------
(***************************************************************************)
(* The receive ring of os/getchar.c implements the drop-oldest FIFO of     *)
(* RxQueue, for every buffer size and every set of characters.  The proof  *)
(* needs the full flag: a set flag means that no cell but one is free, so  *)
(* that getchar never takes equal indices for a full ring.                 *)
(***************************************************************************)
EXTENDS UartFifo, TLAPS

\* A sequence with the elements of s, then c, is Append(s, c).
LEMMA IsAppend ==
  ASSUME NEW S, NEW s \in Seq(S), NEW c \in S, NEW g \in Seq(S), Len(g) = Len(s) + 1,
         \A i \in 1 .. Len(s) : g[i] = s[i], g[Len(s) + 1] = c
  PROVE  g = Append(s, c)
<1>1. Append(s, c) \in Seq(S) /\ Len(Append(s, c)) = Len(s) + 1 /\ Append(s, c)[Len(s) + 1] = c
  OBVIOUS
<1>2. \A i \in 1 .. Len(s) : Append(s, c)[i] = s[i]
  OBVIOUS
<1>3. \A i \in 1 .. Len(g) : g[i] = Append(s, c)[i]
  <2>1. Len(s) \in Nat
    OBVIOUS
  <2>2. \A i \in 1 .. Len(g) : i \in 1 .. Len(s) \/ i = Len(s) + 1
    BY <2>1
  <2> QED BY <1>1, <1>2, <2>2
<1> DEFINE r == Append(s, c)
<1>4. r \in Seq(S) /\ Len(r) = Len(g) /\ \A i \in 1 .. Len(g) : g[i] = r[i]
  BY <1>1, <1>3
<1> HIDE DEF r
<1>5. g = r
  BY <1>4
<1> QED BY <1>5 DEF r

\* A sequence with the elements of s but the first is Tail(s).
LEMMA IsTail ==
  ASSUME NEW S, NEW s \in Seq(S), NEW g \in Seq(S), Len(s) > 0, Len(g) = Len(s) - 1,
         \A i \in 1 .. Len(g) : g[i] = s[i + 1]
  PROVE  g = Tail(s)
<1> DEFINE r == Tail(s)
<1>1. r \in Seq(S) /\ Len(r) = Len(g) /\ \A i \in 1 .. Len(g) : g[i] = r[i]
  OBVIOUS
<1> HIDE DEF r
<1>2. g = r
  BY <1>1
<1> QED BY <1>2 DEF r

Safe == TypeOK /\ FullFlagInv

\* An index of the buffer advances to an index of the buffer.
LEMMA AdvanceIndex ==
  ASSUME NEW i \in Index
  PROVE  Advance(i) \in Index /\ Advance(i) = IF i = UART_BUF_SIZE - 1 THEN 0 ELSE i + 1
  BY SizeAssumption DEF Index, Advance

\* The ring holds fewer characters than it has cells, in distinct cells, and
\* the cell of put_index holds none of them.
LEMMA CellFacts ==
  ASSUME TypeOK
  PROVE  /\ Unread \in 0 .. UART_BUF_SIZE - 1
         /\ \A i \in 1 .. UART_BUF_SIZE : Cell(i) \in Index
         /\ \A i \in 1 .. Unread : Cell(i) # put_index
         /\ Cell(Unread + 1) = put_index
         /\ Cell(1) = get_index
         /\ Unread = 0 <=> get_index = put_index
<1>1. /\ put_index \in Int /\ get_index \in Int /\ UART_BUF_SIZE \in Int /\ UART_BUF_SIZE >= 2
      /\ 0 <= put_index /\ put_index <= UART_BUF_SIZE - 1
      /\ 0 <= get_index /\ get_index <= UART_BUF_SIZE - 1
  BY SizeAssumption DEF TypeOK, Index
<1> QED BY <1>1 DEF Unread, Cell, Index

\* The unread characters, as a sequence.
LEMMA PendingSeq ==
  ASSUME TypeOK
  PROVE  /\ Pending \in Seq(Char \cup {NoChar}) /\ Len(Pending) = Unread
         /\ \A i \in 1 .. Unread : Pending[i] = buffer[Cell(i)]
<1>1. Unread \in Nat /\ \A i \in 1 .. Unread : buffer[Cell(i)] \in Char \cup {NoChar}
  BY CellFacts, SizeAssumption DEF TypeOK
<1> QED BY <1>1 DEF Pending

\* rt_hw_serial_isr and getchar keep the indices and the flag consistent.
LEMMA SafeStep ==
  ASSUME Safe, [Next]_vars
  PROVE  Safe'
<1>1. /\ put_index \in Index /\ get_index \in Index /\ UART_BUF_SIZE \in Nat /\ UART_BUF_SIZE >= 2
      /\ Advance(put_index) \in Index /\ Advance(get_index) \in Index
  BY AdvanceIndex, SizeAssumption DEF Safe, TypeOK
<1>2. ASSUME NEW c \in Char, rt_hw_serial_isr(c) PROVE Safe'
  <2>1. TypeOK'
    BY <1>1, <1>2 DEF Safe, TypeOK, rt_hw_serial_isr
  <2>2. FullFlagInv'
    <3>1. CASE put_index' = get_index
      BY <1>1, <1>2, <3>1 DEF rt_hw_serial_isr, FullFlagInv, Unread, Advance, Index
    <3>2. CASE put_index' # get_index
      BY <1>1, <1>2, <3>2 DEF rt_hw_serial_isr, FullFlagInv, Unread, Advance, Index, Safe
    <3> QED BY <3>1, <3>2
  <2> QED BY <2>1, <2>2 DEF Safe
<1>3. CASE getchar
  <2>1. ch' \in Char \cup {NoChar}
    BY <1>1, <1>3 DEF Safe, TypeOK, getchar
  <2> QED BY <1>1, <1>3, <2>1 DEF Safe, TypeOK, FullFlagInv, getchar
<1>4. CASE UNCHANGED vars
  BY <1>4 DEF vars, Safe, TypeOK, FullFlagInv, Unread
<1> QED BY <1>2, <1>3, <1>4 DEF Next

\* uart2GetCharInit leaves an empty, consistent ring.
LEMMA SafeInit ==
  ASSUME Init
  PROVE  Safe
  BY SizeAssumption DEF Init, Safe, TypeOK, FullFlagInv, Index

\* A character that arrives joins the unread ones, for the oldest if need be.
LEMMA ReceiveStep ==
  ASSUME Safe, Safe', NEW c \in Char, rt_hw_serial_isr(c)
  PROVE  Queue!Receive(c)
<1>1. /\ put_index \in Index /\ get_index \in Index /\ UART_BUF_SIZE \in Nat /\ UART_BUF_SIZE >= 2
      /\ put_index' = Advance(put_index) /\ Index \subseteq Int
      /\ \A i \in Index \ {put_index} : buffer'[i] = buffer[i]
      /\ buffer'[put_index] = c /\ ch' = ch
  BY SizeAssumption DEF Safe, TypeOK, rt_hw_serial_isr, Index
<1>2. /\ Unread \in 0 .. UART_BUF_SIZE - 1 /\ \A i \in 1 .. UART_BUF_SIZE : Cell(i) \in Index
      /\ \A i \in 1 .. Unread : Cell(i) # put_index
      /\ Cell(Unread + 1) = put_index
      /\ Pending \in Seq(Char \cup {NoChar}) /\ Len(Pending) = Unread
      /\ \A i \in 1 .. Unread : Pending[i] = buffer[Cell(i)]
  BY CellFacts, PendingSeq DEF Safe
<1>3. CASE put_index' # get_index
  <2>1. Unread' = Unread + 1 /\ Unread # UART_BUF_SIZE - 1 /\ \A i \in Int : Cell(i)' = Cell(i)
    BY <1>1, <1>3 DEF rt_hw_serial_isr, Unread, Cell, Advance, Index
  <2>2. Pending' = [i \in 1 .. Unread + 1 |-> buffer'[Cell(i)]]
    BY <1>2, <2>1 DEF Pending
  <2> DEFINE g == [i \in 1 .. Unread + 1 |-> buffer'[Cell(i)]]
  <2>3. \A i \in 1 .. Unread : i \in 1 .. UART_BUF_SIZE /\ buffer'[Cell(i)] = Pending[i]
    <3>1. \A i \in 1 .. Unread : i \in 1 .. UART_BUF_SIZE
      BY <1>1, <1>2
    <3>2. \A i \in 1 .. Unread : Cell(i) \in Index \ {put_index}
      BY <1>2, <3>1
    <3> QED BY <1>1, <1>2, <3>1, <3>2
  <2>4. /\ g \in Seq(Char \cup {NoChar}) /\ Len(g) = Unread + 1 /\ g[Unread + 1] = c
        /\ \A i \in 1 .. Unread : g[i] = Pending[i]
    <3>1. \A i \in 1 .. Unread + 1 : buffer'[Cell(i)] \in Char \cup {NoChar}
      <4>1. \A i \in 1 .. Unread : Pending[i] \in Char \cup {NoChar}
        BY <1>2
      <4>2. \A i \in 1 .. Unread + 1 : i \in 1 .. Unread \/ i = Unread + 1
        BY <1>2
      <4> QED BY <1>1, <1>2, <2>3, <4>1, <4>2
    <3> QED BY <1>1, <1>2, <2>3, <3>1
  <2> HIDE DEF g
  <2>5. g = Append(Pending, c)
    BY <1>2, <2>4, IsAppend
  <2>6. Pending' = Append(Pending, c)
    BY <2>2, <2>5 DEF g
  <2> QED BY <1>1, <1>2, <2>1, <2>6 DEF Queue!Receive
<1>4. CASE put_index' = get_index
  <2>1. /\ Unread' = Unread /\ Unread = UART_BUF_SIZE - 1
        /\ \A i \in 1 .. Unread : Cell(i)' = Cell(i + 1)
    BY <1>1, <1>4 DEF rt_hw_serial_isr, Unread, Cell, Advance, Index
  <2>2. Pending' = [i \in 1 .. Unread |-> buffer'[Cell(i + 1)]]
    BY <1>2, <2>1 DEF Pending
  <2> DEFINE q == Tail(Pending)
             g == [i \in 1 .. Unread |-> buffer'[Cell(i + 1)]]
  <2>3. /\ q \in Seq(Char \cup {NoChar}) /\ Len(q) = Unread - 1
        /\ \A i \in 1 .. Unread - 1 : q[i] = Pending[i + 1]
    BY <1>1, <1>2, <2>1
  <2> HIDE DEF q
  <2>4. \A i \in 1 .. Unread - 1 : buffer'[Cell(i + 1)] = q[i]
    <3>1. ASSUME NEW i \in 1 .. Unread - 1 PROVE buffer'[Cell(i + 1)] = q[i]
      <4>1. i + 1 \in 1 .. Unread /\ i + 1 \in 1 .. UART_BUF_SIZE
        BY <1>1, <1>2, <3>1
      <4>2. buffer'[Cell(i + 1)] = Pending[i + 1]
        BY <1>1, <1>2, <4>1
      <4> QED BY <2>3, <3>1, <4>2
    <3> QED BY <3>1
  <2>5. /\ g \in Seq(Char \cup {NoChar}) /\ Len(g) = Unread /\ g[Unread] = c
        /\ \A i \in 1 .. Unread - 1 : g[i] = q[i]
    <3>1. \A i \in 1 .. Unread : i \in 1 .. Unread - 1 \/ i = Unread
      BY <1>2
    <3>2. \A i \in 1 .. Unread - 1 : q[i] \in Char \cup {NoChar}
      BY <2>3
    <3>3. \A i \in 1 .. Unread : buffer'[Cell(i + 1)] \in Char \cup {NoChar}
      BY <1>1, <1>2, <2>4, <3>1, <3>2
    <3> QED BY <1>1, <1>2, <2>1, <2>4, <3>3
  <2> HIDE DEF g
  <2>6. g = Append(q, c)
    <3>1. Len(g) = Len(q) + 1 /\ g[Len(q) + 1] = c /\ \A i \in 1 .. Len(q) : g[i] = q[i]
      BY <1>2, <2>3, <2>5
    <3> QED BY <2>3, <2>5, <3>1, IsAppend
  <2>7. Pending' = Append(q, c)
    BY <2>2, <2>6 DEF g
  <2> QED BY <1>1, <1>2, <2>1, <2>7 DEF Queue!Receive, q
<1> QED BY <1>3, <1>4

\* getchar returns the oldest unread character.
LEMMA ReturnStep ==
  ASSUME Safe, Safe', getchar
  PROVE  Queue!Return
<1>1. /\ put_index \in Index /\ get_index \in Index /\ UART_BUF_SIZE \in Nat /\ UART_BUF_SIZE >= 2
      /\ get_index' = Advance(get_index) /\ put_index' = put_index /\ buffer' = buffer
      /\ ch' = buffer[get_index]
  BY SizeAssumption DEF Safe, TypeOK, getchar
<1>2. /\ Unread \in 0 .. UART_BUF_SIZE - 1 /\ Cell(1) = get_index
      /\ Pending \in Seq(Char \cup {NoChar}) /\ Len(Pending) = Unread
      /\ \A i \in 1 .. Unread : Pending[i] = buffer[Cell(i)]
      /\ Unread = 0 <=> get_index = put_index
  BY CellFacts, PendingSeq DEF Safe
<1>3. Unread > 0
  BY <1>1, <1>2 DEF getchar, Safe, TypeOK, FullFlagInv
<1>4. Unread' = Unread - 1 /\ \A i \in 1 .. Unread - 1 : Cell(i)' = Cell(i + 1)
  BY <1>1, <1>3 DEF Unread, Cell, Advance, Index
<1>5. Pending' = [i \in 1 .. Unread - 1 |-> buffer[Cell(i + 1)]]
  BY <1>1, <1>4 DEF Pending
<1>6. \A i \in 1 .. Unread - 1 : buffer[Cell(i + 1)] = Pending[i + 1]
  BY <1>1, <1>2, <1>3
<1> DEFINE g == [i \in 1 .. Unread - 1 |-> buffer[Cell(i + 1)]]
<1>7. Pending' = Tail(Pending)
  <2>1. \A i \in 1 .. Unread - 1 : Pending[i + 1] \in Char \cup {NoChar}
    BY <1>2
  <2>2. g \in Seq(Char \cup {NoChar}) /\ Len(g) = Unread - 1 /\ \A i \in 1 .. Unread - 1 : g[i] = Pending[i + 1]
    BY <1>2, <1>3, <1>6, <2>1
  <2> HIDE DEF g
  <2>3. g = Tail(Pending)
    BY <1>2, <1>3, <2>2, IsTail
  <2> QED BY <1>5, <2>3 DEF g
<1>8. Pending # <<>> /\ ch' = Head(Pending)
  BY <1>1, <1>2, <1>3
<1> QED BY <1>7, <1>8 DEF Queue!Return

-----------------------------------------------------------------------------
\* The ring is safe in every state.
LEMMA AlwaysSafe == Spec => []Safe
<1>1. Init => Safe
  BY SafeInit
<1>2. Safe /\ [Next]_vars => Safe'
  BY SafeStep
<1> QED BY <1>1, <1>2, PTL DEF Spec

\* The indices stay inside the buffer and every cell holds a character or none.
THEOREM RingTyped == Spec => []TypeOK
<1>1. Safe => TypeOK
  BY DEF Safe
<1> QED BY <1>1, AlwaysSafe, PTL

\* is_full is set only while the ring is full, whatever the order of
\* interrupts and polls.
THEOREM FullFlagAlwaysTrue == Spec => []FullFlagInv
<1>1. Safe => FullFlagInv
  BY DEF Safe
<1> QED BY <1>1, AlwaysSafe, PTL

\* The ring implements a FIFO of UART_BUF_SIZE - 1 characters that drops its
\* oldest character when it is full.
THEOREM RingRefines == Spec => RefinesRxQueue
<1>1. Init => Safe /\ Queue!Init
  <2>1. ASSUME Init PROVE Safe /\ Queue!Init
    <3>1. Safe
      BY <2>1, SafeInit
    <3>2. Unread = 0 /\ ch = NoChar
      BY <2>1 DEF Init, Unread
    <3>3. Pending \in Seq(Char \cup {NoChar}) /\ Len(Pending) = 0
      BY <3>1, <3>2, PendingSeq DEF Safe
    <3> QED BY <3>1, <3>2, <3>3 DEF Queue!Init
  <2> QED BY <2>1
<1>2. Safe /\ [Next]_vars => Safe'
  BY SafeStep
<1>3. Safe /\ Safe' /\ [Next]_vars => [Queue!Next]_(Queue!vars)
  <2>1. ASSUME Safe, Safe', NEW c \in Char, rt_hw_serial_isr(c) PROVE Queue!Next
    BY <2>1, ReceiveStep DEF Queue!Next
  <2>2. ASSUME Safe, Safe', getchar PROVE Queue!Next
    BY <2>2, ReturnStep DEF Queue!Next
  <2>3. ASSUME UNCHANGED vars PROVE UNCHANGED Queue!vars
    BY <2>3 DEF vars, Queue!vars, Pending, Unread, Cell
  <2> QED BY <2>1, <2>2, <2>3 DEF Next
<1> QED BY <1>1, <1>2, <1>3, PTL DEF Spec, RefinesRxQueue, Queue!Spec

=============================================================================
