--------------------------- MODULE MailboxProofs ----------------------------
(***************************************************************************)
(* The mailbox of Mailbox, for every size, every set of threads, messages  *)
(* and timeouts.                                                           *)
(*                                                                         *)
(* First its ring, which implements the FIFO of MbFifo: a step of Mailbox  *)
(* does one of three things to the ring, and the scheduler has no part in  *)
(* it.  What has to be carried along is that the call of a thread that     *)
(* waited still has its message when it tests the ring again.              *)
(*                                                                         *)
(* Then its calls on the scheduler: KernelInv keeps the lists of the       *)
(* kernel and ties each waiting thread to its call, NoLost counts the      *)
(* awake threads, InTime relates tick_delta, what is left of a timeout and *)
(* the timer of a wait.  Their lemmas are about an arbitrary kernel state, *)
(* so that they compose over the calls a handler makes.                    *)
(***************************************************************************)
EXTENDS Mailbox, KernelProofs

\* A sequence with the elements of s, then c, is Append(s, c).
LEMMA IsAppend ==
  ASSUME NEW S, NEW s \in Seq(S), NEW c \in S, NEW g \in Seq(S), Len(g) = Len(s) + 1,
         \A i \in 1 .. Len(s) : g[i] = s[i], g[Len(s) + 1] = c
  PROVE  g = Append(s, c)
<1>1. Append(s, c) \in Seq(S) /\ Len(Append(s, c)) = Len(s) + 1 /\ Append(s, c)[Len(s) + 1] = c
  OBVIOUS
<1>2. \A i \in 1 .. Len(s) : Append(s, c)[i] = s[i]
  OBVIOUS
<1>3. \A i \in 1 .. Len(g) : g[i] = Append(s, c)[i]
  <2>1. Len(s) \in Nat
    OBVIOUS
  <2>2. \A i \in 1 .. Len(g) : i \in 1 .. Len(s) \/ i = Len(s) + 1
    BY <2>1
  <2> QED BY <1>1, <1>2, <2>2
<1> DEFINE r == Append(s, c)
<1>4. r \in Seq(S) /\ Len(r) = Len(g) /\ \A i \in 1 .. Len(g) : g[i] = r[i]
  BY <1>1, <1>3
<1> HIDE DEF r
<1>5. g = r
  BY <1>4
<1> QED BY <1>5 DEF r

\* A sequence with the elements of s but the first is Tail(s).
LEMMA IsTail ==
  ASSUME NEW S, NEW s \in Seq(S), NEW g \in Seq(S), Len(s) > 0, Len(g) = Len(s) - 1,
         \A i \in 1 .. Len(g) : g[i] = s[i + 1]
  PROVE  g = Tail(s)
<1> DEFINE r == Tail(s)
<1>1. r \in Seq(S) /\ Len(r) = Len(g) /\ \A i \in 1 .. Len(g) : g[i] = r[i]
  OBVIOUS
<1> HIDE DEF r
<1>2. g = r
  BY <1>1
<1> QED BY <1>2 DEF r

\* The ring: its indices agree, and the messages between them are messages.
RingInv ==
  /\ msg_pool \in [Index -> Msg \cup {NoMsg}]
  /\ entry \in 0 .. Size /\ in_offset \in Index /\ out_offset \in Index
  /\ got \in Msg \cup {NoMsg}
  /\ RingExact
  /\ \A i \in 1 .. entry : msg_pool[Cell(i)] \in Msg

IsCall(c) == {"op", "msg"} \subseteq DOMAIN c /\ (c.op = "send" => c.msg \in Msg)

\* A call that sends has a message.
CallInv ==
  /\ DOMAIN call = Thread /\ call = [t \in DOMAIN call |-> call[t]]
  /\ \A t \in Thread : IsCall(call[t])

Safe == RingInv /\ CallInv

\* What a step may do to the ring.
RingStep ==
  \/ \E v \in Msg : entry < Size /\ Store(v)
  \/ entry > 0 /\ Fetch
  \/ UNCHANGED ring

\* The call between two uses is no send.
LEMMA NoCallFacts == IsCall(NoCall)
  BY DEF IsCall, NoCall

\* One thread's call is replaced.
LEMMA SetCall ==
  ASSUME CallInv, NEW t \in Thread, NEW c, IsCall(c), call' = [call EXCEPT ![t] = c]
  PROVE  CallInv'
  BY DEF CallInv

\* A turn of the loop of rt_mb_send_wait or rt_mb_recv.
LEMMA LoopStep ==
  ASSUME CallInv, NEW t \in Thread, NEW c, IsCall(c), Loop(t, c)
  PROVE  RingStep /\ CallInv'
<1>1. CASE Passes(c) /\ Transfer(t, c)
  <2>1. call' = [call EXCEPT ![t] = NoCall]
    BY <1>1 DEF Transfer, Return
  <2>2. CallInv'
    BY <2>1, NoCallFacts, SetCall
  <2>3. CASE c.op = "send"
    <3>1. c.msg \in Msg /\ entry < Size /\ Store(c.msg)
      BY <1>1, <2>3 DEF Transfer, Passes, IsCall
    <3> QED BY <2>2, <3>1 DEF RingStep
  <2>4. CASE c.op # "send"
    <3>1. entry > 0 /\ Fetch
      BY <1>1, <2>4 DEF Transfer, Passes
    <3> QED BY <2>2, <3>1 DEF RingStep
  <2> QED BY <2>3, <2>4
<1>2. CASE GiveUp(t, c)
  <2>1. call' = [call EXCEPT ![t] = NoCall] /\ UNCHANGED ring
    BY <1>2 DEF GiveUp, Return
  <2> QED BY <2>1, NoCallFacts, SetCall DEF RingStep
<1>3. CASE Suspend(t, c)
  <2> DEFINE d == [c EXCEPT !.delta = IF c.timeout > 0 THEN k.tick ELSE @]
  <2>1. call' = [call EXCEPT ![t] = d] /\ UNCHANGED ring
    BY <1>3 DEF Suspend
  <2>2. IsCall(d)
    BY DEF IsCall
  <2> HIDE DEF d
  <2> QED BY <2>1, <2>2, SetCall DEF RingStep
<1> QED BY <1>1, <1>2, <1>3 DEF Loop

\* A new call has a message if it sends one.
LEMMA NewCall ==
  ASSUME NEW o, NEW v, NEW i, NEW n, o = "send" => v \in Msg
  PROVE  IsCall([NoCall EXCEPT !.op = o, !.msg = v, !.timeout = i,
                               !.since = n, !.limit = i])
<1> DEFINE c == [NoCall EXCEPT !.op = o, !.msg = v, !.timeout = i, !.since = n, !.limit = i]
<1>1. c.op = o /\ c.msg = v
  BY DEF NoCall
<1>2. {"op", "msg"} \subseteq DOMAIN c
  BY DEF NoCall
<1> HIDE DEF c
<1>3. IsCall(c)
  BY <1>1, <1>2 DEF IsCall
<1> QED BY <1>3 DEF c

\* A call is entered with a message if it sends one.
LEMMA EnterStep ==
  ASSUME CallInv, NEW t \in Thread, NEW o, NEW v, NEW i, o = "send" => v \in Msg,
         Enter(t, o, v, i)
  PROVE  RingStep /\ CallInv'
<1> DEFINE c == [NoCall EXCEPT !.op = o, !.msg = v, !.timeout = i,
                               !.since = k.tick, !.limit = i]
<1>1. Loop(t, c)
  BY DEF Enter
<1>2. IsCall(c)
  BY NewCall
<1> HIDE DEF c
<1> QED BY <1>1, <1>2, LoopStep

\* Every step of the mailbox, its callers and the handlers.
LEMMA NextStep ==
  ASSUME CallInv, [Next]_vars
  PROVE  RingStep /\ CallInv'
<1>1. CASE sys_tick_handler
  BY <1>1 DEF sys_tick_handler, RingStep, CallInv
<1>2. ASSUME NEW v \in Isr, eth_device_ready(v) PROVE RingStep /\ CallInv'
  <2>1. v \in Msg
    BY MailboxAssumption
  <2>2. call' = call
    BY <1>2 DEF eth_device_ready
  <2>3. (entry < Size /\ Store(v)) \/ UNCHANGED ring
    BY <1>2 DEF eth_device_ready
  <2> QED BY <2>1, <2>2, <2>3 DEF RingStep, CallInv
<1>3. ASSUME NEW t \in Thread, Schedule(t) PROVE RingStep /\ CallInv'
  BY <1>3 DEF Schedule, RingStep, CallInv
<1>4. ASSUME NEW t \in Thread, Resume(t) PROVE RingStep /\ CallInv'
  <2>1. CASE Return(t, "user") /\ UNCHANGED <<k, ring>>
    <3>1. call' = [call EXCEPT ![t] = NoCall] /\ UNCHANGED ring
      BY <2>1 DEF Return
    <3> QED BY <3>1, NoCallFacts, SetCall DEF RingStep
  <2> DEFINE c == [call[t] EXCEPT !.timeout = Left(call[t])]
  <2>2. CASE Loop(t, c)
    <3>1. IsCall(call[t])
      BY DEF CallInv
    <3>2. IsCall(c)
      BY <3>1 DEF IsCall
    <3> HIDE DEF c
    <3> QED BY <2>2, <3>2, LoopStep
  <2> QED BY <1>4, <2>1, <2>2 DEF Resume
<1>5. ASSUME NEW t \in Sender, NEW i \in Posts, NEW v \in Posted[t], rt_mb_send_wait(t, v, i)
      PROVE  RingStep /\ CallInv'
  <2>1. t \in Thread /\ v \in Msg
    BY MailboxAssumption
  <2> QED BY <1>5, <2>1, EnterStep DEF rt_mb_send_wait
<1>6. ASSUME NEW t \in Receiver, NEW i, rt_mb_recv(t, i) PROVE RingStep /\ CallInv'
  <2>1. t \in Thread /\ "recv" # "send"
    BY MailboxAssumption
  <2> QED BY <1>6, <2>1, EnterStep DEF rt_mb_recv
<1>7. ASSUME NEW t \in Receiver, NEW i \in Fetches, sys_arch_mbox_fetch(t, i)
      PROVE  RingStep /\ CallInv'
  BY <1>6, <1>7 DEF sys_arch_mbox_fetch
<1>8. CASE UNCHANGED vars
  BY <1>8 DEF vars, ring, RingStep, CallInv
<1> QED BY <1>1, <1>2, <1>3, <1>4, <1>5, <1>6, <1>7, <1>8 DEF Next

-----------------------------------------------------------------------------
\* The cells of the messages are cells of the ring, and distinct from the cell
\* that the next message goes to.
LEMMA CellFacts ==
  ASSUME RingInv
  PROVE  /\ Size \in Nat /\ Size >= 1 /\ entry \in Nat /\ entry <= Size
         /\ \A i \in 1 .. Size : Cell(i) \in Index
         /\ entry < Size => \A i \in 1 .. entry : Cell(i) # in_offset
         /\ in_offset = Cell(entry + 1)
         /\ Cell(1) = out_offset
<1>1. /\ Size \in Int /\ Size >= 1
      /\ entry \in Int /\ 0 <= entry /\ entry <= Size
      /\ out_offset \in Int /\ 0 <= out_offset /\ out_offset <= Size - 1
      /\ in_offset = Cell(entry + 1)
  BY MailboxAssumption DEF RingInv, RingExact, Index
<1> QED BY <1>1 DEF Cell, Index

\* An index of the ring advances to an index of the ring.
LEMMA AdvanceIndex ==
  ASSUME NEW i \in Index
  PROVE  Advance(i) \in Index /\ Advance(i) = IF i = Size - 1 THEN 0 ELSE i + 1
  BY MailboxAssumption DEF Index, Advance

\* The messages of the ring, as a sequence.
LEMMA PendingSeq ==
  ASSUME RingInv
  PROVE  /\ Pending \in Seq(Msg) /\ Len(Pending) = entry
         /\ \A i \in 1 .. entry : Pending[i] = msg_pool[Cell(i)]
<1>1. entry \in Nat /\ \A i \in 1 .. entry : msg_pool[Cell(i)] \in Msg
  BY CellFacts DEF RingInv
<1> QED BY <1>1 DEF Pending

\* A message is stored: the ring stays a ring, and the FIFO accepts it.
LEMMA StoreStep ==
  ASSUME RingInv, NEW v \in Msg, entry < Size, Store(v)
  PROVE  RingInv' /\ Fifo!Accept(v)
<1>1. /\ Size \in Nat /\ Size >= 1 /\ entry \in Nat
      /\ \A i \in 1 .. Size : Cell(i) \in Index
      /\ \A i \in 1 .. entry : Cell(i) # in_offset
      /\ in_offset = Cell(entry + 1)
  BY CellFacts
<1>2. /\ in_offset \in Index /\ out_offset \in Index /\ Index \subseteq Int
      /\ out_offset' = out_offset /\ got' = got /\ entry' = entry + 1
      /\ in_offset' = Advance(in_offset)
      /\ msg_pool' \in [Index -> Msg \cup {NoMsg}]
      /\ msg_pool'[in_offset] = v
      /\ \A i \in Index \ {in_offset} : msg_pool'[i] = msg_pool[i]
  BY DEF Store, RingInv, Index
<1>3. \A i \in Int : Cell(i)' = Cell(i)
  BY <1>2 DEF Cell
<1>4. Advance(in_offset) \in Index /\ Advance(in_offset) = Cell(entry + 2)
  <2>1. Advance(in_offset) \in Index /\ Advance(in_offset) = IF in_offset = Size - 1 THEN 0 ELSE in_offset + 1
    BY <1>2, AdvanceIndex
  <2> QED BY <1>1, <1>2, <2>1 DEF Cell, Index
<1>5. RingExact'
  <2>2. Cell(entry + 1)' = Cell(entry + 2)
    BY <1>1, <1>2 DEF Cell
  <2> QED BY <1>2, <1>4, <2>2 DEF RingExact
<1>6. \A i \in 1 .. entry : msg_pool'[Cell(i)] = Pending[i] /\ Pending[i] \in Msg
  <2>1. ASSUME NEW i \in 1 .. entry PROVE msg_pool'[Cell(i)] = Pending[i] /\ Pending[i] \in Msg
    <3>1. i \in 1 .. Size
      BY <1>1
    <3>2. Cell(i) \in Index \ {in_offset}
      BY <1>1, <3>1
    <3> QED BY <1>2, <3>2, PendingSeq DEF RingInv
  <2> QED BY <2>1
<1>7. \A i \in 1 .. entry + 1 : msg_pool'[Cell(i)] \in Msg
  <2>1. \A i \in 1 .. entry + 1 : i \in 1 .. entry \/ i = entry + 1
    BY <1>1
  <2> QED BY <1>1, <1>2, <1>6, <2>1
<1>8. RingInv'
  <2>1. entry' \in 0 .. Size
    BY <1>1, <1>2
  <2>2. \A i \in 1 .. entry' : msg_pool'[Cell(i)'] \in Msg
    BY <1>1, <1>2, <1>3, <1>7
  <2> QED BY <1>2, <1>4, <1>5, <2>1, <2>2 DEF RingInv
<1> DEFINE g == [i \in 1 .. entry + 1 |-> msg_pool'[Cell(i)]]
<1>9. Pending' = g
  BY <1>1, <1>2, <1>3 DEF Pending
<1>10. /\ g \in Seq(Msg) /\ Len(g) = entry + 1 /\ g[entry + 1] = v
       /\ \A i \in 1 .. entry : g[i] = Pending[i]
  BY <1>1, <1>2, <1>6, <1>7
<1> HIDE DEF g
<1>11. g = Append(Pending, v)
  BY <1>1, <1>10, PendingSeq, IsAppend
<1> QED BY <1>2, <1>8, <1>9, <1>11, PendingSeq DEF Fifo!Accept

\* A message is fetched: the ring stays a ring, and the FIFO delivers it.
LEMMA FetchStep ==
  ASSUME RingInv, entry > 0, Fetch
  PROVE  RingInv' /\ Fifo!Deliver
<1>1. /\ Size \in Nat /\ Size >= 1 /\ entry \in Nat /\ entry >= 1 /\ entry <= Size
      /\ in_offset = Cell(entry + 1) /\ Cell(1) = out_offset
  BY CellFacts
<1>2. /\ in_offset \in Index /\ out_offset \in Index /\ Index \subseteq Int
      /\ in_offset' = in_offset /\ msg_pool' = msg_pool
      /\ got' = msg_pool[out_offset] /\ entry' = entry - 1
      /\ out_offset' = Advance(out_offset)
  BY DEF Fetch, RingInv, Index
<1>3. Advance(out_offset) \in Index /\ Advance(out_offset) = IF out_offset = Size - 1 THEN 0 ELSE out_offset + 1
  BY <1>2, AdvanceIndex
<1>4. \A i \in 1 .. entry : Cell(i)' = Cell(i + 1)
  BY <1>1, <1>2, <1>3 DEF Cell, Index
<1>5. RingExact'
  <2>1. Cell(entry + 1)' = Cell(entry + 1)
    BY <1>1, <1>2, <1>3 DEF Cell, Index
  <2> QED BY <1>1, <1>2, <2>1 DEF RingExact
<1>6. /\ Pending \in Seq(Msg) /\ Len(Pending) = entry
      /\ \A i \in 1 .. entry : Pending[i] = msg_pool[Cell(i)] /\ Pending[i] \in Msg
  BY PendingSeq DEF RingInv
<1>7. \A i \in 1 .. entry - 1 : msg_pool[Cell(i)'] = Pending[i + 1] /\ Pending[i + 1] \in Msg
  BY <1>1, <1>4, <1>6
<1>8. got' = Pending[1] /\ Pending[1] \in Msg
  BY <1>1, <1>2, <1>6
<1>9. RingInv'
  <2>1. entry' \in 0 .. Size
    BY <1>1, <1>2
  <2>2. \A i \in 1 .. entry' : msg_pool'[Cell(i)'] \in Msg
    BY <1>1, <1>2, <1>7
  <2>3. msg_pool' \in [Index -> Msg \cup {NoMsg}]
    BY <1>2 DEF RingInv
  <2> QED BY <1>2, <1>3, <1>5, <1>8, <2>1, <2>2, <2>3 DEF RingInv
<1> DEFINE g == [i \in 1 .. entry - 1 |-> msg_pool[Cell(i)']]
<1>10. Pending' = g
  BY <1>1, <1>2 DEF Pending
<1>11. g \in Seq(Msg) /\ Len(g) = entry - 1 /\ \A i \in 1 .. entry - 1 : g[i] = Pending[i + 1]
  BY <1>1, <1>7
<1> HIDE DEF g
<1>12. g = Tail(Pending)
  BY <1>1, <1>6, <1>11, IsTail
<1>13. Pending # <<>> /\ got' = Head(Pending)
  BY <1>1, <1>6, <1>8
<1> QED BY <1>9, <1>10, <1>12, <1>13 DEF Fifo!Deliver

\* A step that leaves the ring alone leaves the FIFO alone.
LEMMA IdleStep ==
  ASSUME RingInv, UNCHANGED ring
  PROVE  RingInv' /\ UNCHANGED Fifo!vars
<1>1. RingInv'
  BY DEF ring, RingInv, RingExact, Cell
<1>2. Pending' = Pending /\ got' = got
  BY DEF ring, Pending, Cell
<1> QED BY <1>1, <1>2 DEF Fifo!vars

\* rt_mb_init makes an empty ring.
LEMMA SafeInit ==
  ASSUME Init
  PROVE  Safe /\ Fifo!Init
<1>1. /\ msg_pool = [i \in Index |-> NoMsg] /\ entry = 0 /\ in_offset = 0
      /\ out_offset = 0 /\ got = NoMsg /\ call = [t \in Thread |-> NoCall]
  BY DEF Init
<1>2. RingInv
  BY <1>1, MailboxAssumption DEF RingInv, RingExact, Cell, Index
<1>3. CallInv
  BY <1>1, NoCallFacts DEF CallInv
<1>4. Pending \in Seq(Msg) /\ Len(Pending) = 0
  BY <1>1, <1>2, PendingSeq
<1> QED BY <1>1, <1>2, <1>3, <1>4 DEF Safe, Fifo!Init

\* Every step keeps the ring and is a step of the FIFO or none.
LEMMA SafeStep ==
  ASSUME Safe, [Next]_vars
  PROVE  Safe' /\ [Fifo!Next]_(Fifo!vars)
<1>1. RingStep /\ CallInv'
  BY NextStep DEF Safe
<1>2. ASSUME NEW v \in Msg, entry < Size, Store(v) PROVE RingInv' /\ Fifo!Next
  <2>1. RingInv' /\ Fifo!Accept(v)
    BY <1>2, StoreStep DEF Safe
  <2> QED BY <1>2, <2>1 DEF Fifo!Next
<1>3. ASSUME entry > 0, Fetch PROVE RingInv' /\ Fifo!Next
  BY <1>3, FetchStep DEF Safe, Fifo!Next
<1>4. ASSUME UNCHANGED ring PROVE RingInv' /\ UNCHANGED Fifo!vars
  BY <1>4, IdleStep DEF Safe
<1> QED BY <1>1, <1>2, <1>3, <1>4 DEF Safe, RingStep

-----------------------------------------------------------------------------
\* entry, in_offset and out_offset always describe the same ring, although
\* rt_mb_send_wait and rt_mb_recv update them apart and from any number of
\* threads and the Ethernet handler.
THEOREM MailboxRing == Spec => []RingExact
<1>1. Init => Safe
  BY SafeInit
<1>2. Safe /\ [Next]_vars => Safe'
  BY SafeStep
<1>3. Safe => RingExact
  BY DEF Safe, RingInv
<1> QED BY <1>1, <1>2, <1>3, PTL DEF Spec

\* A mailbox is a FIFO of Size messages: each accepted message is delivered
\* once and in order, whoever waits, times out or is woken in vain.
THEOREM MailboxRefines == Spec => RefinesFifo
<1>1. Init => Safe /\ Fifo!Init
  BY SafeInit
<1>2. Safe /\ [Next]_vars => Safe' /\ [Fifo!Next]_(Fifo!vars)
  BY SafeStep
<1> QED BY <1>1, <1>2, PTL DEF Spec, RefinesFifo, Fifo!Spec

-----------------------------------------------------------------------------
\* Leaves go to Zenon unless they name the SMT solver; the time is ample.
USE ZenonT(60)

\* The scheduler under the mailbox.  What follows is about a kernel state k1
\* with the places q and the calls d of the threads, so that it can be used
\* for the states inside a handler.

\* The wait queue of a call.
Own(op) == IF op = "send" THEN SendQ ELSE RecvQ

\* A thread in a wait queue is in a call of its kind and has no error yet.
Waits(k1, t, q, d) ==
  /\ k1.statu[t] \in {"READY", "RUNNING", "SUSPEND"}
  /\ \A h \in Wait : t \in Nodes(k1.list[h]) =>
       q[t] \in {"wait", "back"} /\ h = Own(d[t].op) /\ k1.error[t] = "EOK"

\* The kernel invariant, and: the thread that runs is runnable unless it is
\* on its way to rt_schedule.
Good(k1, q, d) ==
  /\ Whole(k1, {}) /\ \A t \in Thread : Waits(k1, t, q, d)
  /\ k1.statu[k1.cur] = "RUNNING" \/ q[k1.cur] = "wait"

\* Threads that do not use the mailbox are in none of its calls.
Calls(q, d) ==
  /\ q \in [Thread -> Pc] /\ d \in [Thread -> Call]
  /\ \A t \in Thread \ (Sender \cup Receiver) : q[t] = "user"

\* The threads of Awake(op)
Up(k1, q, d, op) ==
  {t \in Thread : /\ q[t] \in {"wait", "back"} /\ d[t].op = op /\ k1.error[t] = "EOK"
                  /\ t \notin Nodes(k1.list[Own(op)])}

\* From k1 to r a timer may have fired, and nothing else has happened to it.
Timely(k1, r) ==
  /\ r.tick = k1.tick
  /\ \A t \in Thread :
       /\ t \in r.active => t \in k1.active
       /\ \/ /\ r.error[t] = k1.error[t]
             /\ t \in r.active => r.timeout[t] = k1.timeout[t]
          \/ t \in k1.active /\ k1.tick > k1.timeout[t] /\ t \notin r.active

\* From k1 to r no thread has begun to wait, and only timeouts have ended a wait.
Calm(k1, r, q, d) ==
  /\ \A h \in Wait : Nodes(r.list[h]) \subseteq Nodes(k1.list[h])
  /\ Up(r, q, d, "send") = Up(k1, q, d, "send") /\ Up(r, q, d, "recv") = Up(k1, q, d, "recv")
  /\ Timely(k1, r) /\ r.nest = k1.nest

\* Two timely steps make one.
LEMMA TimelyTrans ==
  ASSUME NEW k1, NEW r, NEW s, Timely(k1, r), Timely(r, s)
  PROVE  Timely(k1, s)
  BY DEF Timely

\* Two calm steps make one.
LEMMA CalmTrans ==
  ASSUME NEW k1, NEW r, NEW s, NEW q, NEW d, Calm(k1, r, q, d), Calm(r, s, q, d)
  PROVE  Calm(k1, s, q, d)
<1>1. Timely(k1, s)
  BY TimelyTrans DEF Calm
<1> QED BY <1>1 DEF Calm

\* No step is a calm one.
LEMMA CalmSelf ==
  ASSUME NEW k1, NEW q, NEW d
  PROVE  Calm(k1, k1, q, d)
  BY DEF Calm, Timely

\* The queues of the mailbox are wait queues.
LEMMA OwnWait ==
  ASSUME NEW op
  PROVE  Own(op) \in Wait /\ Own(op) \in ListHead /\ Own(op) \in {SendQ, RecvQ}
  BY MailboxAssumption DEF Own, ListHead

\* What the invariant says of a suspended thread: it waits in the queue of its call.
LEMMA SuspendedWaits ==
  ASSUME NEW k1, NEW q, NEW d, Good(k1, q, d), NEW t \in Thread, k1.statu[t] = "SUSPEND"
  PROVE  t \in Nodes(k1.list[Own(d[t].op)]) /\ q[t] \in {"wait", "back"} /\ k1.error[t] = "EOK"
<1>1. Home(k1, t, {}) /\ Waits(k1, t, q, d)
  BY PlacedHome DEF Good, Whole
<1>2. PICK h \in Wait : Homes(k1, t) = {h}
  BY <1>1 DEF Home
<1>3. t \in Nodes(k1.list[h])
  BY <1>2 DEF Homes
<1> QED BY <1>1, <1>3 DEF Waits

\* A thread that runs or is ready is in no wait queue.
LEMMA RunnableFree ==
  ASSUME NEW k1, Whole(k1, {}), NEW t \in Thread, k1.statu[t] \in {"READY", "RUNNING"}
  PROVE  \A h \in Wait : t \notin Nodes(k1.list[h])
<1>1. Placed(k1, {})
  BY DEF Whole, Sound
<1> QED BY <1>1 DEF Placed, ListHead

\* rt_schedule
LEMMA ScheduleGood ==
  ASSUME NEW k1, NEW q, NEW d, Good(k1, q, d), NEW r, r = rt_schedule(k1)
  PROVE  /\ Good(r, q, d) /\ Calm(k1, r, q, d) /\ Rescheduled(k1, r)
         /\ k1.group # {} => r.statu[r.cur] = "RUNNING"
<1>1. Whole(r, {}) /\ Rescheduled(k1, r)
  BY KernelCalls DEF ScheduleCall, Good
<1>2. /\ r.error = k1.error /\ r.active = k1.active /\ r.timeout = k1.timeout /\ r.tick = k1.tick
      /\ r.nest = k1.nest /\ \A h \in Wait : Nodes(r.list[h]) = Nodes(k1.list[h])
  BY <1>1 DEF Rescheduled, SameClock
<1>3. \A t \in Thread : Waits(r, t, q, d)
  BY <1>1, <1>2, SMTT(60) DEF Good, Waits, Rescheduled
<1>4. r.statu[r.cur] = "RUNNING" \/ q[r.cur] = "wait"
  BY <1>1 DEF Good, Rescheduled
<1>5. Calm(k1, r, q, d)
  BY <1>2, OwnWait DEF Calm, Timely, Up
<1> QED BY <1>1, <1>3, <1>4, <1>5 DEF Good, Rescheduled

\* A step that leaves lists, timers, statuses and errors alone.
LEMMA SameGood ==
  ASSUME NEW k1, NEW q, NEW d, Good(k1, q, d), NEW r \in State, SameLists(k1, r), r.error = k1.error,
         SwitchMatches(r), \A t \in Thread : r.remaining[t] > 0
  PROVE  Good(r, q, d)
<1>1. Whole(r, {})
  BY SameListsWhole DEF Good
<1> QED BY <1>1 DEF Good, Waits, SameLists

\* A timer of rt_timer_check's loop
LEMMA FireGood ==
  ASSUME NEW k1, NEW q, NEW d, Good(k1, q, d), NEW t \in Thread, NEW r, r = FireIfDue(k1, t)
  PROVE  Good(r, q, d) /\ Calm(k1, r, q, d)
<1>1. Whole(r, {}) /\ (r = k1 \/ Fired(k1, t, r))
  BY KernelCalls DEF FireCall, Good
<1>2. CASE r = k1
  BY <1>2, CalmSelf
<1>3. CASE Fired(k1, t, r)
  <2>1. /\ Quiet(k1, t, r) /\ Runs(k1, r) /\ r.nest = k1.nest /\ r.tick = k1.tick
        /\ \A h \in Wait : t \notin Nodes(r.list[h])
        /\ t \in k1.active /\ k1.tick > k1.timeout[t] /\ r.error[t] = "ETIMEOUT"
        /\ \A u \in Thread \ {t} : r.error[u] = k1.error[u] /\ r.timeout[u] = k1.timeout[u]
        /\ k1.statu[t] \in {"SLEEP", "SUSPEND"} /\ r.statu[t] \in {"READY", "RUNNING"}
        /\ Nodes(r.timers) = Nodes(k1.timers) \ {t}
    BY <1>3 DEF Fired
  <2>2. \A u \in Thread \ {t}, h \in Wait : u \in Nodes(r.list[h]) <=> u \in Nodes(k1.list[h])
    BY <2>1 DEF Quiet
  <2>3. \A u \in Thread : Waits(r, u, q, d)
    BY <2>1, <2>2, SMTT(60) DEF Good, Waits, Quiet
  <2>4. r.statu[r.cur] = "RUNNING" \/ q[r.cur] = "wait"
    BY <2>1 DEF Good, Runs
  <2>5. k1.statu[t] = "SUSPEND"
    BY <2>1 DEF Good, Waits
  <2>6. t \in Nodes(k1.list[Own(d[t].op)])
    BY <2>5, SuspendedWaits
  <2>7. ASSUME NEW op PROVE Up(r, q, d, op) = Up(k1, q, d, op)
    <3>1. t \notin Up(r, q, d, op) /\ t \notin Up(k1, q, d, op)
      BY <2>1, <2>6 DEF Up
    <3>2. \A u \in Thread \ {t} : u \in Up(r, q, d, op) <=> u \in Up(k1, q, d, op)
      BY <2>1, <2>2, OwnWait DEF Up
    <3> QED BY <3>1, <3>2 DEF Up
  <2>8. r.active = k1.active \ {t}
    BY <1>1, <2>1 DEF Good, Whole, TimersMatch
  <2>9. Timely(k1, r)
    BY <2>1, <2>8 DEF Timely
  <2>10. \A h \in Wait : Nodes(r.list[h]) \subseteq Nodes(k1.list[h])
    <3>1. \A h \in Wait : r.list[h] \in Seq(Thread)
      BY <1>1 DEF Whole, Sound, State, ListHead
    <3>2. \A h \in Wait : Nodes(r.list[h]) \subseteq Thread
      BY <3>1, SMTT(60) DEF Nodes
    <3> QED BY <2>1, <2>2, <3>2
  <2> QED BY <1>1, <2>1, <2>3, <2>4, <2>7, <2>9, <2>10 DEF Good, Calm
<1> QED BY <1>1, <1>2, <1>3

-----------------------------------------------------------------------------
\* The handler counts itself in, and the tick advances and charges the thread
\* that runs.
Handler(k1, i, m) == [k1 EXCEPT !.nest = 1, !.tick = i, !.remaining = m]

\* No list is touched by that.
LEMMA HandlerGood ==
  ASSUME NEW k1, NEW q, NEW d, Good(k1, q, d), k1.nest = 0, NEW i \in Tick, NEW m \in [Thread -> Nat],
         \A t \in Thread : m[t] > 0,
         NEW r, r = Handler(k1, i, m)
  PROVE  /\ Good(r, q, d) /\ r.nest = 1 /\ r.tick = i /\ r.list = k1.list /\ r.error = k1.error
         /\ r.active = k1.active /\ r.timeout = k1.timeout
<1>1. k1 \in State /\ SwitchMatches(k1)
  BY DEF Good, Whole, Sound
<1>2. r \in State
  BY <1>1 DEF State, Handler
<1>3. SameLists(k1, r) /\ r.error = k1.error /\ r.remaining = m /\ r.nest = 1 /\ SameSwitch(k1, r)
      /\ r.tick = i /\ r.timeout = k1.timeout
  BY <1>1 DEF State, SameLists, SameSwitch, Handler
<1>4. SwitchMatches(r)
  BY <1>1, <1>3 DEF SwitchMatches, SameSwitch, SameLists
<1>5. Good(r, q, d)
  BY <1>2, <1>3, <1>4, SameGood
<1> QED BY <1>3, <1>5 DEF SameLists

\* The end of a handler
LEMMA LeaveGood ==
  ASSUME NEW k1, NEW q, NEW d, Good(k1, q, d), NEW r, r = LeaveHandler(k1)
  PROVE  /\ Good(r, q, d) /\ r.nest = 0 /\ r.tick = k1.tick /\ r.list = k1.list /\ r.error = k1.error
         /\ r.active = k1.active /\ r.timeout = k1.timeout
<1>1. k1 \in State /\ SwitchMatches(k1) /\ k1.to \in Thread /\ k1.cpu \in Thread
  BY DEF Good, Whole, Sound, State
<1>2. r \in State
  BY <1>1 DEF State, LeaveHandler
<1>3. SameLists(k1, r) /\ r.error = k1.error /\ r.remaining = k1.remaining /\ r.nest = 0
      /\ r.flag = FALSE /\ r.cpu = (IF k1.flag THEN k1.to ELSE k1.cpu)
      /\ r.tick = k1.tick /\ r.timeout = k1.timeout
  BY <1>1 DEF State, SameLists, LeaveHandler
<1>4. SwitchMatches(r)
  BY <1>1, <1>3 DEF SwitchMatches, SameLists
<1>5. Good(r, q, d)
  BY <1>2, <1>3, <1>4, SameGood DEF Good, Whole, Sound
<1> QED BY <1>3, <1>5 DEF SameLists

\* What a step about t leaves of the other threads.
LEMMA OthersWait ==
  ASSUME NEW k1, NEW q, NEW d, Good(k1, q, d), NEW t \in Thread, NEW r, Did(k1, t, r),
         NEW q1, NEW d1, \A u \in Thread \ {t} : q1[u] = q[u] /\ d1[u] = d[u]
  PROVE  /\ \A u \in Thread \ {t} : Waits(r, u, q1, d1)
         /\ \A u \in Thread \ {t}, h \in Wait : u \in Nodes(r.list[h]) <=> u \in Nodes(k1.list[h])
         /\ \A op : Up(r, q1, d1, op) \ {t} = Up(k1, q, d, op) \ {t}
<1>1. \A u \in Thread \ {t} : r.statu[u] = k1.statu[u] /\ r.error[u] = k1.error[u]
  BY DEF Did, Aside
<1>2. \A u \in Thread \ {t}, h \in Wait : u \in Nodes(r.list[h]) <=> u \in Nodes(k1.list[h])
  BY DidQuiet DEF Quiet
<1>3. \A u \in Thread \ {t} : Waits(r, u, q1, d1)
  BY <1>1, <1>2, SMTT(60) DEF Good, Waits
<1>4. ASSUME NEW op PROVE Up(r, q1, d1, op) \ {t} = Up(k1, q, d, op) \ {t}
  <2>1. \A u \in Thread \ {t} : u \in Up(r, q1, d1, op) <=> u \in Up(k1, q, d, op)
    BY <1>1, <1>2, OwnWait DEF Up
  <2> QED BY <2>1 DEF Up
<1> QED BY <1>2, <1>3, <1>4

\* The nodes of a wait queue are threads.
LEMMA QueueThreads ==
  ASSUME NEW k1, Whole(k1, {}), NEW h \in Wait
  PROVE  /\ k1.list[h] \in Seq(Thread) /\ Nodes(k1.list[h]) \subseteq Thread
         /\ rt_list_isempty(k1.list[h]) <=> Nodes(k1.list[h]) = {}
         /\ ~ rt_list_isempty(k1.list[h]) => k1.list[h][1] \in Nodes(k1.list[h])
<1>1. k1.list[h] \in Seq(Thread)
  BY DEF Whole, Sound, State, ListHead
<1> QED BY <1>1, IsEmptyNodes

\* From k1 to r thread u of the queue of op has woken up, and no other.
Awoken(k1, q, d, op, u, r) ==
  /\ Good(r, q, d) /\ Timely(k1, r) /\ r.nest = k1.nest
  /\ u \in Thread /\ k1.statu[u] = "SUSPEND" /\ u \notin Up(k1, q, d, op)
  /\ \A h \in Wait : Nodes(r.list[h]) \subseteq Nodes(k1.list[h])
  /\ Up(r, q, d, op) = Up(k1, q, d, op) \cup {u}
  /\ \A o : o # op => Up(r, q, d, o) = Up(k1, q, d, o)
  /\ r.cur = k1.cur /\ \A t \in Thread \ {u} : r.statu[t] = k1.statu[t]

\* rt_thread_resume of a thread of the queue of op
LEMMA WakeGood ==
  ASSUME NEW k1, NEW q, NEW d, Good(k1, q, d), Calls(q, d), NEW op \in {"send", "recv"},
         NEW u, u \in Nodes(k1.list[Own(op)]), NEW r, r = rt_thread_resume(k1, u)
  PROVE  Awoken(k1, q, d, op, u, r)
<1>1. Whole(k1, {}) /\ Own(op) \in Wait /\ Own(op) \in ListHead
  BY OwnWait DEF Good
<1>2. u \in Thread
  BY <1>1, QueueThreads
<1>3. k1.statu[u] = "SUSPEND"
  BY <1>1, <1>2 DEF Whole, Sound, Placed
<1>4. /\ Called(k1, u, r, {}, IF u = k1.cur THEN "RUNNING" ELSE "READY") /\ r.error = k1.error
      /\ Homes(r, u) = IF u = k1.cur THEN {} ELSE {prio[u]}
  BY <1>1, <1>2, <1>3, KernelCalls, SMTT(60) DEF ResumeCall
<1>5. Whole(r, {}) /\ Did(k1, u, r) /\ r.statu[u] \in {"READY", "RUNNING"}
  BY <1>4 DEF Called
<1>6. \A h \in Wait : u \notin Nodes(r.list[h])
  BY <1>2, <1>5, RunnableFree
<1>7. /\ \A t \in Thread \ {u} : Waits(r, t, q, d)
      /\ \A t \in Thread \ {u}, h \in Wait : t \in Nodes(r.list[h]) <=> t \in Nodes(k1.list[h])
      /\ \A o : Up(r, q, d, o) \ {u} = Up(k1, q, d, o) \ {u}
  BY <1>2, <1>5, OthersWait, SMTT(60)
<1>8. Waits(r, u, q, d)
  BY <1>5, <1>6 DEF Waits
<1>9. /\ r.cur = k1.cur /\ r.nest = k1.nest /\ r.tick = k1.tick
      /\ \A t \in Thread \ {u} : /\ r.statu[t] = k1.statu[t] /\ r.timeout[t] = k1.timeout[t]
                                 /\ t \in r.active <=> t \in k1.active
  BY <1>5 DEF Did, Aside
<1>10. r.statu[r.cur] = "RUNNING" \/ q[r.cur] = "wait"
  <2>1. CASE u = k1.cur
    BY <1>4, <1>9, <2>1 DEF Called
  <2>2. CASE u # k1.cur
    <3>1. k1.cur \in Thread
      BY <1>1 DEF Whole, Sound, State
    <3> QED BY <1>9, <2>2, <3>1 DEF Good
  <2> QED BY <2>1, <2>2
<1>11. Good(r, q, d)
  BY <1>5, <1>7, <1>8, <1>10 DEF Good
<1>12. u \notin r.active
  BY <1>2, <1>5 DEF Whole, TimersMatch
<1>13. Timely(k1, r)
  BY <1>4, <1>9, <1>12 DEF Timely
<1>14. q[u] \in {"wait", "back"} /\ Own(op) = Own(d[u].op) /\ k1.error[u] = "EOK"
  BY <1>1, <1>2 DEF Good, Waits
<1>15. d[u].op = op
  <2>1. d[u].op \in {"send", "recv"}
    BY <1>2 DEF Calls, Call
  <2> QED BY <1>14, <2>1, MailboxAssumption DEF Own
<1>16. u \notin Up(k1, q, d, op) /\ u \in Up(r, q, d, op)
  BY <1>1, <1>2, <1>4, <1>6, <1>14, <1>15 DEF Up
<1>17. ASSUME NEW o, o # op PROVE Up(r, q, d, o) = Up(k1, q, d, o)
  <2>1. u \notin Up(r, q, d, o) /\ u \notin Up(k1, q, d, o)
    BY <1>15, <1>17 DEF Up
  <2> QED BY <1>7, <2>1, SMTT(60)
<1>18. Up(r, q, d, op) = Up(k1, q, d, op) \cup {u}
  BY <1>7, <1>16
<1>19. ASSUME NEW h \in Wait PROVE Nodes(r.list[h]) \subseteq Nodes(k1.list[h])
  BY <1>5, <1>6, <1>7, QueueThreads
<1> QED BY <1>2, <1>3, <1>9, <1>11, <1>13, <1>16, <1>17, <1>18, <1>19 DEF Awoken

\* Thread t moves to place w of its code, in call c.
Moves(q, d, t, w, c, q1, d1) == q1 = [q EXCEPT ![t] = w] /\ d1 = [d EXCEPT ![t] = c]

\* With t at place w of its code, what was true of the other threads is true.
Moved(k1, q, d, t, w, q1, d1) ==
  /\ Good(k1, q1, d1) /\ \A op : Up(k1, q1, d1, op) \ {t} = Up(k1, q, d, op) \ {t}
  /\ w \notin {"wait", "back"} => \A op : t \notin Up(k1, q1, d1, op)

\* The thread that runs moves to another place of its code, in another call.
LEMMA MoveGood ==
  ASSUME NEW k1, NEW q, NEW d, Good(k1, q, d), Calls(q, d), NEW t \in Thread, k1.statu[t] = "RUNNING",
         NEW w \in Pc, NEW c, NEW q1, NEW d1, Moves(q, d, t, w, c, q1, d1)
  PROVE  Moved(k1, q, d, t, w, q1, d1)
<1>1. Whole(k1, {}) /\ k1.cur = t
  BY RunningFacts DEF Good
<1>2. \A h \in Wait : t \notin Nodes(k1.list[h])
  BY <1>1, RunnableFree
<1>3. q1[t] = w /\ \A u \in Thread \ {t} : q1[u] = q[u] /\ d1[u] = d[u]
  BY DEF Calls, Moves
<1>4. \A u \in Thread : Waits(k1, u, q1, d1)
  BY <1>2, <1>3, SMTT(60) DEF Good, Waits
<1>5. ASSUME NEW op PROVE Up(k1, q1, d1, op) \ {t} = Up(k1, q, d, op) \ {t}
  BY <1>3 DEF Up
<1> QED BY <1>1, <1>3, <1>4, <1>5 DEF Good, Up, Moved

\* From k1 to r the error of t has changed, and t runs.
Errs(k1, q, d, t, r) ==
  /\ Good(r, q, d) /\ \A op : Up(r, q, d, op) \ {t} = Up(k1, q, d, op) \ {t}
  /\ r.nest = k1.nest /\ r.statu[t] = "RUNNING" /\ Did(k1, t, r)
  /\ \A h \in Wait : Nodes(r.list[h]) \subseteq Nodes(k1.list[h])

\* The thread that runs has another error.
LEMMA ErrorGood ==
  ASSUME NEW k1, NEW q, NEW d, Good(k1, q, d), NEW t \in Thread, k1.statu[t] = "RUNNING",
         NEW e \in Error, NEW r, r = SetError(k1, t, e)
  PROVE  Errs(k1, q, d, t, r)
<1>1. /\ Whole(k1, {}) /\ Basic(k1) /\ TimersLinked(k1) /\ Homes(k1, t) = {} /\ t = k1.cur
      /\ t \notin k1.active
  BY RunningFacts DEF Good
<1>2. /\ Did(k1, t, r) /\ Homes(r, t) = Homes(k1, t) /\ r.statu = k1.statu
      /\ r.active = k1.active /\ r.timers = k1.timers
  BY <1>1, ErrorStep, SMTT(60)
<1>3. r.cur = k1.cur /\ r.nest = k1.nest
  BY <1>2 DEF Did, Aside
<1>4. Home(r, t, {}) /\ Timed(r, t) /\ TimersLinked(r)
  BY <1>1, <1>2, <1>3 DEF Home, Timed, TimersLinked
<1>5. Whole(r, {})
  BY <1>1, <1>2, <1>4, OneWhole
<1>6. \A h \in Wait : t \notin Nodes(r.list[h])
  BY <1>2, <1>5, RunnableFree
<1>7. /\ \A u \in Thread \ {t} : Waits(r, u, q, d)
      /\ \A u \in Thread \ {t}, h \in Wait : u \in Nodes(r.list[h]) <=> u \in Nodes(k1.list[h])
      /\ \A op : Up(r, q, d, op) \ {t} = Up(k1, q, d, op) \ {t}
  BY <1>2, OthersWait, SMTT(60)
<1>8. Waits(r, t, q, d)
  BY <1>2, <1>6 DEF Waits
<1>9. Good(r, q, d)
  BY <1>1, <1>2, <1>3, <1>5, <1>7, <1>8 DEF Good
<1>10. ASSUME NEW h \in Wait PROVE Nodes(r.list[h]) \subseteq Nodes(k1.list[h])
  BY <1>5, <1>6, <1>7, QueueThreads
<1> QED BY <1>2, <1>3, <1>7, <1>9, <1>10 DEF Errs

\* From k1 to r thread t has joined the queue of its call c, for i ticks.
Joined(k1, q, d, t, c, i, r, q1, d1) ==
  /\ Good(r, q1, d1) /\ r.nest = k1.nest /\ Did(k1, t, r) /\ r.error[t] = "EOK"
  /\ \A op : Up(r, q1, d1, op) = Up(k1, q, d, op) \ {t}
  /\ \A h \in Wait \ {Own(c.op)} : Nodes(r.list[h]) \subseteq Nodes(k1.list[h])
  /\ i > 0 => r.timeout[t] = TickSum(k1.tick, i)
  /\ i = -1 => t \notin r.active

\* The thread that runs joins the queue of its call.
LEMMA BlockGood ==
  ASSUME NEW k1, NEW q, NEW d, Good(k1, q, d), Calls(q, d), NEW t \in Thread, k1.statu[t] = "RUNNING",
         NEW i \in Tick \cup {-1}, NEW c, NEW q1, NEW d1,
         Moves(q, d, t, "wait", c, q1, d1),
         NEW r, r = Block(k1, t, Own(c.op), i)
  PROVE  Joined(k1, q, d, t, c, i, r, q1, d1)
<1>1. Whole(k1, {}) /\ k1.cur = t /\ Own(c.op) \in Wait
  BY RunningFacts, OwnWait DEF Good
<1>2. /\ Called(k1, t, r, {}, "SUSPEND") /\ Homes(r, t) = {Own(c.op)} /\ r.error[t] = "EOK"
      /\ i > 0 => r.timeout[t] = TickSum(k1.tick, i)
      /\ i = -1 => t \notin r.active
  <2>1. BlockCall
    BY KernelCalls
  <2> QED BY <1>1, <2>1, SMTT(60) DEF BlockCall
<1>3. Whole(r, {}) /\ Did(k1, t, r) /\ r.statu[t] = "SUSPEND"
  BY <1>2 DEF Called
<1>4. r.cur = k1.cur /\ r.nest = k1.nest
  BY <1>3 DEF Did, Aside
<1>5. q1[t] = "wait" /\ d1[t] = c /\ \A u \in Thread \ {t} : q1[u] = q[u] /\ d1[u] = d[u]
  BY DEF Calls, Moves
<1>6. \A h \in Wait : t \in Nodes(r.list[h]) <=> h = Own(c.op)
  <2>1. \A h \in Wait : h \in ListHead
    BY DEF ListHead
  <2>2. \A h \in Wait : t \in Nodes(r.list[h]) <=> h \in Homes(r, t)
    BY <2>1 DEF Homes
  <2> QED BY <1>2, <2>2
<1>7. /\ \A u \in Thread \ {t} : Waits(r, u, q1, d1)
      /\ \A u \in Thread \ {t}, h \in Wait : u \in Nodes(r.list[h]) <=> u \in Nodes(k1.list[h])
      /\ \A op : Up(r, q1, d1, op) \ {t} = Up(k1, q, d, op) \ {t}
  BY <1>3, <1>5, OthersWait, SMTT(60)
<1>8. Waits(r, t, q1, d1)
  BY <1>2, <1>3, <1>5, <1>6 DEF Waits
<1>9. Good(r, q1, d1)
  BY <1>1, <1>3, <1>4, <1>5, <1>7, <1>8 DEF Good
<1>10. ASSUME NEW op PROVE Up(r, q1, d1, op) = Up(k1, q, d, op) \ {t}
  <2>1. t \notin Up(r, q1, d1, op)
    BY <1>1, <1>5, <1>6 DEF Up
  <2> QED BY <1>7, <2>1
<1>11. ASSUME NEW h \in Wait \ {Own(c.op)} PROVE Nodes(r.list[h]) \subseteq Nodes(k1.list[h])
  BY <1>3, <1>6, <1>7, QueueThreads
<1> QED BY <1>2, <1>3, <1>4, <1>9, <1>10, <1>11 DEF Joined

-----------------------------------------------------------------------------
\* No lost wake-up, in terms of the operators above.

\* The messages or free cells that calls of kind op wait for, of a ring with
\* e messages.
Spare(op, e) == IF op = "recv" THEN e ELSE Size - e

\* While calls of kind op wait there is an awake one for each of them.
Enough(k1, q, d, e, op) ==
  Nodes(k1.list[Own(op)]) # {} => Spare(op, e) <= Cardinality(Up(k1, q, d, op))

\* The sizes of sets of threads.  ThreadSets shows it, at the end: before, the
\* theorems on finite sets would be in every context.
Counted ==
  \A S : S \subseteq Thread =>
    /\ Cardinality(S) \in Nat
    /\ \A T : T \subseteq S => Cardinality(T) \in Nat /\ Cardinality(T) <= Cardinality(S)
    /\ \A t : t \notin S => Cardinality(S \cup {t}) = Cardinality(S) + 1
    /\ \A t : Cardinality(S \ {t}) \in Nat /\ Cardinality(S \ {t}) >= Cardinality(S) - 1

\* The threads that are up are threads.
LEMMA UpThreads ==
  ASSUME NEW k1, NEW q, NEW d, NEW op
  PROVE  Up(k1, q, d, op) \subseteq Thread
  BY DEF Up

\* A number of messages is one of cells.
LEMMA SpareInt ==
  ASSUME NEW e \in 0 .. Size, NEW op
  PROVE  Spare(op, e) \in Int
  BY MailboxAssumption, SMTT(60) DEF Spare

\* The ring is as before, nobody has begun to wait, and nobody fell asleep.
LEMMA EnoughKept ==
  ASSUME Counted, NEW k1, NEW q, NEW d, NEW e \in 0 .. Size, NEW op, Enough(k1, q, d, e, op),
         NEW r, NEW q1, NEW d1,
         Nodes(r.list[Own(op)]) \subseteq Nodes(k1.list[Own(op)]),
         Up(k1, q, d, op) \subseteq Up(r, q1, d1, op)
  PROVE  Enough(r, q1, d1, e, op)
<1>1. /\ Cardinality(Up(r, q1, d1, op)) \in Nat /\ Cardinality(Up(k1, q, d, op)) \in Nat
      /\ Cardinality(Up(k1, q, d, op)) <= Cardinality(Up(r, q1, d1, op))
  BY UpThreads DEF Counted
<1> QED BY <1>1, SpareInt, SMTT(60) DEF Enough

\* A call of an awake thread has taken what it waited for.
LEMMA EnoughTaken ==
  ASSUME Counted, NEW k1, NEW q, NEW d, NEW e \in 0 .. Size, NEW op, Enough(k1, q, d, e, op),
         NEW r, NEW q1, NEW d1, NEW e1 \in 0 .. Size, NEW t,
         Nodes(r.list[Own(op)]) \subseteq Nodes(k1.list[Own(op)]),
         Up(k1, q, d, op) \ {t} \subseteq Up(r, q1, d1, op), Spare(op, e1) = Spare(op, e) - 1
  PROVE  Enough(r, q1, d1, e1, op)
<1>1. /\ Cardinality(Up(r, q1, d1, op)) \in Nat /\ Cardinality(Up(k1, q, d, op)) \in Nat
      /\ Cardinality(Up(k1, q, d, op) \ {t}) \in Nat
      /\ Cardinality(Up(k1, q, d, op) \ {t}) <= Cardinality(Up(r, q1, d1, op))
      /\ Cardinality(Up(k1, q, d, op) \ {t}) >= Cardinality(Up(k1, q, d, op)) - 1
  BY UpThreads DEF Counted
<1> QED BY <1>1, SpareInt, SMTT(60) DEF Enough

\* One more message or cell, and one more thread is awake.
LEMMA EnoughWoken ==
  ASSUME Counted, NEW k1, NEW q, NEW d, NEW e \in 0 .. Size, NEW op, Enough(k1, q, d, e, op),
         NEW r, NEW q1, NEW d1, NEW e1 \in 0 .. Size, NEW u, u \notin Up(k1, q, d, op),
         Nodes(k1.list[Own(op)]) # {},
         Up(r, q1, d1, op) = Up(k1, q, d, op) \cup {u}, Spare(op, e1) = Spare(op, e) + 1
  PROVE  Enough(r, q1, d1, e1, op)
<1>1. /\ Cardinality(Up(k1, q, d, op)) \in Nat
      /\ Cardinality(Up(r, q1, d1, op)) = Cardinality(Up(k1, q, d, op)) + 1
  BY UpThreads DEF Counted
<1> QED BY <1>1, SpareInt, SMTT(60) DEF Enough

\* Nobody waits, or nothing is there.
LEMMA EnoughNone ==
  ASSUME Counted, NEW r, NEW q1, NEW d1, NEW e1 \in 0 .. Size, NEW op,
         Nodes(r.list[Own(op)]) = {} \/ Spare(op, e1) <= 0
  PROVE  Enough(r, q1, d1, e1, op)
<1>1. Cardinality(Up(r, q1, d1, op)) \in Nat
  BY UpThreads DEF Counted
<1> QED BY <1>1, SpareInt, SMTT(60) DEF Enough

-----------------------------------------------------------------------------
\* The time a call has waited, while system_tick does not wrap.

\* The tick stays, and the ends of the waits lie, below the range of a tick.
Unwrapped ==
  MaxTick < TickRange /\ \A i \in (Posts \cup Fetches) \ {Forever} : MaxTick + i < TickRange

\* A call with a timeout has reached its end, or has no error and what is left
\* of its timeout ends then: tick_delta and timeout, and the timer, agree.
Clocked(k1, t, q, d) ==
  q[t] \in {"wait", "back"} /\ d[t].limit # Forever =>
    /\ d[t].since <= k1.tick
    /\ \/ d[t].limit = -1
       \/ k1.tick >= d[t].since + d[t].limit
       \/ /\ k1.error[t] = "EOK" /\ d[t].timeout > 0 /\ d[t].delta <= k1.tick
          /\ d[t].delta + d[t].timeout = d[t].since + d[t].limit
          /\ d[t].since + d[t].limit < TickRange
          /\ t \in k1.active => k1.timeout[t] = d[t].since + d[t].limit

OnTime(k1, q, d) == k1.tick <= MaxTick /\ \A t \in Thread : Clocked(k1, t, q, d)

\* The same of a call that turns to the test of the loop.
Fresh(c) ==
  c.limit # Forever =>
    /\ c.since <= k.tick
    /\ \/ c.limit = -1
       \/ k.tick >= c.since + c.limit
       \/ /\ c.timeout > 0 /\ k.tick + c.timeout = c.since + c.limit
          /\ c.since + c.limit < TickRange

\* The fields of a call are ticks.
LEMMA CallInts ==
  ASSUME NEW c \in Call
  PROVE  /\ c.op \in {"send", "recv"} /\ c.timeout \in Int /\ c.timeout >= -1 /\ c.timeout < TickRange
         /\ c.delta \in Nat /\ c.delta < TickRange /\ c.since \in Nat /\ c.limit \in Int
         /\ c.limit >= -1 /\ TickRange \in Nat /\ TickRange > 0
  BY KernelAssumption, SMTT(60) DEF Call, Tick

\* A timer that fires does so after the end of the wait.
LEMMA TimelyClock ==
  ASSUME NEW k1 \in State, NEW r, NEW q, NEW d, Calls(q, d), OnTime(k1, q, d), Timely(k1, r)
  PROVE  OnTime(r, q, d)
<1>1. ASSUME NEW t \in Thread PROVE Clocked(r, t, q, d)
  <2>1. Clocked(k1, t, q, d) /\ r.tick = k1.tick /\ k1.tick \in Nat
    BY SMTT(60) DEF OnTime, Timely, State, Tick
  <2>2. d[t].since \in Nat /\ d[t].limit \in Int
    BY CallInts DEF Calls
  <2>3. /\ t \in r.active => t \in k1.active
        /\ \/ r.error[t] = k1.error[t] /\ (t \in r.active => r.timeout[t] = k1.timeout[t])
           \/ t \in k1.active /\ k1.tick > k1.timeout[t]
    BY DEF Timely
  <2> QED BY <2>1, <2>2, <2>3, SMTT(60) DEF Clocked
<1> QED BY <1>1 DEF OnTime, Timely

\* Another thread's call does not touch a wait.
LEMMA OthersClock ==
  ASSUME NEW k1, NEW q, NEW d, OnTime(k1, q, d), NEW t \in Thread, NEW r, Did(k1, t, r),
         NEW q1, NEW d1, \A u \in Thread \ {t} : q1[u] = q[u] /\ d1[u] = d[u],
         Clocked(r, t, q1, d1)
  PROVE  OnTime(r, q1, d1)
<1>1. /\ r.tick = k1.tick
      /\ \A u \in Thread \ {t} : /\ r.error[u] = k1.error[u] /\ r.timeout[u] = k1.timeout[u]
                                 /\ u \in r.active <=> u \in k1.active
  BY DEF Did, Aside
<1>2. ASSUME NEW u \in Thread \ {t} PROVE Clocked(r, u, q1, d1)
  BY <1>1 DEF OnTime, Clocked
<1> QED BY <1>1, <1>2 DEF OnTime

\* A thread leaves its call.
LEMMA MoveClock ==
  ASSUME NEW k1, NEW q, NEW d, Calls(q, d), OnTime(k1, q, d), NEW t \in Thread,
         NEW w, w \notin {"wait", "back"}, NEW c, NEW q1, NEW d1, Moves(q, d, t, w, c, q1, d1)
  PROVE  OnTime(k1, q1, d1)
<1>1. q1[t] = w /\ \A u \in Thread \ {t} : q1[u] = q[u] /\ d1[u] = d[u]
  BY DEF Calls, Moves
<1> QED BY <1>1 DEF OnTime, Clocked

\* The sum of ticks that does not wrap.
LEMMA PlainSum ==
  ASSUME NEW i, NEW j, i + j < TickRange
  PROVE  TickSum(i, j) = i + j
  BY DEF TickSum

\* A call joins its queue.
LEMMA BlockClock ==
  ASSUME Calls(pc, call), OnTime(k, pc, call), NEW t \in Thread, NEW c \in Call, Fresh(c), c.timeout # 0,
         k.tick \in Tick, NEW c2, c2 = [c EXCEPT !.delta = IF c.timeout > 0 THEN k.tick ELSE @],
         NEW q1, NEW d1, Moves(pc, call, t, "wait", c2, q1, d1),
         NEW r, Did(k, t, r), r.error[t] = "EOK",
         c.timeout > 0 => r.timeout[t] = TickSum(k.tick, c.timeout),
         c.timeout = -1 => t \notin r.active
  PROVE  OnTime(r, q1, d1)
<1>1. q1[t] = "wait" /\ d1[t] = c2 /\ \A u \in Thread \ {t} : q1[u] = pc[u] /\ d1[u] = call[u]
  BY DEF Calls, Moves
<1>2. /\ c2.since = c.since /\ c2.limit = c.limit /\ c2.timeout = c.timeout
      /\ c.timeout > 0 => c2.delta = k.tick
  BY DEF Call
<1>3. r.tick = k.tick /\ k.tick \in Nat
  BY SMTT(60) DEF Did, Aside, Tick
<1>4. c.since \in Nat /\ c.limit \in Int /\ c.timeout \in Int
  BY CallInts
<1>5. Clocked(r, t, q1, d1)
  <2>1. CASE c.limit # Forever /\ ~ (c.limit = -1) /\ ~ (k.tick >= c.since + c.limit)
    <3>1. /\ c.timeout > 0 /\ k.tick + c.timeout = c.since + c.limit
          /\ c.since + c.limit < TickRange /\ c.since <= k.tick
      BY <2>1 DEF Fresh
    <3>2. r.timeout[t] = c.since + c.limit
      BY <3>1, PlainSum
    <3>3. /\ d1[t].since <= r.tick /\ r.error[t] = "EOK" /\ d1[t].timeout > 0
          /\ d1[t].delta <= r.tick /\ d1[t].delta + d1[t].timeout = d1[t].since + d1[t].limit
          /\ d1[t].since + d1[t].limit < TickRange /\ r.timeout[t] = d1[t].since + d1[t].limit
      BY ONLY <1>1, <1>2, <1>3, <3>1, <3>2, r.error[t] = "EOK", SMTT(60)
    <3> QED BY ONLY <3>3, ZenonT(60) DEF Clocked
  <2>2. CASE c.limit = Forever \/ c.limit = -1 \/ k.tick >= c.since + c.limit
    BY <1>1, <1>2, <1>3, <2>2 DEF Clocked, Fresh
  <2> QED BY <2>1, <2>2
<1> HIDE DEF Clocked
<1> QED BY ONLY <1>1, <1>5, OnTime(k, pc, call), t \in Thread, Did(k, t, r), OthersClock, ZenonT(60)

\* What is left of a timeout ends with the wait.
LEMMA LeftFresh ==
  ASSUME Calls(pc, call), OnTime(k, pc, call), k.tick \in Tick, Unwrapped, NEW t \in Thread,
         pc[t] = "back", NEW c, c = [call[t] EXCEPT !.timeout = Left(call[t])]
  PROVE  Fresh(c) /\ (Left(call[t]) = 0 /\ call[t].limit # Forever =>
                        k.tick >= call[t].since + call[t].limit)
<1> DEFINE b == call[t]
<1>1. b \in Call
  BY DEF Calls
<1>2. /\ b.op \in {"send", "recv"} /\ b.timeout \in Int /\ b.timeout >= -1 /\ b.timeout < TickRange
      /\ b.delta \in Nat /\ b.delta < TickRange /\ b.since \in Nat /\ b.limit \in Int
      /\ b.limit >= -1 /\ TickRange \in Nat /\ TickRange > 0
  BY <1>1, CallInts
<1>3. c.since = b.since /\ c.limit = b.limit /\ c.timeout = Left(b)
  BY <1>1 DEF Call
<1>4. k.tick \in Nat /\ k.tick < TickRange
  BY KernelAssumption, SMTT(60) DEF Tick
<1>5. b.limit # Forever =>
    /\ b.since <= k.tick
    /\ \/ b.limit = -1
       \/ k.tick >= b.since + b.limit
       \/ /\ b.timeout > 0 /\ b.delta <= k.tick
          /\ b.delta + b.timeout = b.since + b.limit
          /\ b.since + b.limit < TickRange
  BY DEF OnTime, Clocked
<1> HIDE DEF b
<1>6. CASE b.limit # Forever /\ ~ (b.limit = -1) /\ ~ (k.tick >= b.since + b.limit)
  <2>1. /\ b.timeout > 0 /\ b.delta <= k.tick /\ b.since <= k.tick
        /\ b.delta + b.timeout = b.since + b.limit /\ b.since + b.limit < TickRange
    BY <1>5, <1>6
  <2>2. (k.tick - b.delta) % TickRange = k.tick - b.delta
    BY <1>2, <1>4, <2>1, SMTT(60)
  <2>3. b.timeout >= k.tick - b.delta /\ ~ (b.timeout <= 0)
    BY <1>2, <1>4, <1>6, <2>1, SMTT(60)
  <2>4. Left(b) = b.timeout - (k.tick - b.delta)
    BY <2>2, <2>3 DEF Left
  <2>5. Left(b) > 0 /\ k.tick + Left(b) = b.since + b.limit
    BY <1>2, <1>4, <1>6, <2>1, <2>4, SMTT(60)
  <2>6. Fresh(c)
    BY <1>3, <2>1, <2>5 DEF Fresh
  <2> QED BY <2>5, <2>6, SMTT(60) DEF b
<1>7. CASE b.limit = Forever \/ b.limit = -1 \/ k.tick >= b.since + b.limit
  <2>1. Fresh(c)
    BY <1>3, <1>5, <1>7 DEF Fresh
  <2>2. b.limit # Forever => k.tick >= b.since + b.limit
    BY <1>2, <1>4, <1>5, <1>7, SMTT(60)
  <2> QED BY <2>1, <2>2 DEF b
<1> QED BY <1>6, <1>7

-----------------------------------------------------------------------------
\* The invariant of the mailbox and its kernel state, and its steps.
KernelInv ==
  /\ Good(k, pc, call) /\ k.nest = 0 /\ Calls(pc, call) /\ entry \in 0 .. Size

NoLost == Enough(k, pc, call, entry, "send") /\ Enough(k, pc, call, entry, "recv")

InTime == OnTime(k, pc, call)

\* What each step keeps.
Kept == KernelInv' /\ (NoLost => NoLost') /\ (Unwrapped /\ InTime => InTime')

\* The thread on the processor is the current one, and runnable unless it is
\* on its way to rt_schedule.
LEMMA OnCpu ==
  ASSUME KernelInv, NEW t \in Thread, k.cpu = t
  PROVE  k.cur = t /\ (pc[t] # "wait" => k.statu[t] = "RUNNING") /\ k \in State
<1>1. SwitchMatches(k) /\ k \in State
  BY DEF KernelInv, Good, Whole, Sound
<1>2. k.cur = t
  BY <1>1, SMTT(60) DEF SwitchMatches, KernelInv
<1> QED BY <1>1, <1>2 DEF KernelInv, Good

\* The code outside calls
LEMMA NoCallType == NoCall \in Call
  BY KernelAssumption, SMTT(60) DEF NoCall, Call, Tick

\* A thread that may use the mailbox moves on.
LEMMA CallsMove ==
  ASSUME Calls(pc, call), NEW t \in Thread, t \in Sender \cup Receiver, NEW w \in Pc, NEW c \in Call,
         NEW q1, NEW d1, Moves(pc, call, t, w, c, q1, d1)
  PROVE  Calls(q1, d1)
  BY DEF Calls, Moves

Other(op) == IF op = "send" THEN "recv" ELSE "send"

\* A call moves its message and wakes the first thread that waits for that.
LEMMA TransferKept ==
  ASSUME Counted, KernelInv, NEW t \in Thread, t \in Sender \cup Receiver, k.cpu = t, pc[t] \in {"user", "back"},
         NEW c \in Call, pc[t] = "back" => call[t].op = c.op, Passes(c), Transfer(t, c)
  PROVE  Kept
<1> DEFINE waiting == k.list[IF c.op = "send" THEN RecvQ ELSE SendQ]
           wakes == ~ rt_list_isempty(waiting)
           o == Other(c.op)
<1>1. /\ Good(k, pc, call) /\ k.nest = 0 /\ Calls(pc, call) /\ entry \in 0 .. Size
      /\ k.statu[t] = "RUNNING" /\ k \in State /\ Whole(k, {})
  BY OnCpu DEF KernelInv, Good
<1>2. c.op \in {"send", "recv"} /\ o \in {"send", "recv"} /\ o # c.op /\ "send" # "recv"
  BY DEF Call, Other
<1>3. waiting = k.list[Own(o)] /\ Own(o) \in Wait /\ Own(c.op) \in Wait
  BY <1>2, OwnWait DEF Own, Other
<1>4. entry' = IF c.op = "send" THEN entry + 1 ELSE entry - 1
  BY DEF Transfer, Store, Fetch
<1>5. entry' \in 0 .. Size
  BY <1>1, <1>4, MailboxAssumption, SMTT(60) DEF Passes
<1>6. Spare(c.op, entry') = Spare(c.op, entry) - 1 /\ Spare(o, entry') = Spare(o, entry) + 1
  BY <1>1, <1>2, <1>4, MailboxAssumption, SMTT(60) DEF Spare, Other
<1>7. /\ k' = IF wakes THEN Woken(c.op) ELSE k
      /\ pc' = [pc EXCEPT ![t] = IF wakes THEN "sched" ELSE "user"]
      /\ call' = [call EXCEPT ![t] = NoCall]
  BY DEF Transfer, Return
<1>8. t \notin Up(k, pc, call, o)
  BY <1>2 DEF Up
<1> HIDE DEF waiting, o
<1>9. SUFFICES /\ Good(k', pc', call') /\ k'.nest = 0 /\ Calls(pc', call')
               /\ NoLost => /\ Enough(k', pc', call', entry', c.op)
                            /\ Enough(k', pc', call', entry', o)
               /\ OnTime(k, pc, call) => OnTime(k', pc', call')
  BY <1>2, <1>5 DEF Kept, KernelInv, NoLost, InTime
<1>10. NoLost => Enough(k, pc, call, entry, c.op) /\ Enough(k, pc, call, entry, o)
  BY <1>2 DEF NoLost
<1>11. CASE ~ wakes
  <2>1. k' = k /\ pc' = [pc EXCEPT ![t] = "user"]
    BY <1>7, <1>11
  <2>2. PICK q1, d1 : q1 = pc' /\ d1 = call'
    OBVIOUS
  <2>3. /\ Moves(pc, call, t, "user", NoCall, q1, d1)
        /\ "user" \in Pc /\ "user" \notin {"wait", "back"}
    BY <1>7, <2>1, <2>2 DEF Pc, Moves
  <2>4. /\ Good(k, q1, d1) /\ \A op : Up(k, q1, d1, op) \ {t} = Up(k, pc, call, op) \ {t}
        /\ \A op : t \notin Up(k, q1, d1, op)
    <3>1. Moved(k, pc, call, t, "user", q1, d1)
      BY <1>1, <2>3, MoveGood
    <3> QED BY <2>3, <3>1 DEF Moved
  <2>5. Calls(q1, d1)
    BY <1>1, <2>3, NoCallType, CallsMove
  <2>6. OnTime(k, pc, call) => OnTime(k, q1, d1)
    BY <1>1, <2>3, MoveClock
  <2>7. Nodes(k.list[Own(o)]) = {}
    BY <1>1, <1>3, <1>11, QueueThreads
  <2>8. Enough(k, q1, d1, entry', o)
    BY <1>5, <2>7, EnoughNone
  <2>9. NoLost => Enough(k, q1, d1, entry', c.op)
    <3>1. Up(k, pc, call, c.op) \ {t} \subseteq Up(k, q1, d1, c.op)
      BY <2>4
    <3> QED BY ONLY <1>1, <1>5, <1>6, <1>10, <3>1, Counted, EnoughTaken, ZenonT(60)
  <2> QED BY <1>1, <2>1, <2>2, <2>4, <2>5, <2>6, <2>8, <2>9
<1>12. CASE wakes
  <2>1. PICK r, u, q1, d1 : r = k' /\ u = waiting[1] /\ q1 = pc' /\ d1 = call'
    OBVIOUS
  <2>2. u \in Nodes(k.list[Own(o)])
    BY <1>1, <1>3, <1>12, <2>1, QueueThreads
  <2>3. u \in Thread /\ k.statu[u] = "SUSPEND"
    <3>1. Awoken(k, pc, call, o, u, rt_thread_resume(k, u))
      BY <1>1, <1>2, <2>2, WakeGood
    <3> QED BY <3>1 DEF Awoken
  <2>4. r = rt_thread_resume(k, u)
    <3>1. r = Woken(c.op)
      BY <1>7, <1>12, <2>1
    <3> QED BY <2>1, <2>3, <3>1 DEF Woken, waiting, rt_thread_resume
  <2>5. /\ Good(r, pc, call) /\ Timely(k, r) /\ r.nest = k.nest
        /\ u \notin Up(k, pc, call, o)
        /\ \A h \in Wait : Nodes(r.list[h]) \subseteq Nodes(k.list[h])
        /\ Up(r, pc, call, o) = Up(k, pc, call, o) \cup {u}
        /\ \A p : p # o => Up(r, pc, call, p) = Up(k, pc, call, p)
        /\ \A v \in Thread \ {u} : r.statu[v] = k.statu[v]
    <3>1. Awoken(k, pc, call, o, u, r)
      BY <1>1, <1>2, <2>2, <2>4, WakeGood
    <3> QED BY <3>1 DEF Awoken
  <2>6. u # t /\ r.statu[t] = "RUNNING"
    BY <1>1, <2>3, <2>5
  <2>7. /\ Moves(pc, call, t, "sched", NoCall, q1, d1)
        /\ "sched" \in Pc /\ "sched" \notin {"wait", "back"}
    BY <1>7, <1>12, <2>1 DEF Pc, Moves
  <2>8. /\ Good(r, q1, d1) /\ \A op : Up(r, q1, d1, op) \ {t} = Up(r, pc, call, op) \ {t}
        /\ \A op : t \notin Up(r, q1, d1, op)
    <3>1. Moved(r, pc, call, t, "sched", q1, d1)
      BY <1>1, <2>5, <2>6, <2>7, MoveGood
    <3> QED BY <2>7, <3>1 DEF Moved
  <2>9. Calls(q1, d1)
    BY <1>1, <2>7, NoCallType, CallsMove
  <2>10. OnTime(k, pc, call) => OnTime(r, q1, d1)
    BY <1>1, <2>5, <2>7, TimelyClock, MoveClock
  <2>11. NoLost => Enough(r, q1, d1, entry', o)
    <3>1. Up(r, q1, d1, o) = Up(k, pc, call, o) \cup {u}
      BY <1>8, <2>5, <2>6, <2>8
    <3>2. Nodes(k.list[Own(o)]) # {}
      BY <2>2
    <3> QED BY ONLY <1>1, <1>5, <1>6, <1>10, <2>5, <3>1, <3>2, Counted, EnoughWoken, ZenonT(60)
  <2>12. NoLost => Enough(r, q1, d1, entry', c.op)
    <3>1. Up(k, pc, call, c.op) \ {t} \subseteq Up(r, q1, d1, c.op)
      BY <1>2, <2>5, <2>8
    <3>2. Nodes(r.list[Own(c.op)]) \subseteq Nodes(k.list[Own(c.op)])
      BY <1>3, <2>5
    <3> QED BY ONLY <1>1, <1>5, <1>6, <1>10, <3>1, <3>2, Counted, EnoughTaken, ZenonT(60)
  <2> QED BY <1>1, <2>1, <2>5, <2>8, <2>9, <2>10, <2>11, <2>12
<1> QED BY <1>11, <1>12

\* A call gives up: the ring has nothing for it.
LEMMA GiveUpKept ==
  ASSUME Counted, KernelInv, NEW t \in Thread, t \in Sender \cup Receiver, k.cpu = t, pc[t] \in {"user", "back"},
         NEW c \in Call, pc[t] = "back" => call[t].op = c.op, ~ Passes(c), GiveUp(t, c)
  PROVE  Kept
<1> DEFINE o == Other(c.op)
<1>1. /\ Good(k, pc, call) /\ k.nest = 0 /\ Calls(pc, call) /\ entry \in 0 .. Size
      /\ k.statu[t] = "RUNNING" /\ k \in State /\ Whole(k, {})
  BY OnCpu DEF KernelInv, Good
<1>2. /\ c.op \in {"send", "recv"} /\ o \in {"send", "recv"} /\ o # c.op /\ Own(o) \in Wait
  BY OwnWait DEF Call, Other
<1>3. Spare(c.op, entry) <= 0
  BY <1>1, <1>2, MailboxAssumption, SMTT(60) DEF Passes, Spare
<1>4. t \notin Up(k, pc, call, o)
  BY <1>2 DEF Up
<1> HIDE DEF o
<1>e. PICK e \in Error : e = IF c.op = "send" THEN "EOK" ELSE "ETIMEOUT"
  BY DEF Error
<1>5. PICK r, q1, d1 : r = k' /\ q1 = pc' /\ d1 = call'
  OBVIOUS
<1>6. entry' = entry /\ r = (IF pc[t] = "user" THEN k ELSE SetError(k, t, e))
  BY <1>e, <1>5 DEF GiveUp, ring, SetError
<1>7. /\ Moves(pc, call, t, "user", NoCall, q1, d1) /\ "user" \in Pc /\ "user" \notin {"wait", "back"}
  BY <1>5 DEF GiveUp, Return, Pc, Moves
<1>8. /\ Good(r, pc, call) /\ r.nest = 0 /\ r.statu[t] = "RUNNING"
      /\ \A h \in Wait : Nodes(r.list[h]) \subseteq Nodes(k.list[h])
      /\ \A op : Up(r, pc, call, op) \ {t} = Up(k, pc, call, op) \ {t}
      /\ r = k \/ Did(k, t, r)
  <2>1. CASE r = k
    BY <1>1, <2>1
  <2>2. CASE r = SetError(k, t, e)
    <3>1. Errs(k, pc, call, t, r)
      BY <1>1, <2>2, ErrorGood
    <3> QED BY <1>1, <3>1 DEF Errs
  <2> QED BY <1>6, <2>1, <2>2
<1>9. /\ Good(r, q1, d1) /\ \A op : Up(r, q1, d1, op) \ {t} = Up(r, pc, call, op) \ {t}
  <2>1. Moved(r, pc, call, t, "user", q1, d1)
    BY <1>1, <1>7, <1>8, MoveGood
  <2> QED BY <2>1 DEF Moved
<1>10. Calls(q1, d1)
  BY <1>1, <1>7, NoCallType, CallsMove
<1>11. OnTime(k, pc, call) => OnTime(r, q1, d1)
  <2>1. CASE r = k
    BY <1>1, <1>7, <2>1, MoveClock
  <2>2. CASE Did(k, t, r)
    <3>1. q1[t] = "user" /\ \A u \in Thread \ {t} : q1[u] = pc[u] /\ d1[u] = call[u]
      BY <1>1, <1>7 DEF Calls, Moves
    <3>2. Clocked(r, t, q1, d1)
      BY <3>1 DEF Clocked
    <3> QED BY ONLY <2>2, <3>1, <3>2, t \in Thread, OthersClock, ZenonT(60)
  <2> QED BY <1>8, <2>1, <2>2
<1>12. Enough(r, q1, d1, entry, c.op)
  BY <1>1, <1>3, EnoughNone
<1>13. NoLost => Enough(r, q1, d1, entry, o)
  <2>1. NoLost => Enough(k, pc, call, entry, o)
    BY <1>2 DEF NoLost
  <2>2. Up(k, pc, call, o) \subseteq Up(r, q1, d1, o)
    BY <1>4, <1>8, <1>9
  <2>3. Nodes(r.list[Own(o)]) \subseteq Nodes(k.list[Own(o)])
    BY <1>2, <1>8
  <2> QED BY ONLY <1>1, <2>1, <2>2, <2>3, Counted, EnoughKept, ZenonT(60)
<1> QED BY <1>1, <1>2, <1>5, <1>6, <1>8, <1>9, <1>10, <1>11, <1>12, <1>13
        DEF Kept, KernelInv, NoLost, InTime

\* A call joins its queue: the ring has nothing for it.
LEMMA SuspendKept ==
  ASSUME Counted, KernelInv, NEW t \in Thread, t \in Sender \cup Receiver, k.cpu = t, pc[t] \in {"user", "back"},
         NEW c \in Call, pc[t] = "back" => call[t].op = c.op, ~ Passes(c), Suspend(t, c), c.timeout # 0,
         Unwrapped /\ InTime => Fresh(c)
  PROVE  Kept
<1> DEFINE o == Other(c.op)
<1>1. /\ Good(k, pc, call) /\ k.nest = 0 /\ Calls(pc, call) /\ entry \in 0 .. Size
      /\ k.statu[t] = "RUNNING" /\ k \in State /\ Whole(k, {})
  BY OnCpu DEF KernelInv, Good
<1>2. /\ c.op \in {"send", "recv"} /\ o \in {"send", "recv"} /\ o # c.op /\ Own(o) \in Wait
      /\ c.timeout \in Tick \cup {-1} /\ Own(o) # Own(c.op)
  BY OwnWait, MailboxAssumption DEF Call, Other, Own
<1>3. Spare(c.op, entry) <= 0
  BY <1>1, <1>2, MailboxAssumption, SMTT(60) DEF Passes, Spare
<1>4. t \notin Up(k, pc, call, o)
  BY <1>2 DEF Up
<1>5. k.tick \in Tick
  BY <1>1 DEF State
<1> HIDE DEF o
<1>6. PICK r, q1, d1, c2 : /\ r = k' /\ q1 = pc' /\ d1 = call'
                           /\ c2 = [c EXCEPT !.delta = IF c.timeout > 0 THEN k.tick ELSE @]
  OBVIOUS
<1>7. c2 \in Call /\ c2.op = c.op
  BY <1>5, <1>6 DEF Call
<1>8. /\ entry' = entry /\ r = Block(k, t, Own(c2.op), c.timeout)
      /\ Moves(pc, call, t, "wait", c2, q1, d1) /\ "wait" \in Pc
  BY <1>6, <1>7 DEF Suspend, ring, Moves, Pc, Own
<1>9. /\ Good(r, q1, d1) /\ r.nest = k.nest /\ Did(k, t, r) /\ r.error[t] = "EOK"
      /\ \A op : Up(r, q1, d1, op) = Up(k, pc, call, op) \ {t}
      /\ \A h \in Wait \ {Own(c2.op)} : Nodes(r.list[h]) \subseteq Nodes(k.list[h])
      /\ c.timeout > 0 => r.timeout[t] = TickSum(k.tick, c.timeout)
      /\ c.timeout = -1 => t \notin r.active
  <2>1. Joined(k, pc, call, t, c2, c.timeout, r, q1, d1)
    BY <1>1, <1>2, <1>8, BlockGood
  <2> QED BY <2>1 DEF Joined
<1>10. Calls(q1, d1)
  BY <1>1, <1>7, <1>8, CallsMove
<1>11. Unwrapped /\ OnTime(k, pc, call) => OnTime(r, q1, d1)
  <2>1. Unwrapped /\ OnTime(k, pc, call) => Fresh(c)
    BY DEF InTime
  <2> QED BY ONLY <1>1, <1>5, <1>6, <1>8, <1>9, <2>1, t \in Thread, c \in Call, c.timeout # 0, BlockClock, ZenonT(60)
<1>12. Enough(r, q1, d1, entry, c.op)
  BY <1>1, <1>3, EnoughNone
<1>13. NoLost => Enough(r, q1, d1, entry, o)
  <2>1. NoLost => Enough(k, pc, call, entry, o)
    BY <1>2 DEF NoLost
  <2>2. Up(k, pc, call, o) \subseteq Up(r, q1, d1, o)
    BY <1>4, <1>9
  <2>3. Nodes(r.list[Own(o)]) \subseteq Nodes(k.list[Own(o)])
    BY <1>2, <1>7, <1>9
  <2> QED BY ONLY <1>1, <2>1, <2>2, <2>3, Counted, EnoughKept, ZenonT(60)
<1> QED BY <1>1, <1>2, <1>6, <1>8, <1>9, <1>10, <1>11, <1>12, <1>13
        DEF Kept, KernelInv, NoLost, InTime

\* A turn of the loop of rt_mb_send_wait or rt_mb_recv.
LEMMA LoopKept ==
  ASSUME Counted, KernelInv, NEW t \in Thread, t \in Sender \cup Receiver, k.cpu = t, pc[t] \in {"user", "back"},
         NEW c \in Call, pc[t] = "back" => call[t].op = c.op, Loop(t, c),
         Unwrapped /\ InTime => Fresh(c)
  PROVE  Kept
<1>1. CASE Passes(c) /\ Transfer(t, c)
  BY <1>1, TransferKept
<1>2. CASE ~ Passes(c) /\ GiveUp(t, c)
  BY <1>2, GiveUpKept
<1>3. CASE ~ Passes(c) /\ c.timeout # 0 /\ Suspend(t, c)
  BY <1>3, SuspendKept
<1> QED BY <1>1, <1>2, <1>3 DEF Loop

\* A call is entered, by a thread that runs its own code.
LEMMA EnterKept ==
  ASSUME Counted, KernelInv, NEW t \in Thread, t \in Sender \cup Receiver, NEW o \in {"send", "recv"},
         NEW v \in Msg \cup {NoMsg}, NEW i \in Tick \cup {-1},
         Unwrapped => i = Forever \/ MaxTick + i < TickRange, Enter(t, o, v, i)
  PROVE  Kept
<1>1. k \in State /\ k.cpu = t /\ pc[t] = "user"
  BY OnCpu DEF Enter, At, KernelInv, Good, Whole, Sound
<1>2. k.tick \in Tick /\ k.tick \in Nat /\ TickRange \in Nat /\ 0 \in Tick /\ NoCall \in Call
  BY <1>1, KernelAssumption, NoCallType, SMTT(60) DEF State, Tick
<1>3. PICK c : c = [NoCall EXCEPT !.op = o, !.msg = v, !.timeout = i, !.since = k.tick, !.limit = i]
  OBVIOUS
<1>4. c \in Call /\ c.timeout = i /\ c.since = k.tick /\ c.limit = i
  BY <1>2, <1>3 DEF Call, NoCall
<1>5. Loop(t, c)
  BY <1>3 DEF Enter
<1>6. Unwrapped /\ InTime => Fresh(c)
  <2>1. ASSUME Unwrapped, InTime, i # Forever, i # -1
        PROVE  k.tick >= k.tick + i \/ (i > 0 /\ k.tick + i < TickRange)
    <3>1. MaxTick + i < TickRange /\ k.tick <= MaxTick /\ i \in Nat /\ MaxTick \in Nat
      BY <2>1, MailboxAssumption, SMTT(60) DEF InTime, OnTime, Tick
    <3> QED BY <1>2, <3>1, SMTT(60)
  <2> QED BY <1>2, <1>4, <2>1, SMTT(60) DEF Fresh
<1> QED BY <1>1, <1>4, <1>5, <1>6, LoopKept

\* What is left of a timeout is a timeout.
LEMMA LeftType ==
  ASSUME NEW c \in Call, k.tick \in Tick
  PROVE  Left(c) \in Tick \cup {-1}
<1>1. /\ c.timeout \in Int /\ c.timeout >= -1 /\ c.timeout < TickRange /\ c.delta \in Nat
      /\ TickRange \in Nat /\ TickRange > 0 /\ k.tick \in Nat
  BY CallInts, SMTT(60) DEF Tick
<1> DEFINE e == (k.tick - c.delta) % TickRange
<1>2. e \in Nat /\ e < TickRange
  BY <1>1, SMTT(60)
<1>3. Left(c) = IF c.timeout <= 0 THEN c.timeout
                ELSE IF c.timeout >= e THEN c.timeout - e
                ELSE IF c.op = "send" THEN 0 ELSE c.timeout - e + TickRange
  BY DEF Left
<1> HIDE DEF e
<1>4. Left(c) \in Int /\ Left(c) >= -1 /\ Left(c) < TickRange
  BY <1>1, <1>2, <1>3, SMTT(60)
<1> QED BY <1>1, <1>4, SMTT(60) DEF Tick

\* The code after the rt_schedule of a call that has waited.
LEMMA ResumeKept ==
  ASSUME Counted, KernelInv, NEW t \in Thread, Resume(t)
  PROVE  Kept
<1>1. /\ k.cpu = t /\ pc[t] = "back" /\ k \in State /\ k.statu[t] = "RUNNING"
      /\ Good(k, pc, call) /\ k.nest = 0 /\ Calls(pc, call) /\ entry \in 0 .. Size
  BY OnCpu DEF Resume, At, KernelInv
<1>2. t \in Sender \cup Receiver /\ call[t] \in Call /\ k.tick \in Tick
  BY <1>1 DEF Calls, State
<1>3. CASE k.error[t] # "EOK" /\ Return(t, "user") /\ UNCHANGED <<k, ring>>
  <2>1. PICK q1, d1 : q1 = pc' /\ d1 = call'
    OBVIOUS
  <2>2. k' = k /\ entry' = entry
    BY <1>3 DEF ring
  <2>3. /\ Moves(pc, call, t, "user", NoCall, q1, d1) /\ "user" \in Pc
        /\ "user" \notin {"wait", "back"}
    BY <1>3, <2>1 DEF Return, Moves, Pc
  <2>4. Good(k, q1, d1) /\ \A op : Up(k, q1, d1, op) \ {t} = Up(k, pc, call, op) \ {t}
    <3>1. Moved(k, pc, call, t, "user", q1, d1)
      BY <1>1, <2>3, MoveGood
    <3> QED BY <3>1 DEF Moved
  <2>5. Calls(q1, d1)
    BY <1>1, <1>2, <2>3, NoCallType, CallsMove
  <2>6. OnTime(k, pc, call) => OnTime(k, q1, d1)
    BY <1>1, <2>3, MoveClock
  <2>7. \A op : t \notin Up(k, pc, call, op)
    BY <1>3 DEF Up
  <2>8. ASSUME NEW op, Enough(k, pc, call, entry, op) PROVE Enough(k, q1, d1, entry, op)
    <3>1. Up(k, pc, call, op) \subseteq Up(k, q1, d1, op)
      BY <2>4, <2>7
    <3> QED BY ONLY <1>1, <2>8, <3>1, Counted, EnoughKept, ZenonT(60)
  <2> QED BY <1>1, <2>1, <2>2, <2>4, <2>5, <2>6, <2>8 DEF Kept, KernelInv, NoLost, InTime
<1>4. CASE Loop(t, [call[t] EXCEPT !.timeout = Left(call[t])])
  <2>1. PICK c : c = [call[t] EXCEPT !.timeout = Left(call[t])]
    OBVIOUS
  <2>2. c \in Call /\ c.op = call[t].op
    BY <1>2, <2>1, LeftType DEF Call
  <2>3. Unwrapped /\ InTime => Fresh(c)
    BY <1>1, <1>2, <2>1, LeftFresh DEF InTime
  <2> QED BY <1>1, <1>2, <1>4, <2>1, <2>2, <2>3, LoopKept
<1> QED BY <1>3, <1>4 DEF Resume

\* rt_schedule at the end of a window, when some thread does not use the mailbox
LEMMA ScheduleKept ==
  ASSUME Counted, KernelInv, NEW t \in Thread, Schedule(t), Thread \ (Sender \cup Receiver) # {}
  PROVE  Kept
<1>1. /\ k.cpu = t /\ pc[t] \in {"sched", "wait"} /\ k \in State /\ k.cur = t
      /\ Good(k, pc, call) /\ k.nest = 0 /\ Calls(pc, call) /\ entry \in 0 .. Size /\ Whole(k, {})
  BY OnCpu DEF Schedule, At, KernelInv, Good
<1>2. k.group # {}
  <2>1. PICK i \in Thread \ (Sender \cup Receiver) : TRUE
    OBVIOUS
  <2>2. pc[i] = "user" /\ i # t
    BY <1>1 DEF Calls
  <2>3. k.statu[i] \in {"READY", "RUNNING", "SUSPEND"}
    BY <1>1 DEF Good, Waits
  <2>4. k.statu[i] # "SUSPEND"
    BY <1>1, <2>2, SuspendedWaits
  <2>5. k.statu[i] # "RUNNING"
    BY <1>1, <2>2, RunningFacts
  <2> QED BY <1>1, <2>3, <2>4, <2>5, ReadyGroup
<1>3. PICK r, q1, w : /\ r = k' /\ q1 = pc'
                      /\ w = IF pc[t] = "sched" THEN "user" ELSE "back"
  OBVIOUS
<1>4. r = rt_schedule(k) /\ q1 = [pc EXCEPT ![t] = w] /\ call' = call /\ entry' = entry
  BY <1>3 DEF Schedule, At, ring
<1>5. Good(r, pc, call) /\ Calm(k, r, pc, call) /\ r.statu[r.cur] = "RUNNING"
  BY <1>1, <1>2, <1>4, ScheduleGood
<1>6. /\ q1 \in [Thread -> Pc] /\ q1[t] = w /\ \A u \in Thread \ {t} : q1[u] = pc[u]
      /\ w \in {"wait", "back"} <=> pc[t] \in {"wait", "back"}
  BY <1>1, <1>3, <1>4 DEF Calls, Pc
<1>7. \A u \in Thread : q1[u] \in {"wait", "back"} <=> pc[u] \in {"wait", "back"}
  BY <1>6
<1>8. Good(r, q1, call)
  BY <1>5, <1>7 DEF Good, Waits
<1>9. Calls(q1, call)
  BY <1>1, <1>6 DEF Calls
<1>10. ASSUME NEW op PROVE Up(r, q1, call, op) = Up(r, pc, call, op)
  BY <1>7 DEF Up
<1>11. OnTime(k, pc, call) => OnTime(r, q1, call)
  <2>1. OnTime(k, pc, call) => OnTime(r, pc, call)
    BY <1>1, <1>5, TimelyClock DEF Calm
  <2>2. OnTime(r, pc, call) => OnTime(r, q1, call)
    BY <1>7 DEF OnTime, Clocked
  <2> QED BY <2>1, <2>2
<1>12. ASSUME NEW op \in {"send", "recv"}, Enough(k, pc, call, entry, op)
       PROVE  Enough(r, q1, call, entry, op)
  <2>1. Up(k, pc, call, op) \subseteq Up(r, q1, call, op)
    BY <1>5, <1>10 DEF Calm
  <2>2. Nodes(r.list[Own(op)]) \subseteq Nodes(k.list[Own(op)])
    BY <1>5, OwnWait DEF Calm
  <2> QED BY ONLY <1>1, <1>12, <2>1, <2>2, Counted, EnoughKept, ZenonT(60)
<1> QED BY <1>1, <1>3, <1>4, <1>5, <1>8, <1>9, <1>11, <1>12
        DEF Kept, KernelInv, NoLost, InTime, Calm

\* A kernel state that differs in the switch, the nesting and the slices only.
LEMMA StillUp ==
  ASSUME NEW k1, NEW r, NEW q, NEW d, NEW op, r.list = k1.list, r.error = k1.error
  PROVE  Up(r, q, d, op) = Up(k1, q, d, op)
  BY DEF Up

\* The Ethernet handler posts a message and wakes the first receiver.
LEMMA ReadyKept ==
  ASSUME Counted, KernelInv, NEW v, eth_device_ready(v)
  PROVE  Kept
<1>1. /\ Good(k, pc, call) /\ k.nest = 0 /\ Calls(pc, call) /\ entry \in 0 .. Size
      /\ k \in State /\ (\A t \in Thread : k.remaining[t] > 0) /\ Whole(k, {})
  BY DEF KernelInv, Good, Whole, Sound
<1>2. pc' = pc /\ call' = call
  BY DEF eth_device_ready
<1>3. RecvQ = Own("recv") /\ Own("recv") \in Wait /\ Own("send") \in Wait
  BY OwnWait DEF Own
<1>4. CASE entry = Size /\ UNCHANGED <<k, ring>>
  BY <1>1, <1>2, <1>4 DEF ring, Kept, KernelInv, NoLost, InTime
<1> DEFINE empty == rt_list_isempty(k.list[RecvQ])
<1>5. ASSUME entry < Size, Store(v),
             k' = IF empty THEN k
                  ELSE LeaveHandler(rt_schedule(
                         rt_thread_resume([k EXCEPT !.nest = 1], k.list[RecvQ][1])))
      PROVE  Kept
  <2>1. entry' = entry + 1 /\ entry' \in 0 .. Size
    BY <1>1, <1>5, MailboxAssumption, SMTT(60) DEF Store
  <2>2. Spare("send", entry') = Spare("send", entry) - 1 /\ Spare("recv", entry') = Spare("recv", entry) + 1
    BY <1>1, <2>1, MailboxAssumption, SMTT(60) DEF Spare
  <2>3. CASE empty
    <3>1. k' = k /\ Nodes(k.list[Own("recv")]) = {}
      BY <1>1, <1>3, <1>5, <2>3, QueueThreads
    <3>2. Enough(k, pc, call, entry', "recv")
      BY <2>1, <3>1, EnoughNone
    <3>3. Enough(k, pc, call, entry, "send") => Enough(k, pc, call, entry', "send")
      <4>1. Up(k, pc, call, "send") \ {v} \subseteq Up(k, pc, call, "send")
        OBVIOUS
      <4> QED BY ONLY <1>1, <2>1, <2>2, <4>1, Counted, EnoughTaken, ZenonT(60)
    <3> QED BY <1>1, <1>2, <2>1, <3>1, <3>2, <3>3 DEF Kept, KernelInv, NoLost, InTime
  <2>4. CASE ~ empty
    <3>1. PICK u, k1, k2, k3, r :
            /\ u = k.list[RecvQ][1] /\ k1 = [k EXCEPT !.nest = 1] /\ k2 = rt_thread_resume(k1, u)
            /\ k3 = rt_schedule(k2) /\ r = LeaveHandler(k3)
      OBVIOUS
    <3>2. k' = r
      BY <1>5, <2>4, <3>1
    <3>3. k.tick \in Tick /\ k.remaining \in [Thread -> Nat]
      BY <1>1 DEF State
    <3>4. k1 = Handler(k, k.tick, k.remaining)
      BY <1>1, <3>1 DEF State, Handler
    <3>5. /\ Good(k1, pc, call) /\ k1.nest = 1 /\ k1.tick = k.tick /\ k1.list = k.list
          /\ k1.error = k.error /\ k1.active = k.active /\ k1.timeout = k.timeout
      BY ONLY <1>1, <3>3, <3>4, HandlerGood, SMTT(60)
    <3>6. u \in Nodes(k1.list[Own("recv")]) /\ Nodes(k.list[Own("recv")]) # {}
      BY <1>1, <1>3, <2>4, <3>1, <3>5, QueueThreads
    <3>7. /\ Good(k2, pc, call) /\ Timely(k1, k2)
          /\ u \notin Up(k1, pc, call, "recv")
          /\ \A h \in Wait : Nodes(k2.list[h]) \subseteq Nodes(k1.list[h])
          /\ Up(k2, pc, call, "recv") = Up(k1, pc, call, "recv") \cup {u}
          /\ Up(k2, pc, call, "send") = Up(k1, pc, call, "send")
      <4>1. Awoken(k1, pc, call, "recv", u, k2)
        BY <1>1, <3>1, <3>5, <3>6, WakeGood
      <4> QED BY <4>1 DEF Awoken
    <3>8. Good(k3, pc, call) /\ Calm(k2, k3, pc, call)
      BY <3>1, <3>7, ScheduleGood
    <3>9. /\ Good(r, pc, call) /\ r.nest = 0 /\ r.tick = k3.tick /\ r.list = k3.list
          /\ r.error = k3.error /\ r.active = k3.active /\ r.timeout = k3.timeout
      BY <3>1, <3>8, LeaveGood, SMTT(60)
    <3>10. \A op : Up(r, pc, call, op) = Up(k3, pc, call, op) /\ Up(k1, pc, call, op) = Up(k, pc, call, op)
      BY <3>5, <3>9, StillUp, SMTT(60)
    <3>11. Enough(k, pc, call, entry, "recv") => Enough(r, pc, call, entry', "recv")
      <4>1. /\ Up(r, pc, call, "recv") = Up(k, pc, call, "recv") \cup {u}
            /\ u \notin Up(k, pc, call, "recv")
        BY <3>7, <3>8, <3>10 DEF Calm
      <4> QED BY ONLY <1>1, <2>1, <2>2, <3>6, <4>1, Counted, EnoughWoken, ZenonT(60)
    <3>12. Enough(k, pc, call, entry, "send") => Enough(r, pc, call, entry', "send")
      <4>1. Up(k, pc, call, "send") \ {u} \subseteq Up(r, pc, call, "send")
        BY <3>7, <3>8, <3>10 DEF Calm
      <4>2. Nodes(r.list[Own("send")]) \subseteq Nodes(k.list[Own("send")])
        BY <1>3, <3>5, <3>7, <3>8, <3>9 DEF Calm
      <4> QED BY ONLY <1>1, <2>1, <2>2, <4>1, <4>2, Counted, EnoughTaken, ZenonT(60)
    <3>13. OnTime(k, pc, call) => OnTime(r, pc, call)
      <4>1. Timely(k1, k3) /\ k1 \in State
        BY <3>5, <3>7, <3>8, TimelyTrans DEF Calm, Good, Whole, Sound
      <4>2. OnTime(k, pc, call) => OnTime(k1, pc, call)
        BY <3>5 DEF OnTime, Clocked
      <4>3. OnTime(k1, pc, call) => OnTime(k3, pc, call)
        BY <1>1, <4>1, TimelyClock
      <4>4. OnTime(k3, pc, call) => OnTime(r, pc, call)
        BY <3>9 DEF OnTime, Clocked
      <4> QED BY <4>2, <4>3, <4>4
    <3> QED BY <1>1, <1>2, <2>1, <3>2, <3>9, <3>11, <3>12, <3>13
            DEF Kept, KernelInv, NoLost, InTime
  <2> QED BY <2>3, <2>4
<1> QED BY <1>4, <1>5 DEF eth_device_ready

-----------------------------------------------------------------------------
\* The loop of rt_timer_check, and the tick.

\* Induction over the naturals for a set of them, from the well-founded order
\* on them.
Order == INSTANCE WellFoundedInduction

\* A set of naturals has a least element.
LEMMA LeastNat ==
  ASSUME NEW T, T \subseteq Nat, T # {}
  PROVE  \E x \in T : \A y \in T : x <= y
<1> DEFINE R == {s \in Nat \X Nat : s[1] < s[2]}
<1>1. Order!IsWellFoundedOn(R, Nat)
  BY Order!NatLessThanWellFounded DEF Order!OpToRel
<1> HIDE DEF R
<1>2. PICK x \in T : \A y \in T : ~ (<<y, x>> \in R)
  BY <1>1, Order!WFMin
<1>3. ASSUME NEW y \in T PROVE x <= y
  <2>1. ~ (<<y, x>> \in R)
    BY <1>2
  <2> QED BY <2>1, SMTT(60) DEF R
<1> QED BY <1>3

\* A set with 0 that is closed under successor has every natural.
LEMMA SetInduction ==
  ASSUME NEW S, 0 \in S, \A i \in Nat : i \in S => i + 1 \in S
  PROVE  Nat \subseteq S
<1> SUFFICES ASSUME Nat \ S # {} PROVE FALSE
  OBVIOUS
<1>1. PICK x \in Nat \ S : \A y \in Nat \ S : x <= y
  BY LeastNat
<1>2. x # 0 /\ x - 1 \in Nat /\ x - 1 \in S
  BY <1>1, SMTT(60)
<1> QED BY <1>1, <1>2, SMTT(60)

\* The loop of rt_timer_check up to its i-th timer, as a function of i.
IsCheck(g, k1, i) ==
  g = [j \in 0 .. i |-> IF j = 0 THEN k1 ELSE FireIfDue(g[j - 1], k1.timers[j])]

\* One more turn of the loop.
LEMMA CheckTurn ==
  ASSUME NEW k1, NEW i \in Nat, NEW g, IsCheck(g, k1, i)
  PROVE  \E h : IsCheck(h, k1, i + 1)
<1> DEFINE h == [j \in 0 .. i + 1 |->
                   IF j = i + 1 THEN FireIfDue(g[i], k1.timers[i + 1]) ELSE g[j]]
<1>0. \A j \in 0 .. i : g[j] = IF j = 0 THEN k1 ELSE FireIfDue(g[j - 1], k1.timers[j])
  BY DEF IsCheck
<1>1. \A j \in 0 .. i : h[j] = g[j]
  BY SMTT(60)
<1>2. h[i + 1] = FireIfDue(g[i], k1.timers[i + 1])
  BY SMTT(60)
<1>3. h = [j \in 0 .. i + 1 |-> h[j]]
  OBVIOUS
<1> HIDE DEF h
<1>4. ASSUME NEW j \in 0 .. i + 1
      PROVE  h[j] = IF j = 0 THEN k1 ELSE FireIfDue(h[j - 1], k1.timers[j])
  <2>1. CASE j = i + 1
    <3>1. j # 0 /\ j - 1 = i /\ i \in 0 .. i
      BY <2>1, SMTT(60)
    <3> QED BY <1>1, <1>2, <2>1, <3>1
  <2>2. CASE j # i + 1
    <3>1. j \in 0 .. i /\ (j # 0 => j - 1 \in 0 .. i)
      BY <2>2, SMTT(60)
    <3> QED BY <1>0, <1>1, <3>1
  <2> QED BY <2>1, <2>2
<1>5. IsCheck(h, k1, i + 1)
  BY <1>3, <1>4 DEF IsCheck
<1> QED BY <1>5

\* The loop ends in a state of every set that its turns do not leave.
LEMMA CheckKeeps ==
  ASSUME NEW k1, k1.timers \in Seq(Thread), NEW S, k1 \in S,
         \A r \in S, t \in Thread : FireIfDue(r, t) \in S
  PROVE  rt_timer_check(k1) \in S
<1> DEFINE c == Len(k1.timers)
           T == {i \in Nat : \E g : IsCheck(g, k1, i)}
           h == CHOOSE h : h = [i \in 0 .. Len(k1.timers) |->
                  IF i = 0 THEN k1 ELSE FireIfDue(h[i - 1], k1.timers[i])]
<1>1. c \in Nat /\ \A i \in 1 .. c : k1.timers[i] \in Thread
  BY SMTT(60)
<1>2. c \in T
  <2>1. 0 \in T
    <3>1. IsCheck([j \in 0 .. 0 |-> k1], k1, 0)
      BY SMTT(60) DEF IsCheck
    <3> QED BY <3>1
  <2>2. \A i \in Nat : i \in T => i + 1 \in T
    BY CheckTurn, SMTT(60)
  <2> HIDE DEF T
  <2> QED BY <1>1, <2>1, <2>2, SetInduction
<1>3. \E g : g = [i \in 0 .. Len(k1.timers) |->
                   IF i = 0 THEN k1 ELSE FireIfDue(g[i - 1], k1.timers[i])]
  BY <1>2, Zenon DEF IsCheck
<1>4. h = [i \in 0 .. Len(k1.timers) |-> IF i = 0 THEN k1 ELSE FireIfDue(h[i - 1], k1.timers[i])]
  BY <1>3, Zenon
<1>5. rt_timer_check(k1) = h[Len(k1.timers)]
  BY Zenon DEF rt_timer_check
<1> HIDE DEF h
<1> DEFINE U == {i \in Nat : i <= c => h[i] \in S}
<1>6. c \in U
  <2>1. 0 \in U
    <3>1. h[0] = k1
      BY <1>1, <1>4, SMTT(60)
    <3> QED BY <3>1
  <2>2. ASSUME NEW i \in Nat, i \in U PROVE i + 1 \in U
    <3>1. CASE i + 1 <= c
      <4>1. i + 1 \in 1 .. c /\ i + 1 \in 0 .. c /\ i + 1 # 0 /\ (i + 1) - 1 = i /\ h[i] \in S
        BY <1>1, <2>2, <3>1, SMTT(60)
      <4>2. h[i + 1] = FireIfDue(h[i], k1.timers[i + 1])
        BY <1>4, <4>1
      <4> QED BY <1>1, <4>1, <4>2, SMTT(60)
    <3> QED BY <3>1, SMTT(60)
  <2> HIDE DEF U
  <2> QED BY <1>1, <2>1, <2>2, SetInduction
<1> QED BY <1>1, <1>5, <1>6, SMTT(60)

\* rt_timer_check
LEMMA CheckGood ==
  ASSUME NEW k1, NEW q, NEW d, Good(k1, q, d)
  PROVE  Good(rt_timer_check(k1), q, d) /\ Calm(k1, rt_timer_check(k1), q, d)
<1> DEFINE S == {r \in State : Good(r, q, d) /\ Calm(k1, r, q, d)}
<1>1. k1 \in State /\ k1.timers \in Seq(Thread)
  BY DEF Good, Whole, Sound, State
<1>2. k1 \in S
  BY <1>1, CalmSelf
<1>3. ASSUME NEW r \in S, NEW t \in Thread PROVE FireIfDue(r, t) \in S
  <2>1. Good(FireIfDue(r, t), q, d) /\ Calm(r, FireIfDue(r, t), q, d)
    BY FireGood
  <2>2. FireIfDue(r, t) \in State
    BY <2>1 DEF Good, Whole, Sound
  <2> QED BY <2>1, <2>2, CalmTrans
<1> HIDE DEF S
<1>4. rt_timer_check(k1) \in S
  BY <1>1, <1>2, <1>3, CheckKeeps
<1> QED BY <1>4 DEF S

\* The tick: the running thread is charged, then every timer is looked at.
LEMMA TickKept ==
  ASSUME Counted, KernelInv, sys_tick_handler
  PROVE  Kept
<1> DEFINE expired == k.remaining[k.cur] = 1
           k0 == [k EXCEPT !.nest = 1, !.tick = TickSum(@, 1),
                           !.remaining[k.cur] = IF expired THEN slice[k.cur] ELSE @ - 1]
           m0 == [k.remaining EXCEPT ![k.cur] = IF expired THEN slice[k.cur] ELSE @ - 1]
<1>1. /\ Good(k, pc, call) /\ k.nest = 0 /\ Calls(pc, call) /\ entry \in 0 .. Size
      /\ k \in State /\ \A t \in Thread : k.remaining[t] > 0
  BY DEF KernelInv, Good, Whole, Sound
<1>2. /\ k.tick < MaxTick /\ pc' = pc /\ call' = call /\ entry' = entry
      /\ k' = LeaveHandler(rt_timer_check(IF expired THEN rt_schedule(k0) ELSE k0))
  BY DEF sys_tick_handler, ring
<1>3. k.cur \in Thread /\ k.remaining \in [Thread -> Nat] /\ k.tick \in Tick
  BY <1>1 DEF State
<1>4. m0 \in [Thread -> Nat] /\ \A t \in Thread : m0[t] > 0
  <2>1. slice[k.cur] \in Nat /\ slice[k.cur] > 0
    BY <1>3, KernelAssumption, SMTT(60)
  <2> QED BY <1>1, <1>3, <2>1, SMTT(60)
<1>5. TickSum(k.tick, 1) \in Tick
  BY <1>3, KernelAssumption, SMTT(60) DEF TickSum, Tick
<1>6. k0 = [k EXCEPT !.nest = 1, !.tick = TickSum(k.tick, 1), !.remaining = m0]
  BY <1>1 DEF State
<1>7. PICK m, i, k1, k2, k3, r :
        /\ m = m0 /\ i = TickSum(k.tick, 1) /\ k1 = k0
        /\ k2 = (IF expired THEN rt_schedule(k1) ELSE k1)
        /\ k3 = rt_timer_check(k2) /\ r = LeaveHandler(k3)
  OBVIOUS
<1>8. k' = r
  BY <1>2, <1>7, SMTT(60)
<1>9. k1 = Handler(k, i, m)
  BY <1>6, <1>7 DEF Handler
<1>10. i \in Tick /\ m \in [Thread -> Nat] /\ \A t \in Thread : m[t] > 0
  BY <1>4, <1>5, <1>7
<1> HIDE DEF k0, m0
<1>11. /\ Good(k1, pc, call) /\ k1.nest = 1 /\ k1.tick = i /\ k1.list = k.list /\ k1.error = k.error
       /\ k1.active = k.active /\ k1.timeout = k.timeout
  BY ONLY <1>1, <1>9, <1>10, HandlerGood, SMTT(60)
<1>12. Good(k2, pc, call) /\ Calm(k1, k2, pc, call)
  <2>1. CASE expired
    <3>1. k2 = rt_schedule(k1)
      BY <1>7, <2>1
    <3> QED BY <1>11, <3>1, ScheduleGood
  <2>2. CASE ~ expired
    <3>1. k2 = k1
      BY <1>7, <2>2
    <3> QED BY <1>11, <3>1, CalmSelf
  <2> QED BY <2>1, <2>2
<1>13. Good(k3, pc, call) /\ Calm(k2, k3, pc, call)
  BY <1>7, <1>12, CheckGood
<1>14. Calm(k1, k3, pc, call)
  BY <1>12, <1>13, CalmTrans
<1>15. /\ Good(r, pc, call) /\ r.nest = 0 /\ r.tick = k3.tick /\ r.list = k3.list /\ r.error = k3.error
       /\ r.active = k3.active /\ r.timeout = k3.timeout
  BY <1>7, <1>13, LeaveGood, SMTT(60)
<1>16. ASSUME NEW op \in {"send", "recv"}, Enough(k, pc, call, entry, op)
       PROVE  Enough(r, pc, call, entry, op)
  <2>1. Up(r, pc, call, op) = Up(k3, pc, call, op) /\ Up(k1, pc, call, op) = Up(k, pc, call, op)
    BY <1>11, <1>15, StillUp, SMTT(60)
  <2>2. Up(k, pc, call, op) \subseteq Up(r, pc, call, op)
    BY <1>14, <2>1 DEF Calm
  <2>3. Nodes(r.list[Own(op)]) \subseteq Nodes(k.list[Own(op)])
    BY <1>11, <1>14, <1>15, OwnWait DEF Calm
  <2> QED BY ONLY <1>1, <1>16, <2>2, <2>3, Counted, EnoughKept, ZenonT(60)
<1>17. ASSUME Unwrapped, OnTime(k, pc, call) PROVE OnTime(r, pc, call)
  <2>1. i = k.tick + 1 /\ k.tick \in Nat /\ k.tick + 1 <= MaxTick
    BY <1>2, <1>3, <1>7, <1>17, MailboxAssumption, KernelAssumption, SMTT(60) DEF Unwrapped, TickSum, Tick
  <2>2. ASSUME NEW t \in Thread PROVE Clocked(k1, t, pc, call)
    <3>1. call[t].since \in Nat /\ call[t].limit \in Int /\ call[t].delta \in Nat
      BY <1>1, CallInts DEF Calls
    <3> QED BY <1>11, <1>17, <2>1, <3>1, SMTT(60) DEF OnTime, Clocked
  <2>3. OnTime(k1, pc, call)
    BY <1>11, <2>1, <2>2 DEF OnTime
  <2>4. k1 \in State /\ Timely(k1, k3)
    BY <1>11, <1>14 DEF Good, Whole, Sound, Calm
  <2>5. OnTime(k3, pc, call)
    BY <1>1, <2>3, <2>4, TimelyClock
  <2> QED BY <1>15, <2>5 DEF OnTime, Clocked
<1> QED BY <1>1, <1>2, <1>8, <1>15, <1>16, <1>17 DEF Kept, KernelInv, NoLost, InTime

-----------------------------------------------------------------------------
\* Every step, when some thread does not use the mailbox.
LEMMA NextKept ==
  ASSUME Counted, KernelInv, [Next]_vars, Thread \ (Sender \cup Receiver) # {}
  PROVE  Kept
<1>1. CASE sys_tick_handler
  BY <1>1, TickKept
<1>2. ASSUME NEW v \in Isr, eth_device_ready(v) PROVE Kept
  BY <1>2, ReadyKept
<1>3. ASSUME NEW t \in Thread, Schedule(t) PROVE Kept
  BY <1>3, ScheduleKept
<1>4. ASSUME NEW t \in Thread, Resume(t) PROVE Kept
  BY <1>4, ResumeKept
<1>5. ASSUME NEW t \in Sender, NEW i \in Posts, NEW v \in Posted[t], rt_mb_send_wait(t, v, i)
      PROVE  Kept
  <2>1. t \in Thread /\ v \in Msg /\ i \in Tick \cup {-1}
    BY MailboxAssumption
  <2>2. Unwrapped => i = Forever \/ MaxTick + i < TickRange
    BY DEF Unwrapped
  <2> QED BY <1>5, <2>1, <2>2, EnterKept DEF rt_mb_send_wait
<1>6. ASSUME NEW t \in Receiver, NEW i \in Tick, rt_mb_recv(t, i),
             Unwrapped => i = Forever \/ MaxTick + i < TickRange
      PROVE  Kept
  <2>1. t \in Thread
    BY MailboxAssumption
  <2> QED BY <1>6, <2>1, EnterKept DEF rt_mb_recv
<1>7. 0 \in Tick /\ Forever \in Tick /\ (Unwrapped => MaxTick + 0 < TickRange)
  BY KernelAssumption, MailboxAssumption, SMTT(60) DEF Tick, Forever, Unwrapped
<1>8. ASSUME NEW t \in Receiver, NEW i \in Fetches, sys_arch_mbox_fetch(t, i) PROVE Kept
  <2>1. i \in Tick /\ (Unwrapped => i = Forever \/ MaxTick + i < TickRange)
    BY MailboxAssumption DEF Unwrapped
  <2>2. CASE i = 0
    BY <1>6, <1>7, <1>8, <2>2 DEF sys_arch_mbox_fetch
  <2>3. CASE i # 0
    BY <1>6, <1>8, <2>1, <2>3 DEF sys_arch_mbox_fetch
  <2> QED BY <2>2, <2>3
<1>9. ASSUME NEW t \in Receiver, rt_mb_recv(t, 0) PROVE Kept
  BY <1>6, <1>7, <1>9
<1>10. CASE UNCHANGED vars
  BY <1>10 DEF vars, Kept, KernelInv, NoLost, InTime
<1> QED BY <1>1, <1>2, <1>3, <1>4, <1>5, <1>8, <1>9, <1>10 DEF Next

-----------------------------------------------------------------------------
\* The invariant holds when the first thread has been chosen.

\* Facts about finite sets, in an instance of their own.
Finite == INSTANCE FiniteSetTheorems

\* Its definitions are the ones of FiniteSets.
LEMMA SameFinite ==
  ASSUME NEW S
  PROVE  (IsFiniteSet(S) <=> Finite!IsFiniteSet(S)) /\ Cardinality(S) = Finite!Cardinality(S)
<1>1. IsFiniteSet(S) <=> Finite!IsFiniteSet(S)
  BY DEF IsFiniteSet, Finite!IsFiniteSet
<1>2. Cardinality(S) = Finite!Cardinality(S)
  BY DEF Cardinality, Finite!Cardinality
<1> QED BY <1>1, <1>2

\* The sizes of sets of threads
LEMMA ThreadSets == Counted
<1> SUFFICES ASSUME NEW S, S \subseteq Thread
             PROVE  /\ Cardinality(S) \in Nat
                    /\ \A T : T \subseteq S => Cardinality(T) \in Nat /\ Cardinality(T) <= Cardinality(S)
                    /\ \A t : t \notin S => Cardinality(S \cup {t}) = Cardinality(S) + 1
                    /\ \A t : Cardinality(S \ {t}) \in Nat /\ Cardinality(S \ {t}) >= Cardinality(S) - 1
  BY DEF Counted
<1>1. Finite!IsFiniteSet(Thread)
  BY MailboxAssumption, SameFinite
<1>2. Finite!IsFiniteSet(S)
  BY <1>1, Finite!FS_Subset
<1>3. Finite!Cardinality(S) \in Nat
  BY <1>2, Finite!FS_CardinalityType
<1>4. ASSUME NEW T, T \subseteq S
      PROVE  Finite!Cardinality(T) \in Nat /\ Finite!Cardinality(T) <= Finite!Cardinality(S)
  <2>1. Finite!IsFiniteSet(T) /\ Finite!Cardinality(T) <= Finite!Cardinality(S)
    BY <1>2, <1>4, Finite!FS_Subset
  <2> QED BY <2>1, Finite!FS_CardinalityType
<1>5. ASSUME NEW t, t \notin S PROVE Finite!Cardinality(S \cup {t}) = Finite!Cardinality(S) + 1
  BY <1>2, <1>5, Finite!FS_AddElement
<1>6. ASSUME NEW t
      PROVE  /\ Finite!Cardinality(S \ {t}) \in Nat
             /\ Finite!Cardinality(S \ {t}) >= Finite!Cardinality(S) - 1
  <2>1. Finite!Cardinality(S \ {t}) =
          IF t \in S THEN Finite!Cardinality(S) - 1 ELSE Finite!Cardinality(S)
    BY <1>2, Finite!FS_RemoveElement
  <2>2. Finite!Cardinality(S \ {t}) \in Nat
    BY <1>4
  <2> QED BY <1>3, <2>1, <2>2, SMTT(60)
<1> QED BY <1>3, <1>4, <1>5, <1>6, SameFinite

\* The least priority number has a thread.
LEMMA StartExists ==
  ASSUME Thread # {}
  PROVE  Start \in Thread
<1> DEFINE g == {prio[t] : t \in Thread}
<1>1. g \subseteq Priority /\ g # {}
  BY KernelAssumption, SMTT(60)
<1>2. HighestPriority(g) \in g /\ \A q \in g : HighestPriority(g) <= q
  BY <1>1, HighestPriorityIn
<1>3. PICK t \in Thread : prio[t] = HighestPriority(g)
  BY <1>2
<1>4. \A u \in Thread : prio[t] <= prio[u]
  BY <1>2, <1>3
<1> QED BY <1>4 DEF Start

\* A ready queue holds the threads of its priority, once.
LEMMA ReadyQueueFacts ==
  ASSUME NEW p
  PROVE  /\ ReadyQueue(p) \in Seq(Thread) /\ NoRepeat(ReadyQueue(p))
         /\ Nodes(ReadyQueue(p)) = {t \in Thread \ {Start} : prio[t] = p}
<1> DEFINE members == {t \in Thread \ {Start} : prio[t] = p}
           c == Cardinality(members)
<1>1. members \subseteq Thread /\ Finite!IsFiniteSet(Thread)
  BY MailboxAssumption, SameFinite
<1>2. Finite!IsFiniteSet(members) /\ c = Finite!Cardinality(members)
  BY <1>1, Finite!FS_Subset, SameFinite
<1>3. ReadyQueue(p) = CHOOSE s \in [1 .. c -> members] : NoRepeat(s) /\ Nodes(s) = members
  BY DEF ReadyQueue
<1> HIDE DEF members
<1>4. c \in Nat /\ Finite!ExistsBijection(1 .. c, members)
  BY <1>2, Finite!FS_CardinalityType
<1> HIDE DEF c
<1>5. PICK f : f \in Finite!Bijection(1 .. c, members)
  BY <1>4 DEF Finite!ExistsBijection
<1>6. /\ f \in [1 .. c -> members]
      /\ \A i, j \in 1 .. c : f[i] = f[j] => i = j
      /\ \A t \in members : \E i \in 1 .. c : f[i] = t
  BY <1>5 DEF Finite!Bijection, Finite!Injection, Finite!Surjection, Finite!IsInjective
<1>7. Len(f) = c
  BY <1>4, <1>6, SMTT(60)
<1>8. NoRepeat(f)
  BY <1>6, <1>7 DEF NoRepeat
<1>9. Nodes(f) = members
  BY <1>6, <1>7, SMTT(60) DEF Nodes
<1>10. /\ ReadyQueue(p) \in [1 .. c -> members]
       /\ NoRepeat(ReadyQueue(p)) /\ Nodes(ReadyQueue(p)) = members
  BY <1>3, <1>6, <1>8, <1>9
<1>11. ReadyQueue(p) \in Seq(members)
  BY <1>4, <1>10, SMTT(60)
<1>12. ReadyQueue(p) \in Seq(Thread)
  BY <1>1, <1>11, SMTT(60)
<1> QED BY <1>10, <1>12 DEF members

\* The kernel state of Init is that of a boot without uncreated threads.
LEMMA InitWhole ==
  ASSUME Init, Thread # {}
  PROVE  /\ Whole(k, {}) /\ \A h \in Wait : Nodes(k.list[h]) = {}
         /\ \A t \in Thread : k.statu[t] \in {"READY", "RUNNING"}
         /\ k.statu[k.cur] = "RUNNING" /\ k.nest = 0 /\ k.tick = 0
<1> DEFINE queues == [h \in ListHead |-> IF h \in Priority THEN ReadyQueue(h) ELSE <<>>]
<1>1. queues \in [ListHead -> Seq(Thread)]
  <2>1. \A h \in ListHead : (IF h \in Priority THEN ReadyQueue(h) ELSE <<>>) \in Seq(Thread)
    BY ReadyQueueFacts, EmptyList
  <2> QED BY <2>1
<1>2. \A p \in Priority : queues[p] = ReadyQueue(p)
  BY DEF ListHead
<1>3. \A h \in Wait \cup {Dead} : queues[h] = <<>>
  BY KernelAssumption DEF ListHead
<1>4. /\ k.cur = Start /\ k.list = queues /\ k.nest = 0 /\ k.tick = 0
      /\ \A t \in Thread : k.statu[t] = IF t = Start THEN "RUNNING" ELSE "READY"
  BY DEF Init
<1>5. PICK l : l = queues
  OBVIOUS
<1>6. k = Boot(Start, {}, l)
  <2>1. /\ Thread \ ({} \cup {Start}) = Thread \ {Start}
        /\ [t \in Thread |-> IF t \in {} THEN "INIT" ELSE IF t = Start THEN "RUNNING" ELSE "READY"]
             = [t \in Thread |-> IF t = Start THEN "RUNNING" ELSE "READY"]
    OBVIOUS
  <2> QED BY <1>5, <2>1 DEF Boot, Init
<1> HIDE DEF queues
<1>7. /\ Start \in Thread /\ Start \notin {} /\ l \in [ListHead -> Seq(Thread)]
      /\ \A p \in Priority : NoRepeat(l[p])
           /\ Nodes(l[p]) = {t \in Thread \ ({} \cup {Start}) : prio[t] = p}
      /\ \A h \in Wait \cup {Dead} : l[h] = <<>>
  <2>1. Thread \ ({} \cup {Start}) = Thread \ {Start}
    OBVIOUS
  <2> QED BY <1>1, <1>2, <1>3, <1>5, <2>1, StartExists, ReadyQueueFacts
<1>8. Whole(k, {})
  BY ONLY <1>6, <1>7, BootWhole, ZenonT(60)
<1>9. \A h \in Wait : Nodes(k.list[h]) = {}
  BY <1>3, <1>4, EmptyList
<1> QED BY <1>4, <1>7, <1>8, <1>9

\* No call has begun and no thread waits.
LEMMA InitKept ==
  ASSUME Init, Thread # {}
  PROVE  KernelInv /\ NoLost /\ InTime
<1>1. /\ pc = [t \in Thread |-> "user"] /\ call = [t \in Thread |-> NoCall] /\ entry = 0
  BY DEF Init
<1>2. /\ Whole(k, {}) /\ \A h \in Wait : Nodes(k.list[h]) = {}
      /\ \A t \in Thread : k.statu[t] \in {"READY", "RUNNING"}
      /\ k.statu[k.cur] = "RUNNING" /\ k.nest = 0 /\ k.tick = 0
  BY InitWhole
<1>3. Good(k, pc, call)
  BY <1>2 DEF Good, Waits
<1>4. Calls(pc, call)
  BY <1>1, NoCallType DEF Calls, Pc
<1>5. entry \in 0 .. Size
  BY <1>1, MailboxAssumption, SMTT(60)
<1>6. NoLost
  <2>1. ASSUME NEW op PROVE Nodes(k.list[Own(op)]) = {}
    BY <1>2, OwnWait
  <2> QED BY <1>5, <2>1, ThreadSets, EnoughNone DEF NoLost
<1>7. InTime
  BY <1>1, <1>2, MailboxAssumption, SMTT(60) DEF InTime, OnTime, Clocked
<1> QED BY <1>2, <1>3, <1>4, <1>5, <1>6, <1>7 DEF KernelInv

-----------------------------------------------------------------------------
\* Some thread, such as the shell that polls for input, never calls the mailbox
\* and never sleeps, so that a call that blocks always finds a thread to run.
IdleExists == Thread \ (Sender \cup Receiver) # {}

\* The invariants hold in every state.
LEMMA AlwaysKept ==
  ASSUME IdleExists
  PROVE  Spec => [](Safe /\ KernelInv /\ NoLost /\ (Unwrapped => InTime))
<1>1. Init => Safe /\ KernelInv /\ NoLost /\ (Unwrapped => InTime)
  <2>1. Thread # {}
    BY DEF IdleExists
  <2> QED BY <2>1, SafeInit, InitKept
<1>2. Safe /\ KernelInv /\ NoLost /\ (Unwrapped => InTime) /\ [Next]_vars
        => (Safe /\ KernelInv /\ NoLost /\ (Unwrapped => InTime))'
  <2> SUFFICES ASSUME Safe, KernelInv, NoLost, Unwrapped => InTime, [Next]_vars
               PROVE  Safe' /\ KernelInv' /\ NoLost' /\ (Unwrapped => InTime)'
    OBVIOUS
  <2>1. Safe' /\ Kept
    BY SafeStep, ThreadSets, NextKept DEF IdleExists
  <2>2. Unwrapped' <=> Unwrapped
    BY DEF Unwrapped, Forever
  <2> QED BY <2>1, <2>2 DEF Kept
<1> QED BY <1>1, <1>2, PTL DEF Spec

\* However calls, wake-ups, timeouts and handler posts interleave, every
\* variable keeps its type.
THEOREM MailboxTyped ==
  ASSUME IdleExists
  PROVE  Spec => []TypeOK
<1>1. Safe /\ KernelInv => TypeOK
  BY DEF Safe, RingInv, KernelInv, Good, Calls, Whole, Sound, TypeOK
<1> QED BY <1>1, AlwaysKept, PTL

\* rt_mb_send_wait, rt_mb_recv, the tick handler and eth_device_ready leave the
\* scheduler sound: the receive that wakes a sender without rt_thread_resume too.
THEOREM MailboxKernelSound ==
  ASSUME IdleExists
  PROVE  Spec => []KernelSound
<1>1. KernelInv => KernelSound
  BY DEF KernelInv, Good, Whole, Sound, KernelSound
<1> QED BY <1>1, AlwaysKept, PTL

\* While receivers wait there is an awake one for every message of the ring,
\* while senders wait an awake one for every free cell.
THEOREM NoWakeupLost ==
  ASSUME IdleExists
  PROVE  Spec => []NoLostWakeup
<1>1. KernelInv /\ NoLost => NoLostWakeup
  <2> SUFFICES ASSUME KernelInv, NoLost PROVE NoLostWakeup
    OBVIOUS
  <2>1. k.list[RecvQ] \in Seq(Thread) /\ k.list[SendQ] \in Seq(Thread)
    BY MailboxAssumption DEF KernelInv, Good, Whole, Sound, State, ListHead
  <2>2. /\ k.list[RecvQ] # <<>> => Nodes(k.list[RecvQ]) # {}
        /\ k.list[SendQ] # <<>> => Nodes(k.list[SendQ]) # {}
    <3>1. /\ Nodes(k.list[RecvQ]) = {} => Len(k.list[RecvQ]) = 0
          /\ Nodes(k.list[SendQ]) = {} => Len(k.list[SendQ]) = 0
      BY ONLY <2>1, IsEmptyNodes, ZenonT(60) DEF rt_list_isempty
    <3> QED BY ONLY <2>1, <3>1, SMTT(60)
  <2>3. Awake("recv") = Up(k, pc, call, "recv") /\ Awake("send") = Up(k, pc, call, "send")
    BY DEF Awake, Up, Own
  <2> QED BY <2>2, <2>3 DEF NoLost, Enough, Spare, Own, NoLostWakeup
<1> QED BY <1>1, AlwaysKept, PTL

\* While system_tick does not wrap, a call with a timeout returns an error
\* only after it has waited that many ticks, however often it was woken in vain.
THEOREM NeverEarlyTimeout ==
  ASSUME IdleExists, Unwrapped
  PROVE  Spec => []NoEarlyTimeout
<1>1. KernelInv /\ (Unwrapped => InTime) => NoEarlyTimeout
  <2> SUFFICES ASSUME KernelInv, InTime, NEW t \in Thread, Fails(t), call[t].limit # Forever
               PROVE  k.tick >= call[t].since + call[t].limit
    BY DEF NoEarlyTimeout
  <2>1. pc[t] = "back" /\ (k.error[t] # "EOK" \/ Left(call[t]) = 0)
    BY DEF Fails
  <2>2. Calls(pc, call) /\ k.tick \in Tick /\ k.tick \in Nat
    BY SMTT(60) DEF KernelInv, Good, Whole, Sound, State, Tick
  <2>3. CASE Left(call[t]) = 0
    BY <2>1, <2>2, <2>3, LeftFresh DEF InTime
  <2>4. CASE k.error[t] # "EOK"
    <3>1. Clocked(k, t, pc, call)
      BY DEF InTime, OnTime
    <3>2. call[t].since \in Nat /\ call[t].limit \in Int
      BY <2>2, CallInts DEF Calls
    <3> QED BY <2>1, <2>2, <2>4, <3>1, <3>2, SMTT(60) DEF Clocked
  <2> QED BY <2>1, <2>3, <2>4
<1> QED BY <1>1, AlwaysKept, PTL

=============================================================================
