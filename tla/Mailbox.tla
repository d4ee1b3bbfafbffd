------------------------------ MODULE Mailbox -------------------------------
(***************************************************************************)
(* One mailbox of os/thread.c, its callers and the two interrupts that     *)
(* reach it: the tick, whose timers end a wait, and the Ethernet handler,  *)
(* which posts through eth_device_ready.  Both calls hold interrupts       *)
(* disabled from their test of the ring to the end of the critical         *)
(* section, so one turn of their loop is one step; the window before       *)
(* rt_schedule and the one after it lie between steps.                     *)
(*                                                                         *)
(* lwIP reaches the mailbox through arch/sys_arch.c, whose ticks are       *)
(* milliseconds (RT_TICK_PER_SECOND is 1000): a timeout of 0 of            *)
(* sys_arch_mbox_fetch means RT_WAITING_FOREVER and any other is kept.     *)
(* RT_WAITING_FOREVER is -1: rt_mb_send_wait has it in an int, rt_mb_recv  *)
(* in an unsigned int, where it is the largest tick.                       *)
(* A definition Op_Word is Op with a plausible mistake, as in Kernel.      *)
(***************************************************************************)
EXTENDS Kernel

CONSTANTS Sender, Receiver,     \* threads that call the mailbox
          SendQ,                \* suspend_sender_thread
          RecvQ,                \* suspend_thread_list
          Msg, NoMsg,           \* messages; NoMsg is an unwritten cell
          Size,                 \* size of the mailbox
          Posts,                \* timeouts of rt_mb_send_wait; -1 is forever
          Fetches,              \* timeouts of sys_arch_mbox_fetch; 0 is forever
          Posted,               \* the messages each sender posts
          Isr,                  \* messages the Ethernet handler posts
          MaxTick               \* bound: no tick after this one

ASSUME MailboxAssumption ==
  /\ IsFiniteSet(Thread) /\ Sender \subseteq Thread /\ Receiver \subseteq Thread
  /\ SendQ \in Wait /\ RecvQ \in Wait /\ SendQ # RecvQ
  /\ Posted \in [Sender -> SUBSET Msg] /\ Isr \subseteq Msg /\ NoMsg \notin Msg
  /\ Size \in Nat \ {0} /\ MaxTick \in Nat
  /\ Posts \subseteq Tick \cup {-1} /\ Fetches \subseteq Tick

VARIABLES k,            \* the kernel state
          pc,           \* where each thread is in its code
          call,         \* the call a thread is in, while it is in one
          msg_pool, entry, in_offset, out_offset,   \* the ring
          got           \* the message a receive stored in *value last

vars == <<k, pc, call, msg_pool, entry, in_offset, out_offset, got>>
ring == <<msg_pool, entry, in_offset, out_offset, got>>

\* "user" is outside the mailbox code, "wait" the window before the
\* rt_schedule of a blocked call, "back" the code after it, and "sched" the
\* window before the rt_schedule that follows a wake-up.
Pc == {"user", "wait", "back", "sched"}

\* A call: its message, the ticks it may still wait (timeout), the tick at
\* which its wait began (tick_delta); since and limit are the tick and the
\* timeout it was entered with, which the code does not keep.
Call == [op : {"send", "recv"}, msg : Msg \cup {NoMsg}, timeout : Tick \cup {-1},
         delta : Tick, since : Tick, limit : Tick \cup {-1}]
NoCall == [op |-> "recv", msg |-> NoMsg, timeout |-> 0, delta |-> 0,
           since |-> 0, limit |-> 0]

\* RT_WAITING_FOREVER as an unsigned int
Forever == TickRange - 1

Index == 0 .. Size - 1
Advance_Late(i) == IF i + 1 > Size THEN 0 ELSE i + 1
Advance(i) == IF i + 1 >= Size THEN 0 ELSE i + 1

-----------------------------------------------------------------------------
Start == CHOOSE t \in Thread : \A u \in Thread : prio[t] <= prio[u]

\* The ready queue of priority p, in some order.
ReadyQueue(p) ==
  LET members == {t \in Thread \ {Start} : prio[t] = p}
  IN  CHOOSE s \in [1 .. Cardinality(members) -> members] : NoRepeat(s) /\ Nodes(s) = members

\* Every thread is started, the one of the highest priority runs; rt_mb_init.
Init ==
  /\ k = [cur |-> Start, cpu |-> Start,
          statu |-> [t \in Thread |-> IF t = Start THEN "RUNNING" ELSE "READY"],
          error |-> [t \in Thread |-> "EOK"],
          list |-> [h \in ListHead |-> IF h \in Priority THEN ReadyQueue(h) ELSE <<>>],
          group |-> {prio[t] : t \in Thread \ {Start}},
          timers |-> <<>>, active |-> {}, timeout |-> [t \in Thread |-> 0],
          tick |-> 0, remaining |-> slice, nest |-> 0,
          flag |-> FALSE, from |-> Start, to |-> Start, fault |-> "none"]
  /\ pc = [t \in Thread |-> "user"]
  /\ call = [t \in Thread |-> NoCall]
  /\ msg_pool = [i \in Index |-> NoMsg]
  /\ entry = 0 /\ in_offset = 0 /\ out_offset = 0
  /\ got = NoMsg

-----------------------------------------------------------------------------
\* The ring.

Store(v) ==
  /\ msg_pool' = [msg_pool EXCEPT ![in_offset] = v]
  /\ in_offset' = Advance(in_offset)
  /\ entry' = entry + 1
  /\ UNCHANGED <<out_offset, got>>

Fetch_AfterAdvance ==
  /\ got' = msg_pool[Advance(out_offset)]
  /\ out_offset' = Advance(out_offset)
  /\ entry' = entry - 1
  /\ UNCHANGED <<msg_pool, in_offset>>

Fetch ==
  /\ got' = msg_pool[out_offset]
  /\ out_offset' = Advance(out_offset)
  /\ entry' = entry - 1
  /\ UNCHANGED <<msg_pool, in_offset>>

\* Who waits for the step of a call of kind op, and how it is woken: a send
\* by rt_thread_resume, a receive by its own unlinking and rt_timer_stop.
Woken_KeepTimer(op) ==
  LET u == k.list[IF op = "send" THEN RecvQ ELSE SendQ][1]
  IN  IF op = "send" THEN rt_thread_resume(k, u)
      ELSE rt_schedule_insert_thread(Unlink(k, u), u)

Woken(op) ==
  LET u == k.list[IF op = "send" THEN RecvQ ELSE SendQ][1]
  IN  IF op = "send" THEN rt_thread_resume(k, u)
      ELSE rt_schedule_insert_thread(rt_timer_stop(Unlink(k, u), u), u)

-----------------------------------------------------------------------------
\* The calls, made by the thread that runs.

At(t, where) == k.fault = "none" /\ k.cpu = t /\ pc[t] = where

\* A call returns to the thread's own code.
Return(t, where) ==
  /\ pc' = [pc EXCEPT ![t] = where]
  /\ call' = [call EXCEPT ![t] = NoCall]

\* The ring lets call c go on.
Passes(c) == IF c.op = "send" THEN entry < Size ELSE entry > 0

\* The call moves its message and wakes the first thread that waits for that.
Transfer_WakeOnce(t, c) ==
  LET waiting == k.list[IF c.op = "send" THEN RecvQ ELSE SendQ]
      wakes == ~ rt_list_isempty(waiting) /\ (c.op = "send" => entry = 0)
  IN  /\ IF c.op = "send" THEN Store(c.msg) ELSE Fetch
      /\ k' = IF wakes THEN Woken(c.op) ELSE k
      /\ Return(t, IF wakes THEN "sched" ELSE "user")

Transfer(t, c) ==
  LET waiting == k.list[IF c.op = "send" THEN RecvQ ELSE SendQ]
      wakes == ~ rt_list_isempty(waiting)
  IN  /\ IF c.op = "send" THEN Store(c.msg) ELSE Fetch
      /\ k' = IF wakes THEN Woken(c.op) ELSE k
      /\ Return(t, IF wakes THEN "sched" ELSE "user")

\* The call may not wait any longer: -RT_EFULL or -RT_ETIMEOUT.  The loop has
\* reset the error of a thread that has waited before.
GiveUp(t, c) ==
  /\ k' = IF pc[t] = "user" THEN k
          ELSE [k EXCEPT !.error[t] = IF c.op = "send" THEN "EOK" ELSE "ETIMEOUT"]
  /\ Return(t, "user")
  /\ UNCHANGED ring

\* The call joins the wait queue, with a timer unless it waits forever.
Suspend(t, c) ==
  /\ k' = Block(k, t, IF c.op = "send" THEN SendQ ELSE RecvQ, c.timeout)
  /\ pc' = [pc EXCEPT ![t] = "wait"]
  /\ call' = [call EXCEPT ![t] = [c EXCEPT !.delta = IF c.timeout > 0 THEN k.tick ELSE @]]
  /\ UNCHANGED ring

\* rt_mb_send_wait and rt_mb_recv from the test of their loop on
Loop(t, c) ==
  \/ Passes(c) /\ Transfer(t, c)
  \/ ~ Passes(c) /\ c.timeout = 0 /\ GiveUp(t, c)
  \/ ~ Passes(c) /\ c.timeout # 0 /\ Suspend(t, c)

Enter(t, op, v, i) ==
  /\ At(t, "user")
  /\ Loop(t, [NoCall EXCEPT !.op = op, !.msg = v, !.timeout = i,
                            !.since = k.tick, !.limit = i])

\* rt_mb_send_wait; rt_mb_send and sys_mbox_trypost pass a timeout of 0,
\* sys_mbox_post RT_WAITING_FOREVER.
rt_mb_send_wait(t, v, i) == Enter(t, "send", v, i)

\* rt_mb_recv, from sys_arch_mbox_fetch (tcpip_thread and sockets) or directly
\* with RT_WAITING_FOREVER (the Ethernet threads); sys_arch_mbox_tryfetch is
\* the timeout 0.
rt_mb_recv(t, i) == Enter(t, "recv", NoMsg, i)
sys_arch_mbox_fetch(t, i) == rt_mb_recv(t, IF i = 0 THEN Forever ELSE i)

\* The window ends: rt_schedule, entered from thread t.
Schedule(t) ==
  /\ \/ At(t, "sched") /\ pc' = [pc EXCEPT ![t] = "user"]
     \/ At(t, "wait") /\ pc' = [pc EXCEPT ![t] = "back"]
  /\ k' = rt_schedule(k)
  /\ UNCHANGED <<call, ring>>

\* What is left of the timeout: an int is cut at 0, an unsigned int wraps.
Left_FromZero(c) ==
  IF c.timeout <= 0 THEN c.timeout
  ELSE IF c.timeout >= k.tick THEN c.timeout - k.tick
  ELSE IF c.op = "send" THEN 0 ELSE c.timeout - k.tick + TickRange

Left(c) ==
  LET elapsed == (k.tick - c.delta) % TickRange
  IN  IF c.timeout <= 0 THEN c.timeout
      ELSE IF c.timeout >= elapsed THEN c.timeout - elapsed
      ELSE IF c.op = "send" THEN 0 ELSE c.timeout - elapsed + TickRange

\* The code after rt_schedule: a thread whose timer fired returns its error,
\* another turns to the test of the loop again.
Resume_NoTest(t) ==
  /\ At(t, "back")
  /\ \/ k.error[t] # "EOK" /\ Return(t, "user") /\ UNCHANGED <<k, ring>>
     \/ k.error[t] = "EOK" /\ Transfer(t, [call[t] EXCEPT !.timeout = Left(call[t])])

Resume(t) ==
  /\ At(t, "back")
  /\ \/ k.error[t] # "EOK" /\ Return(t, "user") /\ UNCHANGED <<k, ring>>
     \/ k.error[t] = "EOK" /\ Loop(t, [call[t] EXCEPT !.timeout = Left(call[t])])

-----------------------------------------------------------------------------
\* The interrupts.  Handlers do not nest, each is one step.

\* The end of handle_int, with the switch that rt_schedule asked for.
LeaveHandler(k1) ==
  [k1 EXCEPT !.nest = 0, !.flag = FALSE, !.cpu = IF k1.flag THEN k1.to ELSE @]

\* rt_timer_check: its loop sees the timers that were linked when it began.
rt_timer_check(k1) ==
  LET checked[i \in 0 .. Len(k1.timers)] ==
        IF i = 0 THEN k1 ELSE FireIfDue(checked[i - 1], k1.timers[i])
  IN  checked[Len(k1.timers)]

sys_tick_handler ==
  /\ k.fault = "none" /\ k.tick < MaxTick
  /\ LET expired == k.remaining[k.cur] = 1
         k1 == [k EXCEPT !.nest = 1, !.tick = TickSum(@, 1),
                         !.remaining[k.cur] = IF expired THEN slice[k.cur] ELSE @ - 1]
     IN  k' = LeaveHandler(rt_timer_check(IF expired THEN rt_schedule(k1) ELSE k1))
  /\ UNCHANGED <<pc, call, ring>>

\* eth_rx_irq to eth_device_ready: rt_mb_send does not wait, and a full
\* mailbox loses the message.
eth_device_ready(v) ==
  /\ k.fault = "none"
  /\ \/ /\ entry < Size
        /\ Store(v)
        /\ k' = IF rt_list_isempty(k.list[RecvQ]) THEN k
                ELSE LeaveHandler(rt_schedule(
                       rt_thread_resume([k EXCEPT !.nest = 1], k.list[RecvQ][1])))
     \/ entry = Size /\ UNCHANGED <<k, ring>>
  /\ UNCHANGED <<pc, call>>

-----------------------------------------------------------------------------
Next ==
  \/ sys_tick_handler \/ \E v \in Isr : eth_device_ready(v)
  \/ \E t \in Thread : Schedule(t) \/ Resume(t)
  \/ \E t \in Sender, i \in Posts : \E v \in Posted[t] : rt_mb_send_wait(t, v, i)
  \/ \E t \in Receiver : \/ rt_mb_recv(t, 0)
                         \/ \E i \in Fetches : sys_arch_mbox_fetch(t, i)

Spec == Init /\ [][Next]_vars

-----------------------------------------------------------------------------
\* The messages of the ring, oldest first.
Cell(i) == IF out_offset + i - 1 >= Size THEN out_offset + i - 1 - Size
           ELSE out_offset + i - 1
Pending == [i \in 1 .. entry |-> msg_pool[Cell(i)]]

Fifo == INSTANCE MbFifo WITH queue <- Pending, Capacity <- Size

\* Every variable keeps its type: entry never exceeds the size.
TypeOK ==
  /\ k \in State
  /\ pc \in [Thread -> Pc] /\ call \in [Thread -> Call]
  /\ msg_pool \in [Index -> Msg \cup {NoMsg}]
  /\ entry \in 0 .. Size /\ in_offset \in Index /\ out_offset \in Index
  /\ got \in Msg \cup {NoMsg}

\* in_offset, out_offset and entry, which the code updates apart, describe
\* the same ring: the next message goes right behind the last one.
RingExact == in_offset = Cell(entry + 1)

\* The mailbox implements a FIFO of Size messages, whatever the interleaving
\* of senders, receivers, timeouts and handler posts.
RefinesFifo == Fifo!Spec

\* Calls, wake-ups, timeouts and handler posts leave the scheduler sound: no
\* list torn, every thread in the list its status says, timers and priority
\* bits exact.  A receive wakes a sender without rt_thread_resume.
KernelSound ==
  /\ k.fault = "none" /\ Placed(k, {})
  /\ GroupMatches(k) /\ TimersMatch(k) /\ SwitchMatches(k)

\* Threads a wake-up has taken out of a wait queue and that have not tested
\* the ring again.
Awake(op) ==
  {t \in Thread : /\ pc[t] \in {"wait", "back"} /\ call[t].op = op
                  /\ k.error[t] = "EOK"
                  /\ t \notin Nodes(k.list[IF op = "send" THEN SendQ ELSE RecvQ])}

\* No lost wake-up: while receivers wait there is an awake receiver for every
\* message of the ring, and while senders wait an awake sender for every free
\* cell, although a third thread may take the message or the cell first and
\* the awake thread then waits again.
NoLostWakeup ==
  /\ k.list[RecvQ] # <<>> => entry <= Cardinality(Awake("recv"))
  /\ k.list[SendQ] # <<>> => Size - entry <= Cardinality(Awake("send"))

\* Thread t is about to return an error from a call that has waited.
Fails(t) ==
  /\ pc[t] = "back" /\ k.cpu = t
  /\ \/ k.error[t] # "EOK"
     \/ ~ Passes(call[t]) /\ Left(call[t]) = 0

\* A call with a timeout gives up only after it has waited that many ticks,
\* however often it was woken in vain and its timeout computed anew.
NoEarlyTimeout ==
  \A t \in Thread : Fails(t) /\ call[t].limit # Forever =>
    k.tick >= call[t].since + call[t].limit

\* What eth_rx_thread_entry asserts of its receive with RT_WAITING_FOREVER: it
\* never returns an error ("Should not happen!").
ForeverWaits ==
  \A t \in Thread : call[t].limit = Forever => ~ Fails(t)

=============================================================================
