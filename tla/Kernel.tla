------------------------------- MODULE Kernel -------------------------------
(***************************************************************************)
(* The scheduler and timer primitives of os/thread.c as operators from one *)
(* kernel state to the next.  The code runs each of them with interrupts   *)
(* disabled, so a kernel call is a composition of these operators and the  *)
(* modules that have the calls as actions (Threads) choose the steps.      *)
(*                                                                         *)
(* A kernel state k is a record:                                           *)
(*   cur        rt_current_thread                                          *)
(*   cpu        the thread whose stack the processor is on; the interrupt  *)
(*              handler runs on the stack of the thread it interrupted     *)
(*   statu      statu of each thread; INIT is a slot that holds no thread  *)
(*   error      error of each thread                                       *)
(*   list       the lists that link threads by tlist: one for each         *)
(*              priority (rt_thread_priority_table), one for each wait     *)
(*              queue of a semaphore or mailbox, and rt_thread_dead        *)
(*   group      rt_thread_ready_priority_group, as the set of its bits     *)
(*   timers     rt_timer_list, as the threads whose thread_timer is linked *)
(*   active     the threads whose thread_timer is ACTIVATED                *)
(*   timeout    timeout_tick of each thread_timer                          *)
(*   tick       system_tick                                                *)
(*   remaining  remaining_tick of each thread                              *)
(*   nest       rt_interrupt_nest                                          *)
(*   flag, from, to   rt_thread_switch_interrupt_flag,                     *)
(*              rt_interrupt_from_thread and rt_interrupt_to_thread        *)
(*   fault      "torn" once a node was inserted while linked or a thread   *)
(*              was read from an empty list: the pointers are garbage;     *)
(*              "hung" once rt_schedule entered its endless loop           *)
(*                                                                         *)
(* A definition Op_Word is Op with a plausible mistake; no module uses it. *)
(* It shows which property notices that mistake.                           *)
(***************************************************************************)
EXTENDS RtList, FiniteSets

CONSTANTS Thread,      \* the thread slots
          Wait,        \* the wait queues of semaphores and mailboxes
          Dead,        \* the head of rt_thread_dead
          Priority,    \* the priorities in use; a smaller number runs first
          prio,        \* current_priority of each thread
          slice,       \* init_tick of each thread
          TickRange    \* ticks are unsigned int: 2^32 values

ListHead == Priority \cup Wait \cup {Dead}

ASSUME KernelAssumption ==
  /\ Priority \subseteq 0 .. 31
  /\ Wait \cap Priority = {}
  /\ Dead \notin Priority \cup Wait
  /\ prio \in [Thread -> Priority]
  /\ slice \in [Thread -> Nat \ {0}]
  /\ TickRange \in Nat \ {0}

Tick == 0 .. TickRange - 1

Statu == {"INIT", "READY", "SUSPEND", "SLEEP", "RUNNING", "CLOSE"}
Error == {"EOK", "ETIMEOUT"}

State ==
  [cur : Thread, cpu : Thread, statu : [Thread -> Statu],
   error : [Thread -> Error], list : [ListHead -> Seq(Thread)],
   group : SUBSET Priority, timers : Seq(Thread), active : SUBSET Thread,
   timeout : [Thread -> Tick], tick : Tick, remaining : [Thread -> Nat],
   nest : {0, 1}, flag : BOOLEAN, from : Thread, to : Thread,
   fault : {"none", "torn", "hung"}]

Linked(k, t) == \E h \in ListHead : t \in Nodes(k.list[h])

-----------------------------------------------------------------------------
\* List operations on tlist and timelist; a double insertion tears the lists.

Tear(k, torn) == [k EXCEPT !.fault = IF torn THEN "torn" ELSE @]

Unlink(k, t) ==
  [k EXCEPT !.list = [h \in ListHead |-> rt_list_remove(k.list[h], t)]]

PutLast(k, h, t) ==
  [Tear(k, Linked(k, t)) EXCEPT !.list[h] = rt_list_insert_before(@, t)]

PutFirst(k, h, t) ==
  [Tear(k, Linked(k, t)) EXCEPT !.list[h] = rt_list_insert_after(@, t)]

-----------------------------------------------------------------------------
\* Timers.

rt_timer_stop(k, t) ==
  IF t \notin k.active THEN k
  ELSE [k EXCEPT !.timers = rt_list_remove(@, t), !.active = @ \ {t}]

\* The sum of a tick and a number of ticks, as an unsigned int.
TickSum(i, j) == IF i + j < TickRange THEN i + j ELSE i + j - TickRange

\* rt_timer_start, with init_tick set to n by the caller
rt_timer_start(k, t, n) ==
  [Tear(k, t \in Nodes(k.timers)) EXCEPT
     !.timeout[t] = TickSum(k.tick, n),
     !.timers = rt_list_insert_after(@, t),
     !.active = @ \cup {t}]

-----------------------------------------------------------------------------
\* The scheduler.

rt_schedule_insert_thread_First(k, t) ==
  IF t = k.cur THEN [k EXCEPT !.statu[t] = "RUNNING"]
  ELSE [PutFirst(k, prio[t], t) EXCEPT
          !.statu[t] = "READY", !.group = @ \cup {prio[t]}]

rt_schedule_insert_thread(k, t) ==
  IF t = k.cur THEN [k EXCEPT !.statu[t] = "RUNNING"]
  ELSE [PutLast(k, prio[t], t) EXCEPT
          !.statu[t] = "READY", !.group = @ \cup {prio[t]}]

rt_schedule_remove_thread_KeepBit(k, t) == Unlink(k, t)

rt_schedule_remove_thread(k, t) ==
  LET k1 == Unlink(k, t)
  IN  [k1 EXCEPT !.group = IF rt_list_isempty(k1.list[prio[t]])
                           THEN @ \ {prio[t]} ELSE @]

\* __rt_ffs(rt_thread_ready_priority_group) - 1
HighestPriority(group) == CHOOSE p \in group : \A q \in group : p <= q

\* rt_hw_context_switch when no interrupt is being served, else
\* rt_hw_context_switch_interrupt: the switch waits for the handler's end.
ContextSwitch_FromAgain(k, from, to) ==
  IF k.nest = 0 THEN [k EXCEPT !.cpu = to]
  ELSE [k EXCEPT !.flag = TRUE, !.from = from, !.to = to]

ContextSwitch(k, from, to) ==
  IF k.nest = 0 THEN [k EXCEPT !.cpu = to]
  ELSE [k EXCEPT !.flag = TRUE, !.from = IF k.flag THEN @ ELSE from, !.to = to]

\* The middle of rt_schedule: thread to is chosen, and the thread it takes
\* the processor from is ready again unless it gave the processor up.
Chosen_KeepStatu(k, to) == [k EXCEPT !.cur = to]

Chosen(k, to) == [k EXCEPT !.cur = to, !.statu[to] = "RUNNING"]

HandOver(k, to) ==
  IF k.statu[k.cur] \in {"CLOSE", "SLEEP", "SUSPEND"} THEN Chosen(k, to)
  ELSE rt_schedule_insert_thread(Chosen(k, to), k.cur)

rt_schedule(k) ==
  LET queue == k.list[HighestPriority(k.group)]
      to == queue[1]
  IN  IF k.group = {} THEN k
      ELSE IF rt_list_isempty(queue) THEN Tear(k, TRUE)
      ELSE IF to = k.cur THEN [k EXCEPT !.fault = "hung"]
      ELSE ContextSwitch(rt_schedule_remove_thread(HandOver(k, to), to), k.cur, to)

-----------------------------------------------------------------------------
\* Blocking and waking.

\* rt_thread_suspend; a thread that is not READY or RUNNING is left alone.
rt_thread_suspend(k, t, statu) ==
  IF k.statu[t] \notin {"READY", "RUNNING"} THEN k
  ELSE rt_timer_stop([rt_schedule_remove_thread(k, t) EXCEPT !.statu[t] = statu], t)

rt_thread_resume_KeepTimer(k, t) ==
  IF k.statu[t] \notin {"SUSPEND", "SLEEP"} THEN k
  ELSE rt_schedule_insert_thread(Unlink(k, t), t)

rt_thread_resume(k, t) ==
  IF k.statu[t] \notin {"SUSPEND", "SLEEP"} THEN k
  ELSE rt_schedule_insert_thread(rt_timer_stop(Unlink(k, t), t), t)

\* The critical section of rt_thread_sleep.
rt_thread_sleep(k, t, n) ==
  rt_timer_start(rt_thread_suspend(k, t, "SLEEP"), t, n)

\* How a caller blocks on a wait queue (rt_sem_take, rt_mb_send_wait,
\* rt_mb_recv): n is the timeout, a timer is started when it is positive.
Block(k, t, h, n) ==
  LET k1 == rt_thread_suspend([k EXCEPT !.error[t] = "EOK"], t, "SUSPEND")
      k2 == PutLast(k1, h, t)
  IN  IF n > 0 THEN rt_timer_start(k2, t, n) ELSE k2

\* rt_thread_timeout, the callback of every thread_timer
rt_thread_timeout_Linked(k, t) ==
  rt_schedule(rt_schedule_insert_thread([k EXCEPT !.error[t] = "ETIMEOUT"], t))

rt_thread_timeout(k, t) ==
  rt_schedule(rt_schedule_insert_thread(
    Unlink([k EXCEPT !.error[t] = "ETIMEOUT"], t), t))

\* The body of rt_timer_check's loop for the timer of t.
FireIfDue(k, t) ==
  IF t \in k.active /\ k.tick > k.timeout[t]
  THEN [rt_thread_timeout([k EXCEPT !.timers = rt_list_remove(@, t)], t)
          EXCEPT !.active = @ \ {t}]
  ELSE k

\* The end of a thread: rt_thread_exit, rt_thread_dead_exit, killThreadFun.
Close_KeepTimer(k, t) ==
  PutFirst(rt_schedule_remove_thread([k EXCEPT !.statu[t] = "CLOSE"], t), Dead, t)

Close(k, t) ==
  PutFirst(rt_schedule_remove_thread(
    rt_timer_stop([k EXCEPT !.statu[t] = "CLOSE"], t), t), Dead, t)

-----------------------------------------------------------------------------
\* What holds of a kernel state between two kernel calls.  Threads states
\* these for its variable k as the invariants that its runs check.

\* A thread is linked once, in the list that its status says; the threads
\* of freed are closed and were taken out of the dead list.
Placed(k, freed) ==
  /\ \A h \in ListHead : NoRepeat(k.list[h])
  /\ \A t \in Thread, h \in ListHead : t \in Nodes(k.list[h]) =>
       /\ h \in Priority => k.statu[t] = "READY" /\ h = prio[t]
       /\ h \in Wait => k.statu[t] = "SUSPEND"
       /\ h = Dead => k.statu[t] = "CLOSE" /\ t \notin freed
       /\ \A g \in ListHead : t \in Nodes(k.list[g]) => g = h
  /\ \A t \in Thread :
       /\ k.statu[t] \in {"READY", "SUSPEND"} => Linked(k, t)
       /\ k.statu[t] = "CLOSE" => Linked(k, t) \/ t \in freed
       /\ k.statu[t] = "RUNNING" => t = k.cur

GroupMatches(k) == k.group = {p \in Priority : ~ rt_list_isempty(k.list[p])}

TimersMatch(k) ==
  /\ NoRepeat(k.timers) /\ Nodes(k.timers) = k.active
  /\ \A t \in Thread : t \in k.active => k.statu[t] \in {"SLEEP", "SUSPEND"}
  /\ \A t \in Thread : k.statu[t] = "SLEEP" => t \in k.active

SwitchMatches(k) ==
  IF k.flag THEN k.nest = 1 /\ k.from = k.cpu /\ k.to = k.cur ELSE k.cpu = k.cur

=============================================================================
