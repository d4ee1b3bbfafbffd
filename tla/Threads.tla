------------------------------ MODULE Threads -------------------------------
(***************************************************************************)
(* Threads, the tick interrupt, semaphores, thread creation, exit, kill    *)
(* and the idle thread's clean-up, composed from the operators of Kernel.  *)
(* A stretch of code that runs with interrupts disabled is one step, a     *)
(* window in which the tick can interrupt lies between two steps: every    *)
(* blocking call leaves its critical section before it calls rt_schedule.  *)
(* malloc and free take the heap semaphore, so thread_join_init and the    *)
(* idle thread can lose the processor inside their interrupt-free walk.    *)
(* A definition Op_Word is Op with a plausible mistake, as in Kernel.      *)
(***************************************************************************)
EXTENDS Kernel

CONSTANTS Idle,         \* the idle thread
          Shell,        \* the shell thread, the one that runs kill
          Busy,         \* threads that poll and never block
          Lock,         \* semaphores used as locks: made with value 1
          Heap,         \* heap_sem, one of Lock
          Off,          \* slots that hold no thread at the start
          Creator,      \* threads that call thread_join_init
          Victim,       \* threads that may exit or be killed
          Taker,        \* threads that take and release semaphores
          Times,        \* timeouts in use; -1 is RT_WAITING_FOREVER
          IdleDelay,    \* the idle thread's delay, 1000 ticks in the code
          MaxTick,      \* bound: no tick after this one
          MaxValue,     \* bound: no release of a semaphore beyond this value
          None,         \* no thread: the end of a list, no slot
          AllocFails    \* whether malloc may return NULL

Sem == Wait

ASSUME ThreadsAssumption ==
  /\ IsFiniteSet(Thread)
  /\ Idle \in Thread \ Busy /\ Shell \in Thread /\ Busy \subseteq Thread
  /\ Heap \in Lock /\ Lock \subseteq Sem
  /\ Off \subseteq Thread \ (Busy \cup {Idle, Shell})
  /\ Creator \subseteq Thread \ (Busy \cup {Idle})
  /\ Victim \subseteq Thread \ (Busy \cup {Idle, Shell})
  /\ Taker \subseteq Thread \ {Idle}
  /\ Times \subseteq Tick \cup {-1} /\ IdleDelay \in Tick
  /\ MaxTick \in Nat /\ MaxValue \in Nat
  /\ None \notin Thread
  /\ AllocFails \in BOOLEAN

VARIABLES k,        \* the kernel state
          value,    \* value of each semaphore
          pc,       \* where each thread is in its code
          sem,      \* the semaphore of the rt_sem_take a thread is in
          work,     \* the slot that thread_join_init fills or idle frees
          calls,    \* the heap calls this thread still has to make for it
          next,     \* posTmp of the idle thread's walk
          masked,   \* threads that run with interrupts disabled
          level,    \* those of them that called thread_join_init like that
          holds,    \* the locks whose rt_sem_take has returned RT_EOK
          lost,     \* the locks whose owner was closed
          pos, n    \* timerP and posTmp of rt_timer_check's walk

vars == <<k, value, pc, sem, work, calls, next, masked, level, holds, lost, pos, n>>
walk == <<pos, n>>
heapwork == <<work, calls, next, masked, level>>

\* "user" is the thread's own code, "sched" the window before rt_schedule,
\* "wait" the same in rt_sem_take and "taken" its code after rt_schedule;
\* "heap" and "inheap" are before and inside a malloc or free, "done" after
\* the last of them; "exit" is the window of rt_thread_exit and "gone" what
\* follows it; "delay" is the idle thread between its look at the dead list
\* and rt_thread_delay.
Pc == {"user", "sched", "wait", "taken", "exit", "gone",
       "heap", "inheap", "done", "delay"}

-----------------------------------------------------------------------------
\* thread_init, then thread_join_init for the first threads and thread_start

Start == CHOOSE t \in Thread \ Off : \A u \in Thread \ Off : prio[t] <= prio[u]

\* The ready queue of priority p: its threads but the first to run, in some order.
InitialQueue(p) ==
  LET members == {t \in Thread \ (Off \cup {Start}) : prio[t] = p}
  IN  CHOOSE s \in [1 .. Cardinality(members) -> members] : NoRepeat(s) /\ Nodes(s) = members

Init ==
  /\ k = [cur |-> Start, cpu |-> Start,
          statu |-> [t \in Thread |-> IF t \in Off THEN "INIT"
                                      ELSE IF t = Start THEN "RUNNING" ELSE "READY"],
          error |-> [t \in Thread |-> "EOK"],
          list |-> [h \in ListHead |-> IF h \in Priority THEN InitialQueue(h) ELSE <<>>],
          group |-> {prio[t] : t \in Thread \ (Off \cup {Start})},
          timers |-> <<>>, active |-> {}, timeout |-> [t \in Thread |-> 0],
          tick |-> 0, remaining |-> slice, nest |-> 0,
          flag |-> FALSE, from |-> Start, to |-> Start, fault |-> "none"]
  /\ value = [s \in Sem |-> IF s \in Lock THEN 1 ELSE 0]
  /\ pc = [t \in Thread |-> "user"]
  /\ sem = [t \in Thread |-> Heap]
  /\ work = [t \in Thread |-> None]
  /\ calls = [t \in Thread |-> 0]
  /\ next = None
  /\ masked = {}
  /\ level = {}
  /\ holds = [t \in Thread |-> {}]
  /\ lost = {}
  /\ pos = None
  /\ n = None

-----------------------------------------------------------------------------
\* Thread t is executing: it has the processor and no handler runs.
At(t, where) ==
  k.fault = "none" /\ k.nest = 0 /\ k.cpu = t /\ pc[t] = where

\* The same, outside of malloc and free, which neither block nor end.
AtUser(t) == At(t, "user") /\ Heap \notin holds[t]

\* Thread t computes, or polls for a character: no kernel call.
Compute(t) == At(t, "user") /\ t # Idle /\ UNCHANGED vars

\* The window ends: rt_schedule, entered from thread t.
Schedule(t) ==
  /\ \/ At(t, "sched") /\ pc' = [pc EXCEPT ![t] = "user"]
     \/ At(t, "wait") /\ pc' = [pc EXCEPT ![t] = "taken"]
     \/ At(t, "exit") /\ pc' = [pc EXCEPT ![t] = "gone"]
  /\ k' = rt_schedule(k)
  /\ UNCHANGED <<value, sem, heapwork, holds, lost, walk>>

\* rt_thread_sleep up to its rt_schedule
Sleep(t, i) ==
  /\ IF t = Idle THEN At(t, "delay") ELSE AtUser(t)
  /\ k' = rt_thread_sleep(k, t, i)
  /\ pc' = [pc EXCEPT ![t] = "sched"]
  /\ UNCHANGED <<value, sem, heapwork, holds, lost, walk>>

-----------------------------------------------------------------------------
\* Semaphores.

\* rt_sem_take of an available semaphore
TakeNow(t, s) ==
  /\ AtUser(t) /\ s \notin holds[t]
  /\ value[s] > 0
  /\ value' = [value EXCEPT ![s] = @ - 1]
  /\ holds' = [holds EXCEPT ![t] = @ \cup ({s} \cap Lock)]
  /\ UNCHANGED <<k, pc, sem, heapwork, lost, walk>>

\* rt_sem_take of a semaphore that is not available, up to rt_schedule;
\* with a timeout of 0 it returns -RT_ETIMEOUT and nothing changes.
TakeBlock(t, s, i) ==
  /\ AtUser(t) /\ s \notin holds[t]
  /\ value[s] = 0 /\ i # 0
  /\ k' = Block(k, t, s, i)
  /\ pc' = [pc EXCEPT ![t] = "wait"]
  /\ sem' = [sem EXCEPT ![t] = s]
  /\ UNCHANGED <<value, heapwork, holds, lost, walk>>

\* rt_sem_take returns: thread->error says whether it was resumed.
TakeReturn_NoCheck(t) ==
  /\ At(t, "taken")
  /\ pc' = [pc EXCEPT ![t] = "user"]
  /\ holds' = [holds EXCEPT ![t] = @ \cup ({sem[t]} \cap Lock)]
  /\ UNCHANGED <<k, value, sem, heapwork, lost, walk>>

TakeReturn(t) ==
  /\ At(t, "taken")
  /\ pc' = [pc EXCEPT ![t] = "user"]
  /\ holds' = [holds EXCEPT ![t] =
       IF k.error[t] = "EOK" THEN @ \cup ({sem[t]} \cap Lock) ELSE @]
  /\ UNCHANGED <<k, value, sem, heapwork, lost, walk>>

\* The critical section of rt_sem_release: the first waiter is resumed and
\* the value stays, or the value goes up.
Resumed(s) == IF rt_list_isempty(k.list[s]) THEN k
              ELSE rt_thread_resume(k, k.list[s][1])
Raised_Always(s) == [value EXCEPT ![s] = @ + 1]
Raised(s) == IF rt_list_isempty(k.list[s]) THEN [value EXCEPT ![s] = @ + 1]
             ELSE value

Release(t, s) ==
  /\ At(t, "user")
  /\ s \in Lock => s \in holds[t]
  /\ value[s] < MaxValue
  /\ k' = Resumed(s)
  /\ value' = Raised(s)
  /\ pc' = [pc EXCEPT ![t] = IF rt_list_isempty(k.list[s]) THEN "user" ELSE "sched"]
  /\ holds' = [holds EXCEPT ![t] = @ \ {s}]
  /\ UNCHANGED <<sem, heapwork, lost, walk>>

-----------------------------------------------------------------------------
\* malloc and free called with interrupts disabled: rt_sem_take(&heap_sem)
\* and rt_sem_release(&heap_sem), each with the rt_schedule it may call.

HeapTake(t) ==
  /\ At(t, "heap")
  /\ \/ /\ value[Heap] > 0
        /\ value' = [value EXCEPT ![Heap] = @ - 1]
        /\ UNCHANGED k
     \/ /\ value[Heap] = 0
        /\ k' = rt_schedule(Block(k, t, Heap, -1))
        /\ UNCHANGED value
  /\ pc' = [pc EXCEPT ![t] = "inheap"]
  /\ UNCHANGED <<sem, heapwork, holds, lost, walk>>

\* The kernel state when t leaves the heap: idle's second free empties the
\* slot, and a resumed waiter means a call of rt_schedule.
LeftHeap(t) ==
  LET freed == t = Idle /\ calls[t] = 1
      k1 == [Resumed(Heap) EXCEPT
               !.statu = IF freed THEN [@ EXCEPT ![work[t]] = "INIT"] ELSE @]
  IN  IF rt_list_isempty(k.list[Heap]) THEN k1 ELSE rt_schedule(k1)

\* A malloc of thread_join_init that returns NULL gives the slot up; when
\* it is the second one, the first block is freed.
HeapLeave(t) ==
  /\ At(t, "inheap")
  /\ \/ calls' = [calls EXCEPT ![t] = @ - 1] /\ UNCHANGED work
     \/ /\ AllocFails /\ t # Idle /\ work[t] # None
        /\ work' = [work EXCEPT ![t] = None]
        /\ calls' = [calls EXCEPT ![t] = IF @ = 2 THEN 0 ELSE 1]
  /\ k' = LeftHeap(t)
  /\ value' = Raised(Heap)
  /\ pc' = [pc EXCEPT ![t] = IF calls'[t] = 0 THEN "done" ELSE "heap"]
  /\ UNCHANGED <<sem, next, masked, level, holds, lost, walk>>

-----------------------------------------------------------------------------
\* The life of a thread.

Alive(t) == k.statu[t] \notin {"INIT", "CLOSE"}

\* thread_join_init, for slot u, up to its first malloc
CreateStart(t, u) ==
  /\ AtUser(t)
  /\ k.statu[u] = "INIT" /\ \A v \in Thread : Alive(v) => work[v] # u
  /\ work' = [work EXCEPT ![t] = u]
  /\ calls' = [calls EXCEPT ![t] = 2]
  /\ masked' = masked \cup {t}
  /\ level' = IF t \in masked THEN level \cup {t} ELSE level \ {t}
  /\ pc' = [pc EXCEPT ![t] = "heap"]
  /\ UNCHANGED <<k, value, sem, next, holds, lost, walk>>

\* thread_join_init once it has its memory: the thread is ready, starts with
\* interrupts enabled, and the caller goes on without rt_schedule.
CreateReady(t) ==
  /\ At(t, "done") /\ t # Idle /\ work[t] # None
  /\ LET u == work[t]
     IN  /\ k' = [PutLast(k, prio[u], u) EXCEPT
                    !.statu[u] = "READY", !.group = @ \cup {prio[u]},
                    !.remaining[u] = slice[u], !.error[u] = "EOK",
                    !.timeout[u] = 0]
         /\ pc' = [pc EXCEPT ![t] = "user", ![u] = "user"]
         /\ work' = [work EXCEPT ![t] = None, ![u] = None]
         /\ masked' = masked \ (IF t \in level THEN {u} ELSE {t, u})
  /\ UNCHANGED <<value, sem, calls, next, level, holds, lost, walk>>

\* thread_join_init without memory: it returns before it has enabled
\* interrupts again.
CreateFail(t) ==
  /\ At(t, "done") /\ t # Idle /\ work[t] = None
  /\ pc' = [pc EXCEPT ![t] = "user"]
  /\ UNCHANGED <<k, value, sem, heapwork, holds, lost, walk>>

\* Thread t owns s: rt_sem_take has returned, or it was resumed with the
\* semaphore and has not run yet.
Handed(t, s) ==
  /\ t \notin Nodes(k.list[s])
  /\ \/ pc[t] \in {"wait", "taken"} /\ sem[t] = s /\ k.error[t] = "EOK"
     \/ pc[t] = "inheap" /\ s = Heap
Owner(t, s) == Alive(t) /\ (s \in holds[t] \/ Handed(t, s))

\* What the end of t takes with it.
Ended(t) ==
  /\ lost' = lost \cup {s \in Lock : Owner(t, s)}
  /\ holds' = [holds EXCEPT ![t] = {}]

\* rt_thread_exit and rt_thread_dead_exit up to their rt_schedule
Exit(t) ==
  /\ AtUser(t)
  /\ k' = Close(k, t)
  /\ pc' = [pc EXCEPT ![t] = "exit"]
  /\ Ended(t)
  /\ UNCHANGED <<value, sem, heapwork, walk>>

\* The thread idle is freeing: it has left the dead list and rt_all_thread.
Freeing == {u \in Thread : pc[Idle] \in {"heap", "inheap"} /\ work[Idle] = u}

\* killThreadFun, from the shell; the id is looked up in rt_all_thread
Kill_Freeing(u) ==
  /\ AtUser(Shell)
  /\ k.statu[u] # "INIT"
  /\ k' = IF u = k.cur THEN rt_schedule(Close(k, u)) ELSE Close(k, u)
  /\ Ended(u)
  /\ UNCHANGED <<value, pc, sem, heapwork, walk>>

Kill(u) ==
  /\ AtUser(Shell)
  /\ k.statu[u] # "INIT" /\ u \notin Freeing
  /\ k' = IF u = k.cur THEN rt_schedule(Close(k, u)) ELSE Close(k, u)
  /\ Ended(u)
  /\ UNCHANGED <<value, pc, sem, heapwork, walk>>

\* Idle unlinks thread u of the dead list and goes on to free it.
Reap_Late(k1, u) ==
  /\ k' = Unlink(k1, u)
  /\ work' = [work EXCEPT ![Idle] = u]
  /\ next' = Successor(Unlink(k1, u).list[Dead], u, None)
  /\ calls' = [calls EXCEPT ![Idle] = IF k1.statu[u] = "CLOSE" THEN 2 ELSE 0]
  /\ pc' = [pc EXCEPT ![Idle] = IF k1.statu[u] = "CLOSE" THEN "heap" ELSE "done"]
  /\ masked' = masked \cup {Idle}
  /\ UNCHANGED level

Reap(k1, u) ==
  /\ k' = Unlink(k1, u)
  /\ work' = [work EXCEPT ![Idle] = u]
  /\ next' = Successor(k1.list[Dead], u, None)
  /\ calls' = [calls EXCEPT ![Idle] = IF k1.statu[u] = "CLOSE" THEN 2 ELSE 0]
  /\ pc' = [pc EXCEPT ![Idle] = IF k1.statu[u] = "CLOSE" THEN "heap" ELSE "done"]
  /\ masked' = masked \cup {Idle}
  /\ UNCHANGED level

IdleLook ==
  /\ At(Idle, "user")
  /\ \/ /\ ~ rt_list_isempty(k.list[Dead])
        /\ Reap(k, k.list[Dead][1])
     \/ /\ rt_list_isempty(k.list[Dead])
        /\ pc' = [pc EXCEPT ![Idle] = "delay"]
        /\ UNCHANGED <<k, heapwork>>
  /\ UNCHANGED <<value, sem, holds, lost, walk>>

IdleNext ==
  /\ At(Idle, "done")
  /\ \/ next # None /\ Reap(k, next)
     \/ /\ next = None
        /\ masked' = masked \ {Idle}
        /\ work' = [work EXCEPT ![Idle] = None]
        /\ pc' = [pc EXCEPT ![Idle] = "user"]
        /\ UNCHANGED <<k, calls, next, level>>
  /\ UNCHANGED <<value, sem, holds, lost, walk>>

-----------------------------------------------------------------------------
\* The tick interrupt.

\* handle_int and sys_tick_handler up to the loop of rt_timer_check
TickEnter_NoReload ==
  /\ k.fault = "none" /\ k.nest = 0 /\ k.cpu \notin masked
  /\ k.tick < MaxTick
  /\ LET k1 == [k EXCEPT !.nest = 1, !.tick = TickSum(@, 1), !.remaining[k.cur] = @ - 1]
     IN  k' = IF k1.remaining[k.cur] = 0 THEN rt_schedule(k1) ELSE k1
  /\ pos' = First(k'.timers, None)
  /\ n' = Successor(k'.timers, pos', None)
  /\ UNCHANGED <<value, pc, sem, heapwork, holds, lost>>

TickEnter ==
  /\ k.fault = "none" /\ k.nest = 0 /\ k.cpu \notin masked
  /\ k.tick < MaxTick
  /\ LET expired == k.remaining[k.cur] = 1
         k1 == [k EXCEPT !.nest = 1, !.tick = TickSum(@, 1),
                         !.remaining[k.cur] = IF expired THEN slice[k.cur] ELSE @ - 1]
     IN  k' = IF expired THEN rt_schedule(k1) ELSE k1
  /\ pos' = First(k'.timers, None)
  /\ n' = Successor(k'.timers, pos', None)
  /\ UNCHANGED <<value, pc, sem, heapwork, holds, lost>>

\* One turn of rt_timer_check's loop
TimerCheck_Break ==
  /\ k.fault = "none" /\ k.nest = 1 /\ pos # None
  /\ k' = FireIfDue(k, pos)
  /\ pos' = IF k' = k THEN None ELSE n
  /\ n' = Successor(k'.timers, pos', None)
  /\ UNCHANGED <<value, pc, sem, heapwork, holds, lost>>

TimerCheck ==
  /\ k.fault = "none" /\ k.nest = 1 /\ pos # None
  /\ k' = FireIfDue(k, pos)
  /\ pos' = n
  /\ n' = Successor(k'.timers, n, None)
  /\ UNCHANGED <<value, pc, sem, heapwork, holds, lost>>

\* The end of handle_int, with the switch that rt_schedule asked for
TickExit ==
  /\ k.fault = "none" /\ k.nest = 1 /\ pos = None
  /\ k' = [k EXCEPT !.nest = 0, !.flag = FALSE, !.cpu = IF k.flag THEN k.to ELSE @]
  /\ UNCHANGED <<value, pc, sem, heapwork, holds, lost, walk>>

-----------------------------------------------------------------------------
Next ==
  \/ TickEnter \/ TimerCheck \/ TickExit
  \/ IdleLook \/ IdleNext \/ Sleep(Idle, IdleDelay)
  \/ \E u \in Victim : Kill(u) \/ Exit(u)
  \/ \E t \in Thread : \/ Compute(t) \/ Schedule(t) \/ TakeReturn(t)
                       \/ HeapTake(t) \/ HeapLeave(t)
                       \/ CreateReady(t) \/ CreateFail(t)
  \/ \E t \in Creator, u \in Off \cup Victim : CreateStart(t, u)
  \/ \E t \in Thread \ (Busy \cup {Idle}), i \in Times : i >= 0 /\ Sleep(t, i)
  \/ \E t \in Taker, s \in Sem : TakeNow(t, s) \/ Release(t, s)
  \/ \E t \in Taker \ Busy, s \in Sem, i \in Times : TakeBlock(t, s, i)

Spec == Init /\ [][Next]_vars

\* Code that the tick cannot interrupt: the handler, thread_join_init and the
\* idle thread's walk.  InSection says when one of its steps is enabled, CanTick
\* when TickEnter is.
Uninterrupted ==
  \/ TimerCheck \/ TickExit \/ IdleNext
  \/ \E t \in Thread : HeapTake(t) \/ HeapLeave(t) \/ CreateReady(t) \/ CreateFail(t)
InSection == k.fault = "none" /\ (k.nest = 1 \/ pc[k.cpu] \in {"heap", "inheap", "done"})
CanTick == k.fault = "none" /\ k.nest = 0 /\ k.cpu \notin masked /\ k.tick < MaxTick

\* Strong fairness of the tick, which comes again and again and stays pending
\* while interrupts are disabled, and weak fairness of uninterrupted code: the
\* processor goes on.  Nothing is assumed of threads that can be interrupted.
FairSpec ==
  /\ Spec
  /\ []<>CanTick => []<><<TickEnter>>_vars
  /\ <>[]InSection => []<><<Uninterrupted>>_vars

-----------------------------------------------------------------------------
\* Every variable keeps its type.
TypeOK ==
  /\ k \in State
  /\ value \in [Sem -> Nat]
  /\ pc \in [Thread -> Pc]
  /\ sem \in [Thread -> Sem]
  /\ work \in [Thread -> Thread \cup {None}]
  /\ calls \in [Thread -> 0 .. 2]
  /\ next \in Thread \cup {None}
  /\ masked \subseteq Thread
  /\ level \subseteq Thread
  /\ holds \in [Thread -> SUBSET Lock]
  /\ lost \subseteq Lock
  /\ pos \in Thread \cup {None}
  /\ n \in Thread \cup {None}

\* No kernel call ever links a node that is linked, takes a thread from an
\* empty ready queue, or finds the running thread in a ready queue ("still in
\* read list", the endless loop of rt_schedule).
NoFault == k.fault = "none"

\* A thread is in the one list its status says, once: a READY thread in the
\* ready queue of its priority, a SUSPENDed one in one wait queue, a CLOSEd
\* one in the dead list until idle takes it out; no other thread is linked.
\* No thread is lost and rt_schedule never dispatches a blocked or closed one.
Placement == Placed(k, Freeing)

\* rt_thread_ready_priority_group has exactly the bits of the priorities
\* whose ready queue is not empty.
GroupExact == GroupMatches(k)

\* A timer is linked exactly while it is ACTIVATED, belongs to a thread that
\* sleeps or waits, and every sleeping thread has one.
TimersExact == TimersMatch(k)

\* Outside the handler rt_current_thread is the thread on the processor; in
\* the handler, however often rt_schedule was called, the pending switch
\* leads from the interrupted thread to rt_current_thread.
DispatchExact == SwitchMatches(k)

\* A thread that blocked, slept or ended runs nothing beyond the rt_schedule
\* that gives the processor away.
OnlyRunningRuns ==
  k.nest = 0 /\ pc[k.cpu] \notin {"sched", "wait", "exit"}
    => k.statu[k.cpu] = "RUNNING"

\* A thread waits for a semaphore only while its value is 0.
NoIdleToken == \A s \in Sem : value[s] > 0 => rt_list_isempty(k.list[s])

\* A lock has one owner or is free, whatever the race of release, timeout,
\* exit and kill; its token disappears only with an owner that ended.
OneOwner ==
  \A s \in Lock :
    Cardinality({t \in Thread : Owner(t, s)}) + value[s] = IF s \in lost THEN 0 ELSE 1

\* The handler leaves no timer behind that was due (while the tick counter
\* has not wrapped around).
NoneOverdue == k.nest = 0 => \A t \in k.active : k.tick <= k.timeout[t]

\* The saved successors of the two list walks stay in their lists: rt_timer_check
\* during its callbacks, idle although free may give the processor away.
WalksStay ==
  /\ pos # None => k.nest = 1 /\ pos \in Nodes(k.timers)
  /\ pos # None => n = Successor(k.timers, pos, None)
  /\ next # None => next \in Nodes(k.list[Dead])

\* The invariant that the proofs carry from step to step.  Besides the above:
\* time slices never run out, a polling thread never blocks, the current
\* thread runs or is on its way into rt_schedule, the thread idle frees is
\* closed, and the slots of two calls of thread_join_init are empty and
\* distinct although malloc can give the processor away between them.
BusyReady == \A t \in Busy : k.statu[t] \in {"READY", "RUNNING"}
CurrentRuns ==
  \/ k.statu[k.cur] = "RUNNING"
  \/ ~ k.flag /\ pc[k.cur] \in {"sched", "wait", "exit"} /\ k.statu[k.cur] \notin {"READY", "INIT"}
HeapCalls ==
  \A t \in Thread : /\ pc[t] \in {"heap", "inheap"} => calls[t] > 0
                    /\ pc[t] \in {"heap", "inheap", "done"} => t \in Creator \cup {Idle}
FreeingClosed ==
  pc[Idle] \in {"heap", "inheap"} => work[Idle] \in Thread /\ k.statu[work[Idle]] = "CLOSE"
SlotsFree ==
  \A t \in Thread \ {Idle} : Alive(t) /\ work[t] # None =>
    /\ work[t] # Idle /\ k.statu[work[t]] = "INIT"
    /\ \A u \in Thread \ {Idle} : Alive(u) /\ work[u] = work[t] => u = t
Inductive ==
  /\ TypeOK /\ NoFault /\ Placement /\ GroupExact /\ TimersExact /\ DispatchExact
  /\ NoIdleToken /\ WalksStay
  /\ \A t \in Thread : k.remaining[t] > 0
  /\ BusyReady /\ CurrentRuns /\ HeapCalls /\ FreeingClosed /\ SlotsFree

\* A closed thread only disappears: no timeout, release or kill revives it.
DeadStayDead ==
  [][\A t \in Thread : k.statu[t] = "CLOSE" => k'.statu[t] \in {"CLOSE", "INIT"}]_vars

\* A ready thread of the highest priority that any thread has gets the
\* processor, or is closed: at each end of a time slice rt_schedule serves the ready
\* queue from its front and puts the preempted thread at its back.
RoundRobin ==
  \A t \in Thread : (k.statu[t] = "READY" /\ \A u \in Thread : prio[t] <= prio[u])
                        ~> (k.statu[t] # "READY")

\* A timer that is due before the last tick of the instance fires or is
\* stopped: no sleeping thread sleeps on and no timed rt_sem_take waits on.
TimersFire ==
  \A t \in Thread : (t \in k.active /\ k.timeout[t] < MaxTick) ~> (t \notin k.active)

\* What os/include/rtdef.h says of RT_WAITING_FOREVER, "Block forever until get
\* resource": the code of rt_sem_take after rt_schedule runs only in a thread
\* that has left the wait queue.
BlocksUntilResumed ==
  \A t \in Thread : At(t, "taken") => t \notin Nodes(k.list[sem[t]])

\* What os/testFun.c says of testthread04, which never delays: threads of a
\* lower priority never get the right to run.
BusyKeepsLowerOut ==
  \A t \in Busy : k.statu[t] = "READY" => prio[k.cur] <= prio[t]

=============================================================================
