---------------------------- MODULE ThreadsProofs ---------------------------
(***************************************************************************)
(* The invariants of Threads hold in every state, for all sets of threads, *)
(* priorities, semaphores and timeouts, provided some thread never blocks. *)
(* In the system that is the shell while it polls for characters.  Each    *)
(* lemma ...Held takes one action and cites a lemma about its kernel call. *)
(***************************************************************************)
EXTENDS Threads, KernelProofs

\* The successor of a node is a node of the list, its head, or itself.
LEMMA SuccessorNode ==
  ASSUME NEW S, NEW s \in Seq(S), NEW e, NEW head
  PROVE  /\ e \in Nodes(s) => Successor(s, e, head) \in Nodes(s) \cup {head}
         /\ e \notin Nodes(s) => Successor(s, e, head) = e
<1>1. CASE e \in Nodes(s)
  <2>1. Place(s, e) \in 1 .. Len(s)
    BY <1>1 DEF Nodes, Place
  <2> QED BY <1>1, <2>1 DEF Successor, Nodes
<1> QED BY <1>1 DEF Successor

\* In a list without repetitions it is another node.
LEMMA SuccessorOther ==
  ASSUME NEW S, NEW s \in Seq(S), NEW e, NEW head, NoRepeat(s), e \in Nodes(s)
  PROVE  Successor(s, e, head) \in (Nodes(s) \ {e}) \cup {head}
<1>1. Place(s, e) \in 1 .. Len(s) /\ s[Place(s, e)] = e
  BY DEF Nodes, Place
<1>2. CASE Place(s, e) # Len(s)
  <2>1. Place(s, e) + 1 \in 1 .. Len(s) /\ Place(s, e) + 1 # Place(s, e)
    BY <1>1, <1>2
  <2>2. s[Place(s, e) + 1] \in Nodes(s) /\ s[Place(s, e) + 1] # e
    BY <1>1, <2>1 DEF Nodes, NoRepeat
  <2> QED BY <1>2, <2>2 DEF Successor
<1> QED BY <1>2 DEF Successor

\* Leaves go to Zenon unless they name the SMT solver; the time is ample.
USE ZenonT(60)

TimerWalk ==
  /\ pos # None => k.nest = 1 /\ pos \in Nodes(k.timers)
  /\ pos # None => n = Successor(k.timers, pos, None)
NextDead == next # None => next \in Nodes(k.list[Dead])
NoWaiters == \A s \in Sem : value[s] > 0 => Nodes(k.list[s]) = {}

\* Inductive, with the kernel's part as one predicate.
Held ==
  /\ TypeOK /\ Whole(k, Freeing) /\ NoWaiters /\ TimerWalk /\ NextDead
  /\ BusyReady /\ CurrentRuns /\ HeapCalls /\ FreeingClosed /\ SlotsFree

\* The ready queues that thread_join_init has built hold the threads of
\* their priority, once.
Queued ==
  \A p : /\ InitialQueue(p) \in Seq(Thread) /\ NoRepeat(InitialQueue(p))
         /\ Nodes(InitialQueue(p)) = {t \in Thread \ (Off \cup {Start}) : prio[t] = p}

\* thread_start picks a thread that exists.
LEMMA StartExists == Start \in Thread \ Off
<1> DEFINE g == {prio[t] : t \in Thread \ Off}
<1>1. g \subseteq Priority /\ g # {}
  BY KernelAssumption, ThreadsAssumption, SMTT(60)
<1>2. HighestPriority(g) \in g /\ \A q \in g : HighestPriority(g) <= q
  BY <1>1, HighestPriorityIn
<1>3. PICK t \in Thread \ Off : prio[t] = HighestPriority(g)
  BY <1>2
<1>4. \A u \in Thread \ Off : prio[t] <= prio[u]
  BY <1>2, <1>3
<1> QED BY <1>4 DEF Start

\* The invariant holds when thread_start has chosen the first thread.
LEMMA InitHeld ==
  ASSUME Init, Queued
  PROVE  Held
<1> DEFINE queues == [h \in ListHead |-> IF h \in Priority THEN InitialQueue(h) ELSE <<>>]
<1>1. Start \in Thread /\ Start \notin Off /\ Idle \in Thread /\ None \notin Thread /\ Heap \in Sem
  BY StartExists, ThreadsAssumption DEF Sem
<1>2. queues \in [ListHead -> Seq(Thread)]
  <2>1. \A h \in ListHead : (IF h \in Priority THEN InitialQueue(h) ELSE <<>>) \in Seq(Thread)
    BY EmptyList DEF Queued
  <2> QED BY <2>1
<1>3. \A p \in Priority : queues[p] = InitialQueue(p)
  BY DEF ListHead
<1>4. /\ k.cur = Start /\ k.cpu = Start /\ k.list = queues
      /\ \A t \in Thread : k.statu[t] = IF t \in Off THEN "INIT"
                                        ELSE IF t = Start THEN "RUNNING" ELSE "READY"
  BY DEF Init
<1>5. \A h \in Wait \cup {Dead} : queues[h] = <<>>
  BY KernelAssumption, SMTT(60) DEF ListHead
<1>6. \A h \in Wait \cup {Dead} : Nodes(k.list[h]) = {}
  BY <1>4, <1>5, EmptyList
<1>7. PICK l : l = queues
  OBVIOUS
<1>8. k = Boot(Start, Off, l)
  BY <1>7 DEF Init, Boot
<1> HIDE DEF queues
<1>9. /\ l \in [ListHead -> Seq(Thread)] /\ \A h \in Wait \cup {Dead} : l[h] = <<>>
      /\ \A p \in Priority : NoRepeat(l[p])
           /\ Nodes(l[p]) = {t \in Thread \ (Off \cup {Start}) : prio[t] = p}
  BY <1>2, <1>3, <1>5, <1>7 DEF Queued
<1>10. Whole(k, Freeing) /\ k \in State
  BY ONLY <1>1, <1>8, <1>9, BootWhole, SMTT(60) DEF Whole, Sound
<1>11. TypeOK
  BY <1>1, <1>10, ThreadsAssumption, SMTT(60) DEF TypeOK, Init, Pc, Sem
<1>12. NoWaiters /\ TimerWalk /\ NextDead
  BY <1>6 DEF NoWaiters, TimerWalk, NextDead, Init, Sem
<1>13. BusyReady /\ CurrentRuns
  BY <1>1, <1>4, ThreadsAssumption DEF BusyReady, CurrentRuns
<1>14. HeapCalls /\ FreeingClosed /\ SlotsFree
  BY <1>1 DEF HeapCalls, FreeingClosed, SlotsFree, Init
<1> QED BY <1>10, <1>11, <1>12, <1>13, <1>14 DEF Held

\* NoIdleToken in terms of linked nodes.
LEMMA TokenNodes ==
  ASSUME k \in State
  PROVE  NoIdleToken <=> NoWaiters
<1>1. \A s \in Sem : k.list[s] \in Seq(Thread)
  BY DEF State, ListHead, Sem
<1>2. \A s \in Sem : rt_list_isempty(k.list[s]) <=> Nodes(k.list[s]) = {}
  BY <1>1, IsEmptyNodes
<1> QED BY <1>2 DEF NoIdleToken, NoWaiters

\* The two forms of the invariant say the same.
LEMMA HeldInductive == Held <=> Inductive
<1>1. ASSUME Held PROVE Inductive
  <2>1. TypeOK /\ Whole(k, Freeing) /\ k \in State
    BY <1>1 DEF Held, TypeOK
  <2>2. NoFault /\ Placement /\ GroupExact /\ TimersExact /\ DispatchExact
    BY <2>1 DEF Whole, Sound, NoFault, Placement, GroupExact, TimersExact, DispatchExact
  <2>3. \A t \in Thread : k.remaining[t] > 0
    BY <2>1 DEF Whole, Sound
  <2>4. NoIdleToken
    BY <1>1, <2>1, TokenNodes DEF Held
  <2> QED BY <1>1, <2>2, <2>3, <2>4 DEF Held, Inductive, WalksStay, TimerWalk, NextDead
<1>2. ASSUME Inductive PROVE Held
  <2>1. k \in State
    BY <1>2 DEF Inductive, TypeOK
  <2>2. k.statu[k.cur] \notin {"READY", "INIT"}
    BY <1>2 DEF Inductive, CurrentRuns
  <2>3. Whole(k, Freeing)
    BY <1>2, <2>1, <2>2
       DEF Inductive, Whole, Sound, NoFault, Placement, GroupExact, TimersExact, DispatchExact
  <2>4. NoWaiters
    BY <1>2, <2>1, TokenNodes DEF Inductive
  <2> QED BY <1>2, <2>3, <2>4 DEF Held, Inductive, WalksStay, TimerWalk, NextDead
<1> QED BY <1>1, <1>2

\* The thread that executes is the current one, and its status is RUNNING
\* outside the windows before rt_schedule.
LEMMA AtFacts ==
  ASSUME Held, NEW t, NEW where, At(t, where)
  PROVE  /\ k \in State /\ t \in Thread /\ k.cur = t /\ k.cpu = t /\ k.nest = 0 /\ ~ k.flag
         /\ pc[t] = where
         /\ where \notin {"sched", "wait", "exit"} => k.statu[t] = "RUNNING"
<1>1. k \in State /\ k.cpu = t /\ k.nest = 0 /\ pc[t] = where
  BY DEF Held, TypeOK, At
<1>2. k.cpu \in Thread /\ k.flag \in BOOLEAN
  BY <1>1 DEF State
<1>3. SwitchMatches(k)
  BY DEF Held, Whole, Sound
<1>4. ~ k.flag /\ k.cur = t
  BY <1>1, <1>2, <1>3, SMTT(60) DEF SwitchMatches
<1> QED BY <1>1, <1>2, <1>4 DEF Held, CurrentRuns

\* How program counters move without entering or leaving a heap call.
PcKept ==
  \A u \in Thread : \/ pc'[u] = pc[u]
                    \/ pc[u] = "heap" /\ pc'[u] = "inheap"
                    \/ /\ pc[u] \notin {"heap", "inheap"}
                       /\ pc'[u] \notin {"heap", "inheap", "done"}

\* A step about t that neither revives it nor takes it out of the dead list.
Steady(t) ==
  /\ Quiet(k, t, k')
  /\ Alive(t) \/ k'.statu[t] = k.statu[t]
  /\ t \in Busy => k'.statu[t] \in {"READY", "RUNNING"}
  /\ t \in Nodes(k.list[Dead]) => t \in Nodes(k'.list[Dead])

\* Under such a step empty slots stay empty and closed threads closed.
LEMMA SteadyStatu ==
  ASSUME Held, NEW t \in Thread, Steady(t)
  PROVE  /\ \A u \in Thread : k'.statu[u] \notin {"INIT", "CLOSE"} => k.statu[u] \notin {"INIT", "CLOSE"}
         /\ \A u \in Thread : k.statu[u] \in {"INIT", "CLOSE"} => k'.statu[u] = k.statu[u]
         /\ \A u \in Nodes(k.list[Dead]) \cap Thread : u \in Nodes(k'.list[Dead])
         /\ BusyReady'
  BY ThreadsAssumption DEF Steady, Quiet, Alive, Held, BusyReady

\* The threads idle is freeing do not change while pc and work do not.
LEMMA SameFreeing ==
  ASSUME Held, PcKept, work' = work
  PROVE  Freeing' = Freeing
<1>1. Idle \in Thread
  BY ThreadsAssumption
<1>2. pc'[Idle] \in {"heap", "inheap"} <=> pc[Idle] \in {"heap", "inheap"}
  BY <1>1 DEF PcKept
<1> QED BY <1>2 DEF Freeing

\* The actions outside thread_join_init and the idle thread's walk have this
\* in common.
LEMMA Kept ==
  ASSUME Held, TypeOK', NEW t \in Thread, Steady(t), Whole(k', Freeing), PcKept,
         work' = work, calls' = calls, next' = next, NoWaiters', TimerWalk', CurrentRuns'
  PROVE  Held'
<1>1. Whole(k', Freeing')
  BY SameFreeing
<1>2. BusyReady'
  BY SteadyStatu
<1>3. NextDead'
  BY SteadyStatu DEF Held, NextDead, TypeOK
<1>4. HeapCalls'
  BY DEF Held, HeapCalls, PcKept
<1>5. FreeingClosed'
  <2>1. Idle \in Thread
    BY ThreadsAssumption
  <2>2. pc'[Idle] \in {"heap", "inheap"} => pc[Idle] \in {"heap", "inheap"}
    BY <2>1 DEF PcKept
  <2> QED BY <2>2, SteadyStatu DEF Held, FreeingClosed
<1>6. SlotsFree'
  <2>1. ASSUME NEW u \in Thread, NEW v \in Thread, Alive(u)', work'[u] # None, u # Idle, v # Idle
        PROVE  /\ work'[u] # Idle /\ k'.statu[work'[u]] = "INIT"
               /\ Alive(v)' /\ work'[v] = work'[u] => v = u
    <3>1. Alive(u) /\ (Alive(v)' => Alive(v))
      BY <2>1, SteadyStatu DEF Alive
    <3>2. work[u] \in Thread
      BY <2>1 DEF Held, TypeOK
    <3>3. work[u] # Idle /\ k.statu[work[u]] = "INIT" /\ (Alive(v) /\ work[v] = work[u] => v = u)
      BY <2>1, <3>1 DEF Held, SlotsFree
    <3> QED BY <3>1, <3>2, <3>3, SteadyStatu
  <2> QED BY <2>1, ThreadsAssumption DEF SlotsFree
<1> QED BY <1>1, <1>2, <1>3, <1>4, <1>5, <1>6 DEF Held

\* Outside the handler no walk of the timers is under way.
LEMMA NoTimerWalk ==
  ASSUME Held, k.nest = 0, pos' = pos
  PROVE  TimerWalk'
  BY SMTT(60) DEF Held, TimerWalk

\* With a polling thread about, rt_schedule always leaves a running thread.
LEMMA Dispatches ==
  ASSUME Busy # {}, NEW j, NEW f, Whole(j, f), \A b \in Busy : j.statu[b] \in {"READY", "RUNNING"},
         NEW r, r = rt_schedule(j)
  PROVE  r.statu[r.cur] = "RUNNING"
<1>1. PICK b \in Busy : b \in Thread /\ j.statu[b] \in {"READY", "RUNNING"}
  BY ThreadsAssumption
<1>2. Rescheduled(j, r)
  BY KernelCalls DEF ScheduleCall
<1>3. CASE j.group # {}
  BY <1>2, <1>3 DEF Rescheduled
<1>4. CASE j.group = {}
  <2>1. j.statu[b] = "RUNNING"
    BY <1>1, <1>4, ReadyGroup
  <2>2. b = j.cur /\ r = j
    BY <1>1, <1>2, <1>4, <2>1 DEF Whole, Sound, Placed, Rescheduled
  <2> QED BY <2>1, <2>2
<1> QED BY <1>3, <1>4

\* Wait queues that do not grow and values that do not rise keep NoWaiters.
LEMMA FewerWaiters ==
  ASSUME Held, NEW t \in Thread, Quiet(k, t, k'), k' \in State, k \in State,
         \A s \in Sem : value'[s] = 0 \/ (value[s] > 0 /\ t \notin Nodes(k'.list[s]))
  PROVE  NoWaiters'
<1>1. ASSUME NEW s \in Sem, value'[s] > 0 PROVE Nodes(k'.list[s]) = {}
  <2>1. value[s] > 0 /\ t \notin Nodes(k'.list[s])
    BY <1>1, SMTT(60)
  <2>2. Nodes(k.list[s]) = {}
    BY <2>1 DEF Held, NoWaiters
  <2>3. k'.list[s] \in Seq(Thread)
    BY DEF State, ListHead, Sem
  <2>4. Nodes(k'.list[s]) \subseteq Thread
    BY <2>3, SMTT(60) DEF Nodes
  <2>5. \A u \in Thread \ {t} : u \notin Nodes(k'.list[s])
    BY <2>2 DEF Quiet, Sem
  <2> QED BY <2>1, <2>4, <2>5
<1> QED BY <1>1 DEF NoWaiters

\* Thread t is about to give the processor away.
LEMMA ScheduleHeld ==
  ASSUME Busy # {}, Held, NEW t \in Thread, Schedule(t)
  PROVE  Held'
<1>1. /\ k \in State /\ k.nest = 0 /\ k.cur = t /\ ~ k.flag
      /\ pc[t] \in {"sched", "wait", "exit"}
  BY AtFacts DEF Schedule
<1>2. Whole(k, Freeing) /\ k' = rt_schedule(k)
  BY DEF Held, Schedule
<1>3. Whole(k', Freeing) /\ Rescheduled(k, k')
  BY <1>2, KernelCalls DEF ScheduleCall
<1>4. k'.statu[k'.cur] = "RUNNING"
  BY <1>2, Dispatches DEF Held, BusyReady
<1>5. Quiet(k, t, k') /\ k' \in State
  BY <1>3, RescheduledQuiet DEF Whole, Sound
<1>6. Steady(t)
  <2>1. \/ k'.statu[t] = k.statu[t]
        \/ k'.statu[t] \in {"READY", "RUNNING"} /\ k.statu[t] \in {"READY", "RUNNING"}
    BY <1>3 DEF Rescheduled
  <2>2. Nodes(k'.list[Dead]) = Nodes(k.list[Dead])
    BY <1>3 DEF Rescheduled
  <2> QED BY <1>5, <2>1, <2>2 DEF Steady, Alive, Held, BusyReady
<1>7. PcKept /\ pc' \in [Thread -> Pc]
  BY <1>1 DEF Schedule, PcKept, Held, TypeOK, Pc
<1>8. TypeOK'
  BY <1>5, <1>7 DEF Held, TypeOK, Schedule, heapwork, walk
<1>9. NoWaiters'
  <2>1. \A s \in Sem : Nodes(k'.list[s]) = Nodes(k.list[s])
    BY <1>3 DEF Rescheduled, Sem
  <2> QED BY <2>1 DEF NoWaiters, Held, Schedule
<1>10. TimerWalk'
  BY <1>1, NoTimerWalk DEF Schedule, walk
<1>11. CurrentRuns'
  BY <1>4 DEF CurrentRuns
<1> QED BY <1>3, <1>6, <1>7, <1>8, <1>9, <1>10, <1>11, Kept DEF Schedule, heapwork

\* rt_thread_sleep
LEMMA SleepHeld ==
  ASSUME Held, NEW t \in Thread \ Busy, NEW i \in Tick, Sleep(t, i)
  PROVE  Held'
<1>1. /\ k \in State /\ k.nest = 0 /\ k.cur = t /\ ~ k.flag
      /\ pc[t] \in {"user", "delay"} /\ k.statu[t] = "RUNNING"
  BY AtFacts, SMTT(60) DEF Sleep, AtUser
<1>2. Whole(k, Freeing) /\ k' = rt_thread_sleep(k, t, i)
  BY DEF Held, Sleep
<1>3. Called(k, t, k', Freeing, "SLEEP") /\ Homes(k', t) = {}
  BY <1>1, <1>2, KernelCalls DEF SleepCall
<1>4. Whole(k', Freeing) /\ Did(k, t, k') /\ Quiet(k, t, k') /\ k'.statu[t] = "SLEEP" /\ k' \in State
  BY <1>3, DidQuiet DEF Called, Whole, Sound
<1>5. \A h \in Wait \cup {Dead} : t \notin Nodes(k'.list[h])
  BY <1>3 DEF Homes, ListHead
<1>6. t \notin Nodes(k.list[Dead])
  <2>1. Homes(k, t) = {}
    BY <1>1, <1>2, RunningFacts
  <2> QED BY <2>1 DEF Homes, ListHead
<1>7. Steady(t)
  BY <1>1, <1>4, <1>6 DEF Steady, Alive
<1>8. PcKept /\ pc' \in [Thread -> Pc] /\ pc'[t] = "sched"
  BY <1>1 DEF Sleep, PcKept, Held, TypeOK, Pc
<1>9. TypeOK'
  BY <1>4, <1>8 DEF Held, TypeOK, Sleep, heapwork, walk
<1>10. NoWaiters'
  <2>1. \A s \in Sem : value'[s] = value[s] /\ value[s] \in Nat
    BY DEF Held, TypeOK, Sleep
  <2> QED BY <1>1, <1>4, <1>5, <2>1, FewerWaiters, SMTT(60) DEF Sem
<1>11. TimerWalk'
  BY <1>1, NoTimerWalk DEF Sleep, walk
<1>12. CurrentRuns'
  <2>1. k'.cur = t /\ ~ k'.flag
    BY <1>1, <1>4 DEF Did, Aside, SameSwitch
  <2> QED BY <1>4, <1>8, <2>1 DEF CurrentRuns
<1> QED BY <1>4, <1>7, <1>8, <1>9, <1>10, <1>11, <1>12, Kept DEF Sleep, heapwork

\* A step that leaves the kernel state alone is steady.
LEMMA SameKernel ==
  ASSUME Held, NEW t \in Thread, k' = k
  PROVE  Steady(t) /\ Whole(k', Freeing) /\ k' \in State
  BY DEF Steady, Quiet, Held, BusyReady, TypeOK

\* rt_sem_take of an available semaphore
LEMMA TakeNowHeld ==
  ASSUME Held, NEW t \in Thread, NEW s \in Sem, TakeNow(t, s)
  PROVE  Held'
<1>1. k' = k /\ k.nest = 0 /\ pc' = pc /\ value[s] > 0
  BY AtFacts DEF TakeNow, AtUser
<1>2. Steady(t) /\ Whole(k', Freeing) /\ k' \in State
  BY <1>1, SameKernel
<1>3. value \in [Sem -> Nat] /\ value' = [value EXCEPT ![s] = @ - 1]
  BY DEF Held, TypeOK, TakeNow
<1>4. value' \in [Sem -> Nat] /\ \A r \in Sem : value'[r] > 0 => value[r] > 0
  BY <1>1, <1>3, SMTT(60)
<1>5. holds' \in [Thread -> SUBSET Lock]
  BY DEF Held, TypeOK, TakeNow
<1>6. TypeOK'
  BY <1>1, <1>2, <1>4, <1>5 DEF Held, TypeOK, TakeNow, heapwork, walk
<1>7. NoWaiters'
  BY <1>1, <1>4 DEF Held, NoWaiters
<1>8. TimerWalk' /\ CurrentRuns' /\ PcKept
  BY <1>1, NoTimerWalk DEF TakeNow, walk, Held, CurrentRuns, PcKept
<1> QED BY <1>2, <1>6, <1>7, <1>8, Kept DEF TakeNow, heapwork

\* rt_sem_take returns after it was resumed
LEMMA TakeReturnHeld ==
  ASSUME Held, NEW t \in Thread, TakeReturn(t)
  PROVE  Held'
<1>1. k' = k /\ k.nest = 0 /\ k.cur = t /\ k.statu[t] = "RUNNING" /\ pc[t] = "taken"
  BY AtFacts, SMTT(60) DEF TakeReturn
<1>2. Steady(t) /\ Whole(k', Freeing) /\ k' \in State
  BY <1>1, SameKernel
<1>3. PcKept /\ pc' \in [Thread -> Pc]
  BY <1>1 DEF TakeReturn, PcKept, Held, TypeOK, Pc
<1>4. holds' \in [Thread -> SUBSET Lock]
  BY DEF Held, TypeOK, TakeReturn
<1>5. TypeOK'
  BY <1>2, <1>3, <1>4 DEF Held, TypeOK, TakeReturn, heapwork, walk
<1>6. NoWaiters'
  BY <1>1 DEF Held, NoWaiters, TakeReturn
<1>7. TimerWalk' /\ CurrentRuns'
  BY <1>1, NoTimerWalk DEF TakeReturn, walk, CurrentRuns
<1> QED BY <1>2, <1>3, <1>5, <1>6, <1>7, Kept DEF TakeReturn, heapwork

\* thread_join_init returns without a thread
LEMMA CreateFailHeld ==
  ASSUME Held, NEW t \in Thread, CreateFail(t)
  PROVE  Held'
<1>1. k' = k /\ k.nest = 0 /\ k.cur = t /\ k.statu[t] = "RUNNING" /\ pc[t] = "done"
  BY AtFacts, SMTT(60) DEF CreateFail
<1>2. Steady(t) /\ Whole(k', Freeing) /\ k' \in State
  BY <1>1, SameKernel
<1>3. PcKept /\ pc' \in [Thread -> Pc]
  BY <1>1 DEF CreateFail, PcKept, Held, TypeOK, Pc
<1>4. TypeOK'
  BY <1>2, <1>3 DEF Held, TypeOK, CreateFail, heapwork, walk
<1>5. NoWaiters'
  BY <1>1 DEF Held, NoWaiters, CreateFail
<1>6. TimerWalk' /\ CurrentRuns'
  BY <1>1, NoTimerWalk DEF CreateFail, walk, CurrentRuns
<1> QED BY <1>2, <1>3, <1>4, <1>5, <1>6, Kept DEF CreateFail, heapwork

\* rt_sem_take joins the wait queue of s
LEMMA TakeBlockHeld ==
  ASSUME Held, NEW t \in Thread \ Busy, NEW s \in Sem, NEW i \in Times, TakeBlock(t, s, i)
  PROVE  Held'
<1>1. /\ k \in State /\ k.nest = 0 /\ k.cur = t /\ ~ k.flag
      /\ pc[t] = "user" /\ k.statu[t] = "RUNNING"
  BY AtFacts DEF TakeBlock, AtUser
<1>2. Whole(k, Freeing) /\ k' = Block(k, t, s, i) /\ s \in Wait /\ i \in Tick \cup {-1}
  BY ThreadsAssumption DEF Held, TakeBlock, Sem
<1>3. Called(k, t, k', Freeing, "SUSPEND") /\ Homes(k', t) = {s}
  BY <1>1, <1>2, KernelCalls, SMTT(60) DEF BlockCall
<1>4. Whole(k', Freeing) /\ Did(k, t, k') /\ Quiet(k, t, k') /\ k'.statu[t] = "SUSPEND" /\ k' \in State
  BY <1>3, DidQuiet DEF Called, Whole, Sound
<1>5. \A r \in Sem : r # s => t \notin Nodes(k'.list[r])
  BY <1>3 DEF Homes, ListHead, Sem
<1>6. t \notin Nodes(k.list[Dead])
  <2>1. Homes(k, t) = {}
    BY <1>1, <1>2, RunningFacts
  <2> QED BY <2>1 DEF Homes, ListHead
<1>7. Steady(t)
  BY <1>1, <1>4, <1>6 DEF Steady, Alive
<1>8. PcKept /\ pc' \in [Thread -> Pc] /\ pc'[t] = "wait"
  BY <1>1 DEF TakeBlock, PcKept, Held, TypeOK, Pc
<1>9. TypeOK'
  <2>1. sem' \in [Thread -> Sem]
    BY DEF Held, TypeOK, TakeBlock
  <2> QED BY <1>4, <1>8, <2>1 DEF Held, TypeOK, TakeBlock, heapwork, walk
<1>10. NoWaiters'
  <2>1. \A r \in Sem : value'[r] = value[r] /\ value[r] \in Nat
    BY DEF Held, TypeOK, TakeBlock
  <2>2. value[s] = 0
    BY DEF TakeBlock
  <2>3. \A r \in Sem : value'[r] = 0 \/ (value[r] > 0 /\ t \notin Nodes(k'.list[r]))
    BY <1>5, <2>1, <2>2, SMTT(60)
  <2> QED BY <1>1, <1>4, <2>3, FewerWaiters
<1>11. TimerWalk'
  BY <1>1, NoTimerWalk DEF TakeBlock, walk
<1>12. CurrentRuns'
  <2>1. k'.cur = t /\ ~ k'.flag
    BY <1>1, <1>4 DEF Did, Aside, SameSwitch
  <2> QED BY <1>4, <1>8, <2>1 DEF CurrentRuns
<1> QED BY <1>4, <1>7, <1>8, <1>9, <1>10, <1>11, <1>12, Kept DEF TakeBlock, heapwork

\* The critical section of rt_sem_release keeps the kernel invariant: it
\* wakes a waiter w, or nobody waits.
LEMMA ResumedFacts ==
  ASSUME Held, NEW s \in Sem, k.statu[k.cur] = "RUNNING"
  PROVE  \/ rt_list_isempty(k.list[s]) /\ Nodes(k.list[s]) = {} /\ Resumed(s) = k
            /\ Raised(s) = [value EXCEPT ![s] = @ + 1]
         \/ /\ ~ rt_list_isempty(k.list[s]) /\ Raised(s) = value
            /\ \E w \in Thread : /\ w # k.cur /\ k.statu[w] = "SUSPEND"
                                 /\ w \in Nodes(k.list[s]) /\ Resumed(s).error = k.error
                                 /\ Called(k, w, Resumed(s), Freeing, "READY")
                                 /\ Homes(Resumed(s), w) = {prio[w]}
<1>1. k \in State /\ Whole(k, Freeing) /\ k.list[s] \in Seq(Thread) /\ s \in ListHead /\ s \in Wait
  BY DEF Held, TypeOK, State, ListHead, Sem
<1>2. CASE rt_list_isempty(k.list[s])
  BY <1>1, <1>2, IsEmptyNodes DEF Resumed, Raised
<1>3. CASE ~ rt_list_isempty(k.list[s])
  <2> DEFINE w == k.list[s][1]
  <2>1. w \in Thread /\ w \in Nodes(k.list[s])
    BY <1>1, <1>3, IsEmptyNodes
  <2>2. k.statu[w] = "SUSPEND"
    BY <1>1, <2>1 DEF Whole, Sound, Placed
  <2>3. Resumed(s) = rt_thread_resume(k, w) /\ Raised(s) = value
    BY <1>3 DEF Resumed, Raised
  <2> HIDE DEF w
  <2>4. w # k.cur
    BY <2>2
  <2>5. /\ Called(k, w, Resumed(s), Freeing, "READY") /\ Homes(Resumed(s), w) = {prio[w]}
        /\ Resumed(s).error = k.error
    BY <1>1, <2>1, <2>2, <2>3, <2>4, KernelCalls, SMTT(60) DEF ResumeCall
  <2> QED BY <1>3, <2>1, <2>2, <2>3, <2>4, <2>5
<1> QED BY <1>2, <1>3

\* A thread in a ready queue is in no wait queue and not in the dead list.
LEMMA ReadyOnly ==
  ASSUME NEW r, NEW w \in Thread, Homes(r, w) \subseteq {prio[w]}
  PROVE  \A h \in Wait \cup {Dead} : w \notin Nodes(r.list[h])
<1>1. ASSUME NEW h \in Wait \cup {Dead} PROVE w \notin Nodes(r.list[h])
  <2>1. h \in ListHead /\ h # prio[w]
    BY KernelAssumption DEF ListHead
  <2>2. h \notin Homes(r, w)
    BY <2>1
  <2> QED BY <2>1, <2>2 DEF Homes
<1> QED BY <1>1

\* A suspended thread is not in the dead list.
LEMMA NotDead ==
  ASSUME NEW r, NEW f, Whole(r, f), NEW w \in Thread, r.statu[w] # "CLOSE"
  PROVE  w \notin Nodes(r.list[Dead])
  BY DEF Whole, Sound, Placed, ListHead

\* rt_sem_release
LEMMA ReleaseHeld ==
  ASSUME Held, NEW t \in Thread, NEW s \in Sem, Release(t, s)
  PROVE  Held'
<1>1. /\ k \in State /\ k.nest = 0 /\ k.cur = t /\ ~ k.flag
      /\ pc[t] = "user" /\ k.statu[t] = "RUNNING"
  BY AtFacts, SMTT(60) DEF Release
<1>2. k' = Resumed(s) /\ value' = Raised(s) /\ pos' = pos
  BY DEF Release, walk
<1>3. PcKept /\ pc' \in [Thread -> Pc]
  BY <1>1 DEF Release, PcKept, Held, TypeOK, Pc
<1>4. holds' \in [Thread -> SUBSET Lock] /\ value \in [Sem -> Nat]
  BY DEF Held, TypeOK, Release
<1>5. TimerWalk'
  BY <1>1, <1>2, NoTimerWalk
<1>6. CASE /\ rt_list_isempty(k.list[s]) /\ Nodes(k.list[s]) = {} /\ Resumed(s) = k
           /\ Raised(s) = [value EXCEPT ![s] = @ + 1]
  <2>1. k' = k
    BY <1>2, <1>6
  <2>2. Steady(t) /\ Whole(k', Freeing) /\ k' \in State
    BY <2>1, SameKernel
  <2>3. value' \in [Sem -> Nat] /\ \A r \in Sem : r = s \/ value'[r] = value[r]
    BY <1>2, <1>4, <1>6, SMTT(60)
  <2>4. TypeOK'
    BY <1>3, <1>4, <2>2, <2>3 DEF Held, TypeOK, Release, heapwork, walk
  <2>5. NoWaiters'
    BY <1>6, <2>1, <2>3 DEF Held, NoWaiters
  <2>6. CurrentRuns'
    BY <1>1, <2>1 DEF CurrentRuns
  <2> QED BY <1>3, <1>5, <2>2, <2>4, <2>5, <2>6, Kept DEF Release, heapwork
<1>7. CASE ~ rt_list_isempty(k.list[s])
  <2>1. PICK w \in Thread : /\ w # k.cur /\ k.statu[w] = "SUSPEND"
                            /\ Called(k, w, k', Freeing, "READY")
                            /\ Homes(k', w) = {prio[w]}
    BY <1>1, <1>2, <1>7, ResumedFacts
  <2>2. value' = value
    BY <1>1, <1>2, <1>7, ResumedFacts
  <2>3. Whole(k', Freeing) /\ Did(k, w, k') /\ Quiet(k, w, k') /\ k'.statu[w] = "READY" /\ k' \in State
    BY <2>1, DidQuiet DEF Called, Whole, Sound
  <2>4. w \notin Nodes(k.list[Dead])
    BY <2>1, NotDead DEF Held
  <2>5. Steady(w)
    BY <2>1, <2>3, <2>4 DEF Steady, Alive
  <2>6. TypeOK'
    BY <1>3, <1>4, <2>2, <2>3 DEF Held, TypeOK, Release, heapwork, walk
  <2>7. NoWaiters'
    <3>1. \A r \in Sem : w \notin Nodes(k'.list[r])
      BY <2>1, ReadyOnly DEF Sem
    <3>2. \A r \in Sem : value'[r] = 0 \/ (value[r] > 0 /\ w \notin Nodes(k'.list[r]))
      BY <1>4, <2>2, <3>1, SMTT(60)
    <3> QED BY <1>1, <2>3, <3>2, FewerWaiters
  <2>8. CurrentRuns'
    <3>1. k'.cur = t /\ k'.statu[t] = "RUNNING"
      BY <1>1, <2>1, <2>3 DEF Did, Aside
    <3> QED BY <3>1 DEF CurrentRuns
  <2> QED BY <1>3, <1>5, <2>3, <2>5, <2>6, <2>7, <2>8, Kept DEF Release, heapwork
<1> QED BY <1>1, <1>6, <1>7, ResumedFacts

\* malloc or free takes heap_sem, or waits for it and gives the processor away
LEMMA HeapTakeHeld ==
  ASSUME Busy # {}, Held, NEW t \in Thread, HeapTake(t)
  PROVE  Held'
<1>1. /\ k \in State /\ k.nest = 0 /\ k.cur = t /\ ~ k.flag
      /\ pc[t] = "heap" /\ k.statu[t] = "RUNNING"
  BY AtFacts, SMTT(60) DEF HeapTake
<1>2. PcKept /\ pc' \in [Thread -> Pc]
  BY <1>1 DEF HeapTake, PcKept, Held, TypeOK, Pc
<1>3. TimerWalk'
  BY <1>1, NoTimerWalk DEF HeapTake, walk
<1>4. value \in [Sem -> Nat] /\ Heap \in Sem
  BY ThreadsAssumption DEF Held, TypeOK
<1>5. CASE value[Heap] > 0 /\ value' = [value EXCEPT ![Heap] = @ - 1] /\ UNCHANGED k
  <2>1. Steady(t) /\ Whole(k', Freeing) /\ k' \in State
    BY <1>5, SameKernel
  <2>2. value' \in [Sem -> Nat] /\ \A r \in Sem : value'[r] > 0 => value[r] > 0
    BY <1>4, <1>5, SMTT(60)
  <2>3. TypeOK'
    BY <1>2, <2>1, <2>2 DEF Held, TypeOK, HeapTake, heapwork, walk
  <2>4. NoWaiters'
    BY <1>5, <2>2 DEF Held, NoWaiters
  <2>5. CurrentRuns'
    BY <1>1, <1>5 DEF CurrentRuns
  <2> QED BY <1>2, <1>3, <2>1, <2>3, <2>4, <2>5, Kept DEF HeapTake, heapwork
<1>6. CASE value[Heap] = 0 /\ k' = rt_schedule(Block(k, t, Heap, -1)) /\ UNCHANGED value
  <2> DEFINE j == Block(k, t, Heap, -1)
  <2>1. k' = rt_schedule(j)
    BY <1>6
  <2>2. Whole(k, Freeing) /\ j = Block(k, t, Heap, -1) /\ Heap \in Wait /\ -1 \in Tick \cup {-1}
    BY <1>4 DEF Held, Sem
  <2> HIDE DEF j
  <2>3. Called(k, t, j, Freeing, "SUSPEND") /\ Homes(j, t) = {Heap}
    BY <1>1, <2>2, KernelCalls, SMTT(60) DEF BlockCall
  <2>4. Whole(j, Freeing) /\ Did(k, t, j) /\ j.statu[t] = "SUSPEND"
    BY <2>3 DEF Called
  <2>5. Whole(k', Freeing) /\ Rescheduled(j, k')
    BY <2>1, <2>4, KernelCalls DEF ScheduleCall
  <2>6. Quiet(k, t, k') /\ k' \in State
    BY <2>4, <2>5, DidQuiet, RescheduledQuiet, QuietTrans DEF Whole, Sound
  <2>7. t \notin Busy /\ t \notin Nodes(k.list[Dead])
    BY <1>1, NotDead, ThreadsAssumption DEF Held, HeapCalls
  <2>8. Steady(t)
    BY <1>1, <2>6, <2>7 DEF Steady, Alive
  <2>9. TypeOK'
    BY <1>2, <1>6, <2>6 DEF Held, TypeOK, HeapTake, heapwork, walk
  <2>10. NoWaiters'
    <3>1. \A r \in Sem : r # Heap => t \notin Nodes(j.list[r])
      BY <2>3 DEF Homes, ListHead, Sem
    <3>2. \A r \in Sem : Nodes(k'.list[r]) = Nodes(j.list[r])
      BY <2>5 DEF Rescheduled, Sem
    <3>3. \A r \in Sem : value'[r] = 0 \/ (value[r] > 0 /\ t \notin Nodes(k'.list[r]))
      BY <1>4, <1>6, <3>1, <3>2, SMTT(60)
    <3> QED BY <1>1, <2>6, <3>3, FewerWaiters
  <2>11. CurrentRuns'
    <3>1. \A b \in Busy : j.statu[b] \in {"READY", "RUNNING"}
      BY <2>4, <2>7, ThreadsAssumption DEF Did, Aside, Held, BusyReady
    <3> QED BY <2>1, <2>4, <3>1, Dispatches DEF CurrentRuns
  <2> QED BY <1>2, <1>3, <2>5, <2>8, <2>9, <2>10, <2>11, Kept DEF HeapTake, heapwork
<1> QED BY <1>5, <1>6 DEF HeapTake

\* rt_thread_exit of the running thread
LEMMA ExitHeld ==
  ASSUME Held, NEW t \in Victim, Exit(t)
  PROVE  Held'
<1>1. /\ k \in State /\ k.nest = 0 /\ k.cur = t /\ ~ k.flag
      /\ pc[t] = "user" /\ k.statu[t] = "RUNNING" /\ t \in Thread \ Busy
  <2>1. At(t, "user")
    BY DEF Exit, AtUser
  <2>2. t \in Thread \ Busy
    BY ThreadsAssumption
  <2> QED BY <2>1, <2>2, AtFacts, SMTT(60)
<1>2. Whole(k, Freeing) /\ k' = Close(k, t) /\ t \notin Freeing
  BY <1>1 DEF Held, Exit, Freeing, FreeingClosed
<1>3. Called(k, t, k', Freeing, "CLOSE") /\ Homes(k', t) = {Dead}
  BY <1>1, <1>2, KernelCalls, SMTT(60) DEF CloseCall
<1>4. Whole(k', Freeing) /\ Did(k, t, k') /\ Quiet(k, t, k') /\ k'.statu[t] = "CLOSE" /\ k' \in State
  BY <1>3, DidQuiet DEF Called, Whole, Sound
<1>5. Steady(t)
  <2>1. t \in Nodes(k'.list[Dead])
    BY <1>3 DEF Homes
  <2> QED BY <1>1, <1>4, <2>1 DEF Steady, Alive
<1>6. PcKept /\ pc' \in [Thread -> Pc] /\ pc'[t] = "exit"
  BY <1>1 DEF Exit, PcKept, Held, TypeOK, Pc
<1>7. TypeOK'
  <2>1. holds' \in [Thread -> SUBSET Lock] /\ lost' \subseteq Lock
    BY DEF Held, TypeOK, Exit, Ended
  <2> QED BY <1>4, <1>6, <2>1 DEF Held, TypeOK, Exit, heapwork, walk
<1>8. NoWaiters'
  <2>1. \A r \in Sem : t \notin Nodes(k'.list[r])
    BY <1>3, KernelAssumption, SMTT(60) DEF Homes, ListHead, Sem
  <2>2. \A r \in Sem : value'[r] = 0 \/ (value[r] > 0 /\ t \notin Nodes(k'.list[r]))
    <3>1. value \in [Sem -> Nat] /\ value' = value
      BY DEF Held, TypeOK, Exit
    <3> QED BY <2>1, <3>1, SMTT(60)
  <2> QED BY <1>1, <1>4, <2>2, FewerWaiters
<1>9. TimerWalk'
  BY <1>1, NoTimerWalk DEF Exit, walk
<1>10. CurrentRuns'
  <2>1. k'.cur = t /\ ~ k'.flag
    BY <1>1, <1>4 DEF Did, Aside, SameSwitch
  <2> QED BY <1>4, <1>6, <2>1 DEF CurrentRuns
<1> QED BY <1>1, <1>4, <1>5, <1>6, <1>7, <1>8, <1>9, <1>10, Kept DEF Exit, heapwork

\* killThreadFun of a thread other than the shell, which runs it
LEMMA KillHeld ==
  ASSUME Held, NEW t \in Victim, Kill(t)
  PROVE  Held'
<1>1. /\ k \in State /\ k.nest = 0 /\ k.cur = Shell /\ ~ k.flag
      /\ pc[Shell] = "user" /\ k.statu[Shell] = "RUNNING"
  BY AtFacts, SMTT(60) DEF Kill, AtUser
<1>2. t \in Thread \ Busy /\ t # k.cur /\ Shell \in Thread
  BY <1>1, ThreadsAssumption
<1>3. Whole(k, Freeing) /\ k' = Close(k, t) /\ t \notin Freeing /\ k.statu[t] # "INIT"
  BY <1>2 DEF Held, Kill
<1>4. Called(k, t, k', Freeing, "CLOSE") /\ Homes(k', t) = {Dead}
  BY <1>2, <1>3, KernelCalls DEF CloseCall
<1>5. Whole(k', Freeing) /\ Did(k, t, k') /\ Quiet(k, t, k') /\ k'.statu[t] = "CLOSE" /\ k' \in State
  BY <1>4, DidQuiet DEF Called, Whole, Sound
<1>6. Steady(t)
  <2>1. t \in Nodes(k'.list[Dead])
    BY <1>4 DEF Homes
  <2> QED BY <1>2, <1>3, <1>5, <2>1 DEF Steady, Alive
<1>7. PcKept
  BY DEF Kill, PcKept
<1>8. TypeOK'
  <2>1. holds' \in [Thread -> SUBSET Lock] /\ lost' \subseteq Lock
    BY DEF Held, TypeOK, Kill, Ended
  <2> QED BY <1>5, <2>1 DEF Held, TypeOK, Kill, heapwork, walk
<1>9. NoWaiters'
  <2>1. \A r \in Sem : t \notin Nodes(k'.list[r])
    BY <1>4, KernelAssumption, SMTT(60) DEF Homes, ListHead, Sem
  <2>2. \A r \in Sem : value'[r] = 0 \/ (value[r] > 0 /\ t \notin Nodes(k'.list[r]))
    <3>1. value \in [Sem -> Nat] /\ value' = value
      BY DEF Held, TypeOK, Kill
    <3> QED BY <2>1, <3>1, SMTT(60)
  <2> QED BY <1>1, <1>2, <1>5, <2>2, FewerWaiters
<1>10. TimerWalk'
  BY <1>1, NoTimerWalk DEF Kill, walk
<1>11. CurrentRuns'
  <2>1. k'.cur = Shell /\ k'.statu[Shell] = "RUNNING"
    BY <1>1, <1>2, <1>5 DEF Did, Aside
  <2> QED BY <2>1 DEF CurrentRuns
<1> QED BY <1>2, <1>5, <1>6, <1>7, <1>8, <1>9, <1>10, <1>11, Kept DEF Kill, heapwork

-----------------------------------------------------------------------------
\* What a step may do to the threads and lists, for the steps that are about
\* two threads at once: nobody is revived and no wait queue grows.
Mild(j, r) ==
  /\ \A u \in Thread :
       /\ r.statu[u] \notin {"INIT", "CLOSE"} => j.statu[u] \notin {"INIT", "CLOSE"}
       /\ j.statu[u] = "INIT" => r.statu[u] = "INIT"
       /\ j.statu[u] = "CLOSE" => r.statu[u] \in {"CLOSE", "INIT"}
       /\ j.statu[u] \in {"READY", "RUNNING"} => r.statu[u] \in {"READY", "RUNNING"}
       /\ u \in Nodes(j.list[Dead]) => u \in Nodes(r.list[Dead])
  /\ \A s \in Wait, u \in Thread : u \in Nodes(r.list[s]) => u \in Nodes(j.list[s])

\* Two mild steps make one.
LEMMA MildTrans ==
  ASSUME NEW i, NEW j, NEW r, Mild(i, j), Mild(j, r)
  PROVE  Mild(i, r)
  BY DEF Mild

\* A call of rt_schedule is mild.
LEMMA RescheduledMild ==
  ASSUME NEW j, NEW r, Rescheduled(j, r)
  PROVE  Mild(j, r)
  BY DEF Rescheduled, Mild

\* Waking w is mild.
LEMMA WakeMild ==
  ASSUME NEW j, NEW f, Whole(j, f), NEW w \in Thread, j.statu[w] = "SUSPEND", NEW r,
         Called(j, w, r, f, "READY"), Homes(r, w) = {prio[w]}
  PROVE  Mild(j, r)
<1>1. Quiet(j, w, r) /\ r.statu[w] = "READY" /\ \A u \in Thread \ {w} : r.statu[u] = j.statu[u]
  BY DidQuiet DEF Called, Did, Aside
<1>2. \A h \in Wait \cup {Dead} : w \notin Nodes(r.list[h])
  BY ReadyOnly
<1>3. w \notin Nodes(j.list[Dead])
  BY NotDead
<1> QED BY <1>1, <1>2, <1>3 DEF Mild, Quiet

\* Emptying the slot of a closed thread is mild.
LEMMA FreeMild ==
  ASSUME NEW j, NEW g, NEW u \in Thread, j.statu[u] = "CLOSE", NEW r,
         u \notin Nodes(j.list[Dead]), Called(j, u, r, g, "INIT"), Homes(r, u) = {}
  PROVE  Mild(j, r)
<1>1. Quiet(j, u, r) /\ r.statu[u] = "INIT" /\ \A v \in Thread \ {u} : r.statu[v] = j.statu[v]
  BY DidQuiet DEF Called, Did, Aside
<1>2. \A h \in Wait \cup {Dead} : u \notin Nodes(r.list[h])
  BY ReadyOnly
<1> QED BY <1>1, <1>2 DEF Mild, Quiet

\* The slots of thread_join_init after a mild step that takes no new slot.
LEMMA MildSlots ==
  ASSUME Held, Mild(k, k'), \A u \in Thread : work'[u] = work[u] \/ work'[u] = None
  PROVE  SlotsFree'
<1>1. ASSUME NEW u \in Thread, NEW v \in Thread, Alive(u)', work'[u] # None, u # Idle, v # Idle
      PROVE  /\ work'[u] # Idle /\ k'.statu[work'[u]] = "INIT"
             /\ Alive(v)' /\ work'[v] = work'[u] => v = u
  <2>1. Alive(u) /\ (Alive(v)' => Alive(v)) /\ work'[u] = work[u]
    BY <1>1 DEF Alive, Mild
  <2>2. work[u] \in Thread
    BY <1>1, <2>1 DEF Held, TypeOK
  <2>3. work[u] # Idle /\ k.statu[work[u]] = "INIT" /\ (Alive(v) /\ work[v] = work[u] => v = u)
    BY <1>1, <2>1 DEF Held, SlotsFree
  <2>4. work'[v] = work'[u] => work[v] = work[u]
    BY <1>1, <2>1
  <2>5. k'.statu[work[u]] = "INIT"
    BY <2>2, <2>3 DEF Mild
  <2> QED BY <2>1, <2>3, <2>4, <2>5
<1> QED BY <1>1, ThreadsAssumption DEF SlotsFree

\* A mild step keeps NoWaiters when a value rises only where nobody waits.
LEMMA MildWaiters ==
  ASSUME Held, Mild(k, k'), k' \in State,
         \A s \in Sem : value'[s] = value[s] \/ value'[s] = 0 \/ Nodes(k.list[s]) = {}
  PROVE  NoWaiters'
<1>1. ASSUME NEW s \in Sem, value'[s] > 0 PROVE Nodes(k'.list[s]) = {}
  <2>1. Nodes(k.list[s]) = {}
    BY <1>1, SMTT(60) DEF Held, NoWaiters
  <2>2. k'.list[s] \in Seq(Thread)
    BY DEF State, ListHead, Sem
  <2>3. Nodes(k'.list[s]) \subseteq Thread
    BY <2>2, SMTT(60) DEF Nodes
  <2> QED BY <2>1, <2>3 DEF Mild, Sem
<1> QED BY <1>1 DEF NoWaiters

\* The kernel state in which t leaves the heap, before rt_schedule.
Unlocked(t) ==
  LET freed == t = Idle /\ calls[t] = 1
  IN  [Resumed(Heap) EXCEPT !.statu = IF freed THEN [@ EXCEPT ![work[t]] = "INIT"] ELSE @]

\* The first half of leaving the heap: a waiter is woken, a slot emptied.
LEMMA UnlockedFacts ==
  ASSUME Held, NEW t \in Thread, HeapLeave(t)
  PROVE  /\ Whole(Unlocked(t), Freeing') /\ Mild(k, Unlocked(t))
         /\ Unlocked(t).cur = t /\ Unlocked(t).statu[t] = "RUNNING"
         /\ pc'[Idle] \in {"heap", "inheap"} =>
              /\ pc[Idle] \in {"heap", "inheap"} /\ work'[Idle] = work[Idle]
              /\ \A u \in Thread : k.statu[u] = "CLOSE" => Unlocked(t).statu[u] = "CLOSE"
<1> DEFINE j == Resumed(Heap)
           r == Unlocked(t)
<1>1. k \in State /\ k.cur = t /\ k.nest = 0 /\ pc[t] = "inheap" /\ k.statu[t] = "RUNNING"
  BY AtFacts, SMTT(60) DEF HeapLeave
<1>2. Heap \in Sem /\ Idle \in Thread /\ Whole(k, Freeing)
  BY ThreadsAssumption DEF Held
<1>3. /\ Whole(j, Freeing) /\ Mild(k, j) /\ j.cur = t /\ j.statu[t] = "RUNNING"
      /\ \A u \in Thread : k.statu[u] = "CLOSE" => j.statu[u] = "CLOSE"
  <2>1. CASE j = k
    BY <1>1, <1>2, <2>1 DEF Mild
  <2>2. ASSUME NEW w \in Thread, w # k.cur, k.statu[w] = "SUSPEND",
               Called(k, w, j, Freeing, "READY"), Homes(j, w) = {prio[w]}
        PROVE  /\ Whole(j, Freeing) /\ Mild(k, j) /\ j.cur = t /\ j.statu[t] = "RUNNING"
               /\ \A u \in Thread : k.statu[u] = "CLOSE" => j.statu[u] = "CLOSE"
    <3> HIDE DEF j
    <3>1. Mild(k, j)
      BY <1>2, <2>2, WakeMild
    <3>2. Whole(j, Freeing) /\ j.cur = k.cur /\ \A u \in Thread \ {w} : j.statu[u] = k.statu[u]
      BY <2>2 DEF Called, Did, Aside
    <3> QED BY <1>1, <2>2, <3>1, <3>2
  <2> QED BY <1>1, <1>2, <2>1, <2>2, ResumedFacts
<1>4. j \in State
  BY <1>3 DEF Whole, Sound
<1>5. work \in [Thread -> Thread \cup {None}] /\ calls \in [Thread -> 0 .. 2] /\ pc \in [Thread -> Pc]
  BY DEF Held, TypeOK
<1>6. calls[t] \in 1 .. 2
  BY <1>1, <1>5, SMTT(60) DEF Held, HeapCalls
<1>7. CASE t = Idle /\ calls[t] = 1
  <2> DEFINE u == work[Idle]
  <2>1. u \in Thread /\ k.statu[u] = "CLOSE" /\ u \in Freeing
    BY <1>1, <1>7 DEF Held, FreeingClosed, Freeing
  <2>2. r = SetStatu(j, u, "INIT")
    BY <1>4, <1>7 DEF Unlocked, SetStatu, State
  <2>3. calls'[t] = 0 /\ pc'[Idle] = "done"
    <3>1. calls' = [calls EXCEPT ![t] = 0]
      BY <1>5, <1>7, SMTT(60) DEF HeapLeave
    <3>2. pc' = [pc EXCEPT ![t] = IF calls'[t] = 0 THEN "done" ELSE "heap"]
      BY DEF HeapLeave
    <3>3. calls'[t] = 0
      BY <1>5, <3>1
    <3> QED BY <1>2, <1>5, <1>7, <3>2, <3>3
  <2>4. \A v \in Thread \ {u} : v \in Freeing' <=> v \in Freeing
    BY <2>3 DEF Freeing
  <2> HIDE DEF u, j, r
  <2>5. j.statu[u] = "CLOSE" /\ u # j.cur
    BY <1>3, <2>1
  <2>6. Called(j, u, r, Freeing', "INIT") /\ Homes(r, u) = {}
    BY <1>3, <2>1, <2>2, <2>4, <2>5, KernelCalls DEF FreeCall
  <2>7. u \notin Nodes(j.list[Dead])
    BY <1>3, <2>1 DEF Whole, Sound, Placed, ListHead
  <2>8. Mild(k, r)
    BY <1>3, <2>1, <2>5, <2>6, <2>7, FreeMild, MildTrans
  <2>9. Whole(r, Freeing') /\ r.cur = t /\ r.statu[t] = "RUNNING"
    BY <1>3, <2>1, <2>5, <2>6 DEF Called, Did, Aside
  <2> QED BY <2>3, <2>8, <2>9 DEF r
<1>8. CASE ~ (t = Idle /\ calls[t] = 1)
  <2>1. r = j
    BY <1>4, <1>8 DEF Unlocked, State
  <2>2. pc'[Idle] \in {"heap", "inheap"} <=> pc[Idle] \in {"heap", "inheap"}
    <3>1. CASE t = Idle
      BY <1>1, <1>2, <1>5, <1>6, <1>8, <3>1, SMTT(60) DEF HeapLeave
    <3>2. CASE t # Idle
      BY <1>2, <1>5, <3>2 DEF HeapLeave
    <3> QED BY <3>1, <3>2
  <2>3. work'[Idle] = work[Idle]
    BY <1>2, <1>5 DEF HeapLeave
  <2>4. Freeing' = Freeing
    BY <2>2, <2>3 DEF Freeing
  <2> QED BY <1>3, <2>1, <2>2, <2>3, <2>4
<1> QED BY <1>7, <1>8

\* malloc or free gives heap_sem back
LEMMA HeapLeaveHeld ==
  ASSUME Busy # {}, Held, NEW t \in Thread, HeapLeave(t)
  PROVE  Held'
<1> DEFINE j == Unlocked(t)
<1>1. k \in State /\ k.cur = t /\ k.nest = 0 /\ pc[t] = "inheap" /\ k.statu[t] = "RUNNING"
  BY AtFacts, SMTT(60) DEF HeapLeave
<1>2. /\ Whole(j, Freeing') /\ Mild(k, j) /\ j.cur = t /\ j.statu[t] = "RUNNING"
      /\ pc'[Idle] \in {"heap", "inheap"} =>
           /\ pc[Idle] \in {"heap", "inheap"} /\ work'[Idle] = work[Idle]
           /\ \A u \in Thread : k.statu[u] = "CLOSE" => j.statu[u] = "CLOSE"
  BY UnlockedFacts
<1>3. k' = j \/ k' = rt_schedule(j)
  BY DEF HeapLeave, LeftHeap, Unlocked
<1>4. Heap \in Sem /\ Idle \in Thread /\ Busy \subseteq Thread /\ None \notin Thread
  BY ThreadsAssumption
<1> HIDE DEF j
<1>5. /\ Whole(k', Freeing') /\ Mild(k, k') /\ k'.statu[k'.cur] = "RUNNING"
      /\ \A u \in Thread : j.statu[u] = "CLOSE" => k'.statu[u] = "CLOSE"
  <2>1. CASE k' = j
    BY <1>2, <2>1
  <2>2. CASE k' = rt_schedule(j)
    <3>1. Whole(k', Freeing') /\ Rescheduled(j, k')
      BY <1>2, <2>2, KernelCalls DEF ScheduleCall
    <3>2. \A b \in Busy : j.statu[b] \in {"READY", "RUNNING"}
      BY <1>2, <1>4 DEF Held, BusyReady, Mild
    <3>3. k'.statu[k'.cur] = "RUNNING"
      BY <1>2, <2>2, <3>2, Dispatches
    <3>4. Mild(k, k')
      BY <1>2, <3>1, RescheduledMild, MildTrans
    <3>5. \A u \in Thread : j.statu[u] = "CLOSE" => k'.statu[u] = "CLOSE"
      BY <3>1 DEF Rescheduled
    <3> QED BY <3>1, <3>3, <3>4, <3>5
  <2> QED BY <1>3, <2>1, <2>2
<1>6. k' \in State
  BY <1>5 DEF Whole, Sound
<1>7. /\ work \in [Thread -> Thread \cup {None}] /\ calls \in [Thread -> 0 .. 2]
      /\ pc \in [Thread -> Pc] /\ value \in [Sem -> Nat]
  BY DEF Held, TypeOK
<1>8. calls[t] \in 1 .. 2 /\ t \in Creator \cup {Idle}
  BY <1>1, <1>7, SMTT(60) DEF Held, HeapCalls
<1>9. calls' \in [Thread -> 0 .. 2] /\ \A u \in Thread \ {t} : calls'[u] = calls[u]
  BY <1>7, <1>8, SMTT(60) DEF HeapLeave
<1>10. /\ pc' \in [Thread -> Pc] /\ \A u \in Thread \ {t} : pc'[u] = pc[u]
       /\ pc'[t] = IF calls'[t] = 0 THEN "done" ELSE "heap"
  BY <1>7 DEF HeapLeave, Pc
<1>11. /\ work' \in [Thread -> Thread \cup {None}]
       /\ \A u \in Thread : work'[u] = work[u] \/ work'[u] = None
  BY <1>7 DEF HeapLeave
<1>12. /\ value' \in [Sem -> Nat]
       /\ \A s \in Sem : value'[s] = value[s] \/ value'[s] = 0 \/ Nodes(k.list[s]) = {}
  <2>1. value' = Raised(Heap)
    BY DEF HeapLeave
  <2>2. \/ Nodes(k.list[Heap]) = {} /\ Raised(Heap) = [value EXCEPT ![Heap] = @ + 1]
        \/ Raised(Heap) = value
    BY <1>1, <1>4, ResumedFacts
  <2>3. CASE Nodes(k.list[Heap]) = {} /\ value' = [value EXCEPT ![Heap] = @ + 1]
    BY <1>4, <1>7, <2>3, SMTT(60)
  <2>4. CASE value' = value
    BY <1>7, <2>4
  <2> QED BY <2>1, <2>2, <2>3, <2>4
<1>13. TypeOK'
  BY <1>6, <1>9, <1>10, <1>11, <1>12 DEF Held, TypeOK, HeapLeave, walk
<1>14. NoWaiters'
  BY <1>5, <1>6, <1>12, MildWaiters
<1>15. TimerWalk' /\ CurrentRuns'
  BY <1>1, <1>5, NoTimerWalk DEF HeapLeave, walk, CurrentRuns
<1>16. NextDead' /\ BusyReady'
  BY <1>4, <1>5 DEF Held, NextDead, BusyReady, TypeOK, HeapLeave, Mild
<1>17. HeapCalls'
  <2> SUFFICES ASSUME NEW u \in Thread
               PROVE  /\ pc'[u] \in {"heap", "inheap"} => calls'[u] > 0
                      /\ pc'[u] \in {"heap", "inheap", "done"} => u \in Creator \cup {Idle}
    BY DEF HeapCalls
  <2>1. CASE u = t
    <3>1. calls'[t] \in 0 .. 2
      BY <1>9
    <3> QED BY <1>8, <1>10, <2>1, <3>1, SMTT(60)
  <2>2. CASE u # t
    <3>1. pc'[u] = pc[u] /\ calls'[u] = calls[u]
      BY <1>9, <1>10, <2>2
    <3> QED BY <3>1 DEF Held, HeapCalls
  <2> QED BY <2>1, <2>2
<1>18. FreeingClosed'
  BY <1>2, <1>5 DEF Held, FreeingClosed
<1>19. SlotsFree'
  BY <1>5, <1>11, MildSlots
<1> QED BY <1>5, <1>13, <1>14, <1>15, <1>16, <1>17, <1>18, <1>19 DEF Held

-----------------------------------------------------------------------------
\* Thread creation, the idle thread's clean-up and the tick interrupt.

\* thread_join_init chooses a slot
LEMMA CreateStartHeld ==
  ASSUME Held, NEW t \in Creator, NEW u \in Thread \ {Idle}, CreateStart(t, u)
  PROVE  Held'
<1>1. k' = k /\ k.cur = t /\ k.nest = 0 /\ pc[t] = "user" /\ k.statu[t] = "RUNNING"
  BY AtFacts DEF CreateStart, AtUser
<1>2. t \in Thread /\ t # Idle /\ Idle \in Thread /\ None \notin Thread
  BY ThreadsAssumption
<1>3. /\ work \in [Thread -> Thread \cup {None}] /\ calls \in [Thread -> 0 .. 2]
      /\ pc \in [Thread -> Pc]
  BY DEF Held, TypeOK
<1>4. /\ work' \in [Thread -> Thread \cup {None}] /\ calls' \in [Thread -> 0 .. 2]
      /\ pc' \in [Thread -> Pc] /\ work'[t] = u /\ calls'[t] = 2 /\ pc'[t] = "heap"
      /\ \A v \in Thread \ {t} : work'[v] = work[v] /\ calls'[v] = calls[v] /\ pc'[v] = pc[v]
  BY <1>2, <1>3, SMTT(60) DEF CreateStart, Pc
<1>5. Freeing' = Freeing
  BY <1>2, <1>4 DEF Freeing
<1>6. TypeOK'
  BY <1>2, <1>4 DEF Held, TypeOK, CreateStart, walk
<1>7. Whole(k', Freeing') /\ NoWaiters' /\ NextDead' /\ BusyReady' /\ TimerWalk' /\ CurrentRuns'
  BY <1>1, <1>5, NoTimerWalk
     DEF Held, NoWaiters, NextDead, BusyReady, CurrentRuns, CreateStart, walk
<1>8. HeapCalls'
  BY <1>2, <1>4, SMTT(60) DEF Held, HeapCalls
<1>9. FreeingClosed'
  BY <1>1, <1>2, <1>4 DEF Held, FreeingClosed
<1>10. SlotsFree'
  <2>1. k.statu[u] = "INIT" /\ \A v \in Thread : Alive(v) => work[v] # u
    BY DEF CreateStart
  <2>2. \A v \in Thread : Alive(v)' <=> Alive(v)
    BY <1>1 DEF Alive
  <2> QED BY <1>1, <1>2, <1>4, <2>1, <2>2, SMTT(60) DEF Held, SlotsFree
<1> QED BY <1>6, <1>7, <1>8, <1>9, <1>10 DEF Held

\* The kernel state with a new thread u.
Joined(u) ==
  [PutLast(k, prio[u], u) EXCEPT
     !.statu[u] = "READY", !.group = @ \cup {prio[u]},
     !.remaining[u] = slice[u], !.error[u] = "EOK", !.timeout[u] = 0]

\* The new thread is in its ready queue, the others are where they were.
LEMMA JoinedFacts ==
  ASSUME NEW f, Whole(k, f), NEW u \in Thread, k.statu[u] = "INIT"
  PROVE  /\ Whole(Joined(u), f) /\ Quiet(k, u, Joined(u)) /\ Joined(u).statu[u] = "READY"
         /\ \A v \in Thread \ {u} : Joined(u).statu[v] = k.statu[v]
         /\ \A h \in Wait \cup {Dead} : u \notin Nodes(Joined(u).list[h])
         /\ Joined(u).cur = k.cur /\ Joined(u).flag = k.flag
         /\ \A v \in Thread \ {u} : /\ Joined(u).error[v] = k.error[v]
                                    /\ v \in Joined(u).active <=> v \in k.active
<1> DEFINE j == rt_schedule_insert_thread(k, u)
           r == Joined(u)
<1>1. Called(k, u, j, f, "READY") /\ Homes(j, u) = {prio[u]}
  BY KernelCalls, SMTT(60) DEF JoinCall
<1>2. k \in State /\ u # k.cur
  BY DEF Whole, Sound
<1>3. j = [PutLast(k, prio[u], u) EXCEPT !.statu[u] = "READY", !.group = @ \cup {prio[u]}]
  BY <1>2 DEF rt_schedule_insert_thread
<1>4. Whole(j, f) /\ Did(k, u, j) /\ j \in State
  BY <1>1 DEF Called, Whole, Sound
<1> DEFINE m == [j.remaining EXCEPT ![u] = slice[u]]
           e == [j.error EXCEPT ![u] = "EOK"]
           o == [j.timeout EXCEPT ![u] = 0]
<1>5. r = [j EXCEPT !.remaining = m, !.error = e, !.timeout = o]
  <2> DEFINE p == PutLast(k, prio[u], u)
  <2>1. p \in State
    <3>1. ~ Linked(k, u) /\ Once(k) /\ prio[u] \in ListHead
      BY LinkedStatu, KernelAssumption DEF Whole, Sound, Placed, Once, ListHead
    <3> QED BY <1>2, <3>1, PutLastFacts
  <2>2. r = [p EXCEPT !.statu[u] = "READY", !.group = @ \cup {prio[u]},
                      !.remaining[u] = slice[u], !.error[u] = "EOK", !.timeout[u] = 0]
    BY DEF Joined
  <2>3. j = [p EXCEPT !.statu[u] = "READY", !.group = @ \cup {prio[u]}]
    BY <1>3
  <2> HIDE DEF p, r, j
  <2> QED BY <2>1, <2>2, <2>3 DEF State
<1> HIDE DEF j, r
<1>6. m \in [Thread -> Nat] /\ \A t \in Thread : m[t] > 0
  <2>1. j.remaining \in [Thread -> Nat] /\ \A t \in Thread : j.remaining[t] > 0
    BY <1>4 DEF State, Whole, Sound
  <2>2. slice[u] \in Nat /\ slice[u] > 0
    BY KernelAssumption, SMTT(60)
  <2> QED BY <2>1, <2>2
<1>7. e \in [Thread -> Error] /\ o \in [Thread -> Tick]
  <2>1. j.error \in [Thread -> Error] /\ j.timeout \in [Thread -> Tick]
    BY <1>4 DEF State
  <2>2. 0 \in Tick /\ "EOK" \in Error
    BY KernelAssumption, SMTT(60) DEF Tick, Error
  <2> QED BY <2>1, <2>2
<1> HIDE DEF m, e, o
<1>8. r \in State
  <2>1. [j EXCEPT !.remaining = m] \in State
    BY <1>4, <1>6 DEF State
  <2>2. [[j EXCEPT !.remaining = m] EXCEPT !.error = e] \in State
    BY <1>7, <2>1 DEF State
  <2>3. [[[j EXCEPT !.remaining = m] EXCEPT !.error = e] EXCEPT !.timeout = o] \in State
    BY <1>7, <2>2 DEF State
  <2> QED BY <1>4, <1>5, <2>3 DEF State
<1>9. SameLists(j, r) /\ SameSwitch(j, r) /\ r.nest = j.nest /\ r.remaining = m
  BY <1>4, <1>5 DEF State, SameLists, SameSwitch
<1>10. SwitchMatches(r)
  BY <1>4, <1>9 DEF Whole, Sound, SwitchMatches, SameLists, SameSwitch
<1>11. Whole(r, f)
  BY <1>4, <1>6, <1>8, <1>9, <1>10, SameListsWhole
<1>12. Quiet(k, u, r)
  <2>1. Quiet(k, u, j)
    BY <1>4, DidQuiet
  <2> QED BY <1>9, <2>1 DEF Quiet, SameLists
<1>13. r.statu[u] = "READY" /\ \A v \in Thread \ {u} : r.statu[v] = k.statu[v]
  BY <1>1, <1>4, <1>9 DEF Called, Did, Aside, SameLists
<1>14. \A h \in Wait \cup {Dead} : u \notin Nodes(r.list[h])
  BY <1>1, <1>9, ReadyOnly DEF SameLists
<1>15. r.cur = k.cur /\ r.flag = k.flag
  BY <1>4, <1>9 DEF SameLists, SameSwitch, Did, Aside
<1>16. \A v \in Thread \ {u} : r.error[v] = k.error[v] /\ (v \in r.active <=> v \in k.active)
  <2>1. r.error = e /\ r.active = j.active /\ j.error \in [Thread -> Error]
    BY <1>4, <1>5, <1>9 DEF State, SameLists
  <2>2. \A v \in Thread \ {u} : j.error[v] = k.error[v] /\ (v \in j.active <=> v \in k.active)
    BY <1>4 DEF Did, Aside
  <2>3. \A v \in Thread \ {u} : e[v] = j.error[v]
    BY <2>1 DEF e
  <2> QED BY <2>1, <2>2, <2>3
<1> QED BY <1>11, <1>12, <1>13, <1>14, <1>15, <1>16 DEF r

\* thread_join_init makes the thread of its slot ready
LEMMA CreateReadyHeld ==
  ASSUME Held, NEW t \in Thread, CreateReady(t)
  PROVE  Held'
<1> DEFINE u == work[t]
<1>1. k \in State /\ k.cur = t /\ k.nest = 0 /\ pc[t] = "done" /\ k.statu[t] = "RUNNING" /\ t # Idle
  BY AtFacts, SMTT(60) DEF CreateReady
<1>2. Idle \in Thread /\ None \notin Thread /\ Busy \subseteq Thread
  BY ThreadsAssumption
<1>3. u \in Thread /\ k.statu[u] = "INIT"
  BY <1>1 DEF Held, TypeOK, CreateReady, SlotsFree, Alive
<1>4. k' = Joined(u)
  BY DEF CreateReady, Joined
<1>5. Whole(k, Freeing)
  BY DEF Held
<1>6. /\ Whole(k', Freeing) /\ Quiet(k, u, k') /\ k'.statu[u] = "READY"
      /\ \A v \in Thread \ {u} : k'.statu[v] = k.statu[v]
      /\ \A h \in Wait \cup {Dead} : u \notin Nodes(k'.list[h])
      /\ k'.cur = k.cur
  BY <1>3, <1>4, <1>5, JoinedFacts
<1>7. /\ work \in [Thread -> Thread \cup {None}] /\ pc \in [Thread -> Pc]
      /\ pc' = [pc EXCEPT ![t] = "user", ![u] = "user"]
      /\ work' = [work EXCEPT ![t] = None, ![u] = None]
  BY DEF Held, TypeOK, CreateReady
<1>8. u # t
  BY <1>1, <1>3
<1> HIDE DEF u
<1>9. /\ work' \in [Thread -> Thread \cup {None}] /\ pc' \in [Thread -> Pc]
      /\ work'[t] = None /\ work'[u] = None /\ pc'[t] = "user" /\ pc'[u] = "user"
      /\ \A v \in Thread \ {t, u} : work'[v] = work[v] /\ pc'[v] = pc[v]
  BY <1>3, <1>7, <1>8 DEF Pc
<1>10. Freeing' = Freeing /\ FreeingClosed'
  <2>1. u # Idle
    BY <1>1 DEF Held, TypeOK, CreateReady, SlotsFree, Alive, u
  <2>2. pc'[Idle] = pc[Idle] /\ work'[Idle] = work[Idle]
    BY <1>1, <1>2, <1>9, <2>1
  <2>3. FreeingClosed'
    BY <1>3, <1>6, <2>2 DEF Held, FreeingClosed
  <2> QED BY <2>2, <2>3 DEF Freeing
<1>11. k' \in State
  BY <1>6 DEF Whole, Sound
<1>12. TypeOK'
  BY <1>9, <1>11 DEF Held, TypeOK, CreateReady, walk
<1>13. NoWaiters'
  <2>1. \A s \in Sem : value'[s] = 0 \/ (value[s] > 0 /\ u \notin Nodes(k'.list[s]))
    <3>1. value \in [Sem -> Nat] /\ value' = value
      BY DEF Held, TypeOK, CreateReady
    <3> QED BY <1>6, <3>1, SMTT(60) DEF Sem
  <2> QED BY <1>1, <1>3, <1>6, <1>11, <2>1, FewerWaiters
<1>14. TimerWalk' /\ CurrentRuns'
  BY <1>1, <1>6, <1>8, NoTimerWalk DEF CreateReady, walk, CurrentRuns
<1>15. BusyReady'
  BY <1>2, <1>6 DEF Held, BusyReady
<1>16. NextDead'
  <2>1. u \notin Nodes(k.list[Dead])
    BY <1>3, <1>5, NotDead
  <2> QED BY <1>6, <2>1 DEF Held, NextDead, TypeOK, CreateReady, Quiet
<1>17. HeapCalls'
  <2>1. calls' = calls
    BY DEF CreateReady
  <2> QED BY <1>9, <2>1 DEF Held, HeapCalls
<1>18. SlotsFree'
  <2>1. ASSUME NEW x \in Thread, NEW y \in Thread, Alive(x)', work'[x] # None, x # Idle, y # Idle
        PROVE  /\ work'[x] # Idle /\ k'.statu[work'[x]] = "INIT"
               /\ Alive(y)' /\ work'[y] = work'[x] => y = x
    <3>1. x \notin {t, u} /\ work'[x] = work[x] /\ Alive(x)
      BY <1>6, <1>9, <2>1 DEF Alive
    <3>2. work[x] # u
      BY <1>1, <2>1, <3>1 DEF Held, SlotsFree, Alive, u
    <3>3. /\ work[x] # Idle /\ k.statu[work[x]] = "INIT" /\ work[x] \in Thread
          /\ Alive(y) /\ work[y] = work[x] => y = x
      BY <1>7, <2>1, <3>1 DEF Held, SlotsFree
    <3>4. Alive(y)' /\ work'[y] = work'[x] => Alive(y) /\ work[y] = work[x]
      BY <1>6, <1>9, <2>1, <3>1 DEF Alive
    <3> QED BY <1>6, <3>1, <3>2, <3>3, <3>4
  <2> QED BY <2>1, <1>2 DEF SlotsFree
<1> QED BY <1>6, <1>10, <1>12, <1>13, <1>14, <1>15, <1>16, <1>17, <1>18 DEF Held

-----------------------------------------------------------------------------
\* Idle, running outside a heap call, takes thread u out of the dead list.
LEMMA ReapHeld ==
  ASSUME Held, NEW u \in Thread, u \in Nodes(k.list[Dead]), Reap(k, u),
         At(Idle, "user") \/ At(Idle, "done"), UNCHANGED <<value, sem, holds, lost, walk>>
  PROVE  Held'
<1>1. /\ k \in State /\ k.cur = Idle /\ k.nest = 0 /\ pc[Idle] \in {"user", "done"}
      /\ k.statu[Idle] = "RUNNING" /\ Idle \in Thread
  BY AtFacts, SMTT(60)
<1>2. Whole(k, Freeing) /\ k' = Unlink(k, u) /\ k.statu[u] = "CLOSE"
  BY DEF Held, Reap, Whole, Sound, Placed, ListHead
<1>3. /\ work \in [Thread -> Thread \cup {None}] /\ calls \in [Thread -> 0 .. 2]
      /\ pc \in [Thread -> Pc] /\ k.list[Dead] \in Seq(Thread)
  BY <1>1 DEF Held, TypeOK, State, ListHead
<1>4. /\ work' \in [Thread -> Thread \cup {None}] /\ calls' \in [Thread -> 0 .. 2]
      /\ pc' \in [Thread -> Pc] /\ work'[Idle] = u /\ calls'[Idle] = 2 /\ pc'[Idle] = "heap"
      /\ \A v \in Thread \ {Idle} : work'[v] = work[v] /\ calls'[v] = calls[v] /\ pc'[v] = pc[v]
  BY <1>1, <1>2, <1>3, SMTT(60) DEF Reap, Pc
<1>5. Freeing = {} /\ Freeing' = {u}
  BY <1>1, <1>4 DEF Freeing
<1>6. Called(k, u, k', Freeing', "CLOSE") /\ Homes(k', u) = {}
  <2>1. u \in Freeing' /\ \A v \in Thread \ {u} : v \in Freeing' <=> v \in Freeing
    BY <1>5
  <2> QED BY <1>2, <2>1, KernelCalls DEF ReapCall
<1>7. /\ Whole(k', Freeing') /\ Quiet(k, u, k') /\ k'.statu[u] = "CLOSE" /\ k' \in State
      /\ k'.cur = k.cur /\ \A v \in Thread \ {u} : k'.statu[v] = k.statu[v]
  BY <1>6, DidQuiet DEF Called, Whole, Sound, Did, Aside
<1>8. next' \in (Nodes(k.list[Dead]) \ {u}) \cup {None} /\ Nodes(k.list[Dead]) \subseteq Thread
  <2>1. NoRepeat(k.list[Dead])
    BY <1>2 DEF Whole, Sound, Placed, ListHead
  <2>2. next' = Successor(k.list[Dead], u, None)
    BY DEF Reap
  <2>3. next' \in (Nodes(k.list[Dead]) \ {u}) \cup {None}
    BY <1>3, <2>1, <2>2, SuccessorOther
  <2> QED BY <1>3, <2>3, SMTT(60) DEF Nodes
<1>9. TypeOK'
  <2>1. masked' \subseteq Thread /\ level' \subseteq Thread /\ next' \in Thread \cup {None}
    BY <1>1, <1>8 DEF Held, TypeOK, Reap
  <2> QED BY <1>4, <1>7, <2>1 DEF Held, TypeOK, walk
<1>10. NoWaiters'
  <2>1. \A s \in Sem : u \notin Nodes(k'.list[s])
    BY <1>6 DEF Homes, ListHead, Sem
  <2>2. \A s \in Sem : value'[s] = 0 \/ (value[s] > 0 /\ u \notin Nodes(k'.list[s]))
    BY <2>1, SMTT(60) DEF Held, TypeOK
  <2> QED BY <1>1, <1>7, <2>2, FewerWaiters
<1>11. TimerWalk' /\ CurrentRuns'
  BY <1>1, <1>2, <1>7, NoTimerWalk DEF walk, CurrentRuns
<1>12. NextDead'
  BY <1>7, <1>8 DEF NextDead, Quiet
<1>13. BusyReady'
  BY <1>2, <1>7, ThreadsAssumption DEF Held, BusyReady
<1>14. HeapCalls'
  BY <1>4, SMTT(60) DEF Held, HeapCalls
<1>15. FreeingClosed'
  BY <1>4, <1>7 DEF FreeingClosed
<1>16. SlotsFree'
  <2>1. \A v \in Thread : (Alive(v)' <=> Alive(v)) /\ k'.statu[v] = k.statu[v]
    BY <1>2, <1>7 DEF Alive
  <2>2. \A v \in Thread : work[v] \in Thread \cup {None}
    BY <1>3
  <2> QED BY <1>1, <1>4, <2>1, <2>2, ThreadsAssumption, SMTT(60) DEF Held, SlotsFree
<1> QED BY <1>7, <1>9, <1>10, <1>11, <1>12, <1>13, <1>14, <1>15, <1>16 DEF Held

\* The idle thread looks at the dead list
LEMMA IdleLookHeld ==
  ASSUME Held, IdleLook
  PROVE  Held'
<1>1. /\ k \in State /\ k.cur = Idle /\ k.nest = 0 /\ pc[Idle] = "user"
      /\ k.statu[Idle] = "RUNNING" /\ Idle \in Thread
  BY AtFacts, SMTT(60) DEF IdleLook
<1>2. CASE ~ rt_list_isempty(k.list[Dead]) /\ Reap(k, k.list[Dead][1])
  <2>1. k.list[Dead] \in Seq(Thread)
    BY <1>1 DEF State, ListHead
  <2>2. k.list[Dead][1] \in Thread /\ k.list[Dead][1] \in Nodes(k.list[Dead])
    BY <1>2, <2>1, IsEmptyNodes
  <2> QED BY <1>2, <2>2, ReapHeld DEF IdleLook
<1>3. CASE pc' = [pc EXCEPT ![Idle] = "delay"] /\ UNCHANGED <<k, heapwork>>
  <2>1. Steady(Idle) /\ Whole(k', Freeing) /\ k' \in State
    BY <1>1, <1>3, SameKernel
  <2>2. PcKept /\ pc' \in [Thread -> Pc]
    BY <1>1, <1>3 DEF PcKept, Held, TypeOK, Pc
  <2>3. TypeOK'
    BY <1>3, <2>1, <2>2 DEF Held, TypeOK, IdleLook, heapwork, walk
  <2>4. NoWaiters' /\ TimerWalk' /\ CurrentRuns'
    BY <1>1, <1>3, NoTimerWalk DEF Held, NoWaiters, CurrentRuns, IdleLook, walk
  <2> QED BY <1>1, <1>3, <2>1, <2>2, <2>3, <2>4, Kept DEF heapwork
<1> QED BY <1>2, <1>3 DEF IdleLook

\* The idle thread goes on with its walk, or ends it
LEMMA IdleNextHeld ==
  ASSUME Held, IdleNext
  PROVE  Held'
<1>1. /\ k \in State /\ k.cur = Idle /\ k.nest = 0 /\ pc[Idle] = "done"
      /\ k.statu[Idle] = "RUNNING" /\ Idle \in Thread
  BY AtFacts, SMTT(60) DEF IdleNext
<1>2. CASE next # None /\ Reap(k, next)
  <2>1. next \in Thread /\ next \in Nodes(k.list[Dead])
    BY <1>2 DEF Held, NextDead, TypeOK
  <2> QED BY <1>2, <2>1, ReapHeld DEF IdleNext
<1>3. CASE /\ masked' = masked \ {Idle} /\ work' = [work EXCEPT ![Idle] = None]
           /\ pc' = [pc EXCEPT ![Idle] = "user"] /\ UNCHANGED <<k, calls, next, level>>
  <2>1. /\ work' \in [Thread -> Thread \cup {None}] /\ pc' \in [Thread -> Pc] /\ pc'[Idle] = "user"
        /\ \A v \in Thread \ {Idle} : work'[v] = work[v] /\ pc'[v] = pc[v]
    BY <1>1, <1>3 DEF Held, TypeOK, Pc
  <2>2. Freeing' = Freeing /\ FreeingClosed'
    BY <1>1, <2>1 DEF Freeing, FreeingClosed
  <2>3. TypeOK'
    BY <1>3, <2>1 DEF Held, TypeOK, IdleNext, walk
  <2>4. NoWaiters' /\ TimerWalk' /\ CurrentRuns' /\ Whole(k', Freeing') /\ BusyReady' /\ NextDead'
    BY <1>1, <1>3, <2>2, NoTimerWalk
       DEF Held, NoWaiters, CurrentRuns, BusyReady, NextDead, IdleNext, walk
  <2>5. HeapCalls'
    BY <1>3, <2>1 DEF Held, HeapCalls
  <2>6. SlotsFree'
    <3>1. \A v \in Thread : Alive(v)' <=> Alive(v)
      BY <1>3 DEF Alive
    <3> QED BY <1>3, <2>1, <3>1 DEF Held, SlotsFree
  <2> QED BY <2>2, <2>3, <2>4, <2>5, <2>6 DEF Held
<1> QED BY <1>2, <1>3 DEF IdleNext

-----------------------------------------------------------------------------
\* A list walk starts at a node of the list, with its successor saved.
LEMMA WalkStarts ==
  ASSUME NEW s \in Seq(Thread), NEW p, p = First(s, None)
  PROVE  p \in Nodes(s) \cup {None} /\ Successor(s, p, None) \in Nodes(s) \cup {None}
<1>1. p \in Nodes(s) \cup {None}
  BY IsEmptyNodes DEF First
<1>2. None \notin Nodes(s)
  BY ThreadsAssumption, SMTT(60) DEF Nodes
<1> QED BY <1>1, <1>2, SuccessorNode

\* The tick interrupt counts the tick and may call rt_schedule.
LEMMA TickEnterSteps ==
  ASSUME Held, TickEnter
  PROVE  \E j : /\ Whole(j, Freeing) /\ SameLists(k, j) /\ SameSwitch(k, j) /\ j.nest = 1
                /\ j.error = k.error /\ j.tick = TickSum(k.tick, 1)
                /\ k' = j \/ k' = rt_schedule(j)
<1> DEFINE c == k.cur
           m == [k.remaining EXCEPT ![c] = IF k.remaining[c] = 1 THEN slice[c] ELSE @ - 1]
           j == [k EXCEPT !.nest = 1, !.tick = TickSum(@, 1), !.remaining = m]
<1>1. k \in State /\ k.nest = 0 /\ Whole(k, Freeing) /\ k.tick \in Tick
  BY DEF Held, TypeOK, TickEnter, State
<1>2. /\ c \in Thread /\ k.remaining \in [Thread -> Nat] /\ k.flag \in BOOLEAN
      /\ \A t \in Thread : k.remaining[t] > 0
  BY <1>1 DEF State, Whole, Sound
<1>3. m \in [Thread -> Nat] /\ \A t \in Thread : m[t] > 0
  <2>1. slice[c] \in Nat /\ slice[c] > 0
    BY <1>2, KernelAssumption, SMTT(60)
  <2>2. k.remaining[c] \in Nat /\ k.remaining[c] > 0
    BY <1>2
  <2> QED BY <1>2, <2>1, <2>2, SMTT(60)
<1>4. TickSum(k.tick, 1) \in Tick
  BY <1>1, KernelAssumption, SMTT(60) DEF Tick, TickSum
<1>5. k' = j \/ k' = rt_schedule(j)
  BY <1>1 DEF TickEnter, State
<1> HIDE DEF m, c
<1>6. j \in State
  <2>1. [k EXCEPT !.nest = 1] \in State
    BY <1>1 DEF State
  <2>2. [[k EXCEPT !.nest = 1] EXCEPT !.tick = TickSum(k.tick, 1)] \in State
    BY <1>4, <2>1 DEF State
  <2>3. [[[k EXCEPT !.nest = 1] EXCEPT !.tick = TickSum(k.tick, 1)] EXCEPT !.remaining = m] \in State
    BY <1>3, <2>2 DEF State
  <2> QED BY <1>1, <2>3 DEF State
<1>7. /\ SameLists(k, j) /\ SameSwitch(k, j) /\ j.nest = 1 /\ j.remaining = m
      /\ j.error = k.error /\ j.tick = TickSum(k.tick, 1)
  BY <1>1 DEF State, SameLists, SameSwitch
<1> HIDE DEF j
<1>8. ~ k.flag /\ k.cpu = k.cur
  BY <1>1, SMTT(60) DEF Whole, Sound, SwitchMatches
<1>9. SwitchMatches(j)
  BY <1>7, <1>8 DEF SwitchMatches, SameLists, SameSwitch
<1>10. Whole(j, Freeing)
  BY <1>1, <1>3, <1>6, <1>7, <1>9, SameListsWhole
<1> QED BY <1>5, <1>7, <1>10

\* The tick interrupt, up to the timers
LEMMA TickEnterHeld ==
  ASSUME Busy # {}, Held, TickEnter
  PROVE  Held'
<1>1. PICK j : /\ Whole(j, Freeing) /\ SameLists(k, j) /\ SameSwitch(k, j) /\ j.nest = 1
               /\ k' = j \/ k' = rt_schedule(j)
  BY TickEnterSteps
<1>2. /\ Whole(k', Freeing) /\ k'.nest = 1
      /\ \A h \in Wait \cup {Dead} : Nodes(k'.list[h]) = Nodes(j.list[h])
      /\ \A t \in Thread : \/ k'.statu[t] = j.statu[t]
                           \/ /\ k'.statu[t] \in {"READY", "RUNNING"}
                              /\ j.statu[t] \in {"READY", "RUNNING"}
  <2>1. CASE k' = j
    BY <1>1, <2>1
  <2>2. CASE k' = rt_schedule(j)
    <3>1. Whole(k', Freeing) /\ Rescheduled(j, k')
      BY <1>1, <2>2, KernelCalls DEF ScheduleCall
    <3> QED BY <1>1, <3>1 DEF Rescheduled, SameClock
  <2> QED BY <1>1, <2>1, <2>2
<1>3. Quiet(j, Idle, k') /\ k' \in State
  BY <1>2 DEF Whole, Sound, Quiet
<1>4. Idle \in Thread /\ Idle \notin Busy
  BY ThreadsAssumption
<1>5. Steady(Idle)
  <2>1. Quiet(k, Idle, k')
    BY <1>1, <1>3 DEF Quiet, SameLists
  <2>2. \/ k'.statu[Idle] = k.statu[Idle]
        \/ k'.statu[Idle] \in {"READY", "RUNNING"} /\ k.statu[Idle] \in {"READY", "RUNNING"}
    BY <1>1, <1>2, <1>4 DEF SameLists
  <2>3. Nodes(k'.list[Dead]) = Nodes(k.list[Dead])
    BY <1>1, <1>2 DEF SameLists
  <2> QED BY <1>4, <2>1, <2>2, <2>3 DEF Steady, Alive
<1>6. PcKept
  BY DEF TickEnter, PcKept
<1>7. k'.timers \in Seq(Thread)
  BY <1>3 DEF State
<1>8. pos' \in Nodes(k'.timers) \cup {None} /\ n' \in Nodes(k'.timers) \cup {None}
  BY <1>7, WalkStarts DEF TickEnter
<1>9. TimerWalk'
  BY <1>2, <1>8 DEF TimerWalk, TickEnter
<1>10. TypeOK'
  <2>1. Nodes(k'.timers) \subseteq Thread
    BY <1>7, IsEmptyNodes
  <2> QED BY <1>3, <1>8, <2>1 DEF Held, TypeOK, TickEnter, heapwork
<1>11. NoWaiters'
  <2>1. \A s \in Sem : Nodes(k'.list[s]) = Nodes(k.list[s])
    BY <1>1, <1>2 DEF SameLists, Sem
  <2> QED BY <2>1 DEF NoWaiters, Held, TickEnter
<1>12. CurrentRuns'
  <2>1. CASE k' = j
    BY <1>1, <2>1 DEF Held, CurrentRuns, SameLists, SameSwitch, TickEnter
  <2>2. CASE k' = rt_schedule(j)
    <3>1. \A b \in Busy : j.statu[b] \in {"READY", "RUNNING"}
      BY <1>1 DEF Held, BusyReady, SameLists
    <3> QED BY <1>1, <2>2, <3>1, Dispatches DEF CurrentRuns
  <2> QED BY <1>1, <2>1, <2>2
<1> QED BY <1>2, <1>4, <1>5, <1>6, <1>9, <1>10, <1>11, <1>12, Kept DEF TickEnter, heapwork

\* One turn of rt_timer_check's loop
LEMMA TimerCheckHeld ==
  ASSUME Held, TimerCheck
  PROVE  Held'
<1>1. /\ k \in State /\ k.nest = 1 /\ pos \in Thread /\ pos \in Nodes(k.timers)
      /\ n = Successor(k.timers, pos, None)
      /\ Whole(k, Freeing) /\ k' = FireIfDue(k, pos) /\ k.timers \in Seq(Thread)
  BY DEF Held, TypeOK, TimerCheck, TimerWalk, State
<1>2. NoRepeat(k.timers) /\ Nodes(k.timers) \subseteq Thread
  BY <1>1, IsEmptyNodes DEF Whole, TimersMatch
<1>3. n \in (Nodes(k.timers) \ {pos}) \cup {None}
  BY <1>1, <1>2, SuccessorOther
<1>4. Whole(k', Freeing) /\ (k' = k \/ Fired(k, pos, k'))
  BY <1>1, KernelCalls DEF FireCall
<1>5. k' \in State
  BY <1>4 DEF Whole, Sound
<1>6. k'.nest = 1 /\ k'.timers \in Seq(Thread) /\ n \in Nodes(k'.timers) \cup {None}
  BY <1>1, <1>3, <1>4, <1>5 DEF Fired, State
<1>7. Successor(k'.timers, n, None) \in Nodes(k'.timers) \cup {None} /\ Nodes(k'.timers) \subseteq Thread
  <2>1. Nodes(k'.timers) \subseteq Thread /\ None \notin Thread
    BY <1>6, IsEmptyNodes, ThreadsAssumption
  <2>2. CASE n \in Nodes(k'.timers)
    BY <1>6, <2>1, <2>2, SuccessorNode
  <2>3. CASE n = None
    <3>1. n \notin Nodes(k'.timers)
      BY <2>1, <2>3
    <3>2. Successor(k'.timers, n, None) = n
      BY <1>6, <3>1, SuccessorNode
    <3> QED BY <2>1, <2>3, <3>2
  <2> QED BY <1>6, <2>2, <2>3
<1>8. TimerWalk'
  BY <1>6 DEF TimerWalk, TimerCheck
<1>9. TypeOK'
  BY <1>5, <1>6, <1>7 DEF Held, TypeOK, TimerCheck, heapwork
<1>10. Steady(pos)
  <2>1. CASE k' = k
    BY <1>1, <2>1, SameKernel
  <2>2. CASE Fired(k, pos, k')
    <3>1. pos \notin Nodes(k.list[Dead])
      BY <1>1, <2>2, NotDead DEF Fired
    <3> QED BY <2>2, <3>1 DEF Fired, Steady, Alive
  <2> QED BY <1>4, <2>1, <2>2
<1>11. PcKept
  BY DEF TimerCheck, PcKept
<1>12. NoWaiters'
  <2>1. CASE k' = k
    BY <2>1 DEF Held, NoWaiters, TimerCheck
  <2>2. CASE Fired(k, pos, k')
    <3>1. \A s \in Sem : value'[s] = 0 \/ (value[s] > 0 /\ pos \notin Nodes(k'.list[s]))
      <4>1. value \in [Sem -> Nat] /\ value' = value
        BY DEF Held, TypeOK, TimerCheck
      <4>2. \A s \in Sem : pos \notin Nodes(k'.list[s])
        BY <2>2 DEF Sem, Fired
      <4> QED BY <4>1, <4>2, SMTT(60)
    <3> QED BY <1>1, <1>5, <2>2, <3>1, FewerWaiters DEF Fired
  <2> QED BY <1>4, <2>1, <2>2
<1>13. CurrentRuns'
  <2>1. Runs(k, k') /\ pc' = pc
    BY <1>4 DEF Fired, Runs, TimerCheck
  <2> QED BY <2>1 DEF Held, CurrentRuns, Runs
<1> QED BY <1>1, <1>4, <1>8, <1>9, <1>10, <1>11, <1>12, <1>13, Kept DEF TimerCheck, heapwork

\* The end of the handler
LEMMA TickExitHeld ==
  ASSUME Held, TickExit
  PROVE  Held'
<1>1. k \in State /\ Whole(k, Freeing) /\ pos = None
  BY DEF Held, TypeOK, TickExit
<1> DEFINE p == IF k.flag THEN k.to ELSE k.cpu
<1>2. k.flag \in BOOLEAN /\ p \in Thread /\ k.remaining \in [Thread -> Nat]
  BY <1>1 DEF State
<1>3. p = k.cur
  BY <1>1, <1>2 DEF Whole, Sound, SwitchMatches
<1>4. k' = [k EXCEPT !.nest = 0, !.flag = FALSE, !.cpu = p]
  BY <1>1 DEF TickExit, State
<1> HIDE DEF p
<1>5. SameLists(k, k') /\ ~ k'.flag /\ k'.cpu = p /\ k'.remaining = k.remaining
  BY <1>1, <1>4 DEF State, SameLists
<1>6. k' \in State
  BY <1>1, <1>2, <1>4 DEF State
<1>7. Whole(k', Freeing)
  <2>1. SwitchMatches(k')
    BY <1>3, <1>5 DEF SwitchMatches, SameLists
  <2>2. \A t \in Thread : k'.remaining[t] > 0
    BY <1>1, <1>5 DEF Whole, Sound
  <2> QED BY <1>1, <1>5, <1>6, <2>1, <2>2, SameListsWhole
<1>8. Idle \in Thread /\ Steady(Idle)
  BY <1>5, ThreadsAssumption DEF Steady, Quiet, SameLists
<1>9. PcKept /\ TypeOK'
  BY <1>6 DEF PcKept, Held, TypeOK, TickExit, heapwork, walk
<1>10. NoWaiters' /\ TimerWalk' /\ CurrentRuns'
  BY <1>1, <1>5 DEF Held, NoWaiters, TimerWalk, CurrentRuns, SameLists, TickExit, walk
<1> QED BY <1>7, <1>8, <1>9, <1>10, Kept DEF TickExit, heapwork

-----------------------------------------------------------------------------
\* Every step keeps the invariant, as long as some thread never blocks.
LEMMA StepHeld ==
  ASSUME Busy # {}, Held, [Next]_vars
  PROVE  Held'
<1>1. /\ Idle \in Thread \ Busy /\ Victim \subseteq Thread \ (Busy \cup {Idle, Shell})
      /\ Creator \subseteq Thread \ (Busy \cup {Idle}) /\ Off \subseteq Thread \ (Busy \cup {Idle, Shell})
      /\ Taker \subseteq Thread \ {Idle}
      /\ IdleDelay \in Tick /\ Times \subseteq Tick \cup {-1} /\ -1 \notin Nat
  BY ThreadsAssumption, SMTT(60)
<1>2. CASE UNCHANGED vars
  BY <1>2
  DEF vars, Held, TypeOK, Freeing, NoWaiters, TimerWalk, NextDead, BusyReady, CurrentRuns,
              HeapCalls, FreeingClosed, SlotsFree, Alive
<1>3. CASE TickEnter \/ TimerCheck \/ TickExit
  BY <1>3, TickEnterHeld, TimerCheckHeld, TickExitHeld
<1>4. CASE IdleLook \/ IdleNext \/ Sleep(Idle, IdleDelay)
  BY <1>1, <1>4, IdleLookHeld, IdleNextHeld, SleepHeld
<1>5. CASE \E u \in Victim : Kill(u) \/ Exit(u)
  BY <1>1, <1>5, KillHeld, ExitHeld
<1>6. ASSUME NEW t \in Thread,
             \/ Compute(t) \/ Schedule(t) \/ TakeReturn(t) \/ HeapTake(t) \/ HeapLeave(t)
             \/ CreateReady(t) \/ CreateFail(t)
      PROVE  Held'
  BY <1>2, <1>6, ScheduleHeld, TakeReturnHeld, HeapTakeHeld, HeapLeaveHeld, CreateReadyHeld, CreateFailHeld
     DEF Compute
<1>7. CASE \E t \in Creator, u \in Off \cup Victim : CreateStart(t, u)
  BY <1>1, <1>7, CreateStartHeld
<1>8. ASSUME NEW t \in Thread \ (Busy \cup {Idle}), NEW i \in Times, i >= 0, Sleep(t, i)
      PROVE  Held'
  <2>1. i \in Tick
    BY <1>1, <1>8, SMTT(60)
  <2> QED BY <1>8, <2>1, SleepHeld
<1>9. CASE \E t \in Taker, s \in Sem : TakeNow(t, s) \/ Release(t, s)
  BY <1>1, <1>9, TakeNowHeld, ReleaseHeld
<1>10. CASE \E t \in Taker \ Busy, s \in Sem, i \in Times : TakeBlock(t, s, i)
  BY <1>1, <1>10, TakeBlockHeld
<1> QED BY <1>2, <1>3, <1>4, <1>5, <1>6, <1>7, <1>8, <1>9, <1>10 DEF Next

-----------------------------------------------------------------------------
\* No thread comes back from the dead.
Buried == \A t \in Thread : k.statu[t] = "CLOSE" => k'.statu[t] \in {"CLOSE", "INIT"}

\* A call about a thread that is not closed, or that closes it, revives none.
LEMMA CalledBuries ==
  ASSUME NEW t \in Thread, NEW f, NEW s, Called(k, t, k', f, s), k.statu[t] # "CLOSE" \/ s = "CLOSE"
  PROVE  Buried
  BY DEF Called, Did, Aside, Buried

\* Neither does rt_schedule.
LEMMA RescheduledBuries ==
  ASSUME NEW f, NEW j, Whole(j, f), k' = rt_schedule(j),
         \A t \in Thread : k.statu[t] = "CLOSE" => j.statu[t] \in {"CLOSE", "INIT"}
  PROVE  Buried
<1>1. Rescheduled(j, k')
  BY KernelCalls DEF ScheduleCall
<1> QED BY <1>1 DEF Rescheduled, Buried

\* Blocking: rt_thread_sleep and rt_sem_take
LEMMA BlockingBuries ==
  ASSUME Held, NEW t \in Thread,
         \/ \E i \in Tick : Sleep(t, i)
         \/ \E s \in Sem, i \in Times : TakeBlock(t, s, i)
         \/ HeapTake(t)
  PROVE  Buried
<1>1. k.statu[t] = "RUNNING" /\ Whole(k, Freeing) /\ Heap \in Wait /\ Times \subseteq Tick \cup {-1}
  <2>1. At(t, "user") \/ At(t, "delay") \/ At(t, "heap")
    BY DEF Sleep, TakeBlock, HeapTake, AtUser
  <2>2. k.statu[t] = "RUNNING"
    <3>1. CASE At(t, "user")
      BY <3>1, AtFacts, SMTT(60)
    <3>2. CASE At(t, "delay")
      BY <3>2, AtFacts, SMTT(60)
    <3>3. CASE At(t, "heap")
      BY <3>3, AtFacts, SMTT(60)
    <3> QED BY <2>1, <3>1, <3>2, <3>3
  <2> QED BY <2>2, ThreadsAssumption DEF Held, Sem
<1>2. ASSUME NEW i \in Tick, Sleep(t, i) PROVE Buried
  <2>1. Called(k, t, k', Freeing, "SLEEP")
    BY <1>1, <1>2, KernelCalls DEF SleepCall, Sleep
  <2> QED BY <1>1, <2>1, CalledBuries
<1>3. ASSUME NEW s \in Sem, NEW i \in Times, TakeBlock(t, s, i) PROVE Buried
  <2>1. s \in Wait /\ i \in Tick \cup {-1} /\ k' = Block(k, t, s, i)
    BY <1>1, <1>3 DEF TakeBlock, Sem
  <2>2. Called(k, t, k', Freeing, "SUSPEND")
    BY <1>1, <2>1, KernelCalls DEF BlockCall
  <2> QED BY <1>1, <2>2, CalledBuries
<1>4. CASE HeapTake(t)
  <2> DEFINE j == Block(k, t, Heap, -1)
  <2>1. k' = k \/ k' = rt_schedule(j)
    BY <1>4 DEF HeapTake
  <2>2. j = Block(k, t, Heap, -1) /\ -1 \in Tick \cup {-1}
    OBVIOUS
  <2> HIDE DEF j
  <2>3. Called(k, t, j, Freeing, "SUSPEND")
    BY <1>1, <2>2, KernelCalls DEF BlockCall
  <2>4. Whole(j, Freeing) /\ \A u \in Thread : k.statu[u] = "CLOSE" => j.statu[u] = "CLOSE"
    BY <1>1, <2>3 DEF Called, Did, Aside
  <2>5. CASE k' = rt_schedule(j)
    BY <2>4, <2>5, RescheduledBuries
  <2> QED BY <2>1, <2>5 DEF Buried
<1> QED BY <1>2, <1>3, <1>4

\* Waking and handing over: rt_sem_release, rt_schedule and the heap's end
LEMMA WakingBuries ==
  ASSUME Held, NEW t \in Thread,
         (\E s \in Sem : Release(t, s)) \/ Schedule(t) \/ HeapLeave(t)
  PROVE  Buried
<1>1. ASSUME NEW s \in Sem, Release(t, s) PROVE Buried
  <2>1. k.cur = t /\ k.statu[t] = "RUNNING" /\ k' = Resumed(s)
    BY <1>1, AtFacts, SMTT(60) DEF Release
  <2>2. k' = k \/ \E w \in Thread : k.statu[w] = "SUSPEND" /\ Called(k, w, k', Freeing, "READY")
    BY <2>1, ResumedFacts
  <2>3. CASE k' = k
    BY <2>3 DEF Buried
  <2>4. ASSUME NEW w \in Thread, k.statu[w] = "SUSPEND", Called(k, w, k', Freeing, "READY")
        PROVE  Buried
    BY <2>4, CalledBuries
  <2> QED BY <2>2, <2>3, <2>4
<1>2. CASE Schedule(t)
  <2>1. Whole(k, Freeing) /\ k' = rt_schedule(k)
    BY <1>2 DEF Held, Schedule
  <2> QED BY <2>1, RescheduledBuries
<1>3. CASE HeapLeave(t)
  <2>1. Whole(Unlocked(t), Freeing') /\ Mild(k, Unlocked(t))
    BY <1>3, UnlockedFacts
  <2>2. k' = Unlocked(t) \/ k' = rt_schedule(Unlocked(t))
    BY <1>3 DEF HeapLeave, LeftHeap, Unlocked
  <2>3. \A u \in Thread : k.statu[u] = "CLOSE" => Unlocked(t).statu[u] \in {"CLOSE", "INIT"}
    BY <2>1 DEF Mild
  <2>4. CASE k' = Unlocked(t)
    BY <2>3, <2>4 DEF Buried
  <2>5. CASE k' = rt_schedule(Unlocked(t))
    BY <2>1, <2>3, <2>5, RescheduledBuries
  <2> QED BY <2>2, <2>4, <2>5
<1> QED BY <1>1, <1>2, <1>3

\* The life of a thread: creation, exit, kill and the idle thread's walk
LEMMA LifeBuries ==
  ASSUME Held,
         \/ \E t \in Thread : CreateReady(t)
         \/ \E t \in Victim : Exit(t) \/ Kill(t)
         \/ IdleLook \/ IdleNext
  PROVE  Buried
<1>1. Whole(k, Freeing) /\ k \in State
  BY DEF Held, TypeOK
<1>2. ASSUME NEW t \in Thread, CreateReady(t) PROVE Buried
  <2>1. t # Idle /\ work[t] \in Thread /\ k.statu[t] = "RUNNING" /\ k' = Joined(work[t])
    <3>1. /\ At(t, "done") /\ t # Idle /\ work[t] # None /\ k' = Joined(work[t])
      BY <1>2 DEF CreateReady, Joined
    <3>2. work \in [Thread -> Thread \cup {None}]
      BY DEF Held, TypeOK
    <3>3. k.statu[t] = "RUNNING"
      BY <3>1, AtFacts, SMTT(60)
    <3> QED BY <3>1, <3>2, <3>3
  <2>2. k.statu[work[t]] = "INIT"
    BY <2>1, ThreadsAssumption DEF Held, SlotsFree, Alive
  <2>3. \A v \in Thread \ {work[t]} : k'.statu[v] = k.statu[v]
    BY <1>1, <2>1, <2>2, JoinedFacts
  <2> QED BY <2>2, <2>3 DEF Buried
<1>3. ASSUME NEW t \in Victim, Exit(t) PROVE Buried
  <2>1. t \in Thread /\ k.statu[t] = "RUNNING" /\ k' = Close(k, t) /\ Idle \in Thread
    <3>1. At(t, "user") /\ k' = Close(k, t)
      BY <1>3 DEF Exit, AtUser
    <3>2. t \in Thread /\ Idle \in Thread
      BY ThreadsAssumption
    <3>3. k.statu[t] = "RUNNING"
      BY <3>1, AtFacts, SMTT(60)
    <3> QED BY <3>1, <3>2, <3>3
  <2>2. t \notin Freeing
    BY <2>1 DEF Freeing, Held, FreeingClosed
  <2>3. Called(k, t, k', Freeing, "CLOSE")
    BY <1>1, <2>1, <2>2, KernelCalls DEF CloseCall
  <2> QED BY <2>1, <2>3, CalledBuries
<1>4. ASSUME NEW t \in Victim, Kill(t) PROVE Buried
  <2>1. k.cur = Shell /\ t \in Thread /\ t # Shell
    <3>1. At(Shell, "user")
      BY <1>4 DEF Kill, AtUser
    <3>2. t \in Thread /\ t # Shell
      BY ThreadsAssumption
    <3>3. k.cur = Shell
      BY <3>1, AtFacts
    <3> QED BY <3>2, <3>3
  <2>2. k' = Close(k, t) /\ t \notin Freeing
    BY <1>4, <2>1 DEF Kill
  <2>3. Called(k, t, k', Freeing, "CLOSE")
    BY <1>1, <2>1, <2>2, KernelCalls DEF CloseCall
  <2> QED BY <2>1, <2>3, CalledBuries
<1>5. CASE IdleLook \/ IdleNext
  <2>1. k'.statu = k.statu
    BY <1>1, <1>5 DEF IdleLook, IdleNext, Reap, Unlink, State
  <2> QED BY <2>1 DEF Buried
<1> QED BY <1>2, <1>3, <1>4, <1>5

\* The tick interrupt: rt_schedule and the timers that fire
LEMMA TickBuries ==
  ASSUME Held, TickEnter \/ TimerCheck \/ TickExit
  PROVE  Buried
<1>1. Whole(k, Freeing) /\ k \in State
  BY DEF Held, TypeOK
<1>2. CASE TickExit
  <2>1. k'.statu = k.statu
    BY <1>1, <1>2 DEF TickExit, State
  <2> QED BY <2>1 DEF Buried
<1>3. CASE TimerCheck
  <2>1. pos \in Thread /\ k' = FireIfDue(k, pos)
    BY <1>3 DEF Held, TypeOK, TimerCheck
  <2>2. k' = k \/ Fired(k, pos, k')
    BY <1>1, <2>1, KernelCalls DEF FireCall
  <2> QED BY <2>1, <2>2 DEF Fired, Quiet, Buried
<1>4. CASE TickEnter
  <2>1. PICK j : Whole(j, Freeing) /\ SameLists(k, j) /\ (k' = j \/ k' = rt_schedule(j))
    BY <1>4, TickEnterSteps
  <2>2. j.statu = k.statu
    BY <2>1 DEF SameLists
  <2>3. CASE k' = j
    BY <2>2, <2>3 DEF Buried
  <2>4. CASE k' = rt_schedule(j)
    BY <2>1, <2>2, <2>4, RescheduledBuries
  <2> QED BY <2>1, <2>3, <2>4
<1> QED BY <1>2, <1>3, <1>4

\* No step revives a closed thread.
LEMMA StepBuries ==
  ASSUME Held, [Next]_vars
  PROVE  Buried
<1>1. /\ Idle \in Thread /\ Victim \subseteq Thread /\ Taker \subseteq Thread
      /\ IdleDelay \in Tick /\ Times \subseteq Tick \cup {-1}
  BY ThreadsAssumption
<1>2. CASE k' = k
  BY <1>2 DEF Buried
<1>3. CASE TickEnter \/ TimerCheck \/ TickExit
  BY <1>3, TickBuries
<1>4. CASE IdleLook \/ IdleNext \/ \E u \in Victim : Kill(u) \/ Exit(u)
  BY <1>4, LifeBuries
<1>5. CASE Sleep(Idle, IdleDelay)
  BY <1>1, <1>5, BlockingBuries
<1>6. ASSUME NEW t \in Thread,
             \/ Compute(t) \/ Schedule(t) \/ TakeReturn(t) \/ HeapTake(t) \/ HeapLeave(t)
             \/ CreateReady(t) \/ CreateFail(t)
      PROVE  Buried
  BY <1>2, <1>6, WakingBuries, BlockingBuries, LifeBuries
  DEF Compute, TakeReturn, CreateFail, vars
<1>7. ASSUME NEW t \in Thread, NEW i \in Times, i >= 0, Sleep(t, i)
      PROVE  Buried
  <2>1. i \in Tick
    BY <1>1, <1>7, SMTT(60)
  <2> QED BY <1>7, <2>1, BlockingBuries
<1>8. ASSUME NEW t \in Taker, NEW s \in Sem,
             TakeNow(t, s) \/ Release(t, s) \/ \E i \in Times : TakeBlock(t, s, i)
      PROVE  Buried
  BY <1>1, <1>2, <1>8, WakingBuries, BlockingBuries DEF TakeNow
<1> QED BY <1>2, <1>3, <1>4, <1>5, <1>6, <1>7, <1>8 DEF Next, CreateStart, vars

-----------------------------------------------------------------------------
\* A lock has one owner or is free.  OneOwner is not inductive: who is resumed
\* must be waiting for that very semaphore, a timeout must not reach a thread
\* that already has it, and nobody may come to life as an owner.

\* Thread t is in a take of s that has not failed.
Claims(t, s) ==
  \/ pc[t] \in {"wait", "taken"} /\ sem[t] = s /\ k.error[t] = "EOK"
  \/ pc[t] = "inheap" /\ s = Heap

Settled(t) ==
  /\ \A s \in Sem : t \in Nodes(k.list[s]) => Claims(t, s)
  /\ k.statu[t] = "SLEEP" => pc[t] \in {"sched", "user"}
  /\ t \in k.active => pc[t] # "inheap"
  /\ ~ Alive(t) => holds[t] = {}
  /\ pc[t] \in {"heap", "inheap", "done"} => Heap \notin holds[t]
  /\ t = Idle => holds[t] = {} /\ pc[t] \notin {"wait", "taken"}

\* The token of lock s is in its value, with one owner, or lost.
Account(s) ==
  \/ s \notin lost /\ value[s] = 1 /\ \A t \in Thread : ~ Owner(t, s)
  \/ /\ s \notin lost /\ value[s] = 0
     /\ \E t \in Thread : Owner(t, s) /\ \A u \in Thread : Owner(u, s) => u = t
  \/ s \in lost /\ value[s] = 0 /\ \A t \in Thread : ~ Owner(t, s)

Locks == (\A t \in Thread : Settled(t)) /\ \A s \in Lock : Account(s)

\* Every lock starts free.
LEMMA InitLocks ==
  ASSUME Init
  PROVE  Locks
<1>1. \A t \in Thread : k.statu[t] # "SLEEP" /\ pc[t] = "user" /\ holds[t] = {} /\ t \notin k.active
  BY DEF Init
<1>2. \A s \in Sem : Nodes(k.list[s]) = {}
  <2>1. \A s \in Sem : s \in ListHead /\ s \notin Priority
    BY KernelAssumption DEF Sem, ListHead
  <2>2. \A s \in Sem : k.list[s] = <<>>
    BY <2>1 DEF Init
  <2> QED BY <2>2, EmptyList
<1>3. \A t \in Thread : Settled(t)
  BY <1>1, <1>2 DEF Settled
<1>4. ASSUME NEW s \in Lock PROVE Account(s)
  <2>1. value[s] = 1 /\ s \notin lost
    BY ThreadsAssumption DEF Init
  <2>2. \A t \in Thread : ~ Owner(t, s)
    BY <1>1 DEF Owner, Handed
  <2> QED BY <2>1, <2>2 DEF Account
<1> QED BY <1>3, <1>4 DEF Locks

\* From j to r nothing happens to u that its locks depend on.
Apart(j, u, r) ==
  /\ r.error[u] = j.error[u]
  /\ u \in r.active => u \in j.active
  /\ r.statu[u] \in {"INIT", "CLOSE"} <=> j.statu[u] \in {"INIT", "CLOSE"}
  /\ r.statu[u] = "SLEEP" => j.statu[u] = "SLEEP"
  /\ \A s \in Wait : u \in Nodes(r.list[s]) <=> u \in Nodes(j.list[s])

Untouched(u) == Apart(k, u, k') /\ pc'[u] = pc[u] /\ sem'[u] = sem[u] /\ holds'[u] = holds[u]

\* An untouched thread owns what it owned.
LEMMA UntouchedFacts ==
  ASSUME NEW u \in Thread, Settled(u), Untouched(u)
  PROVE  Settled(u)' /\ \A s \in Sem : Owner(u, s)' <=> Owner(u, s)
<1>1. \A s \in Sem : Claims(u, s)' <=> Claims(u, s)
  BY DEF Untouched, Apart, Claims
<1>2. Alive(u)' <=> Alive(u)
  BY DEF Untouched, Apart, Alive
<1>3. \A s \in Sem : u \in Nodes(k'.list[s]) <=> u \in Nodes(k.list[s])
  BY DEF Untouched, Apart, Sem
<1>4. Settled(u)'
  BY <1>1, <1>2, <1>3 DEF Settled, Untouched, Apart
<1> QED BY <1>1, <1>2, <1>3, <1>4 DEF Owner, Handed, Claims, Untouched

\* A call about t is apart from the others.
LEMMA DidApart ==
  ASSUME NEW j, NEW t, NEW r, Did(j, t, r), NEW u \in Thread \ {t}
  PROVE  Apart(j, u, r)
<1>1. Quiet(j, t, r)
  BY DidQuiet
<1> QED BY <1>1 DEF Quiet, Did, Aside, Apart

\* A call of rt_schedule is apart from every thread.
LEMMA RescheduledApart ==
  ASSUME NEW j, NEW r, Rescheduled(j, r), NEW u \in Thread
  PROVE  Apart(j, u, r)
  BY DEF Rescheduled, SameClock, Apart

\* Two steps apart from u make one.
LEMMA ApartTrans ==
  ASSUME NEW i, NEW u, NEW j, NEW r, Apart(i, u, j), Apart(j, u, r)
  PROVE  Apart(i, u, r)
  BY DEF Apart

\* A lock whose owners, value and loss are as before.
LEMMA TokenStays ==
  ASSUME NEW s, Account(s), value'[s] = value[s], lost' = lost,
         \A u \in Thread : Owner(u, s)' <=> Owner(u, s)
  PROVE  Account(s)'
  BY DEF Account

\* t takes the token out of the value.
LEMMA TokenTaken ==
  ASSUME NEW s, Account(s), NEW t \in Thread, value[s] > 0, value'[s] = value[s] - 1, lost' = lost,
         Owner(t, s)', \A u \in Thread \ {t} : Owner(u, s)' <=> Owner(u, s)
  PROVE  Account(s)'
<1>1. s \notin lost /\ value[s] = 1 /\ \A u \in Thread : ~ Owner(u, s)
  BY SMTT(60) DEF Account
<1>2. value'[s] = 0
  BY <1>1, SMTT(60)
<1> QED BY <1>1, <1>2 DEF Account

\* The owner t puts it back.
LEMMA TokenReturned ==
  ASSUME NEW s, Account(s), NEW t \in Thread, Owner(t, s), ~ Owner(t, s)', lost' = lost,
         value'[s] = value[s] + 1, \A u \in Thread \ {t} : Owner(u, s)' <=> Owner(u, s)
  PROVE  Account(s)'
<1>1. s \notin lost /\ value[s] = 0 /\ \A u \in Thread : Owner(u, s) => u = t
  BY DEF Account
<1>2. value'[s] = 1
  BY <1>1, SMTT(60)
<1> QED BY <1>1, <1>2 DEF Account

\* The owner t passes it to w.
LEMMA TokenPassed ==
  ASSUME NEW s, Account(s), NEW t \in Thread, NEW w \in Thread \ {t}, Owner(t, s), ~ Owner(t, s)',
         Owner(w, s)', lost' = lost, value'[s] = value[s],
         \A u \in Thread \ {t, w} : Owner(u, s)' <=> Owner(u, s)
  PROVE  Account(s)'
<1>1. s \notin lost /\ value[s] = 0 /\ \A u \in Thread : Owner(u, s) => u = t
  BY DEF Account
<1>2. \A u \in Thread : Owner(u, s)' => u = w
  BY <1>1
<1> QED BY <1>1, <1>2 DEF Account

\* t ends, and takes it along if it is the owner.
LEMMA TokenLost ==
  ASSUME NEW s, Account(s), NEW t \in Thread, ~ Owner(t, s)', value'[s] = value[s],
         s \in lost' <=> s \in lost \/ Owner(t, s),
         \A u \in Thread \ {t} : Owner(u, s)' <=> Owner(u, s)
  PROVE  Account(s)'
<1>1. CASE Owner(t, s)
  <2>1. s \notin lost /\ value[s] = 0 /\ \A u \in Thread : Owner(u, s) => u = t
    BY <1>1 DEF Account
  <2> QED BY <1>1, <2>1 DEF Account
<1>2. CASE ~ Owner(t, s)
  <2>1. (s \in lost' <=> s \in lost) /\ \A u \in Thread : Owner(u, s)' <=> Owner(u, s)
    BY <1>2
  <2> QED BY <2>1 DEF Account
<1> QED BY <1>1, <1>2

\* A step about thread t alone that leaves every owner an owner.
LEMMA OneThread ==
  ASSUME Locks, NEW t \in Thread, \A u \in Thread \ {t} : Untouched(u), Settled(t)',
         value' = value, lost' = lost, \A s \in Lock : Owner(t, s)' <=> Owner(t, s)
  PROVE  Locks'
<1>1. \A u \in Thread : Settled(u)'
  BY UntouchedFacts DEF Locks
<1>2. ASSUME NEW s \in Lock PROVE Account(s)'
  <2>1. Account(s) /\ s \in Sem
    BY ThreadsAssumption DEF Locks
  <2>2. \A u \in Thread : Owner(u, s)' <=> Owner(u, s)
    BY <2>1, UntouchedFacts DEF Locks
  <2> QED BY <2>1, <2>2, TokenStays
<1> QED BY <1>1, <1>2 DEF Locks

\* The running thread is in no list and has no timer.
LEMMA RunningSettled ==
  ASSUME Held, NEW t \in Thread, k.statu[t] = "RUNNING"
  PROVE  t \notin k.active /\ Alive(t) /\ \A h \in Wait : t \notin Nodes(k.list[h])
<1>1. Homes(k, t) = {} /\ t \notin k.active
  BY RunningFacts DEF Held
<1> QED BY <1>1 DEF Homes, ListHead, Alive

\* rt_schedule at the end of a window changes no owner.
LEMMA ScheduleLocks ==
  ASSUME Held, Locks, NEW t \in Thread, Schedule(t)
  PROVE  Locks'
<1>1. Rescheduled(k, k')
  BY KernelCalls DEF ScheduleCall, Held, Schedule
<1>2. \A u \in Thread : Apart(k, u, k')
  BY <1>1, RescheduledApart
<1>3. /\ \/ pc[t] = "sched" /\ pc'[t] = "user"
         \/ pc[t] = "wait" /\ pc'[t] = "taken"
         \/ pc[t] = "exit" /\ pc'[t] = "gone"
      /\ \A u \in Thread \ {t} : pc'[u] = pc[u]
  BY DEF Schedule, At, Held, TypeOK
<1>4. holds' = holds /\ sem' = sem /\ value' = value /\ lost' = lost
  BY DEF Schedule
<1>5. \A u \in Thread \ {t} : Untouched(u)
  BY <1>2, <1>3, <1>4 DEF Untouched
<1>6. \A s \in Sem : Claims(t, s)' <=> Claims(t, s)
  BY <1>2, <1>3, <1>4 DEF Claims, Apart
<1>7. (Alive(t)' <=> Alive(t)) /\ \A s \in Sem : t \in Nodes(k'.list[s]) <=> t \in Nodes(k.list[s])
  BY <1>2 DEF Apart, Alive, Sem
<1>8. Settled(t)'
  BY <1>2, <1>3, <1>4, <1>6, <1>7 DEF Locks, Settled, Apart
<1>9. \A s \in Lock : Owner(t, s)' <=> Owner(t, s)
  BY <1>4, <1>6, <1>7, ThreadsAssumption DEF Owner, Handed, Claims
<1> QED BY <1>4, <1>5, <1>8, <1>9, OneThread

\* Neither does rt_thread_sleep.
LEMMA SleepLocks ==
  ASSUME Held, Locks, NEW t \in Thread, NEW i \in Tick, Sleep(t, i)
  PROVE  Locks'
<1>1. pc[t] \in {"user", "delay"} /\ k.statu[t] = "RUNNING"
  BY AtFacts, SMTT(60) DEF Sleep, AtUser
<1>2. Called(k, t, k', Freeing, "SLEEP") /\ Homes(k', t) = {}
  BY <1>1, KernelCalls DEF SleepCall, Held, Sleep
<1>3. k'.statu[t] = "SLEEP" /\ \A h \in Wait : t \notin Nodes(k'.list[h])
  BY <1>2 DEF Called, Homes, ListHead
<1>4. /\ pc'[t] = "sched" /\ \A u \in Thread \ {t} : pc'[u] = pc[u]
      /\ holds' = holds /\ sem' = sem /\ value' = value /\ lost' = lost
  BY DEF Sleep, Held, TypeOK
<1>5. \A u \in Thread \ {t} : Untouched(u)
  BY <1>2, <1>4, DidApart DEF Untouched, Called
<1>6. Alive(t) /\ Alive(t)'
  BY <1>1, <1>3 DEF Alive
<1>7. Settled(t)'
  BY <1>3, <1>4, <1>6 DEF Locks, Settled, Sem
<1>8. \A s \in Lock : Owner(t, s)' <=> Owner(t, s)
  BY <1>1, <1>4, <1>6 DEF Owner, Handed
<1> QED BY <1>4, <1>5, <1>7, <1>8, OneThread

\* Steps of the running thread that leave the kernel state alone.
LEMMA SameApart ==
  ASSUME k' = k, NEW u \in Thread, pc'[u] = pc[u], sem'[u] = sem[u], holds'[u] = holds[u]
  PROVE  Untouched(u)
  BY DEF Untouched, Apart

\* rt_sem_take of an available lock makes the caller its owner.
LEMMA TakeNowLocks ==
  ASSUME Held, Locks, NEW t \in Thread \ {Idle}, NEW s \in Sem, TakeNow(t, s)
  PROVE  Locks'
<1>1. pc[t] = "user" /\ k.statu[t] = "RUNNING" /\ k' = k /\ pc' = pc /\ sem' = sem /\ lost' = lost
  BY AtFacts, SMTT(60) DEF TakeNow, AtUser
<1>2. /\ holds'[t] = holds[t] \cup ({s} \cap Lock)
      /\ \A u \in Thread \ {t} : holds'[u] = holds[u]
  BY DEF TakeNow, Held, TypeOK
<1>3. value[s] > 0 /\ value'[s] = value[s] - 1 /\ \A r \in Sem \ {s} : value'[r] = value[r]
  BY DEF TakeNow, Held, TypeOK
<1>4. \A u \in Thread \ {t} : Untouched(u)
  BY <1>1, <1>2, SameApart
<1>5. Alive(t) /\ Alive(t)' /\ t \notin k.active /\ \A h \in Wait : t \notin Nodes(k.list[h])
  BY <1>1, RunningSettled DEF Alive
<1>6. Settled(t)'
  BY <1>1, <1>5 DEF Settled, Sem
<1>7. \A r \in Lock : (Owner(t, r) <=> r \in holds[t]) /\ (Owner(t, r)' <=> r \in holds'[t])
  BY <1>1, <1>5 DEF Owner, Handed
<1>8. ASSUME NEW r \in Lock PROVE Account(r)'
  <2>1. Account(r) /\ r \in Sem /\ \A u \in Thread \ {t} : Owner(u, r)' <=> Owner(u, r)
    BY <1>4, UntouchedFacts, ThreadsAssumption DEF Locks
  <2>2. CASE r = s
    BY <1>1, <1>2, <1>3, <1>7, <2>1, <2>2, TokenTaken
  <2>3. CASE r # s
    BY <1>1, <1>2, <1>3, <1>7, <2>1, <2>3, TokenStays
  <2> QED BY <2>2, <2>3
<1>9. \A u \in Thread \ {t} : Settled(u)'
  BY <1>4, UntouchedFacts DEF Locks
<1> QED BY <1>6, <1>8, <1>9 DEF Locks

\* rt_sem_take returns: what was handed over is now held.
LEMMA TakeReturnLocks ==
  ASSUME Held, Locks, NEW t \in Thread, TakeReturn(t)
  PROVE  Locks'
<1>1. /\ pc[t] = "taken" /\ k.statu[t] = "RUNNING" /\ k' = k /\ sem' = sem /\ lost' = lost
      /\ value' = value
  BY AtFacts, SMTT(60) DEF TakeReturn
<1>2. /\ holds'[t] = IF k.error[t] = "EOK" THEN holds[t] \cup ({sem[t]} \cap Lock) ELSE holds[t]
      /\ pc'[t] = "user" /\ \A u \in Thread \ {t} : holds'[u] = holds[u] /\ pc'[u] = pc[u]
  BY DEF TakeReturn, Held, TypeOK
<1>3. \A u \in Thread \ {t} : Untouched(u)
  BY <1>1, <1>2, SameApart
<1>4. Alive(t) /\ Alive(t)' /\ t \notin k.active /\ \A h \in Wait : t \notin Nodes(k.list[h])
  BY <1>1, RunningSettled DEF Alive
<1>5. t # Idle
  BY <1>1 DEF Locks, Settled
<1>6. Settled(t)'
  BY <1>1, <1>2, <1>4, <1>5 DEF Settled, Sem
<1>7. \A s \in Lock : Owner(t, s)' <=> Owner(t, s)
  BY <1>1, <1>2, <1>4, ThreadsAssumption DEF Owner, Handed, Sem
<1> QED BY <1>1, <1>3, <1>6, <1>7, OneThread

\* rt_sem_take joins the wait queue: the caller claims s and does not own it.
LEMMA TakeBlockLocks ==
  ASSUME Held, Locks, NEW t \in Thread \ {Idle}, NEW s \in Sem, NEW i \in Times, TakeBlock(t, s, i)
  PROVE  Locks'
<1>1. pc[t] = "user" /\ k.statu[t] = "RUNNING"
  BY AtFacts, SMTT(60) DEF TakeBlock, AtUser
<1>2. Whole(k, Freeing) /\ k' = Block(k, t, s, i) /\ s \in Wait /\ i \in Tick \cup {-1}
  BY ThreadsAssumption DEF Held, TakeBlock, Sem
<1>3. Called(k, t, k', Freeing, "SUSPEND") /\ Homes(k', t) = {s} /\ k'.error[t] = "EOK"
  <2>1. BlockCall
    BY KernelCalls
  <2> QED BY <1>1, <1>2, <2>1, SMTT(60) DEF BlockCall
<1>4. /\ k'.statu[t] = "SUSPEND" /\ t \in Nodes(k'.list[s])
      /\ \A r \in Sem \ {s} : t \notin Nodes(k'.list[r])
  BY <1>2, <1>3 DEF Called, Homes, ListHead, Sem
<1>5. /\ pc'[t] = "wait" /\ sem'[t] = s
      /\ \A u \in Thread \ {t} : pc'[u] = pc[u] /\ sem'[u] = sem[u]
      /\ holds' = holds /\ value' = value /\ lost' = lost
  BY DEF TakeBlock, Held, TypeOK
<1>6. \A u \in Thread \ {t} : Untouched(u)
  BY <1>3, <1>5, DidApart DEF Untouched, Called
<1>7. Alive(t) /\ Alive(t)'
  BY <1>1, <1>4 DEF Alive
<1>8. Settled(t)'
  BY <1>3, <1>4, <1>5, <1>7 DEF Settled, Claims
<1>9. \A r \in Lock : Owner(t, r)' <=> Owner(t, r)
  BY <1>1, <1>4, <1>5, <1>7 DEF Owner, Handed
<1> QED BY <1>5, <1>6, <1>8, <1>9, OneThread

\* The woken thread: ready, in no wait queue, without a timer; the others are
\* where they were.
LEMMA WokenApart ==
  ASSUME Held, NEW s \in Sem, k.statu[k.cur] = "RUNNING", ~ rt_list_isempty(k.list[s]),
         NEW j, j = Resumed(s)
  PROVE  \E w \in Thread \ {k.cur} :
           /\ w \in Nodes(k.list[s]) /\ Alive(w) /\ \A u \in Thread \ {w} : Apart(k, u, j)
           /\ \A r \in Sem : w \in Nodes(k.list[r]) => r = s
           /\ j.error = k.error /\ j.statu[w] = "READY" /\ w \notin j.active
           /\ \A h \in Wait : w \notin Nodes(j.list[h])
<1>1. PICK w \in Thread : /\ w # k.cur /\ k.statu[w] = "SUSPEND"
                          /\ w \in Nodes(k.list[s]) /\ j.error = k.error
                          /\ Called(k, w, j, Freeing, "READY")
                          /\ Homes(j, w) = {prio[w]}
  BY ResumedFacts
<1>2. \A u \in Thread \ {w} : Apart(k, u, j)
  BY <1>1, DidApart DEF Called
<1>3. j.statu[w] = "READY" /\ w \notin j.active
  BY <1>1 DEF Called, Whole, TimersMatch
<1>4. \A h \in Wait : w \notin Nodes(j.list[h])
  BY <1>1, ReadyOnly
<1>5. \A r \in Sem : w \in Nodes(k.list[r]) => r = s
  BY <1>1 DEF Held, Whole, Sound, Placed, ListHead, Sem
<1> QED BY <1>1, <1>2, <1>3, <1>4, <1>5 DEF Alive

\* A release of s by the running thread t, with whatever follows it in the
\* same step: t gives its token back or passes it on.
LEMMA ReleaseLocks ==
  ASSUME Held, Locks, NEW t \in Thread, t = k.cur, k.statu[t] = "RUNNING", NEW s \in Sem,
         NEW j, j = Resumed(s), \A u \in Thread : Apart(j, u, k'),
         \A u \in Thread \ {t} : pc'[u] = pc[u] /\ sem'[u] = sem[u] /\ holds'[u] = holds[u],
         value' = Raised(s), lost' = lost, Settled(t)',
         \A r \in Lock \ {s} : Owner(t, r)' <=> Owner(t, r),
         s \in Lock => Owner(t, s) /\ ~ Owner(t, s)'
  PROVE  Locks'
<1>0. value \in [Sem -> Nat] /\ Lock \subseteq Sem
  BY ThreadsAssumption DEF Held, TypeOK
<1>1. CASE rt_list_isempty(k.list[s])
  <2>1. j = k /\ value' = [value EXCEPT ![s] = @ + 1]
    BY <1>1 DEF Resumed, Raised
  <2>2. \A u \in Thread \ {t} : Untouched(u)
    BY <2>1 DEF Untouched
  <2>3. \A u \in Thread : Settled(u)'
    BY <2>2, UntouchedFacts DEF Locks
  <2>4. ASSUME NEW r \in Lock PROVE Account(r)'
    <3>1. Account(r) /\ r \in Sem /\ \A u \in Thread \ {t} : Owner(u, r)' <=> Owner(u, r)
      BY <1>0, <2>2, UntouchedFacts DEF Locks
    <3>2. CASE r = s
      BY <1>0, <2>1, <3>1, <3>2, TokenReturned
    <3>3. CASE r # s
      <4>1. value'[r] = value[r] /\ \A u \in Thread : Owner(u, r)' <=> Owner(u, r)
        BY <1>0, <2>1, <3>1, <3>3
      <4> QED BY <3>1, <4>1, TokenStays
    <3> QED BY <3>2, <3>3
  <2> QED BY <2>3, <2>4 DEF Locks
<1>2. CASE ~ rt_list_isempty(k.list[s])
  <2>1. PICK w \in Thread \ {k.cur} :
           /\ w \in Nodes(k.list[s]) /\ Alive(w) /\ \A u \in Thread \ {w} : Apart(k, u, j)
           /\ \A r \in Sem : w \in Nodes(k.list[r]) => r = s
           /\ j.error = k.error /\ j.statu[w] = "READY" /\ w \notin j.active
           /\ \A h \in Wait : w \notin Nodes(j.list[h])
    BY <1>2, WokenApart
  <2>2. value' = value /\ w # t
    BY <1>2, <2>1 DEF Raised
  <2>3. \A u \in Thread \ {t, w} : Untouched(u)
    BY <2>1, ApartTrans DEF Untouched
  <2>4. /\ Alive(w)' /\ k'.statu[w] # "SLEEP" /\ w \notin k'.active /\ k'.error[w] = k.error[w]
        /\ \A h \in Wait : w \notin Nodes(k'.list[h])
    <3>1. Apart(j, w, k')
      BY <2>1
    <3>2. k'.statu[w] \notin {"INIT", "CLOSE", "SLEEP"}
      BY <2>1, <3>1 DEF Apart
    <3>3. k'.error[w] = k.error[w] /\ w \notin k'.active
      BY <2>1, <3>1 DEF Apart
    <3>4. \A h \in Wait : w \notin Nodes(k'.list[h])
      BY <2>1, <3>1 DEF Apart
    <3> QED BY <3>2, <3>3, <3>4 DEF Alive
  <2>5. pc'[w] = pc[w] /\ sem'[w] = sem[w] /\ holds'[w] = holds[w] /\ Settled(w)
    BY <2>2 DEF Locks
  <2>6. Settled(w)'
    BY <2>4, <2>5 DEF Settled, Sem
  <2>7. \A u \in Thread : Settled(u)'
    BY <2>3, <2>6, UntouchedFacts DEF Locks
  <2>8. \A r \in Sem : Claims(w, r)' <=> Claims(w, r)
    BY <2>4, <2>5 DEF Claims
  <2>9. \A r \in Sem \ {s} : Owner(w, r)' <=> Owner(w, r)
    BY <2>1, <2>4, <2>5, <2>8 DEF Owner, Handed, Claims, Sem
  <2>10. Owner(w, s)'
    <3>1. Claims(w, s)
      BY <2>1, <2>5 DEF Settled
    <3> QED BY <2>4, <2>8, <3>1 DEF Owner, Handed, Claims, Sem
  <2>11. ASSUME NEW r \in Lock PROVE Account(r)'
    <3>1. Account(r) /\ r \in Sem /\ \A u \in Thread \ {t, w} : Owner(u, r)' <=> Owner(u, r)
      BY <1>0, <2>3, UntouchedFacts DEF Locks
    <3>2. CASE r = s
      BY <2>2, <2>10, <3>1, <3>2, TokenPassed
    <3>3. CASE r # s
      <4>1. \A u \in Thread : Owner(u, r)' <=> Owner(u, r)
        BY <2>9, <3>1, <3>3
      <4> QED BY <2>2, <3>1, <4>1, TokenStays
    <3> QED BY <3>2, <3>3
  <2> QED BY <2>7, <2>11 DEF Locks
<1> QED BY <1>1, <1>2

\* rt_sem_release
LEMMA SemReleaseLocks ==
  ASSUME Held, Locks, NEW t \in Thread, NEW s \in Sem, Release(t, s)
  PROVE  Locks'
<1>1. pc[t] = "user" /\ k.statu[t] = "RUNNING" /\ t = k.cur
  BY AtFacts, SMTT(60) DEF Release
<1>2. /\ k' = Resumed(s) /\ value' = Raised(s) /\ lost' = lost /\ sem' = sem
      /\ pc'[t] \in {"user", "sched"} /\ holds'[t] = holds[t] \ {s}
      /\ \A u \in Thread \ {t} : pc'[u] = pc[u] /\ holds'[u] = holds[u]
      /\ s \in Lock => s \in holds[t]
  BY DEF Release, Held, TypeOK
<1>3. \A u \in Thread : Apart(k', u, k')
  BY DEF Apart
<1>4. Apart(k, t, k')
  <2>1. CASE rt_list_isempty(k.list[s])
    BY <1>2, <2>1 DEF Resumed, Apart
  <2>2. CASE ~ rt_list_isempty(k.list[s])
    <3>1. k.statu[k.cur] = "RUNNING"
      BY <1>1
    <3> QED BY <1>1, <1>2, <2>2, <3>1, WokenApart
  <2> QED BY <2>1, <2>2
<1>5. t \notin k.active /\ Alive(t) /\ \A h \in Wait : t \notin Nodes(k.list[h])
  BY <1>1, RunningSettled
<1>6. Alive(t)' /\ t \notin k'.active /\ \A h \in Wait : t \notin Nodes(k'.list[h])
  BY <1>4, <1>5 DEF Apart, Alive
<1>7. Settled(t)'
  BY <1>2, <1>6 DEF Locks, Settled, Sem
<1>8. \A r \in Lock : (Owner(t, r) <=> r \in holds[t]) /\ (Owner(t, r)' <=> r \in holds'[t])
  BY <1>1, <1>2, <1>5, <1>6 DEF Owner, Handed
<1>9. /\ \A r \in Lock \ {s} : Owner(t, r)' <=> Owner(t, r)
      /\ s \in Lock => Owner(t, s) /\ ~ Owner(t, s)'
  BY <1>2, <1>8
<1> QED BY <1>1, <1>2, <1>3, <1>7, <1>9, ReleaseLocks

\* malloc or free takes heap_sem, or claims it in its wait queue
LEMMA HeapTakeLocks ==
  ASSUME Held, Locks, NEW t \in Thread, HeapTake(t)
  PROVE  Locks'
<1>1. pc[t] = "heap" /\ k.statu[t] = "RUNNING" /\ t = k.cur
  BY AtFacts, SMTT(60) DEF HeapTake
<1>2. /\ pc'[t] = "inheap" /\ \A u \in Thread \ {t} : pc'[u] = pc[u]
      /\ holds' = holds /\ sem' = sem /\ lost' = lost
  BY DEF HeapTake, Held, TypeOK
<1>3. /\ Heap \in Lock /\ Lock \subseteq Sem /\ value \in [Sem -> Nat]
      /\ Heap \notin holds[t] /\ (t = Idle => holds[t] = {})
  BY <1>1, ThreadsAssumption DEF Held, TypeOK, Locks, Settled
<1>4. t \notin k.active /\ Alive(t) /\ \A h \in Wait : t \notin Nodes(k.list[h])
  BY <1>1, RunningSettled
<1>5. CASE value[Heap] > 0 /\ value' = [value EXCEPT ![Heap] = @ - 1] /\ UNCHANGED k
  <2>1. \A u \in Thread \ {t} : Untouched(u)
    BY <1>2, <1>5, SameApart
  <2>2. Alive(t)' /\ t \notin k'.active /\ \A h \in Wait : t \notin Nodes(k'.list[h])
    BY <1>4, <1>5 DEF Alive
  <2>3. Settled(t)'
    BY <1>1, <1>2, <1>3, <1>5, <2>2 DEF Settled, Sem
  <2>4. Owner(t, Heap)'
    BY <1>2, <1>3, <2>2 DEF Owner, Handed, Sem
  <2>5. \A r \in Lock \ {Heap} : Owner(t, r)' <=> Owner(t, r)
    BY <1>1, <1>2, <1>4, <2>2 DEF Owner, Handed
  <2>6. value'[Heap] = value[Heap] - 1 /\ \A r \in Sem \ {Heap} : value'[r] = value[r]
    BY <1>3, <1>5
  <2>7. ASSUME NEW r \in Lock PROVE Account(r)'
    <3>1. Account(r) /\ r \in Sem /\ \A u \in Thread \ {t} : Owner(u, r)' <=> Owner(u, r)
      BY <1>3, <2>1, UntouchedFacts DEF Locks
    <3>2. CASE r = Heap
      BY <1>2, <1>5, <2>4, <2>6, <3>1, <3>2, TokenTaken
    <3>3. CASE r # Heap
      <4>1. \A u \in Thread : Owner(u, r)' <=> Owner(u, r)
        BY <2>5, <3>1, <3>3
      <4> QED BY <1>2, <2>6, <3>1, <3>3, <4>1, TokenStays
    <3> QED BY <3>2, <3>3
  <2>8. \A u \in Thread \ {t} : Settled(u)'
    BY <2>1, UntouchedFacts DEF Locks
  <2> QED BY <2>3, <2>7, <2>8 DEF Locks
<1>6. CASE value[Heap] = 0 /\ k' = rt_schedule(Block(k, t, Heap, -1)) /\ UNCHANGED value
  <2> DEFINE j == Block(k, t, Heap, -1)
  <2>1. k' = rt_schedule(j)
    BY <1>6
  <2>2. Whole(k, Freeing) /\ j = Block(k, t, Heap, -1) /\ Heap \in Wait /\ -1 \in Tick \cup {-1}
    BY <1>3 DEF Held, Sem
  <2> HIDE DEF j
  <2>3. Called(k, t, j, Freeing, "SUSPEND") /\ Homes(j, t) = {Heap} /\ t \notin j.active
    BY <1>1, <2>2, KernelCalls, SMTT(60) DEF BlockCall
  <2>4. /\ Whole(j, Freeing) /\ Did(k, t, j) /\ j.statu[t] = "SUSPEND"
        /\ t \in Nodes(j.list[Heap]) /\ \A r \in Sem \ {Heap} : t \notin Nodes(j.list[r])
    BY <2>2, <2>3 DEF Called, Homes, ListHead, Sem
  <2>5. \A u \in Thread : Apart(j, u, k')
    BY <2>1, <2>4, KernelCalls, RescheduledApart DEF ScheduleCall
  <2>6. \A u \in Thread \ {t} : Untouched(u)
    BY <1>2, <2>4, <2>5, DidApart, ApartTrans DEF Untouched
  <2>7. /\ Alive(t)' /\ k'.statu[t] # "SLEEP" /\ t \notin k'.active
        /\ t \in Nodes(k'.list[Heap]) /\ \A r \in Sem \ {Heap} : t \notin Nodes(k'.list[r])
    BY <2>2, <2>3, <2>4, <2>5 DEF Apart, Alive, Sem
  <2>8. Settled(t)'
    BY <1>2, <1>3, <2>7 DEF Settled, Claims
  <2>9. \A r \in Lock : Owner(t, r)' <=> Owner(t, r)
    BY <1>1, <1>2, <1>4, <2>7 DEF Owner, Handed
  <2> QED BY <1>2, <1>6, <2>6, <2>8, <2>9, OneThread
<1> QED BY <1>5, <1>6 DEF HeapTake

\* What malloc or free does after the release concerns no lock.
LEMMA LeavingApart ==
  ASSUME Held, NEW t \in Thread, HeapLeave(t)
  PROVE  \A u \in Thread : Apart(Resumed(Heap), u, k')
<1> DEFINE j == Resumed(Heap)
           r == Unlocked(t)
<1>1. k \in State /\ k.cur = t /\ pc[t] = "inheap" /\ k.statu[t] = "RUNNING" /\ Heap \in Sem
  BY AtFacts, ThreadsAssumption, SMTT(60) DEF HeapLeave
<1>2. j \in State /\ \A u \in Thread : k.statu[u] = "CLOSE" => j.statu[u] = "CLOSE"
  <2>1. CASE j = k
    BY <1>1, <2>1
  <2>2. ASSUME NEW w \in Thread, k.statu[w] = "SUSPEND", Called(k, w, j, Freeing, "READY")
        PROVE  j \in State /\ \A u \in Thread : k.statu[u] = "CLOSE" => j.statu[u] = "CLOSE"
    <3> HIDE DEF j
    <3> QED BY <2>2 DEF Called, Whole, Sound, Did, Aside
  <2> QED BY <1>1, <2>1, <2>2, ResumedFacts
<1>3. Whole(r, Freeing') /\ (k' = r \/ k' = rt_schedule(r))
  BY UnlockedFacts DEF HeapLeave, LeftHeap, Unlocked
<1>4. ASSUME NEW u \in Thread PROVE Apart(j, u, r)
  <2>1. CASE t = Idle /\ calls[t] = 1
    <3>1. work[t] \in Thread /\ k.statu[work[t]] = "CLOSE"
      BY <1>1, <2>1 DEF Held, FreeingClosed
    <3>2. r = [j EXCEPT !.statu = [j.statu EXCEPT ![work[t]] = "INIT"]]
      BY <1>2, <2>1 DEF Unlocked, State
    <3> HIDE DEF j, r
    <3>3. /\ r.error = j.error /\ r.active = j.active /\ r.list = j.list
          /\ r.statu = [j.statu EXCEPT ![work[t]] = "INIT"] /\ j.statu \in [Thread -> Statu]
      BY <1>2, <3>2 DEF State
    <3>4. r.statu[u] = j.statu[u] \/ (r.statu[u] = "INIT" /\ j.statu[u] = "CLOSE")
      BY <1>2, <3>1, <3>3
    <3> QED BY <3>3, <3>4 DEF Apart
  <2>2. CASE ~ (t = Idle /\ calls[t] = 1)
    <3>1. r = j
      BY <1>2, <2>2 DEF Unlocked, State
    <3> QED BY <3>1 DEF Apart
  <2> QED BY <2>1, <2>2
<1> HIDE DEF j, r
<1>5. CASE k' = r
  BY <1>4, <1>5 DEF j
<1>6. CASE k' = rt_schedule(r)
  <2>1. \A u \in Thread : Apart(r, u, k')
    BY <1>3, <1>6, KernelCalls, RescheduledApart DEF ScheduleCall
  <2> QED BY <1>4, <2>1, ApartTrans DEF j
<1> QED BY <1>3, <1>5, <1>6

\* malloc or free gives heap_sem back
LEMMA HeapLeaveLocks ==
  ASSUME Held, Locks, NEW t \in Thread, HeapLeave(t)
  PROVE  Locks'
<1> DEFINE j == Resumed(Heap)
<1>1. pc[t] = "inheap" /\ k.statu[t] = "RUNNING" /\ t = k.cur /\ Heap \in Lock /\ Heap \in Sem
  BY AtFacts, ThreadsAssumption, SMTT(60) DEF HeapLeave
<1>2. /\ value' = Raised(Heap) /\ lost' = lost /\ sem' = sem /\ holds' = holds
      /\ pc'[t] \in {"done", "heap"} /\ \A u \in Thread \ {t} : pc'[u] = pc[u]
  BY DEF HeapLeave, Held, TypeOK
<1>3. \A u \in Thread : Apart(j, u, k')
  BY LeavingApart
<1>4. t \notin k.active /\ Alive(t) /\ \A h \in Wait : t \notin Nodes(k.list[h])
  BY <1>1, RunningSettled
<1>5. Apart(k, t, j)
  <2>1. CASE rt_list_isempty(k.list[Heap])
    BY <2>1 DEF Resumed, Apart
  <2>2. CASE ~ rt_list_isempty(k.list[Heap])
    <3>1. k.statu[k.cur] = "RUNNING" /\ j = Resumed(Heap)
      BY <1>1
    <3> HIDE DEF j
    <3> QED BY <1>1, <2>2, <3>1, WokenApart
  <2> QED BY <2>1, <2>2
<1>6. j = Resumed(Heap)
  OBVIOUS
<1> HIDE DEF j
<1>7. /\ Alive(t)' /\ k'.statu[t] # "SLEEP" /\ t \notin k'.active
      /\ \A h \in Wait : t \notin Nodes(k'.list[h])
  BY <1>1, <1>3, <1>4, <1>5, ApartTrans DEF Apart, Alive
<1>8. Heap \notin holds[t] /\ (t = Idle => holds[t] = {})
  BY <1>1 DEF Locks, Settled
<1>9. Settled(t)'
  BY <1>2, <1>7, <1>8 DEF Settled, Sem
<1>10. Owner(t, Heap) /\ ~ Owner(t, Heap)'
  BY <1>1, <1>2, <1>4, <1>8 DEF Owner, Handed, Sem
<1>11. \A r \in Lock \ {Heap} : Owner(t, r)' <=> Owner(t, r)
  BY <1>1, <1>2, <1>4, <1>7 DEF Owner, Handed
<1> QED BY <1>1, <1>2, <1>3, <1>6, <1>9, <1>10, <1>11, ReleaseLocks

\* The running thread moves on in its code and the kernel state stays.
LEMMA MoveLocks ==
  ASSUME Held, Locks, NEW t \in Thread, k.statu[t] = "RUNNING", k' = k,
         pc[t] \notin {"wait", "taken", "inheap"}, pc'[t] \notin {"wait", "taken", "inheap"},
         pc'[t] = "heap" => Heap \notin holds[t], pc'[t] # "done",
         \A u \in Thread \ {t} : pc'[u] = pc[u], UNCHANGED <<value, sem, holds, lost>>
  PROVE  Locks'
<1>1. t \notin k.active /\ Alive(t) /\ \A h \in Wait : t \notin Nodes(k.list[h])
  BY RunningSettled
<1>2. \A u \in Thread \ {t} : Untouched(u)
  BY SameApart
<1>3. Alive(t)'
  BY <1>1 DEF Alive
<1>4. Settled(t)'
  BY <1>1, <1>3 DEF Locks, Settled, Sem
<1>5. \A s \in Lock : Owner(t, s)' <=> Owner(t, s)
  BY <1>1, <1>3 DEF Owner, Handed
<1> QED BY <1>2, <1>4, <1>5, OneThread

\* thread_join_init up to its first malloc, and its end without memory
LEMMA CreateLocks ==
  ASSUME Held, Locks, NEW t \in Thread, CreateFail(t) \/ \E u \in Thread : CreateStart(t, u)
  PROVE  Locks'
<1>1. CASE CreateFail(t)
  <2>1. k.statu[t] = "RUNNING" /\ pc[t] = "done"
    BY <1>1, AtFacts, SMTT(60) DEF CreateFail
  <2>2. pc'[t] = "user" /\ k' = k /\ \A u \in Thread \ {t} : pc'[u] = pc[u]
    BY <1>1 DEF CreateFail, Held, TypeOK
  <2> QED BY <1>1, <2>1, <2>2, MoveLocks DEF CreateFail
<1>2. ASSUME NEW u \in Thread, CreateStart(t, u) PROVE Locks'
  <2>1. k.statu[t] = "RUNNING" /\ pc[t] = "user" /\ Heap \notin holds[t]
    BY <1>2, AtFacts, SMTT(60) DEF CreateStart, AtUser
  <2>2. pc'[t] = "heap" /\ k' = k /\ \A v \in Thread \ {t} : pc'[v] = pc[v]
    BY <1>2 DEF CreateStart, Held, TypeOK
  <2> QED BY <1>2, <2>1, <2>2, MoveLocks DEF CreateStart
<1> QED BY <1>1, <1>2

\* thread_join_init makes a thread ready, which owns nothing
LEMMA CreateReadyLocks ==
  ASSUME Held, Locks, NEW t \in Thread, CreateReady(t)
  PROVE  Locks'
<1>1. pc[t] = "done" /\ k.statu[t] = "RUNNING" /\ t # Idle
  BY AtFacts, SMTT(60) DEF CreateReady
<1>2. PICK u \in Thread : u = work[t] /\ k.statu[u] = "INIT" /\ u # Idle
  BY <1>1 DEF Held, TypeOK, CreateReady, SlotsFree, Alive
<1>3. k' = Joined(u) /\ Whole(k, Freeing)
  BY <1>2 DEF CreateReady, Joined, Held
<1>4. /\ Quiet(k, u, k') /\ Whole(k', Freeing) /\ k'.statu[u] = "READY"
      /\ \A v \in Thread \ {u} : k'.statu[v] = k.statu[v]
      /\ \A h \in Wait \cup {Dead} : u \notin Nodes(k'.list[h])
      /\ \A v \in Thread \ {u} : k'.error[v] = k.error[v] /\ (v \in k'.active <=> v \in k.active)
  BY <1>2, <1>3, JoinedFacts
<1>5. u \notin k'.active
  BY <1>2, <1>4 DEF Whole, TimersMatch
<1>6. /\ pc \in [Thread -> Pc] /\ pc' = [pc EXCEPT ![t] = "user", ![u] = "user"] /\ u # t
      /\ holds' = holds /\ sem' = sem /\ value' = value /\ lost' = lost
  BY <1>1, <1>2 DEF Held, TypeOK, CreateReady
<1>7. pc'[t] = "user" /\ pc'[u] = "user" /\ \A v \in Thread \ {t, u} : pc'[v] = pc[v]
  BY <1>2, <1>6
<1>8. \A v \in Thread \ {u} : Apart(k, v, k')
  BY <1>4 DEF Apart, Quiet
<1>9. \A v \in Thread \ {t, u} : Untouched(v)
  BY <1>6, <1>7, <1>8 DEF Untouched
<1>10. t \notin k.active /\ Alive(t) /\ \A h \in Wait : t \notin Nodes(k.list[h])
  BY <1>1, RunningSettled
<1>11. Alive(t)' /\ t \notin k'.active /\ \A h \in Wait : t \notin Nodes(k'.list[h])
  BY <1>6, <1>8, <1>10 DEF Apart, Alive
<1>12. Settled(t)' /\ \A s \in Lock : Owner(t, s)' <=> Owner(t, s)
  BY <1>1, <1>6, <1>7, <1>10, <1>11 DEF Settled, Sem, Owner, Handed
<1>13. ~ Alive(u) /\ holds[u] = {}
  BY <1>2 DEF Alive, Locks, Settled
<1>14. Settled(u)'
  <2>1. \A s \in Sem : u \notin Nodes(k'.list[s])
    BY <1>4 DEF Sem
  <2>2. k'.statu[u] # "SLEEP" /\ holds'[u] = {}
    BY <1>4, <1>6, <1>13
  <2> QED BY <1>2, <1>5, <1>7, <2>1, <2>2 DEF Settled
<1>15. \A s \in Lock : ~ Owner(u, s)' /\ ~ Owner(u, s)
  BY <1>6, <1>7, <1>13 DEF Owner, Handed
<1>16. ASSUME NEW v \in Thread
       PROVE  Settled(v)' /\ \A s \in Lock : Owner(v, s)' <=> Owner(v, s)
  <2>1. CASE v = t
    BY <1>12, <2>1
  <2>2. CASE v = u
    BY <1>14, <1>15, <2>2
  <2>3. CASE v \in Thread \ {t, u}
    BY <1>9, <2>3, UntouchedFacts, ThreadsAssumption DEF Locks
  <2> QED BY <2>1, <2>2, <2>3
<1>17. ASSUME NEW s \in Lock PROVE Account(s)'
  BY <1>6, <1>16, TokenStays DEF Locks
<1> QED BY <1>16, <1>17 DEF Locks

\* rt_thread_exit and killThreadFun: the locks of t go with it
LEMMA EndLocks ==
  ASSUME Held, Locks, NEW t \in Thread \ {Idle}, t \notin Freeing, k' = Close(k, t), Ended(t),
         UNCHANGED <<value, sem>>, \A u \in Thread \ {t} : pc'[u] = pc[u]
  PROVE  Locks'
<1>1. Called(k, t, k', Freeing, "CLOSE") /\ Homes(k', t) = {Dead}
  BY KernelCalls DEF CloseCall, Held
<1>2. k'.statu[t] = "CLOSE" /\ t \notin k'.active
  BY <1>1 DEF Called, Whole, TimersMatch
<1>3. \A h \in Wait : t \notin Nodes(k'.list[h])
  BY <1>1, KernelAssumption, SMTT(60) DEF Homes, ListHead
<1>4. holds'[t] = {} /\ \A u \in Thread \ {t} : holds'[u] = holds[u]
  BY DEF Ended, Held, TypeOK
<1>5. \A u \in Thread \ {t} : Untouched(u)
  BY <1>1, <1>4, DidApart DEF Untouched, Called
<1>6. ~ Alive(t)'
  BY <1>2 DEF Alive
<1>7. Settled(t)'
  BY <1>2, <1>3, <1>4 DEF Settled, Sem
<1>8. ASSUME NEW s \in Lock PROVE Account(s)'
  <2>1. Account(s) /\ s \in Sem /\ \A u \in Thread \ {t} : Owner(u, s)' <=> Owner(u, s)
    BY <1>5, UntouchedFacts, ThreadsAssumption DEF Locks
  <2>2. ~ Owner(t, s)'
    BY <1>6 DEF Owner
  <2>3. s \in lost' <=> s \in lost \/ Owner(t, s)
    BY DEF Ended
  <2> QED BY <2>1, <2>2, <2>3, TokenLost
<1>9. \A u \in Thread \ {t} : Settled(u)'
  BY <1>5, UntouchedFacts DEF Locks
<1> QED BY <1>7, <1>8, <1>9 DEF Locks

\* The same for the two actions
LEMMA LifeLocks ==
  ASSUME Held, Locks, NEW t \in Victim, Exit(t) \/ Kill(t)
  PROVE  Locks'
<1>1. t \in Thread \ {Idle, Shell} /\ Shell \in Thread /\ Idle \in Thread
  BY ThreadsAssumption
<1>2. CASE Exit(t)
  <2>1. k.statu[t] = "RUNNING"
    <3>1. At(t, "user")
      BY <1>2 DEF Exit, AtUser
    <3> QED BY <3>1, AtFacts, SMTT(60)
  <2>2. t \notin Freeing
    BY <2>1 DEF Freeing, Held, FreeingClosed
  <2>3. \A u \in Thread \ {t} : pc'[u] = pc[u]
    BY <1>2 DEF Exit, Held, TypeOK
  <2> QED BY <1>1, <1>2, <2>2, <2>3, EndLocks DEF Exit
<1>3. CASE Kill(t)
  <2>1. k.cur = Shell
    BY <1>3, AtFacts DEF Kill, AtUser
  <2> QED BY <1>1, <1>3, <2>1, EndLocks DEF Kill
<1> QED BY <1>2, <1>3

\* The idle thread takes a closed thread out of the dead list; it owns nothing
LEMMA ReapLocks ==
  ASSUME Held, Locks, NEW u \in Thread, u \in Nodes(k.list[Dead]), Reap(k, u),
         At(Idle, "user") \/ At(Idle, "done"), UNCHANGED <<value, sem, holds, lost, walk>>
  PROVE  Locks'
<1>1. pc[Idle] \in {"user", "done"} /\ k.statu[Idle] = "RUNNING" /\ Idle \in Thread
  BY AtFacts, SMTT(60)
<1>2. /\ Whole(k, Freeing) /\ k' = Unlink(k, u) /\ k.statu[u] = "CLOSE"
      /\ \A s \in Wait : u \notin Nodes(k.list[s])
  BY DEF Held, Reap, Whole, Sound, Placed, ListHead
<1>3. /\ pc'[Idle] = "heap" /\ work'[Idle] = u /\ \A v \in Thread \ {Idle} : pc'[v] = pc[v]
  BY <1>1, <1>2 DEF Reap, Held, TypeOK
<1>4. u \in Freeing' /\ \A v \in Thread \ {u} : v \in Freeing' <=> v \in Freeing
  BY <1>1, <1>3 DEF Freeing
<1>5. Called(k, u, k', Freeing', "CLOSE") /\ k'.error = k.error /\ Homes(k', u) = {}
  <2>1. Called(k, u, k', Freeing', "CLOSE") /\ Homes(k', u) = {}
    BY <1>2, <1>4, KernelCalls DEF ReapCall
  <2>2. k'.error = k.error
    BY <1>2, <1>4, KernelCalls DEF ReapCall
  <2> QED BY <2>1, <2>2
<1>6. Apart(k, u, k')
  <2>1. k'.statu[u] = "CLOSE" /\ u \notin k'.active
    BY <1>5 DEF Called, Whole, TimersMatch
  <2>2. \A s \in Wait : u \notin Nodes(k'.list[s])
    BY <1>5 DEF Homes, ListHead
  <2> QED BY <1>2, <1>5, <2>1, <2>2 DEF Apart
<1>7. \A v \in Thread : Apart(k, v, k')
  BY <1>5, <1>6, DidApart DEF Called
<1>8. \A v \in Thread \ {Idle} : Untouched(v)
  BY <1>3, <1>7 DEF Untouched
<1>9. Idle \notin k.active /\ Alive(Idle) /\ \A h \in Wait : Idle \notin Nodes(k.list[h])
  BY <1>1, RunningSettled
<1>10. /\ Alive(Idle)' /\ Idle \notin k'.active /\ k'.statu[Idle] # "SLEEP"
       /\ \A h \in Wait : Idle \notin Nodes(k'.list[h])
  BY <1>1, <1>7, <1>9 DEF Apart, Alive
<1>11. holds[Idle] = {}
  BY <1>1 DEF Locks, Settled
<1>12. Settled(Idle)'
  BY <1>3, <1>10, <1>11 DEF Settled, Sem
<1>13. \A s \in Lock : ~ Owner(Idle, s)' /\ ~ Owner(Idle, s)
  BY <1>1, <1>3, <1>11 DEF Owner, Handed
<1> QED BY <1>1, <1>8, <1>12, <1>13, OneThread

\* The idle thread's walk of the dead list
LEMMA IdleLocks ==
  ASSUME Held, Locks, IdleLook \/ IdleNext
  PROVE  Locks'
<1>1. Idle \in Thread
  BY ThreadsAssumption
<1>2. CASE IdleLook
  <2>1. k \in State /\ pc[Idle] = "user" /\ k.statu[Idle] = "RUNNING"
    BY <1>2, AtFacts, SMTT(60) DEF IdleLook
  <2>2. CASE ~ rt_list_isempty(k.list[Dead]) /\ Reap(k, k.list[Dead][1])
    <3>1. k.list[Dead] \in Seq(Thread)
      BY <2>1 DEF State, ListHead
    <3>2. k.list[Dead][1] \in Thread /\ k.list[Dead][1] \in Nodes(k.list[Dead])
      BY <2>2, <3>1, IsEmptyNodes
    <3> QED BY <1>2, <2>2, <3>2, ReapLocks DEF IdleLook
  <2>3. CASE pc' = [pc EXCEPT ![Idle] = "delay"] /\ UNCHANGED <<k, heapwork>>
    <3>1. pc'[Idle] = "delay" /\ k' = k /\ \A u \in Thread \ {Idle} : pc'[u] = pc[u]
      BY <1>1, <2>3 DEF Held, TypeOK
    <3> QED BY <1>1, <1>2, <2>1, <3>1, MoveLocks DEF IdleLook
  <2> QED BY <1>2, <2>2, <2>3 DEF IdleLook
<1>3. CASE IdleNext
  <2>1. pc[Idle] = "done" /\ k.statu[Idle] = "RUNNING"
    BY <1>3, AtFacts, SMTT(60) DEF IdleNext
  <2>2. CASE next # None /\ Reap(k, next)
    <3>1. next \in Thread /\ next \in Nodes(k.list[Dead])
      BY <2>2 DEF Held, NextDead, TypeOK
    <3> QED BY <1>3, <2>2, <3>1, ReapLocks DEF IdleNext
  <2>3. CASE pc' = [pc EXCEPT ![Idle] = "user"] /\ UNCHANGED k
    <3>1. pc'[Idle] = "user" /\ k' = k /\ \A u \in Thread \ {Idle} : pc'[u] = pc[u]
      BY <1>1, <2>3 DEF Held, TypeOK
    <3> QED BY <1>1, <1>3, <2>1, <3>1, MoveLocks DEF IdleNext
  <2> QED BY <1>3, <2>2, <2>3 DEF IdleNext
<1> QED BY <1>2, <1>3

\* A step that touches no thread, its locks and their values
LEMMA UntouchedLocks ==
  ASSUME Locks, \A u \in Thread : Untouched(u), value' = value, lost' = lost
  PROVE  Locks'
<1>1. Idle \in Thread /\ Lock \subseteq Sem
  BY ThreadsAssumption
<1>2. Settled(Idle) /\ Untouched(Idle)
  BY <1>1 DEF Locks
<1>3. Settled(Idle)' /\ \A s \in Lock : Owner(Idle, s)' <=> Owner(Idle, s)
  BY <1>1, <1>2, UntouchedFacts
<1> QED BY <1>1, <1>3, OneThread

\* The tick interrupt fires no timer before rt_timer_check, and none after it
LEMMA TickLocks ==
  ASSUME Held, Locks, TickEnter \/ TickExit
  PROVE  Locks'
<1>1. value' = value /\ lost' = lost /\ pc' = pc /\ sem' = sem /\ holds' = holds
  BY DEF TickEnter, TickExit
<1>2. CASE TickEnter
  <2>1. PICK j : /\ Whole(j, Freeing) /\ SameLists(k, j) /\ j.error = k.error
                 /\ k' = j \/ k' = rt_schedule(j)
    BY <1>2, TickEnterSteps
  <2>2. \A u \in Thread : Apart(k, u, j)
    BY <2>1 DEF SameLists, Apart
  <2>3. CASE k' = j
    BY <1>1, <2>2, <2>3, UntouchedLocks DEF Untouched
  <2>4. CASE k' = rt_schedule(j)
    <3>1. \A u \in Thread : Apart(j, u, k')
      BY <2>1, <2>4, KernelCalls, RescheduledApart DEF ScheduleCall
    <3>2. \A u \in Thread : Apart(k, u, k')
      BY <2>2, <3>1, ApartTrans
    <3> QED BY <1>1, <3>2, UntouchedLocks DEF Untouched
  <2> QED BY <2>1, <2>3, <2>4
<1>3. CASE TickExit
  <2>1. k \in State
    BY DEF Held, TypeOK
  <2>2. k'.error = k.error /\ k'.active = k.active /\ k'.statu = k.statu /\ k'.list = k.list
    BY <1>3, <2>1 DEF TickExit, State
  <2>3. \A u \in Thread : Apart(k, u, k')
    BY <2>2 DEF Apart
  <2> QED BY <1>1, <2>3, UntouchedLocks DEF Untouched
<1> QED BY <1>2, <1>3

\* A timer that fires ends a wait without the semaphore: its thread was not
\* resumed before, and its error says so after.
LEMMA TimerCheckLocks ==
  ASSUME Held, Locks, TimerCheck
  PROVE  Locks'
<1>1. PICK t \in Thread : t = pos /\ t \in k.active /\ k' = FireIfDue(k, t) /\ Whole(k, Freeing)
  BY DEF Held, TypeOK, TimerCheck, TimerWalk, Whole, TimersMatch
<1>2. value' = value /\ lost' = lost /\ pc' = pc /\ sem' = sem /\ holds' = holds
  BY DEF TimerCheck
<1>3. Whole(k', Freeing) /\ (k' = k \/ Fired(k, t, k'))
  BY <1>1, KernelCalls DEF FireCall
<1>4. CASE k' = k
  BY <1>2, <1>4, SameApart, UntouchedLocks
<1>5. CASE Fired(k, t, k')
  <2>1. k'.active = k.active \ {t}
    BY <1>1, <1>3, <1>5 DEF Fired, Whole, TimersMatch
  <2>2. ASSUME NEW u \in Thread \ {t} PROVE Untouched(u)
    <3>1. k'.error[u] = k.error[u] /\ (u \in k'.active => u \in k.active)
      BY <1>5, <2>1 DEF Fired
    <3>2. \A h \in Wait : u \in Nodes(k'.list[h]) <=> u \in Nodes(k.list[h])
      BY <1>5 DEF Fired, Quiet
    <3>3. \/ k'.statu[u] = k.statu[u]
          \/ k'.statu[u] \in {"READY", "RUNNING"} /\ k.statu[u] \in {"READY", "RUNNING"}
      BY <1>5 DEF Fired, Quiet
    <3> QED BY <1>2, <3>1, <3>2, <3>3 DEF Untouched, Apart
  <2>3. /\ k.statu[t] \in {"SLEEP", "SUSPEND"} /\ k'.statu[t] \in {"READY", "RUNNING"}
        /\ k'.error[t] = "ETIMEOUT" /\ t \notin k'.active
        /\ \A h \in Wait : t \notin Nodes(k'.list[h])
    BY <1>5, <2>1 DEF Fired
  <2>4. Settled(t) /\ pc[t] # "inheap" /\ Alive(t) /\ Alive(t)'
    BY <1>1, <2>3 DEF Locks, Settled, Alive
  <2>5. Settled(t)'
    BY <1>2, <2>3, <2>4 DEF Settled, Sem
  <2>6. \A s \in Lock : ~ Handed(t, s)
    <3>1. CASE k.statu[t] = "SLEEP"
      BY <2>4, <3>1 DEF Settled, Handed
    <3>2. CASE k.statu[t] = "SUSPEND"
      <4>1. PICK h \in ListHead : t \in Nodes(k.list[h])
        BY <1>1, <3>2 DEF Whole, Sound, Placed, Linked
      <4>2. h \in Wait
        BY <1>1, <3>2, <4>1 DEF Whole, Sound, Placed, ListHead
      <4>3. Claims(t, h)
        BY <2>4, <4>1, <4>2 DEF Settled, Sem
      <4> QED BY <2>4, <4>1, <4>3 DEF Claims, Handed
    <3> QED BY <2>3, <3>1, <3>2
  <2>7. \A s \in Lock : ~ Handed(t, s)'
    BY <1>2, <2>3, <2>4 DEF Handed
  <2>8. \A s \in Lock : Owner(t, s)' <=> Owner(t, s)
    BY <1>2, <2>4, <2>6, <2>7 DEF Owner
  <2> QED BY <1>2, <2>2, <2>5, <2>8, OneThread
<1> QED BY <1>3, <1>4, <1>5

\* Every step leaves every lock with one owner, or free, or lost.
LEMMA StepLocks ==
  ASSUME Held, Locks, [Next]_vars
  PROVE  Locks'
<1>1. /\ Idle \in Thread /\ Victim \subseteq Thread /\ Creator \subseteq Thread /\ Off \subseteq Thread
      /\ Taker \subseteq Thread \ {Idle} /\ IdleDelay \in Tick /\ Times \subseteq Tick \cup {-1} /\ -1 \notin Nat
  BY ThreadsAssumption, SMTT(60)
<1>2. CASE UNCHANGED vars
  BY <1>2, SameApart, UntouchedLocks DEF vars
<1>3. CASE TickEnter \/ TimerCheck \/ TickExit
  BY <1>3, TickLocks, TimerCheckLocks
<1>4. CASE IdleLook \/ IdleNext \/ Sleep(Idle, IdleDelay)
  BY <1>1, <1>4, IdleLocks, SleepLocks
<1>5. CASE \E u \in Victim : Kill(u) \/ Exit(u)
  BY <1>5, LifeLocks
<1>6. ASSUME NEW t \in Thread,
             \/ Compute(t) \/ Schedule(t) \/ TakeReturn(t) \/ HeapTake(t) \/ HeapLeave(t)
             \/ CreateReady(t) \/ CreateFail(t)
      PROVE  Locks'
  BY <1>2, <1>6, ScheduleLocks, TakeReturnLocks, HeapTakeLocks, HeapLeaveLocks, CreateReadyLocks,
     CreateLocks DEF Compute
<1>7. CASE \E t \in Creator, u \in Off \cup Victim : CreateStart(t, u)
  BY <1>1, <1>7, CreateLocks
<1>8. ASSUME NEW t \in Thread \ (Busy \cup {Idle}), NEW i \in Times, i >= 0, Sleep(t, i)
      PROVE  Locks'
  <2>1. i \in Tick
    BY <1>1, <1>8, SMTT(60)
  <2> QED BY <1>8, <2>1, SleepLocks
<1>9. CASE \E t \in Taker, s \in Sem : TakeNow(t, s) \/ Release(t, s)
  BY <1>1, <1>9, TakeNowLocks, SemReleaseLocks
<1>10. CASE \E t \in Taker \ Busy, s \in Sem, i \in Times : TakeBlock(t, s, i)
  BY <1>1, <1>10, TakeBlockLocks
<1> QED BY <1>2, <1>3, <1>4, <1>5, <1>6, <1>7, <1>8, <1>9, <1>10 DEF Next

-----------------------------------------------------------------------------
\* No timer is overdue, while the tick counter does not wrap.

\* The ends of all sleeps and waits lie below the range of a tick.
TicksFit == \A i \in Times \cup {IdleDelay} : MaxTick + i < TickRange

\* Node t is e or comes after e in the list s.
After(s, e, t) == \E i, j \in 1 .. Len(s) : i <= j /\ s[i] = e /\ s[j] = t

\* rt_timer_check has not come to the timer of t yet.
Behind(t) == pos # None /\ After(k.timers, pos, t)

\* A timer that is due lies ahead of the walk.
Prompt ==
  /\ k.tick <= MaxTick
  /\ \A t \in k.active : Behind(t) \/ k.tick <= k.timeout[t]

\* No timer runs at the start.
LEMMA InitPrompt ==
  ASSUME Init
  PROVE  Prompt
<1>1. k.tick = 0 /\ k.active = {} /\ MaxTick \in Nat
  BY ThreadsAssumption DEF Init
<1>2. k.tick <= MaxTick
  BY <1>1, SMTT(60)
<1> QED BY <1>1, <1>2 DEF Prompt

\* From j to r no timer becomes due: the tick is the same, and a timer is one
\* of before or ends later.
Punctual(j, r) ==
  /\ r.tick = j.tick
  /\ \A t \in Thread : t \in r.active =>
       \/ t \in j.active /\ r.timeout[t] = j.timeout[t]
       \/ r.tick <= r.timeout[t]

\* A state is punctual for itself.
LEMMA PunctualSelf ==
  ASSUME NEW j
  PROVE  Punctual(j, j)
  BY DEF Punctual

\* Two punctual steps make one.
LEMMA PunctualTrans ==
  ASSUME NEW i, NEW j, NEW r, Punctual(i, j), Punctual(j, r)
  PROVE  Punctual(i, r)
<1>1. r.tick = i.tick /\ j.tick = i.tick
  BY DEF Punctual
<1>2. ASSUME NEW t \in Thread, t \in r.active
      PROVE  (t \in i.active /\ r.timeout[t] = i.timeout[t]) \/ r.tick <= r.timeout[t]
  BY <1>1, <1>2 DEF Punctual
<1> QED BY <1>1, <1>2 DEF Punctual

\* A call about t that stops its timer, or starts it with an end to come.
LEMMA DidPunctual ==
  ASSUME NEW j, NEW t, NEW r, Did(j, t, r), t \notin r.active \/ r.tick <= r.timeout[t]
  PROVE  Punctual(j, r)
  BY DEF Did, Aside, Punctual

\* rt_schedule touches no timer.
LEMMA RescheduledPunctual ==
  ASSUME NEW j, NEW r, Rescheduled(j, r)
  PROVE  Punctual(j, r)
  BY DEF Rescheduled, SameClock, Punctual

\* A thread's step that is punctual leaves no timer overdue.
LEMMA PunctualPrompt ==
  ASSUME Held, Prompt, k.nest = 0, Punctual(k, k'), UNCHANGED walk, k' \in State
  PROVE  Prompt'
<1>1. pos = None /\ pos' = pos
  BY SMTT(60) DEF Held, TimerWalk, walk
<1>2. \A t \in k.active : k.tick <= k.timeout[t]
  BY <1>1 DEF Prompt, Behind
<1>3. k'.tick = k.tick /\ k'.active \subseteq Thread
  BY DEF Punctual, State
<1>4. \A t \in k'.active : k'.tick <= k'.timeout[t]
  BY <1>2, <1>3 DEF Punctual
<1> QED BY <1>3, <1>4 DEF Prompt

\* The end of a sleep or wait that begins now is not before now.
LEMMA LaterSum ==
  ASSUME TicksFit, Held, Prompt, NEW i \in Times \cup {IdleDelay}, i \in Tick
  PROVE  k.tick <= TickSum(k.tick, i)
<1>1. k.tick \in Nat /\ TickRange \in Nat /\ i \in Nat /\ MaxTick \in Nat
  BY KernelAssumption, ThreadsAssumption, SMTT(60) DEF Held, TypeOK, State, Tick
<1>2. k.tick <= MaxTick /\ MaxTick + i < TickRange
  BY DEF TicksFit, Prompt
<1>3. k.tick + i < TickRange
  BY <1>1, <1>2, SMTT(60)
<1> QED BY <1>1, <1>3, SMTT(60) DEF TickSum

\* rt_thread_sleep
LEMMA SleepPunctual ==
  ASSUME TicksFit, Held, Prompt, NEW t \in Thread, NEW i \in Times \cup {IdleDelay}, i \in Tick, Sleep(t, i)
  PROVE  Punctual(k, k')
<1>1. k.statu[t] = "RUNNING" /\ Whole(k, Freeing) /\ k' = rt_thread_sleep(k, t, i)
  BY AtFacts, SMTT(60) DEF Sleep, AtUser, Held
<1>2. PICK r : r = k'
  OBVIOUS
<1>3. Called(k, t, r, Freeing, "SLEEP") /\ r.timeout[t] = TickSum(k.tick, i)
  BY <1>1, <1>2, KernelCalls DEF SleepCall
<1>4. Did(k, t, r) /\ r.tick = k.tick
  BY <1>3 DEF Called, Did, Aside
<1>5. k.tick <= TickSum(k.tick, i)
  BY LaterSum
<1>6. r.tick <= r.timeout[t]
  BY <1>3, <1>4, <1>5
<1> QED BY <1>2, <1>4, <1>6, DidPunctual

\* rt_sem_take of a semaphore that is not available
LEMMA TakeBlockPunctual ==
  ASSUME TicksFit, Held, Prompt, NEW t \in Thread, NEW s \in Sem, NEW i \in Times, TakeBlock(t, s, i)
  PROVE  Punctual(k, k')
<1>1. k.statu[t] = "RUNNING" /\ Whole(k, Freeing) /\ k' = Block(k, t, s, i) /\ i # 0
  BY AtFacts, SMTT(60) DEF TakeBlock, AtUser, Held
<1>2. i \in Tick \cup {-1} /\ s \in Wait
  BY ThreadsAssumption DEF Sem
<1>3. i = -1 \/ (i \in Tick /\ i > 0)
  BY <1>1, <1>2, SMTT(60) DEF Tick
<1>4. PICK r : r = k'
  OBVIOUS
<1>5. /\ Called(k, t, r, Freeing, "SUSPEND") /\ (i = -1 => t \notin r.active)
      /\ i > 0 => r.timeout[t] = TickSum(k.tick, i)
  BY <1>1, <1>2, <1>4, KernelCalls, SMTT(60) DEF BlockCall
<1>6. Did(k, t, r) /\ r.tick = k.tick
  BY <1>5 DEF Called, Did, Aside
<1>7. i \in Tick => k.tick <= TickSum(k.tick, i)
  BY LaterSum
<1>8. t \notin r.active \/ r.tick <= r.timeout[t]
  BY <1>3, <1>5, <1>6, <1>7
<1> QED BY <1>4, <1>6, <1>8, DidPunctual

\* The wake-up of a release
LEMMA ResumedPunctual ==
  ASSUME Held, NEW s \in Sem, k.statu[k.cur] = "RUNNING"
  PROVE  Punctual(k, Resumed(s))
<1>1. PICK j : j = Resumed(s)
  OBVIOUS
<1>2. CASE j = k
  BY <1>1, <1>2, PunctualSelf
<1>3. ASSUME NEW w \in Thread, Called(k, w, j, Freeing, "READY") PROVE Punctual(k, j)
  <2>1. Did(k, w, j) /\ w \notin j.active
    BY <1>3 DEF Called, Whole, TimersMatch
  <2> QED BY <2>1, DidPunctual
<1> QED BY <1>1, <1>2, <1>3, ResumedFacts

\* malloc and free wait for heap_sem without a timer.
LEMMA HeapTakePunctual ==
  ASSUME Held, NEW t \in Thread, HeapTake(t)
  PROVE  Punctual(k, k')
<1>1. k.statu[t] = "RUNNING" /\ Whole(k, Freeing) /\ Heap \in Wait /\ -1 \in Tick \cup {-1}
  BY AtFacts, ThreadsAssumption, SMTT(60) DEF HeapTake, Held, Sem
<1>2. CASE k' = k
  BY <1>2, PunctualSelf
<1>3. CASE k' = rt_schedule(Block(k, t, Heap, -1))
  <2>1. PICK j : j = Block(k, t, Heap, -1)
    OBVIOUS
  <2>2. Called(k, t, j, Freeing, "SUSPEND") /\ t \notin j.active
    BY <1>1, <2>1, KernelCalls, SMTT(60) DEF BlockCall
  <2>3. Whole(j, Freeing) /\ Punctual(k, j)
    BY <2>2, DidPunctual DEF Called
  <2>4. Rescheduled(j, k')
    BY <1>3, <2>1, <2>3, KernelCalls DEF ScheduleCall
  <2> QED BY <2>3, <2>4, RescheduledPunctual, PunctualTrans
<1> QED BY <1>2, <1>3 DEF HeapTake

\* malloc and free give heap_sem back.
LEMMA HeapLeavePunctual ==
  ASSUME Held, NEW t \in Thread, HeapLeave(t)
  PROVE  Punctual(k, k')
<1>1. k.statu[k.cur] = "RUNNING" /\ Heap \in Sem
  BY AtFacts, ThreadsAssumption, SMTT(60) DEF HeapLeave, Sem
<1>2. PICK j, r : j = Resumed(Heap) /\ r = Unlocked(t)
  OBVIOUS
<1>3. Punctual(k, j)
  BY <1>1, <1>2, ResumedPunctual
<1>4. j \in State
  <2>1. CASE j = k
    BY <2>1 DEF Held, TypeOK
  <2>2. ASSUME NEW w \in Thread, Called(k, w, j, Freeing, "READY") PROVE j \in State
    BY <2>2 DEF Called, Whole, Sound
  <2> QED BY <1>1, <1>2, <2>1, <2>2, ResumedFacts
<1>5. r.tick = j.tick /\ r.active = j.active /\ r.timeout = j.timeout
  BY <1>2, <1>4 DEF Unlocked, State
<1>6. Punctual(j, r)
  BY <1>5 DEF Punctual
<1>7. Whole(r, Freeing') /\ (k' = r \/ k' = rt_schedule(r))
  BY <1>2, UnlockedFacts DEF HeapLeave, LeftHeap, Unlocked
<1>8. Punctual(r, k')
  BY <1>7, PunctualSelf, KernelCalls, RescheduledPunctual DEF ScheduleCall
<1> QED BY <1>3, <1>6, <1>8, PunctualTrans

\* A new thread has no timer running.
LEMMA CreateReadyPunctual ==
  ASSUME Held, NEW t \in Thread, CreateReady(t)
  PROVE  Punctual(k, k')
<1>1. pc[t] = "done" /\ k.statu[t] = "RUNNING" /\ t # Idle /\ k \in State
  BY AtFacts, SMTT(60) DEF CreateReady
<1>2. PICK u \in Thread : u = work[t] /\ k.statu[u] = "INIT" /\ u # Idle
  BY <1>1 DEF Held, TypeOK, CreateReady, SlotsFree, Alive
<1>3. k' = Joined(u)
  BY <1>2 DEF CreateReady, Joined
<1>4. u \notin k.active
  BY <1>2 DEF Held, Whole, TimersMatch
<1>5. k'.tick = k.tick /\ k'.active = k.active /\ k'.timeout = [k.timeout EXCEPT ![u] = 0]
  BY <1>1, <1>3 DEF Joined, PutLast, Tear, State
<1>6. k.timeout \in [Thread -> Tick]
  BY <1>1 DEF State
<1>7. \A v \in Thread \ {u} : k'.timeout[v] = k.timeout[v]
  BY <1>5, <1>6
<1> QED BY <1>4, <1>5, <1>7 DEF Punctual

\* The end of a thread stops its timer.
LEMMA LifePunctual ==
  ASSUME Held, NEW t \in Victim, Exit(t) \/ Kill(t)
  PROVE  Punctual(k, k')
<1>1. t \in Thread \ {Idle, Shell}
  BY ThreadsAssumption
<1>2. k' = Close(k, t) /\ t \notin Freeing
  <2>1. CASE Exit(t)
    <3>1. k.statu[t] = "RUNNING"
      BY <2>1, AtFacts, SMTT(60) DEF Exit, AtUser
    <3> QED BY <2>1, <3>1 DEF Exit, Freeing, Held, FreeingClosed
  <2>2. CASE Kill(t)
    <3>1. k.cur = Shell
      BY <2>2, AtFacts DEF Kill, AtUser
    <3> QED BY <1>1, <2>2, <3>1 DEF Kill
  <2> QED BY <2>1, <2>2
<1>3. Called(k, t, k', Freeing, "CLOSE")
  BY <1>1, <1>2, KernelCalls DEF CloseCall, Held
<1>4. Did(k, t, k') /\ t \notin k'.active
  BY <1>1, <1>3 DEF Called, Whole, TimersMatch
<1> QED BY <1>4, DidPunctual

\* The idle thread's walk touches no timer.
LEMMA IdlePunctual ==
  ASSUME Held, IdleLook \/ IdleNext
  PROVE  Punctual(k, k')
<1>1. k \in State
  BY DEF Held, TypeOK
<1>2. k' = k \/ \E u : k' = Unlink(k, u)
  BY DEF IdleLook, IdleNext, Reap
<1>3. k'.tick = k.tick /\ k'.active = k.active /\ k'.timeout = k.timeout
  BY <1>1, <1>2 DEF Unlink, State
<1> QED BY <1>3 DEF Punctual

\* What comes after a node comes after its successor, in the list with the
\* node or without it.
LEMMA AfterSuccessor ==
  ASSUME NEW S, NEW s \in Seq(S), NEW e, NEW t, NEW head, NoRepeat(s), After(s, e, t), t # e,
         NEW m, m = Successor(s, e, head)
  PROVE  m \in Nodes(s) /\ After(s, m, t) /\ After(rt_list_remove(s, e), m, t)
<1> DEFINE p == Place(s, e)
           r == rt_list_remove(s, e)
<1>1. PICK i, j \in 1 .. Len(s) : i <= j /\ s[i] = e /\ s[j] = t
  BY DEF After
<1>2. e \in Nodes(s) /\ p \in 1 .. Len(s) /\ s[p] = e
  BY <1>1 DEF Nodes, Place
<1>3. p = i
  BY <1>1, <1>2 DEF NoRepeat
<1>4. Len(s) \in Nat /\ p < j
  BY <1>1, <1>2, <1>3, SMTT(60)
<1>5. m = s[p + 1] /\ p + 1 \in 1 .. Len(s) /\ p + 1 <= j
  BY <1>1, <1>2, <1>4, SMTT(60) DEF Successor
<1>6. /\ Len(r) = Len(s) - 1
      /\ \A h \in 1 .. Len(s) - 1 : r[h] = IF h < p THEN s[h] ELSE s[h + 1]
  BY <1>2, <1>4, SMTT(60) DEF rt_list_remove
<1> HIDE DEF p, r
<1>7. r[p] = m /\ r[j - 1] = t /\ p \in 1 .. Len(r) /\ j - 1 \in 1 .. Len(r) /\ p <= j - 1
  BY <1>1, <1>2, <1>4, <1>5, <1>6, SMTT(60)
<1>8. After(s, m, t)
  BY <1>1, <1>5, SMTT(60) DEF After
<1>9. After(r, m, t)
  BY <1>7 DEF After
<1> QED BY <1>5, <1>8, <1>9, SMTT(60) DEF Nodes, r

\* Every node comes after the first.
LEMMA AfterFirst ==
  ASSUME NEW S, NEW s \in Seq(S), NEW head, NEW t \in Nodes(s)
  PROVE  First(s, head) \in Nodes(s) /\ After(s, First(s, head), t)
<1>1. PICK j \in 1 .. Len(s) : s[j] = t
  BY DEF Nodes
<1>2. Len(s) \in Nat /\ Len(s) # 0 /\ 1 \in 1 .. Len(s) /\ 1 <= j
  BY <1>1, SMTT(60)
<1>3. First(s, head) = s[1]
  BY <1>2 DEF First, rt_list_isempty
<1> QED BY <1>1, <1>2, <1>3, SMTT(60) DEF After, Nodes

\* A timer that rt_timer_check leaves alone is not due.
LEMMA LeftAlone ==
  ASSUME NEW j \in State, NEW t, j = FireIfDue(j, t)
  PROVE  ~ (t \in j.active /\ j.tick > j.timeout[t])
<1> SUFFICES ASSUME t \in j.active, j.tick > j.timeout[t] PROVE FALSE
  OBVIOUS
<1>1. PICK x : x = rt_thread_timeout([j EXCEPT !.timers = rt_list_remove(@, t)], t)
  OBVIOUS
<1>2. j = [x EXCEPT !.active = @ \ {t}]
  BY <1>1 DEF FireIfDue
<1>3. "active" \in DOMAIN j
  BY DEF State
<1>4. j.active = x.active \ {t}
  BY <1>2, <1>3
<1> QED BY <1>4

\* The tick interrupt starts the walk before every timer.
LEMMA TickEnterPrompt ==
  ASSUME Held, Prompt, TickEnter
  PROVE  Prompt'
<1>1. PICK j : /\ Whole(j, Freeing) /\ SameLists(k, j) /\ j.tick = TickSum(k.tick, 1)
               /\ k' = j \/ k' = rt_schedule(j)
  BY TickEnterSteps
<1>2. Whole(k', Freeing) /\ k'.tick = j.tick
  <2>1. CASE k' = j
    BY <1>1, <2>1
  <2>2. CASE k' = rt_schedule(j)
    <3>1. Whole(k', Freeing) /\ Rescheduled(j, k')
      BY <1>1, <2>2, KernelCalls DEF ScheduleCall
    <3> QED BY <3>1 DEF Rescheduled, SameClock
  <2> QED BY <1>1, <2>1, <2>2
<1>3. k.tick \in Nat /\ TickRange \in Nat /\ MaxTick \in Nat /\ k.tick < MaxTick
  BY KernelAssumption, ThreadsAssumption, SMTT(60) DEF Held, TypeOK, State, Tick, TickEnter
<1>4. k'.tick <= MaxTick
  BY <1>1, <1>2, <1>3, SMTT(60) DEF TickSum
<1>5. k'.timers \in Seq(Thread) /\ Nodes(k'.timers) = k'.active /\ None \notin Thread
  BY <1>2, ThreadsAssumption DEF Whole, Sound, State, TimersMatch
<1>6. Nodes(k'.timers) \subseteq Thread
  BY <1>5, IsEmptyNodes
<1>7. ASSUME NEW t \in k'.active PROVE pos' # None /\ After(k'.timers, pos', t)
  <2>1. pos' = First(k'.timers, None)
    BY DEF TickEnter
  <2>2. pos' \in Nodes(k'.timers) /\ After(k'.timers, pos', t)
    BY <1>5, <2>1, AfterFirst
  <2> QED BY <1>5, <1>6, <2>2
<1> QED BY <1>4, <1>7 DEF Prompt, Behind

\* rt_timer_check passes no timer that is due.
LEMMA TimerCheckPrompt ==
  ASSUME Held, Prompt, TimerCheck
  PROVE  Prompt'
<1>1. /\ k \in State /\ pos \in Thread /\ pos # None /\ pos' = n
      /\ n = Successor(k.timers, pos, None) /\ None \notin Thread
      /\ Whole(k, Freeing) /\ k' = FireIfDue(k, pos) /\ k.timers \in Seq(Thread)
  BY ThreadsAssumption DEF Held, TypeOK, TimerCheck, TimerWalk, State
<1>2. NoRepeat(k.timers) /\ Nodes(k.timers) \subseteq Thread /\ Nodes(k.timers) = k.active
  BY <1>1, IsEmptyNodes DEF Whole, TimersMatch
<1>3. Whole(k', Freeing) /\ (k' = k \/ Fired(k, pos, k'))
  BY <1>1, KernelCalls DEF FireCall
<1>4. k'.tick = k.tick /\ k'.active \subseteq k.active
  <2>1. CASE k' = k
    BY <2>1
  <2>2. CASE Fired(k, pos, k')
    BY <1>2, <1>3, <2>2 DEF Fired, Whole, TimersMatch
  <2> QED BY <1>3, <2>1, <2>2
<1>5. k.timeout \in [Thread -> Tick] /\ k.tick \in Tick
  BY <1>1 DEF State
<1>6. ASSUME NEW t \in k'.active
      PROVE  (pos' # None /\ After(k'.timers, pos', t)) \/ k'.tick <= k'.timeout[t]
  <2>1. t \in k.active /\ t \in Thread
    BY <1>2, <1>4, <1>6
  <2>2. CASE t = pos
    <3>1. k' = k
      BY <1>2, <1>3, <1>6, <2>2 DEF Fired, Whole, TimersMatch
    <3>2. ~ (k.tick > k.timeout[t])
      BY <1>1, <2>1, <2>2, <3>1, LeftAlone
    <3>3. k.tick \in Nat /\ k.timeout[t] \in Nat
      BY <1>5, <2>1, SMTT(60) DEF Tick
    <3>4. k.tick <= k.timeout[t]
      BY <3>2, <3>3, SMTT(60)
    <3> QED BY <3>1, <3>4
  <2>3. CASE t # pos /\ After(k.timers, pos, t)
    <3>1. /\ n \in Nodes(k.timers) /\ After(k.timers, n, t)
          /\ After(rt_list_remove(k.timers, pos), n, t)
      BY <1>1, <1>2, <2>3, AfterSuccessor
    <3>2. n # None
      BY <1>1, <1>2, <3>1
    <3>3. After(k'.timers, n, t)
      BY <1>3, <3>1 DEF Fired
    <3> QED BY <1>1, <3>2, <3>3
  <2>4. CASE t # pos /\ k.tick <= k.timeout[t]
    <3>1. k'.timeout[t] = k.timeout[t]
      BY <1>3, <2>1, <2>4 DEF Fired
    <3> QED BY <1>4, <2>4, <3>1
  <2> QED BY <2>1, <2>2, <2>3, <2>4 DEF Prompt, Behind
<1> QED BY <1>4, <1>6 DEF Prompt, Behind

\* The end of the interrupt touches no timer.
LEMMA TickExitPrompt ==
  ASSUME Held, Prompt, TickExit
  PROVE  Prompt'
<1>1. k \in State /\ pos = None /\ pos' = None
  BY DEF Held, TypeOK, TickExit, walk
<1>2. k'.tick = k.tick /\ k'.active = k.active /\ k'.timeout = k.timeout
  BY <1>1 DEF TickExit, State
<1> QED BY <1>1, <1>2 DEF Prompt, Behind

\* The wake-up of rt_sem_release
LEMMA ReleasePunctual ==
  ASSUME Held, NEW t \in Thread, NEW s \in Sem, Release(t, s)
  PROVE  Punctual(k, k')
<1>1. k.statu[k.cur] = "RUNNING"
  BY AtFacts, SMTT(60) DEF Release, AtUser
<1>2. k' = Resumed(s)
  BY DEF Release
<1> QED BY <1>1, <1>2, ResumedPunctual

\* A call of rt_schedule
LEMMA SchedulePunctual ==
  ASSUME Held, NEW t \in Thread, Schedule(t)
  PROVE  Punctual(k, k')
<1>1. k' = rt_schedule(k) /\ Whole(k, Freeing)
  BY DEF Schedule, Held
<1> QED BY <1>1, KernelCalls, RescheduledPunctual DEF ScheduleCall

\* Every step keeps the timers prompt.
LEMMA StepPrompt ==
  ASSUME TicksFit, Held, Held', Prompt, [Next]_vars
  PROVE  Prompt'
<1>1. /\ Idle \in Thread /\ Victim \subseteq Thread /\ Creator \subseteq Thread /\ Taker \subseteq Thread
      /\ IdleDelay \in Tick /\ Times \subseteq Tick \cup {-1} /\ -1 \notin Nat /\ k' \in State
  BY ThreadsAssumption, SMTT(60) DEF Held, TypeOK
<1>2. CASE UNCHANGED vars
  BY <1>2 DEF vars, Prompt, Behind
<1>3. CASE TickEnter \/ TimerCheck \/ TickExit
  BY <1>3, TickEnterPrompt, TimerCheckPrompt, TickExitPrompt
<1>4. CASE IdleLook \/ IdleNext
  <2>1. k.nest = 0 /\ UNCHANGED walk
    BY <1>4 DEF IdleLook, IdleNext, At, Reap
  <2> QED BY <1>1, <1>4, <2>1, IdlePunctual, PunctualPrompt
<1>5. ASSUME NEW t \in Thread, NEW i \in Times \cup {IdleDelay}, i \in Tick, Sleep(t, i)
      PROVE  Prompt'
  <2>1. k.nest = 0 /\ UNCHANGED walk
    BY <1>5 DEF Sleep, At, AtUser
  <2> QED BY <1>1, <1>5, <2>1, SleepPunctual, PunctualPrompt
<1>6. CASE \E u \in Victim : Kill(u) \/ Exit(u)
  <2>1. k.nest = 0 /\ UNCHANGED walk
    BY <1>6 DEF Kill, Exit, At, AtUser
  <2> QED BY <1>1, <1>6, <2>1, LifePunctual, PunctualPrompt
<1>7. ASSUME NEW t \in Thread, \/ Compute(t) \/ TakeReturn(t) \/ CreateFail(t)
                               \/ \E u : CreateStart(t, u)
                               \/ \E s : TakeNow(t, s)
      PROVE  Prompt'
  <2>1. k' = k /\ pos' = pos
    BY <1>7 DEF Compute, TakeReturn, CreateFail, CreateStart, TakeNow, vars, walk
  <2> QED BY <2>1 DEF Prompt, Behind
<1>8. ASSUME NEW t \in Thread, Schedule(t) \/ HeapTake(t) \/ HeapLeave(t) \/ CreateReady(t)
      PROVE  Prompt'
  <2>1. k.nest = 0 /\ UNCHANGED walk
    BY <1>8 DEF Schedule, HeapTake, HeapLeave, CreateReady, At
  <2> QED BY <1>1, <1>8, <2>1, SchedulePunctual, HeapTakePunctual, HeapLeavePunctual,
             CreateReadyPunctual, PunctualPrompt
<1>9. ASSUME NEW t \in Thread, NEW s \in Sem, Release(t, s) \/ \E i \in Times : TakeBlock(t, s, i)
      PROVE  Prompt'
  <2>1. k.nest = 0 /\ UNCHANGED walk
    BY <1>9 DEF Release, TakeBlock, At, AtUser
  <2> QED BY <1>1, <1>9, <2>1, ReleasePunctual, TakeBlockPunctual, PunctualPrompt
<1>10. CASE \E t \in Thread, i \in Times : i >= 0 /\ Sleep(t, i)
  <2>1. \A i \in Times : i >= 0 => i \in Tick
    BY <1>1, SMTT(60)
  <2> QED BY <1>5, <1>10, <2>1
<1> QED BY <1>1, <1>2, <1>3, <1>4, <1>5, <1>6, <1>7, <1>8, <1>9, <1>10 DEF Next

-----------------------------------------------------------------------------
\* What depends on the number of threads, and the theorems.

\* Only this section needs the facts about finite sets.  An instance has its
\* own IsFiniteSet and Cardinality, with the same definitions.
Finite == INSTANCE FiniteSetTheorems

\* They are the ones that Threads uses.
LEMMA SameFinite ==
  ASSUME NEW S
  PROVE  (IsFiniteSet(S) <=> Finite!IsFiniteSet(S)) /\ Cardinality(S) = Finite!Cardinality(S)
<1>1. IsFiniteSet(S) <=> Finite!IsFiniteSet(S)
  BY DEF IsFiniteSet, Finite!IsFiniteSet
<1>2. Cardinality(S) = Finite!Cardinality(S)
  BY DEF Cardinality, Finite!Cardinality
<1> QED BY <1>1, <1>2

\* A finite set of threads can be listed, and thread_join_init does so.
LEMMA InitialQueueFacts == Queued
<1> SUFFICES ASSUME NEW p
             PROVE  /\ InitialQueue(p) \in Seq(Thread) /\ NoRepeat(InitialQueue(p))
                    /\ Nodes(InitialQueue(p)) = {t \in Thread \ (Off \cup {Start}) : prio[t] = p}
  BY DEF Queued
<1> DEFINE members == {t \in Thread \ (Off \cup {Start}) : prio[t] = p}
           c == Cardinality(members)
<1>1. members \subseteq Thread /\ Finite!IsFiniteSet(Thread)
  BY ThreadsAssumption, SameFinite
<1>2. Finite!IsFiniteSet(members) /\ c = Finite!Cardinality(members)
  BY <1>1, Finite!FS_Subset, SameFinite
<1>3. InitialQueue(p) = CHOOSE s \in [1 .. c -> members] : NoRepeat(s) /\ Nodes(s) = members
  BY DEF InitialQueue
<1> HIDE DEF members
<1>4. c \in Nat /\ Finite!ExistsBijection(1 .. c, members)
  BY <1>2, Finite!FS_CardinalityType
<1> HIDE DEF c
<1>5. PICK f : f \in Finite!Bijection(1 .. c, members)
  BY <1>4 DEF Finite!ExistsBijection
<1>6. /\ f \in [1 .. c -> members]
      /\ \A i, j \in 1 .. c : f[i] = f[j] => i = j
      /\ \A t \in members : \E i \in 1 .. c : f[i] = t
  BY <1>5 DEF Finite!Bijection, Finite!Injection, Finite!Surjection, Finite!IsInjective
<1>7. Len(f) = c
  BY <1>4, <1>6, SMTT(60)
<1>8. NoRepeat(f)
  BY <1>6, <1>7 DEF NoRepeat
<1>9. Nodes(f) = members
  BY <1>6, <1>7, SMTT(60) DEF Nodes
<1>10. /\ InitialQueue(p) \in [1 .. c -> members]
       /\ NoRepeat(InitialQueue(p)) /\ Nodes(InitialQueue(p)) = members
  BY <1>3, <1>6, <1>8, <1>9
<1>11. InitialQueue(p) \in Seq(members)
  BY <1>4, <1>10, SMTT(60)
<1>12. InitialQueue(p) \in Seq(Thread)
  BY <1>1, <1>11, SMTT(60)
<1> QED BY <1>10, <1>12 DEF members

\* A lock that is accounted for is counted by OneOwner.
LEMMA LocksCounted ==
  ASSUME Locks
  PROVE  OneOwner
<1>1. Cardinality({}) = 0 /\ \A t : Cardinality({t}) = 1
  BY SameFinite, Finite!FS_EmptySet, Finite!FS_Singleton
<1>2. ASSUME NEW s \in Lock
      PROVE  Cardinality({t \in Thread : Owner(t, s)}) + value[s] = IF s \in lost THEN 0 ELSE 1
  <2> DEFINE owners == {t \in Thread : Owner(t, s)}
  <2>1. \/ owners = {} /\ s \notin lost /\ value[s] = 1
        \/ (\E t : owners = {t}) /\ s \notin lost /\ value[s] = 0
        \/ owners = {} /\ s \in lost /\ value[s] = 0
    BY DEF Locks, Account
  <2> HIDE DEF owners
  <2>2. \/ Cardinality(owners) = 0 /\ s \notin lost /\ value[s] = 1
        \/ Cardinality(owners) = 1 /\ s \notin lost /\ value[s] = 0
        \/ Cardinality(owners) = 0 /\ s \in lost /\ value[s] = 0
    BY <1>1, <2>1
  <2>3. Cardinality(owners) + value[s] = IF s \in lost THEN 0 ELSE 1
    BY <2>2, SMTT(60)
  <2> QED BY <2>3 DEF owners
<1> QED BY <1>2 DEF OneOwner

-----------------------------------------------------------------------------
\* The invariant of the scheduler, the timers, the semaphores and the life of
\* threads holds in every state of os/thread.c as modelled, for any number of
\* threads, priorities and semaphores, when some thread polls and never blocks.
THEOREM AlwaysInductive ==
  ASSUME Busy # {}
  PROVE  Spec => []Inductive
<1>1. Init => Held
  BY InitHeld, InitialQueueFacts
<1>2. Held /\ [Next]_vars => Held'
  BY StepHeld
<1>3. Held => Inductive
  BY HeldInductive
<1> QED BY <1>1, <1>2, <1>3, PTL DEF Spec

\* A lock has one owner or is free, whatever the race of release, timeout, exit
\* and kill, unless its owner ended with it: rt_sem_take and rt_sem_release
\* never give the same token to two threads and never lose one.
THEOREM LocksHaveOneOwner ==
  ASSUME Busy # {}
  PROVE  Spec => []OneOwner
<1>1. Init => Held /\ Locks
  BY InitHeld, InitialQueueFacts, InitLocks
<1>2. Held /\ Locks /\ [Next]_vars => Held' /\ Locks'
  BY StepHeld, StepLocks
<1>3. Locks => OneOwner
  BY LocksCounted
<1> QED BY <1>1, <1>2, <1>3, PTL DEF Spec

\* Every variable keeps its type.
THEOREM AlwaysTyped == ASSUME Busy # {} PROVE Spec => []TypeOK
<1>1. Inductive => TypeOK
  BY DEF Inductive
<1> QED BY <1>1, AlwaysInductive, PTL

\* No kernel call links a linked node, reads an empty ready queue or reaches
\* rt_schedule's endless loop.
THEOREM NeverFaults == ASSUME Busy # {} PROVE Spec => []NoFault
<1>1. Inductive => NoFault
  BY DEF Inductive
<1> QED BY <1>1, AlwaysInductive, PTL

\* Each thread is in the one list its status says, once: rt_list_insert and
\* rt_list_remove of every call and handler keep it so.
THEOREM ListsMatchStatus == ASSUME Busy # {} PROVE Spec => []Placement
<1>1. Inductive => Placement
  BY DEF Inductive
<1> QED BY <1>1, AlwaysInductive, PTL

\* thread_ready_priority_group has the bit of a priority exactly while its
\* ready queue has a thread.
THEOREM GroupAlwaysExact == ASSUME Busy # {} PROVE Spec => []GroupExact
<1>1. Inductive => GroupExact
  BY DEF Inductive
<1> QED BY <1>1, AlwaysInductive, PTL

\* rt_timer_list holds the activated timers, once each.
THEOREM TimersAlwaysExact == ASSUME Busy # {} PROVE Spec => []TimersExact
<1>1. Inductive => TimersExact
  BY DEF Inductive
<1> QED BY <1>1, AlwaysInductive, PTL

\* current_thread, the pending switch of a handler and the processor agree.
THEOREM DispatchAlwaysExact == ASSUME Busy # {} PROVE Spec => []DispatchExact
<1>1. Inductive => DispatchExact
  BY DEF Inductive
<1> QED BY <1>1, AlwaysInductive, PTL

\* A thread waits for a semaphore only while its value is 0.
THEOREM NeverIdleToken == ASSUME Busy # {} PROVE Spec => []NoIdleToken
<1>1. Inductive => NoIdleToken
  BY DEF Inductive
<1> QED BY <1>1, AlwaysInductive, PTL

\* The saved successors of rt_timer_check and of the idle thread's walk over
\* the dead threads stay linked, although threads move between their steps.
THEOREM WalksAlwaysStay == ASSUME Busy # {} PROVE Spec => []WalksStay
<1>1. Inductive => WalksStay
  BY DEF Inductive
<1> QED BY <1>1, AlwaysInductive, PTL

\* A thread that blocked, slept or ended runs nothing beyond rt_schedule.
THEOREM BlockedNeverRuns == ASSUME Busy # {} PROVE Spec => []OnlyRunningRuns
<1>1. ASSUME Inductive PROVE OnlyRunningRuns
  <2>1. k \in State /\ CurrentRuns /\ SwitchMatches(k)
    BY <1>1 DEF Inductive, TypeOK, DispatchExact
  <2>2. k.nest = 0 => k.cpu = k.cur
    BY <2>1, SMTT(60) DEF SwitchMatches, State
  <2> QED BY <2>1, <2>2 DEF OnlyRunningRuns, CurrentRuns
<1> QED BY <1>1, AlwaysInductive, PTL

\* No timeout, release, kill or creation revives a closed thread: once CLOSE,
\* a thread's status only becomes INIT, when idle has freed it.
THEOREM DeadNeverReturn == ASSUME Busy # {} PROVE Spec => DeadStayDead
<1>1. Init => Held
  BY InitHeld, InitialQueueFacts
<1>2. Held /\ [Next]_vars => Held'
  BY StepHeld
<1>3. Held /\ [Next]_vars => Buried
  BY StepBuries
<1> QED BY <1>1, <1>2, <1>3, PTL DEF Spec, DeadStayDead, Buried

\* When rt_timer_check has walked the list no timer in it was due: neither
\* its callbacks, which unlink timers during the walk, nor the starts and stops
\* between two ticks let one slip, as long as the tick counter does not wrap.
THEOREM NoTimerOverdue ==
  ASSUME Busy # {}, TicksFit
  PROVE  Spec => []NoneOverdue
<1>1. Init => Held /\ Prompt
  BY InitHeld, InitialQueueFacts, InitPrompt
<1>2. Held /\ Prompt /\ [Next]_vars => Held' /\ Prompt'
  BY StepHeld, StepPrompt
<1>3. Held /\ Prompt => NoneOverdue
  <2> SUFFICES ASSUME Held, Prompt, k.nest = 0 PROVE \A t \in k.active : k.tick <= k.timeout[t]
    BY DEF NoneOverdue
  <2>1. pos = None
    BY SMTT(60) DEF Held, TimerWalk
  <2> QED BY <2>1 DEF Prompt, Behind
<1> QED BY <1>1, <1>2, <1>3, PTL DEF Spec

=============================================================================
