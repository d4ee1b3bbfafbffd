---------------------------- MODULE KernelProofs ----------------------------
(***************************************************************************)
(* What the operators of RtList and Kernel do to a list and to a kernel    *)
(* state, for every set of threads, priorities and wait queues: the list   *)
(* operations first, then what the invariant says of one thread, then the  *)
(* calls.  The steps a call is made of are steps of the proof about them.  *)
(***************************************************************************)
EXTENDS Kernel, TLAPS

\* rt_list_isempty answers whether any node is linked.
LEMMA IsEmptyNodes ==
  ASSUME NEW S, NEW s \in Seq(S)
  PROVE  /\ rt_list_isempty(s) <=> Nodes(s) = {}
         /\ Nodes(s) \subseteq S
         /\ ~ rt_list_isempty(s) => s[1] \in Nodes(s) /\ s[1] \in S
<1>1. Len(s) \in Nat /\ \A i \in 1 .. Len(s) : s[i] \in S
  OBVIOUS
<1>2. CASE Len(s) = 0
  BY <1>2 DEF rt_list_isempty, Nodes
<1>3. CASE Len(s) # 0
  <2>1. 1 \in 1 .. Len(s)
    BY <1>1, <1>3
  <2>2. s[1] \in Nodes(s)
    BY <2>1 DEF Nodes
  <2> QED BY <1>1, <1>3, <2>1, <2>2 DEF rt_list_isempty, Nodes
<1> QED BY <1>2, <1>3

\* The empty list has no nodes.
LEMMA EmptyList ==
  ASSUME NEW S
  PROVE  <<>> \in Seq(S) /\ Nodes(<<>>) = {} /\ NoRepeat(<<>>)
  BY DEF Nodes, NoRepeat

\* rt_list_insert_before links the node, and links no node twice if it was
\* not linked.
LEMMA InsertBefore ==
  ASSUME NEW S, NEW s \in Seq(S), NEW e \in S
  PROVE  /\ rt_list_insert_before(s, e) \in Seq(S)
         /\ Nodes(rt_list_insert_before(s, e)) = Nodes(s) \cup {e}
         /\ NoRepeat(s) /\ e \notin Nodes(s) => NoRepeat(rt_list_insert_before(s, e))
<1> DEFINE r == rt_list_insert_before(s, e)
<1>1. /\ r \in Seq(S) /\ Len(r) = Len(s) + 1 /\ Len(s) \in Nat
      /\ \A i \in 1 .. Len(s) : r[i] = s[i]
      /\ r[Len(s) + 1] = e
  BY DEF rt_list_insert_before
<1> HIDE DEF r
<1>2. Nodes(r) = Nodes(s) \cup {e}
  <2>1. Nodes(r) \subseteq Nodes(s) \cup {e}
    BY <1>1 DEF Nodes
  <2>2. Nodes(s) \subseteq Nodes(r)
    BY <1>1 DEF Nodes
  <2>3. e \in Nodes(r)
    BY <1>1 DEF Nodes
  <2> QED BY <2>1, <2>2, <2>3
<1>3. NoRepeat(s) /\ e \notin Nodes(s) => NoRepeat(r)
  BY <1>1 DEF Nodes, NoRepeat
<1> QED BY <1>1, <1>2, <1>3 DEF r

\* rt_list_insert_after does the same at the other end.
LEMMA InsertAfter ==
  ASSUME NEW S, NEW s \in Seq(S), NEW e \in S
  PROVE  /\ rt_list_insert_after(s, e) \in Seq(S)
         /\ Nodes(rt_list_insert_after(s, e)) = Nodes(s) \cup {e}
         /\ NoRepeat(s) /\ e \notin Nodes(s) => NoRepeat(rt_list_insert_after(s, e))
<1> DEFINE r == rt_list_insert_after(s, e)
<1>1. /\ r \in Seq(S) /\ Len(r) = Len(s) + 1 /\ Len(s) \in Nat
      /\ \A i \in 1 .. Len(s) + 1 : r[i] = IF i = 1 THEN e ELSE s[i - 1]
      /\ \A i \in 1 .. Len(s) : r[i + 1] = s[i]
      /\ r[1] = e
  BY DEF rt_list_insert_after
<1> HIDE DEF r
<1>2. Nodes(r) = Nodes(s) \cup {e}
  <2>1. Nodes(r) \subseteq Nodes(s) \cup {e}
    BY <1>1 DEF Nodes
  <2>2. Nodes(s) \subseteq Nodes(r)
    <3>1. ASSUME NEW i \in 1 .. Len(s) PROVE s[i] \in Nodes(r)
      <4>1. i + 1 \in 1 .. Len(r) /\ r[i + 1] = s[i]
        BY <1>1
      <4> QED BY <4>1 DEF Nodes
    <3> QED BY <3>1 DEF Nodes
  <2>3. e \in Nodes(r)
    BY <1>1 DEF Nodes
  <2> QED BY <2>1, <2>2, <2>3
<1>3. NoRepeat(s) /\ e \notin Nodes(s) => NoRepeat(r)
  <2> SUFFICES ASSUME NoRepeat(s), e \notin Nodes(s),
                      NEW i \in 1 .. Len(r), NEW j \in 1 .. Len(r), r[i] = r[j]
               PROVE  i = j
    BY DEF NoRepeat
  <2>1. \A m \in 1 .. Len(r) : m # 1 => m - 1 \in 1 .. Len(s) /\ r[m] = s[m - 1] /\ r[m] # e
    BY <1>1 DEF Nodes
  <2>2. CASE i = 1 \/ j = 1
    BY <1>1, <2>1, <2>2
  <2>3. CASE i # 1 /\ j # 1
    <3>1. i - 1 = j - 1
      BY <2>1, <2>3 DEF NoRepeat
    <3> QED BY <3>1
  <2> QED BY <2>2, <2>3
<1> QED BY <1>1, <1>2, <1>3 DEF r

\* rt_list_remove unlinks the node, and only it.
LEMMA Remove ==
  ASSUME NEW S, NEW s \in Seq(S), NEW e, NoRepeat(s)
  PROVE  /\ rt_list_remove(s, e) \in Seq(S)
         /\ Nodes(rt_list_remove(s, e)) = Nodes(s) \ {e}
         /\ NoRepeat(rt_list_remove(s, e))
<1>1. CASE e \notin Nodes(s)
  BY <1>1 DEF rt_list_remove
<1>2. CASE e \in Nodes(s)
  <2> DEFINE p == Place(s, e)
             r == rt_list_remove(s, e)
  <2>1. p \in 1 .. Len(s) /\ s[p] = e
    BY <1>2 DEF Nodes, Place
  <2>2. \A i \in 1 .. Len(s) : s[i] = e => i = p
    BY <2>1 DEF NoRepeat
  <2> HIDE DEF p
  <2>3. /\ r \in Seq(S) /\ Len(r) = Len(s) - 1 /\ Len(s) \in Nat
        /\ \A i \in 1 .. Len(s) - 1 : r[i] = IF i < p THEN s[i] ELSE s[i + 1]
    BY <1>2, <2>1 DEF rt_list_remove, p
  <2> HIDE DEF r
  <2>4. Nodes(r) = Nodes(s) \ {e}
    <3>1. Nodes(r) \subseteq Nodes(s) \ {e}
      BY <2>1, <2>2, <2>3 DEF Nodes
    <3>2. ASSUME NEW i \in 1 .. Len(s), i # p PROVE s[i] \in Nodes(r)
      <4>1. CASE i < p
        <5>1. i \in 1 .. Len(r) /\ r[i] = s[i] BY <2>1, <2>3, <4>1
        <5> QED BY <5>1 DEF Nodes
      <4>2. CASE i > p
        <5>1. i - 1 \in 1 .. Len(r) /\ r[i - 1] = s[i] BY <2>1, <2>3, <4>2
        <5> QED BY <5>1 DEF Nodes
      <4> QED BY <4>1, <4>2, <3>2, <2>1
    <3> QED BY <3>1, <3>2, <2>1 DEF Nodes
  <2>5. NoRepeat(r)
    BY <2>1, <2>3 DEF NoRepeat
  <2> QED BY <2>3, <2>4, <2>5 DEF r
<1> QED BY <1>1, <1>2

-----------------------------------------------------------------------------
\* Leaves go to Zenon unless they name the SMT solver; the time is ample.
USE ZenonT(60)

\* State r is k but for the named fields.
ButList(k, r) == r = [k EXCEPT !.list = r.list]
ButQueues(k, r) == r = [k EXCEPT !.list = r.list, !.group = r.group]
ButReady(k, r) == r = [k EXCEPT !.list = r.list, !.group = r.group, !.statu = r.statu]
ButTimers(k, r) ==
  r = [k EXCEPT !.timers = r.timers, !.active = r.active, !.timeout = r.timeout]
ButSwitch(k, r) ==
  r = [k EXCEPT !.cpu = r.cpu, !.flag = r.flag, !.from = r.from, !.to = r.to]

Once(k) == \A h \in ListHead : NoRepeat(k.list[h])

\* Appending an unlinked thread to a list links it there.
LEMMA PutLastFacts ==
  ASSUME NEW k \in State, Once(k), NEW t \in Thread, NEW h \in ListHead, ~ Linked(k, t)
  PROVE  /\ PutLast(k, h, t) \in State /\ Once(PutLast(k, h, t))
         /\ \A g \in ListHead : Nodes(PutLast(k, h, t).list[g]) =
                                  IF g = h THEN Nodes(k.list[g]) \cup {t} ELSE Nodes(k.list[g])
         /\ ButList(k, PutLast(k, h, t))
<1> DEFINE r == rt_list_insert_before(k.list[h], t)
           l == [k.list EXCEPT ![h] = r]
<1>1. k.list[h] \in Seq(Thread) /\ k.list \in [ListHead -> Seq(Thread)]
  BY DEF State
<1>2. t \notin Nodes(k.list[h])
  BY DEF Linked
<1>3. r \in Seq(Thread) /\ Nodes(r) = Nodes(k.list[h]) \cup {t} /\ NoRepeat(r)
  BY <1>1, <1>2, InsertBefore DEF Once
<1>4. Tear(k, Linked(k, t)) = k
  BY DEF Tear, State
<1>5. PutLast(k, h, t) = [k EXCEPT !.list = l] /\ PutLast(k, h, t).list = l
  BY <1>4 DEF PutLast, State
<1>6. l \in [ListHead -> Seq(Thread)]
  BY <1>1, <1>3
<1>7. PutLast(k, h, t) \in State
  BY <1>5, <1>6 DEF State
<1>8. \A g \in ListHead : l[g] = IF g = h THEN r ELSE k.list[g]
  BY <1>1
<1> HIDE DEF l, r
<1> QED BY <1>3, <1>5, <1>7, <1>8 DEF Once, ButList

TimersLinked(k) == NoRepeat(k.timers) /\ Nodes(k.timers) = k.active

\* The effect of rt_schedule_remove_thread(k, t): the bit of its priority is
\* cleared when the ready queue of that priority is empty then.
Removed(k, t, r) ==
  /\ r \in State /\ Once(r) /\ ButQueues(k, r)
  /\ \A h \in ListHead : Nodes(r.list[h]) = Nodes(k.list[h]) \ {t}
  /\ r.group = IF Nodes(r.list[prio[t]]) = {} THEN k.group \ {prio[t]} ELSE k.group

-----------------------------------------------------------------------------
\* The part of the invariant that rt_schedule relies on and keeps: all but
\* the timers.  rt_current_thread is never in a ready queue.
Sound(k, freed) ==
  /\ k \in State /\ k.fault = "none"
  /\ \A t \in Thread : k.remaining[t] > 0
  /\ Placed(k, freed) /\ GroupMatches(k) /\ SwitchMatches(k)
  /\ k.statu[k.cur] \notin {"READY", "INIT"}

\* The highest priority with a bit set is one of them.
LEMMA HighestPriorityIn ==
  ASSUME NEW g \in SUBSET Priority, g # {}
  PROVE  HighestPriority(g) \in g /\ \A q \in g : HighestPriority(g) <= q
<1>1. g \subseteq 0 .. 31
  BY KernelAssumption
<1>2. \E p \in g : \A q \in g : p <= q
  <2>1. SUFFICES ASSUME \A p \in g : \E q \in g : q < p PROVE FALSE
    BY <1>1, SMTT(60)
  <2>2. \A p \in 0 .. 7 : p \notin g
    BY <1>1, <2>1, SMTT(60)
  <2>3. \A p \in 8 .. 15 : p \notin g
    BY <1>1, <2>1, <2>2, SMTT(60)
  <2>4. \A p \in 16 .. 23 : p \notin g
    BY <1>1, <2>1, <2>2, <2>3, SMTT(60)
  <2>5. \A p \in 24 .. 31 : p \notin g
    BY <1>1, <2>1, <2>2, <2>3, <2>4, SMTT(60)
  <2>6. PICK p \in g : TRUE
    OBVIOUS
  <2>7. p \in 0 .. 7 \/ p \in 8 .. 15 \/ p \in 16 .. 23 \/ p \in 24 .. 31
    BY <1>1, SMTT(60)
  <2> QED BY <2>2, <2>3, <2>4, <2>5, <2>7
<1> QED BY <1>2 DEF HighestPriority

\* The bits of the group in terms of linked nodes.
LEMMA GroupNodes ==
  ASSUME NEW k \in State
  PROVE  GroupMatches(k) <=> k.group = {p \in Priority : Nodes(k.list[p]) # {}}
<1>1. ASSUME NEW p \in Priority PROVE rt_list_isempty(k.list[p]) <=> Nodes(k.list[p]) = {}
  <2>1. k.list[p] \in Seq(Thread)
    BY DEF State, ListHead
  <2> QED BY <2>1, IsEmptyNodes
<1> QED BY <1>1 DEF GroupMatches

\* The effect of rt_schedule_insert_thread(k, t) for a thread other than the
\* current one.
Inserted(k, t, r) ==
  /\ r \in State /\ Once(r)
  /\ \A h \in ListHead : Nodes(r.list[h]) = IF h = prio[t] THEN Nodes(k.list[h]) \cup {t}
                                            ELSE Nodes(k.list[h])
  /\ r.group = k.group \cup {prio[t]}
  /\ r.statu = [k.statu EXCEPT ![t] = "READY"]
  /\ ButReady(k, r)

-----------------------------------------------------------------------------
\* Fields that rt_schedule leaves alone, and those of the pending switch.
SameClock(k, r) ==
  /\ r.error = k.error /\ r.timers = k.timers /\ r.active = k.active
  /\ r.timeout = k.timeout /\ r.tick = k.tick /\ r.remaining = k.remaining
  /\ r.nest = k.nest /\ r.fault = k.fault
SameSwitch(k, r) ==
  /\ r.cpu = k.cpu /\ r.flag = k.flag /\ r.from = k.from /\ r.to = k.to

\* Only ready, suspended and closed threads are linked.
LEMMA LinkedStatu ==
  ASSUME NEW k, NEW freed, Placed(k, freed), NEW t \in Thread, Linked(k, t)
  PROVE  k.statu[t] \in {"READY", "SUSPEND", "CLOSE"}
<1>1. PICK h \in ListHead : t \in Nodes(k.list[h])
  BY DEF Linked
<1>2. h \in Priority \/ h \in Wait \/ h = Dead
  BY DEF ListHead
<1> QED BY <1>1, <1>2 DEF Placed

\* The running thread goes back to a ready queue when it is switched away.
Stays(k) == k.statu[k.cur] = "RUNNING"

\* What a call of rt_schedule changes: a ready thread and the current one
\* trade places, now or at the end of the handler.
Rescheduled(k, r) ==
  /\ SameClock(k, r)
  /\ \A h \in Wait \cup {Dead} : Nodes(r.list[h]) = Nodes(k.list[h])
  /\ \A t \in Thread : \/ r.statu[t] = k.statu[t]
                       \/ /\ r.statu[t] \in {"READY", "RUNNING"}
                          /\ k.statu[t] \in {"READY", "RUNNING"}
  /\ IF k.group = {} THEN r = k
     ELSE /\ r.statu[r.cur] = "RUNNING"
          /\ IF k.nest = 0 THEN r.cpu = r.cur /\ r.flag = k.flag
             ELSE r.cpu = k.cpu /\ r.flag

-----------------------------------------------------------------------------
\* Kernel calls other than rt_schedule work on one thread.  Basic is what
\* each of their steps keeps, Did(k, t, r) says that a step from k to r was
\* about thread t alone, and Homes(k, t) are the lists t is linked in.
Basic(k) == k \in State /\ Once(k) /\ GroupMatches(k)

Homes(k, t) == {h \in ListHead : t \in Nodes(k.list[h])}

Aside(k, t, r) ==
  /\ \A u \in Thread \ {t} :
       /\ r.statu[u] = k.statu[u] /\ r.error[u] = k.error[u]
       /\ Homes(r, u) = Homes(k, u)
       /\ u \in r.active <=> u \in k.active
       /\ r.timeout[u] = k.timeout[u]
  /\ r.cur = k.cur /\ SameSwitch(k, r) /\ r.tick = k.tick /\ r.remaining = k.remaining
  /\ r.nest = k.nest /\ r.fault = k.fault

Did(k, t, r) == Basic(r) /\ Aside(k, t, r)

\* A thread with no home is not linked.
LEMMA Homeless ==
  ASSUME NEW k, NEW t
  PROVE  Linked(k, t) <=> Homes(k, t) # {}
  BY DEF Linked, Homes

\* Assignments to t->statu and t->error
SetStatu(k, t, s) == [k EXCEPT !.statu[t] = s]
SetError(k, t, e) == [k EXCEPT !.error[t] = e]

\* An assignment to t->error is about t alone.
LEMMA ErrorStep ==
  ASSUME NEW k, Basic(k), NEW t \in Thread, NEW e \in Error, NEW r, r = SetError(k, t, e)
  PROVE  /\ Did(k, t, r) /\ Homes(r, t) = Homes(k, t) /\ r.statu = k.statu
         /\ r.active = k.active /\ r.error[t] = e /\ r.timers = k.timers
<1> DEFINE m == [k.error EXCEPT ![t] = e]
<1>1. k \in State /\ k.error \in [Thread -> Error]
  BY DEF Basic, State
<1>2. r = [k EXCEPT !.error = m]
  BY <1>1 DEF State, SetError
<1>3. m \in [Thread -> Error] /\ m[t] = e /\ \A u \in Thread \ {t} : m[u] = k.error[u]
  BY <1>1
<1> HIDE DEF m
<1>4. r \in State /\ r.error = m
  BY <1>1, <1>2, <1>3 DEF State
<1>5. /\ SameSwitch(k, r) /\ r.cur = k.cur /\ r.list = k.list /\ r.group = k.group
      /\ r.statu = k.statu /\ r.timers = k.timers /\ r.active = k.active /\ r.timeout = k.timeout
      /\ r.tick = k.tick /\ r.remaining = k.remaining /\ r.nest = k.nest /\ r.fault = k.fault
  BY <1>1, <1>2 DEF State, SameSwitch
<1> QED BY <1>3, <1>4, <1>5 DEF Did, Basic, Aside, Once, GroupMatches, Homes

-----------------------------------------------------------------------------
\* The whole invariant of a kernel state, and what it says of one thread.
Whole(k, freed) == Sound(k, freed) /\ TimersMatch(k)

Home(k, t, freed) ==
  \/ k.statu[t] = "READY" /\ Homes(k, t) = {prio[t]} /\ t # k.cur
  \/ k.statu[t] = "SUSPEND" /\ \E h \in Wait : Homes(k, t) = {h}
  \/ k.statu[t] = "CLOSE" /\ t \notin freed /\ Homes(k, t) = {Dead}
  \/ k.statu[t] = "CLOSE" /\ t \in freed /\ Homes(k, t) = {}
  \/ k.statu[t] = "RUNNING" /\ Homes(k, t) = {} /\ t = k.cur
  \/ k.statu[t] = "SLEEP" /\ Homes(k, t) = {}
  \/ k.statu[t] = "INIT" /\ Homes(k, t) = {} /\ t # k.cur

Timed(k, t) ==
  /\ t \in k.active => k.statu[t] \in {"SLEEP", "SUSPEND"}
  /\ k.statu[t] = "SLEEP" => t \in k.active

Together(k, freed) ==
  /\ Basic(k) /\ k.fault = "none" /\ SwitchMatches(k)
  /\ \A t \in Thread : k.remaining[t] > 0 /\ Home(k, t, freed)

\* Placed gives every thread its home.
LEMMA PlacedHome ==
  ASSUME NEW k, NEW freed, Sound(k, freed), NEW t \in Thread
  PROVE  Home(k, t, freed)
<1>1. k \in State /\ Placed(k, freed) /\ k.statu[k.cur] \notin {"READY", "INIT"}
  BY DEF Sound
<1>2. k.statu[t] \in Statu
  BY <1>1 DEF State
<1>3. ASSUME NEW h \in ListHead, t \in Nodes(k.list[h]) PROVE Homes(k, t) = {h}
  BY <1>1, <1>3, SMTT(60) DEF Placed, Homes
<1>4. CASE Linked(k, t)
  <2>1. PICK h \in ListHead : t \in Nodes(k.list[h])
    BY <1>4 DEF Linked
  <2>2. h \in Priority \/ h \in Wait \/ h = Dead
    BY DEF ListHead
  <2>3. Homes(k, t) = {h}
    BY <1>3, <2>1
  <2>4. h \in Priority => k.statu[t] = "READY" /\ h = prio[t]
    BY <1>1, <2>1 DEF Placed
  <2>5. h \in Wait => k.statu[t] = "SUSPEND"
    BY <1>1, <2>1 DEF Placed
  <2>6. h = Dead => k.statu[t] = "CLOSE" /\ t \notin freed
    BY <1>1, <2>1 DEF Placed
  <2> QED BY <1>1, <2>2, <2>3, <2>4, <2>5, <2>6 DEF Home
<1>5. CASE ~ Linked(k, t)
  <2>1. Homes(k, t) = {}
    BY <1>5, Homeless
  <2>2. k.statu[t] \notin {"READY", "SUSPEND"} /\ (k.statu[t] = "CLOSE" => t \in freed)
    BY <1>1, <1>5 DEF Placed
  <2>3. k.statu[t] = "RUNNING" => t = k.cur
    BY <1>1 DEF Placed
  <2> QED BY <1>1, <1>2, <2>1, <2>2, <2>3 DEF Home, Statu
<1> QED BY <1>4, <1>5

\* The homes of all threads give Placed.
LEMMA HomePlaced ==
  ASSUME NEW k, NEW freed, k \in State, Once(k), \A t \in Thread : Home(k, t, freed)
  PROVE  Placed(k, freed) /\ k.statu[k.cur] \notin {"READY", "INIT"}
<1>1. ASSUME NEW t \in Thread, NEW h \in ListHead, t \in Nodes(k.list[h])
      PROVE  /\ h \in Priority => k.statu[t] = "READY" /\ h = prio[t]
             /\ h \in Wait => k.statu[t] = "SUSPEND"
             /\ h = Dead => k.statu[t] = "CLOSE" /\ t \notin freed
             /\ \A g \in ListHead : t \in Nodes(k.list[g]) => g = h
  <2>1. h \in Homes(k, t) /\ Home(k, t, freed)
    BY <1>1 DEF Homes
  <2>2. Homes(k, t) = {h}
    BY <2>1 DEF Home
  <2>3. \A g \in ListHead : t \in Nodes(k.list[g]) => g = h
    BY <2>2 DEF Homes
  <2>4. prio[t] \in Priority /\ Dead \notin Priority \cup Wait /\ Wait \cap Priority = {}
    BY KernelAssumption
  <2> QED BY <2>1, <2>2, <2>3, <2>4 DEF Home
<1>2. ASSUME NEW t \in Thread
      PROVE  /\ k.statu[t] \in {"READY", "SUSPEND"} => Linked(k, t)
             /\ k.statu[t] = "CLOSE" => Linked(k, t) \/ t \in freed
             /\ k.statu[t] = "RUNNING" => t = k.cur
  <2>1. Home(k, t, freed) /\ (Linked(k, t) <=> Homes(k, t) # {})
    BY Homeless
  <2> QED BY <2>1 DEF Home
<1>3. k.cur \in Thread /\ Home(k, k.cur, freed)
  BY DEF State
<1>4. k.statu[k.cur] \notin {"READY", "INIT"}
  BY <1>3 DEF Home
<1> QED BY <1>1, <1>2, <1>4 DEF Placed, Once

\* The invariant, thread by thread.
LEMMA SoundTogether ==
  ASSUME NEW k, NEW freed
  PROVE  Sound(k, freed) <=> Together(k, freed)
<1>1. ASSUME Sound(k, freed) PROVE Together(k, freed)
  <2>1. Basic(k)
    BY <1>1 DEF Basic, Sound, Placed, Once
  <2>2. \A t \in Thread : Home(k, t, freed)
    BY <1>1, PlacedHome
  <2> QED BY <1>1, <2>1, <2>2 DEF Together, Sound
<1>2. ASSUME Together(k, freed) PROVE Sound(k, freed)
  <2>1. /\ k \in State /\ Once(k) /\ GroupMatches(k)
        /\ \A t \in Thread : Home(k, t, freed)
    BY <1>2 DEF Together, Basic
  <2>2. Placed(k, freed) /\ k.statu[k.cur] \notin {"READY", "INIT"}
    BY <2>1, HomePlaced
  <2> QED BY <1>2, <2>1, <2>2 DEF Together, Sound
<1> QED BY <1>1, <1>2

\* A step about t keeps the invariant when t is where its status says.
LEMMA OneSound ==
  ASSUME NEW k, NEW f, Sound(k, f), NEW t \in Thread, NEW r, Did(k, t, r),
         NEW g, \A u \in Thread \ {t} : u \in g <=> u \in f, Home(r, t, g)
  PROVE  Sound(r, g)
<1>1. Together(k, f)
  BY SoundTogether
<1>2. Basic(r) /\ Aside(k, t, r)
  BY DEF Did
<1>3. /\ r.cur = k.cur /\ SameSwitch(k, r) /\ r.nest = k.nest
      /\ r.fault = k.fault /\ r.remaining = k.remaining
  BY <1>2 DEF Aside
<1>4. SwitchMatches(r)
  BY <1>1, <1>3 DEF SwitchMatches, SameSwitch, Together
<1>5. ASSUME NEW u \in Thread PROVE Home(r, u, g)
  <2>1. CASE u # t
    <3>1. r.statu[u] = k.statu[u] /\ Homes(r, u) = Homes(k, u)
      BY <1>2, <2>1 DEF Aside
    <3>2. Home(k, u, f) /\ (u \in g <=> u \in f)
      BY <1>1, <2>1 DEF Together
    <3> QED BY <1>3, <3>1, <3>2 DEF Home
  <2> QED BY <2>1
<1>6. Together(r, g)
  BY <1>1, <1>2, <1>3, <1>4, <1>5 DEF Together
<1> QED BY <1>6, SoundTogether

\* The same with the timers.
LEMMA OneWhole ==
  ASSUME NEW k, NEW f, Whole(k, f), NEW t \in Thread, NEW r, Did(k, t, r),
         NEW g, \A u \in Thread \ {t} : u \in g <=> u \in f, Home(r, t, g),
         TimersLinked(r), Timed(r, t)
  PROVE  Whole(r, g)
<1>1. Sound(r, g)
  BY OneSound DEF Whole
<1>2. ASSUME NEW u \in Thread PROVE Timed(r, u)
  <2>1. CASE u # t
    <3>1. r.statu[u] = k.statu[u] /\ (u \in r.active <=> u \in k.active)
      BY <2>1 DEF Did, Aside
    <3> QED BY <3>1 DEF Whole, TimersMatch, Timed
  <2> QED BY <2>1
<1> QED BY <1>1, <1>2 DEF Whole, TimersMatch, TimersLinked, Timed

\* What is known of the thread that runs, and of one in a list.
LEMMA RunningFacts ==
  ASSUME NEW k, NEW f, Whole(k, f), NEW t \in Thread, k.statu[t] = "RUNNING"
  PROVE  Basic(k) /\ TimersLinked(k) /\ Homes(k, t) = {} /\ t = k.cur /\ t \notin k.active
<1>1. Sound(k, f) /\ TimersMatch(k)
  BY DEF Whole
<1>2. Basic(k) /\ Home(k, t, f)
  BY <1>1, SoundTogether DEF Together
<1> QED BY <1>1, <1>2 DEF Home, TimersMatch, TimersLinked

-----------------------------------------------------------------------------
\* The kernel calls of os/thread.c keep the invariant Whole of a kernel state.

\* A record of the effect of a call about t: the invariant holds afterwards,
\* t has status s, and no other thread is concerned.
Called(k, t, r, freed, s) == Whole(r, freed) /\ Did(k, t, r) /\ r.statu[t] = s

-----------------------------------------------------------------------------
\* A step that leaves the lists, the timers and the statuses alone.
SameLists(k, r) ==
  /\ r.cur = k.cur /\ r.statu = k.statu /\ r.list = k.list /\ r.group = k.group
  /\ r.timers = k.timers /\ r.active = k.active /\ r.fault = k.fault

\* Such a step keeps the invariant when the pending switch stays exact.
LEMMA SameListsWhole ==
  ASSUME NEW k, NEW f, Whole(k, f), NEW r \in State, SameLists(k, r), SwitchMatches(r),
         \A t \in Thread : r.remaining[t] > 0
  PROVE  Whole(r, f)
<1>1. Placed(r, f) /\ GroupMatches(r) /\ TimersMatch(r) /\ r.fault = "none"
  BY DEF Whole, Sound, SameLists, Placed, GroupMatches, TimersMatch, Linked
<1> QED BY <1>1 DEF Whole, Sound, SameLists

\* While a thread is ready the group has a bit.
LEMMA ReadyGroup ==
  ASSUME NEW k, NEW f, Whole(k, f), NEW t \in Thread, k.statu[t] = "READY"
  PROVE  k.group # {}
<1>1. k \in State /\ GroupMatches(k) /\ Home(k, t, f)
  BY SoundTogether DEF Whole, Together, Basic
<1>2. prio[t] \in Homes(k, t)
  BY <1>1 DEF Home
<1>3. prio[t] \in Priority /\ t \in Nodes(k.list[prio[t]])
  BY <1>2, KernelAssumption DEF Homes
<1>4. k.group = {p \in Priority : Nodes(k.list[p]) # {}}
  BY <1>1, GroupNodes
<1> QED BY <1>3, <1>4

-----------------------------------------------------------------------------
\* What calls about t that end in rt_schedule do to the other threads.
Quiet(k, t, r) ==
  \A u \in Thread \ {t} :
       /\ \/ r.statu[u] = k.statu[u]
          \/ r.statu[u] \in {"READY", "RUNNING"} /\ k.statu[u] \in {"READY", "RUNNING"}
       /\ \A h \in Wait \cup {Dead} : u \in Nodes(r.list[h]) <=> u \in Nodes(k.list[h])

\* A step about t is quiet for the others.
LEMMA DidQuiet ==
  ASSUME NEW k, NEW t, NEW r, Did(k, t, r)
  PROVE  Quiet(k, t, r)
<1>1. \A u \in Thread \ {t} : r.statu[u] = k.statu[u] /\ Homes(r, u) = Homes(k, u)
  BY DEF Did, Aside
<1>2. ASSUME NEW u \in Thread \ {t}, NEW h \in Wait \cup {Dead}
      PROVE  u \in Nodes(r.list[h]) <=> u \in Nodes(k.list[h])
  <2>1. h \in ListHead
    BY DEF ListHead
  <2>2. h \in Homes(r, u) <=> h \in Homes(k, u)
    BY <1>1
  <2> QED BY <2>1, <2>2 DEF Homes
<1> QED BY <1>1, <1>2 DEF Quiet, Did, Aside

\* A call of rt_schedule is quiet for all.
LEMMA RescheduledQuiet ==
  ASSUME NEW k, NEW t, NEW r, Rescheduled(k, r)
  PROVE  Quiet(k, t, r)
  BY DEF Rescheduled, SameClock, Quiet

\* Two quiet steps make one.
LEMMA QuietTrans ==
  ASSUME NEW k, NEW t, NEW r, NEW s, Quiet(k, t, r), Quiet(r, t, s)
  PROVE  Quiet(k, t, s)
  BY DEF Quiet

\* The running thread after a call: chosen by rt_schedule, or as before.
Runs(k, r) ==
  \/ r.statu[r.cur] = "RUNNING"
  \/ r.cur = k.cur /\ r.flag = k.flag /\ r.statu[r.cur] = k.statu[k.cur]

\* The effect of a timer of t that fires.
Fired(k, t, r) ==
  /\ Quiet(k, t, r) /\ Runs(k, r) /\ r.nest = k.nest
  /\ k.statu[t] \in {"SLEEP", "SUSPEND"} /\ r.statu[t] \in {"READY", "RUNNING"}
  /\ \A h \in Wait \cup {Dead} : t \notin Nodes(r.list[h])
  /\ Nodes(r.timers) = Nodes(k.timers) \ {t} /\ r.timers = rt_list_remove(k.timers, t)
  /\ t \in k.active /\ k.tick > k.timeout[t] /\ r.tick = k.tick
  /\ r.error[t] = "ETIMEOUT"
  /\ \A u \in Thread \ {t} : r.error[u] = k.error[u] /\ r.timeout[u] = k.timeout[u]

-----------------------------------------------------------------------------
\* What the calls of the kernel promise.

\* rt_thread_sleep of the running thread, up to its rt_schedule
SleepCall ==
  \A k, f, r : \A t \in Thread, i \in Tick :
      /\ Whole(k, f) /\ k.statu[t] = "RUNNING" /\ r = rt_thread_sleep(k, t, i)
    => /\ Called(k, t, r, f, "SLEEP") /\ Homes(r, t) = {} /\ r.error = k.error
       /\ r.timeout[t] = TickSum(k.tick, i)

\* The running thread joins the wait queue h, with or without a timer.
BlockCall ==
  \A k, f, r : \A t \in Thread, h \in Wait, i \in Tick \cup {-1} :
      /\ Whole(k, f) /\ k.statu[t] = "RUNNING" /\ r = Block(k, t, h, i)
    => /\ Called(k, t, r, f, "SUSPEND") /\ Homes(r, t) = {h} /\ r.error[t] = "EOK"
       /\ i = -1 => t \notin r.active
       /\ i > 0 => r.timeout[t] = TickSum(k.tick, i)

\* rt_thread_resume of a suspended thread: it is ready, or runs on when it
\* has not yet given the processor away.
ResumeCall ==
  \A k, f, r : \A t \in Thread :
      /\ Whole(k, f) /\ k.statu[t] = "SUSPEND" /\ r = rt_thread_resume(k, t)
    => /\ Called(k, t, r, f, IF t = k.cur THEN "RUNNING" ELSE "READY") /\ r.error = k.error
       /\ Homes(r, t) = IF t = k.cur THEN {} ELSE {prio[t]}

\* The end of a thread that idle is not freeing
CloseCall ==
  \A k, f, r : \A t \in Thread :
      /\ Whole(k, f) /\ t \notin f /\ r = Close(k, t)
    => Called(k, t, r, f, "CLOSE") /\ r.error = k.error /\ Homes(r, t) = {Dead}

\* Idle takes a closed thread out of the dead list: it belongs to g from now on.
ReapCall ==
  \A k, f, g, r : \A t \in Thread :
      /\ Whole(k, f) /\ t \in Nodes(k.list[Dead]) /\ t \in g
      /\ (\A u \in Thread \ {t} : u \in g <=> u \in f) /\ r = Unlink(k, t)
    => Called(k, t, r, g, "CLOSE") /\ r.error = k.error /\ Homes(r, t) = {} /\ k.statu[t] = "CLOSE"

\* The memory of a closed thread out of the dead list is free again.
FreeCall ==
  \A k, f, g, r : \A t \in Thread :
      /\ Whole(k, f) /\ t \in f /\ k.statu[t] = "CLOSE" /\ t # k.cur
      /\ (\A u \in Thread \ {t} : u \in g <=> u \in f) /\ r = SetStatu(k, t, "INIT")
    => Called(k, t, r, g, "INIT") /\ r.error = k.error /\ Homes(r, t) = {}

\* A new thread is linked into the ready queue of its priority.
JoinCall ==
  \A k, f, r : \A t \in Thread :
      /\ Whole(k, f) /\ k.statu[t] = "INIT" /\ r = rt_schedule_insert_thread(k, t)
    => Called(k, t, r, f, "READY") /\ r.error = k.error /\ Homes(r, t) = {prio[t]}

\* rt_schedule keeps the whole invariant.
ScheduleCall ==
  \A k, f, r :
      /\ Whole(k, f) /\ r = rt_schedule(k)
    => Whole(r, f) /\ Rescheduled(k, r)

\* rt_timer_check leaves a timer alone, or fires it and wakes its thread.
FireCall ==
  \A k, f, r : \A t \in Thread :
      /\ Whole(k, f) /\ r = FireIfDue(k, t)
    => Whole(r, f) /\ (r = k \/ Fired(k, t, r))

\* Every call keeps its promise.  The steps before the calls say what the
\* parts of a call do to the lists, the group and the timers.
LEMMA KernelCalls ==
  /\ SleepCall /\ BlockCall /\ ResumeCall /\ CloseCall /\ ReapCall
  /\ FreeCall /\ JoinCall /\ ScheduleCall /\ FireCall

\* Removing a thread from its list unlinks it and leaves the others.
<1>UnlinkFacts.
  ASSUME NEW k \in State, Once(k), NEW t \in Thread
  PROVE  /\ Unlink(k, t) \in State /\ Once(Unlink(k, t))
         /\ \A h \in ListHead : Nodes(Unlink(k, t).list[h]) = Nodes(k.list[h]) \ {t}
         /\ ButList(k, Unlink(k, t))
  <2> USE <1>UnlinkFacts
  <2>1. \A h \in ListHead : k.list[h] \in Seq(Thread)
    BY DEF State
  <2>2. \A h \in ListHead : /\ rt_list_remove(k.list[h], t) \in Seq(Thread)
                            /\ Nodes(rt_list_remove(k.list[h], t)) = Nodes(k.list[h]) \ {t}
                            /\ NoRepeat(rt_list_remove(k.list[h], t))
    BY <2>1, Remove DEF Once
  <2> DEFINE l == [h \in ListHead |-> rt_list_remove(k.list[h], t)]
  <2>3. l \in [ListHead -> Seq(Thread)]
    BY <2>2
  <2>4. Unlink(k, t) = [k EXCEPT !.list = l] /\ Unlink(k, t).list = l
    BY DEF Unlink, State
  <2>5. Unlink(k, t) \in State
    BY <2>3, <2>4 DEF State
  <2> QED BY <2>2, <2>4, <2>5 DEF Once, ButList

\* The same at the front of a list.
<1>PutFirstFacts.
  ASSUME NEW k \in State, Once(k), NEW t \in Thread, NEW h \in ListHead, ~ Linked(k, t)
  PROVE  /\ PutFirst(k, h, t) \in State /\ Once(PutFirst(k, h, t))
         /\ \A g \in ListHead : Nodes(PutFirst(k, h, t).list[g]) =
                                  IF g = h THEN Nodes(k.list[g]) \cup {t} ELSE Nodes(k.list[g])
         /\ ButList(k, PutFirst(k, h, t))
  <2> USE <1>PutFirstFacts
  <2> DEFINE r == rt_list_insert_after(k.list[h], t)
             l == [k.list EXCEPT ![h] = r]
  <2>1. k.list[h] \in Seq(Thread) /\ k.list \in [ListHead -> Seq(Thread)]
    BY DEF State
  <2>2. t \notin Nodes(k.list[h])
    BY DEF Linked
  <2>3. r \in Seq(Thread) /\ Nodes(r) = Nodes(k.list[h]) \cup {t} /\ NoRepeat(r)
    BY <2>1, <2>2, InsertAfter, SMTT(60) DEF Once
  <2>4. Tear(k, Linked(k, t)) = k
    BY DEF Tear, State
  <2>5. PutFirst(k, h, t) = [k EXCEPT !.list = l] /\ PutFirst(k, h, t).list = l
    BY <2>4 DEF PutFirst, State
  <2>6. l \in [ListHead -> Seq(Thread)]
    BY <2>1, <2>3
  <2>7. PutFirst(k, h, t) \in State
    BY <2>5, <2>6 DEF State
  <2>8. \A g \in ListHead : l[g] = IF g = h THEN r ELSE k.list[g]
    BY <2>1
  <2> HIDE DEF l, r
  <2> QED BY <2>3, <2>5, <2>7, <2>8 DEF Once, ButList

\* Stopping a timer unlinks it, if it was linked.
<1>TimerStopFacts.
  ASSUME NEW k \in State, TimersLinked(k), NEW t \in Thread
  PROVE  /\ rt_timer_stop(k, t) \in State /\ TimersLinked(rt_timer_stop(k, t))
         /\ rt_timer_stop(k, t).active = k.active \ {t}
         /\ rt_timer_stop(k, t).timeout = k.timeout
         /\ ButTimers(k, rt_timer_stop(k, t))
  <2> USE <1>TimerStopFacts
  <2> DEFINE r == rt_list_remove(k.timers, t)
  <2>1. k.timers \in Seq(Thread) /\ k.active \subseteq Thread
    BY DEF State
  <2>2. r \in Seq(Thread) /\ Nodes(r) = Nodes(k.timers) \ {t} /\ NoRepeat(r)
    BY <2>1, Remove DEF TimersLinked
  <2> HIDE DEF r
  <2>3. CASE t \in k.active
    <3>1. rt_timer_stop(k, t) = [k EXCEPT !.timers = r, !.active = k.active \ {t}]
      BY <2>3 DEF rt_timer_stop, State, r
    <3>2. /\ rt_timer_stop(k, t).timers = r /\ rt_timer_stop(k, t).active = k.active \ {t}
          /\ rt_timer_stop(k, t).timeout = k.timeout
      BY <3>1 DEF State
    <3>3. rt_timer_stop(k, t) \in State
      BY <2>1, <2>2, <3>1 DEF State
    <3>4. ButTimers(k, rt_timer_stop(k, t))
      BY <3>1, <3>2 DEF ButTimers, State
    <3> QED BY <2>2, <3>2, <3>3, <3>4 DEF TimersLinked
  <2>4. CASE t \notin k.active
    <3>1. rt_timer_stop(k, t) = k /\ k.active \ {t} = k.active
      BY <2>4 DEF rt_timer_stop
    <3>2. ButTimers(k, k)
      BY DEF State, ButTimers
    <3> QED BY <3>1, <3>2
  <2> QED BY <2>3, <2>4

\* The unsigned sum of two ticks is a tick.
<1>TickSumType.
  ASSUME NEW i \in Tick, NEW j \in Tick
  PROVE  TickSum(i, j) \in Tick
  BY <1>TickSumType, KernelAssumption, SMTT(60) DEF TickSum, Tick

\* Starting a timer that is not linked links and activates it.
<1>TimerStartFacts.
  ASSUME NEW k \in State, TimersLinked(k), NEW t \in Thread, t \notin k.active,
         NEW i \in Tick
  PROVE  /\ rt_timer_start(k, t, i) \in State /\ TimersLinked(rt_timer_start(k, t, i))
         /\ rt_timer_start(k, t, i).active = k.active \cup {t}
         /\ rt_timer_start(k, t, i).timeout[t] = TickSum(k.tick, i)
         /\ \A u \in Thread \ {t} : rt_timer_start(k, t, i).timeout[u] = k.timeout[u]
         /\ ButTimers(k, rt_timer_start(k, t, i))
  <2> USE <1>TimerStartFacts
  <2> DEFINE r == rt_list_insert_after(k.timers, t)
             m == [k.timeout EXCEPT ![t] = TickSum(k.tick, i)]
  <2>1. /\ k.timers \in Seq(Thread) /\ k.active \subseteq Thread
        /\ k.timeout \in [Thread -> Tick] /\ k.tick \in Tick
    BY DEF State
  <2>2. r \in Seq(Thread) /\ Nodes(r) = Nodes(k.timers) \cup {t} /\ NoRepeat(r)
    BY <2>1, InsertAfter, SMTT(60) DEF TimersLinked
  <2>3. /\ m \in [Thread -> Tick] /\ m[t] = TickSum(k.tick, i)
        /\ \A u \in Thread \ {t} : m[u] = k.timeout[u]
    BY <2>1, <1>TickSumType
  <2>4. Tear(k, t \in Nodes(k.timers)) = k
    BY DEF Tear, State, TimersLinked
  <2>5. rt_timer_start(k, t, i) =
          [k EXCEPT !.timeout = m, !.timers = r, !.active = k.active \cup {t}]
    BY <2>4 DEF rt_timer_start, State
  <2> HIDE DEF r, m
  <2>6. /\ rt_timer_start(k, t, i).timers = r
        /\ rt_timer_start(k, t, i).timeout = m
        /\ rt_timer_start(k, t, i).active = k.active \cup {t}
    BY <2>5 DEF State
  <2>7. rt_timer_start(k, t, i) \in State
    <3>1. [k EXCEPT !.timeout = m] \in State
      BY <2>3 DEF State
    <3>2. [[k EXCEPT !.timeout = m] EXCEPT !.timers = r] \in State
      BY <2>2, <3>1 DEF State
    <3>3. k.active \cup {t} \in SUBSET Thread
      BY <2>1
    <3>4. [[[k EXCEPT !.timeout = m] EXCEPT !.timers = r] EXCEPT !.active = k.active \cup {t}] \in State
      BY <3>2, <3>3 DEF State
    <3> QED BY <2>5, <3>4 DEF State
  <2>8. ButTimers(k, rt_timer_start(k, t, i))
    BY <2>5, <2>6 DEF State, ButTimers
  <2> QED BY <2>2, <2>3, <2>6, <2>7, <2>8 DEF TimersLinked

\* Taking a thread out of its list clears the bit of its priority when the
\* ready queue of that priority is empty then.
<1>RemoveThreadFacts.
  ASSUME NEW k \in State, Once(k), NEW t \in Thread,
         NEW r, r = rt_schedule_remove_thread(k, t)
  PROVE  Removed(k, t, r)
  <2> USE <1>RemoveThreadFacts
  <2> DEFINE u == Unlink(k, t)
  <2>1. /\ u \in State /\ Once(u) /\ ButList(k, u)
        /\ \A h \in ListHead : Nodes(u.list[h]) = Nodes(k.list[h]) \ {t}
    BY <1>UnlinkFacts
  <2>2. prio[t] \in ListHead /\ prio[t] \in Priority
    BY KernelAssumption DEF ListHead
  <2>3. u.list[prio[t]] \in Seq(Thread) /\ u.list \in [ListHead -> Seq(Thread)]
    BY <2>1, <2>2 DEF State
  <2>4. rt_list_isempty(u.list[prio[t]]) <=> Nodes(u.list[prio[t]]) = {}
    <3> HIDE DEF u
    <3> QED BY <2>3, IsEmptyNodes
  <2> DEFINE g == IF Nodes(u.list[prio[t]]) = {} THEN k.group \ {prio[t]} ELSE k.group
  <2>5. u.group = k.group
    BY <2>1 DEF State, ButList
  <2>6. r = [u EXCEPT !.group = g]
    BY <2>4, <2>5 DEF rt_schedule_remove_thread
  <2>7. g \in SUBSET Priority
    BY DEF State
  <2> HIDE DEF u, g
  <2>8. r = [k EXCEPT !.list = u.list, !.group = g]
    BY <2>1, <2>6 DEF State, ButList
  <2>9. r \in State /\ r.list = u.list /\ r.group = g
    BY <2>3, <2>7, <2>8 DEF State
  <2> QED BY <2>1, <2>8, <2>9 DEF Once, g, ButQueues, Removed

\* A context switch, now or at the end of the handler.
<1>ContextSwitchFacts.
  ASSUME NEW k \in State, NEW from \in Thread, NEW to \in Thread,
         NEW r, r = ContextSwitch(k, from, to)
  PROVE  /\ r \in State
         /\ ButSwitch(k, r)
         /\ IF k.nest = 0 THEN r.cpu = to /\ r.flag = k.flag
            ELSE /\ r.cpu = k.cpu /\ r.flag /\ r.to = to
                 /\ r.from = IF k.flag THEN k.from ELSE from
  <2> USE <1>ContextSwitchFacts
  <2>1. CASE k.nest = 0
    <3>1. r = [k EXCEPT !.cpu = to]
      BY <2>1 DEF ContextSwitch
    <3> QED BY <2>1, <3>1 DEF State, ButSwitch
  <2>2. CASE k.nest # 0
    <3> DEFINE f == IF k.flag THEN k.from ELSE from
    <3>1. r = [k EXCEPT !.flag = TRUE, !.from = f, !.to = to]
      BY <2>2 DEF ContextSwitch
    <3>2. f \in Thread
      BY DEF State
    <3> HIDE DEF f
    <3>3. r.cpu = k.cpu /\ r.flag = TRUE /\ r.from = f /\ r.to = to
      BY <3>1 DEF State
    <3>4. r \in State
      BY <3>1, <3>2 DEF State
    <3>5. ButSwitch(k, r)
      BY <3>1, <3>3 DEF State, ButSwitch
    <3> QED BY <2>2, <3>3, <3>4, <3>5 DEF f
  <2> QED BY <2>1, <2>2

\* An unlinked thread is put into the ready queue of its priority.
<1>InsertThreadFacts.
  ASSUME NEW k \in State, Once(k), NEW t \in Thread, t # k.cur, ~ Linked(k, t),
         NEW r, r = rt_schedule_insert_thread(k, t)
  PROVE  Inserted(k, t, r)
  <2> USE <1>InsertThreadFacts
  <2> DEFINE u == PutLast(k, prio[t], t)
             g == k.group \cup {prio[t]}
             m == [k.statu EXCEPT ![t] = "READY"]
  <2>1. prio[t] \in ListHead /\ prio[t] \in Priority
    BY KernelAssumption DEF ListHead
  <2>2. /\ u \in State /\ Once(u) /\ ButList(k, u)
        /\ \A h \in ListHead : Nodes(u.list[h]) = IF h = prio[t] THEN Nodes(k.list[h]) \cup {t}
                                                 ELSE Nodes(k.list[h])
    BY <2>1, PutLastFacts
  <2>3. u.group = k.group /\ u.statu = k.statu
    BY <2>2 DEF State, ButList
  <2>4. r = [u EXCEPT !.statu = m, !.group = g]
    BY <2>3 DEF rt_schedule_insert_thread
  <2>5. g \in SUBSET Priority /\ m \in [Thread -> Statu]
    BY <2>1 DEF State, Statu
  <2> HIDE DEF u, g, m
  <2>6. r.list = u.list /\ r.group = g /\ r.statu = m
    BY <2>2, <2>4 DEF State
  <2>7. ButReady(k, r)
    BY <2>2, <2>4, <2>6 DEF State, ButList, ButReady
  <2>8. r \in State
    <3>1. [u EXCEPT !.statu = m] \in State
      BY <2>2, <2>5 DEF State
    <3>2. [[u EXCEPT !.statu = m] EXCEPT !.group = g] \in State
      BY <2>5, <3>1 DEF State
    <3> QED BY <2>2, <2>4, <3>2 DEF State
  <2> QED BY <2>2, <2>6, <2>7, <2>8 DEF Once, g, m, Inserted

\* The thread rt_schedule picks is ready and is not the current one.
<1>PickFacts.
  ASSUME NEW k, NEW freed, Sound(k, freed), k.group # {},
         NEW p, p = HighestPriority(k.group)
  PROVE  /\ p \in Priority /\ ~ rt_list_isempty(k.list[p])
         /\ k.list[p][1] \in Thread /\ k.list[p][1] # k.cur
         /\ k.statu[k.list[p][1]] = "READY" /\ prio[k.list[p][1]] = p
         /\ k.list[p][1] \in Nodes(k.list[p])
  <2> USE <1>PickFacts
  <2>1. k \in State /\ k.group \subseteq Priority /\ k.list \in [ListHead -> Seq(Thread)]
    BY DEF Sound, State
  <2>2. p \in k.group
    BY <2>1, HighestPriorityIn
  <2>3. p \in Priority /\ p \in ListHead /\ k.list[p] \in Seq(Thread)
    BY <2>1, <2>2 DEF ListHead
  <2>4. ~ rt_list_isempty(k.list[p])
    BY <2>2, <2>3 DEF Sound, GroupMatches
  <2>5. k.list[p][1] \in Thread /\ k.list[p][1] \in Nodes(k.list[p])
    BY <2>3, <2>4, IsEmptyNodes
  <2>6. k.statu[k.list[p][1]] = "READY" /\ p = prio[k.list[p][1]]
    BY <2>3, <2>5 DEF Sound, Placed
  <2> QED BY <2>3, <2>4, <2>5, <2>6 DEF Sound

\* rt_schedule_insert_thread changes ready queues, group and status only.
<1>ButReadyFields.
  ASSUME NEW k \in State, NEW r, ButReady(k, r)
  PROVE  SameClock(k, r) /\ SameSwitch(k, r) /\ r.cur = k.cur
  BY <1>ButReadyFields DEF ButReady, State, SameClock, SameSwitch

\* rt_schedule_remove_thread changes queues and group only.
<1>ButQueuesFields.
  ASSUME NEW k \in State, NEW r, ButQueues(k, r)
  PROVE  SameClock(k, r) /\ SameSwitch(k, r) /\ r.cur = k.cur /\ r.statu = k.statu
  BY <1>ButQueuesFields DEF ButQueues, State, SameClock, SameSwitch

\* rt_hw_context_switch(_interrupt) changes the switch fields only.
<1>ButSwitchFields.
  ASSUME NEW k \in State, NEW r, ButSwitch(k, r)
  PROVE  SameClock(k, r) /\ r.cur = k.cur /\ r.statu = k.statu /\ r.list = k.list /\ r.group = k.group
  BY <1>ButSwitchFields DEF ButSwitch, State, SameClock

\* rt_list_remove of a tlist changes the lists only.
<1>ButListFields.
  ASSUME NEW k \in State, NEW r, ButList(k, r)
  PROVE  SameClock(k, r) /\ SameSwitch(k, r) /\ r.cur = k.cur /\ r.statu = k.statu /\ r.group = k.group
  BY <1>ButListFields DEF ButList, State, SameClock, SameSwitch

\* rt_timer_start and rt_timer_stop change the timers only.
<1>ButTimersFields.
  ASSUME NEW k \in State, NEW r, ButTimers(k, r)
  PROVE  /\ SameSwitch(k, r) /\ r.cur = k.cur /\ r.statu = k.statu /\ r.group = k.group
         /\ r.list = k.list /\ r.error = k.error /\ r.tick = k.tick
         /\ r.remaining = k.remaining /\ r.nest = k.nest /\ r.fault = k.fault
  BY <1>ButTimersFields DEF ButTimers, State, SameSwitch

\* The first half of a switch: the chosen thread is current, the old one
\* back in its ready queue unless it gave up the processor.
<1>ChosenFacts.
  ASSUME NEW k \in State, Once(k), NEW to \in Thread, NEW r, r = Chosen(k, to)
  PROVE  /\ r \in State /\ Once(r) /\ r.list = k.list /\ r.group = k.group /\ r.cur = to
         /\ \A t \in Thread : r.statu[t] = IF t = to THEN "RUNNING" ELSE k.statu[t]
         /\ SameClock(k, r) /\ SameSwitch(k, r)
  <2> USE <1>ChosenFacts
  <2> DEFINE m == [k.statu EXCEPT ![to] = "RUNNING"]
  <2>1. m \in [Thread -> Statu] /\ \A t \in Thread : m[t] = IF t = to THEN "RUNNING" ELSE k.statu[t]
    BY DEF State, Statu
  <2>2. r = [k EXCEPT !.cur = to, !.statu = m]
    BY DEF State, Chosen
  <2> HIDE DEF m
  <2>3. r \in State
    BY <2>1, <2>2 DEF State
  <2>4. r.list = k.list /\ r.group = k.group /\ r.cur = to /\ r.statu = m
    BY <2>2 DEF State
  <2>5. SameClock(k, r) /\ SameSwitch(k, r)
    BY <2>2 DEF State, SameClock, SameSwitch
  <2>6. Once(r)
    BY <2>4 DEF Once
  <2> QED BY <2>1, <2>3, <2>4, <2>5, <2>6

\* rt_schedule up to the removal of the chosen thread: the old thread is
\* ready again, at the end of its queue, if it was running.
<1>HandOverFacts.
  ASSUME NEW k, NEW freed, Sound(k, freed), NEW to \in Thread, k.statu[to] = "READY",
         NEW r, r = HandOver(k, to)
  PROVE  /\ r \in State /\ Once(r)
         /\ \A h \in ListHead : Nodes(r.list[h]) =
              IF Stays(k) /\ h = prio[k.cur] THEN Nodes(k.list[h]) \cup {k.cur} ELSE Nodes(k.list[h])
         /\ r.group = IF Stays(k) THEN k.group \cup {prio[k.cur]} ELSE k.group
         /\ \A t \in Thread : r.statu[t] = IF t = to THEN "RUNNING"
                                           ELSE IF Stays(k) /\ t = k.cur THEN "READY" ELSE k.statu[t]
         /\ r.cur = to /\ SameClock(k, r) /\ SameSwitch(k, r)
  <2> USE <1>HandOverFacts
  <2>1. /\ k \in State /\ Once(k) /\ k.cur \in Thread
        /\ k.statu[k.cur] \in Statu \ {"READY", "INIT"} /\ to # k.cur
    BY DEF Sound, Placed, Once, State
  <2> DEFINE c == Chosen(k, to)
  <2>2. /\ c \in State /\ Once(c) /\ c.list = k.list /\ c.group = k.group /\ c.cur = to
        /\ \A t \in Thread : c.statu[t] = IF t = to THEN "RUNNING" ELSE k.statu[t]
        /\ SameClock(k, c) /\ SameSwitch(k, c)
    BY <2>1, <1>ChosenFacts
  <2>3. CASE Stays(k)
    <3>1. ~ Linked(c, k.cur)
      BY <2>1, <2>2, <2>3, LinkedStatu DEF Sound, Stays, Linked
    <3>2. r = rt_schedule_insert_thread(c, k.cur)
      BY <2>3 DEF Stays, HandOver
    <3> HIDE DEF c
    <3>3. /\ r \in State /\ Once(r)
          /\ \A h \in ListHead : Nodes(r.list[h]) =
               IF h = prio[k.cur] THEN Nodes(c.list[h]) \cup {k.cur} ELSE Nodes(c.list[h])
          /\ r.group = c.group \cup {prio[k.cur]}
          /\ r.statu = [c.statu EXCEPT ![k.cur] = "READY"]
          /\ ButReady(c, r)
      <4>1. Inserted(c, k.cur, r)
        BY <2>1, <2>2, <3>1, <3>2, <1>InsertThreadFacts
      <4> QED BY <4>1 DEF Inserted
    <3>4. c.statu \in [Thread -> Statu]
      BY <2>2 DEF State
    <3>5. \A t \in Thread : r.statu[t] = IF t = to THEN "RUNNING"
                                        ELSE IF t = k.cur THEN "READY" ELSE k.statu[t]
      BY <2>1, <2>2, <3>3, <3>4
    <3>6. r.cur = to /\ SameClock(c, r) /\ SameSwitch(c, r)
      BY <2>2, <3>3, <1>ButReadyFields
    <3>7. SameClock(k, r) /\ SameSwitch(k, r)
      BY <2>2, <3>6 DEF SameClock, SameSwitch
    <3> QED BY <2>2, <2>3, <3>3, <3>5, <3>6, <3>7
  <2>4. CASE ~ Stays(k)
    <3>1. r = c
      BY <2>1, <2>4 DEF Statu, Stays, HandOver
    <3> QED BY <2>2, <2>4, <3>1
  <2> QED BY <2>3, <2>4

\* rt_schedule keeps the lists, the group and the pending switch sound; it
\* never reaches its endless loop or an empty queue.
<1>ScheduleFacts.
  ASSUME NEW k, NEW freed, Sound(k, freed), NEW r, r = rt_schedule(k)
  PROVE  Sound(r, freed) /\ Rescheduled(k, r)
  <2> USE <1>ScheduleFacts
  <2>1. CASE k.group = {}
    <3>1. r = k
      BY <2>1 DEF rt_schedule
    <3> QED BY <2>1, <3>1 DEF Rescheduled, SameClock
  <2>2. CASE k.group # {}
    <3> DEFINE p == HighestPriority(k.group)
               to == k.list[p][1]
               k2 == HandOver(k, to)
               k3 == rt_schedule_remove_thread(k2, to)
    <3>1. /\ p \in Priority /\ ~ rt_list_isempty(k.list[p])
          /\ to \in Thread /\ to # k.cur
          /\ k.statu[to] = "READY" /\ prio[to] = p /\ to \in Nodes(k.list[p])
      BY <2>2, <1>PickFacts
    <3>2. r = ContextSwitch(k3, k.cur, to)
      BY <2>2, <3>1 DEF rt_schedule
    <3>3. /\ k \in State /\ k.cur \in Thread /\ k.nest \in {0, 1} /\ k.flag \in BOOLEAN
          /\ k.statu[k.cur] \in Statu \ {"READY", "INIT"} /\ k.cpu \in Thread
          /\ prio \in [Thread -> Priority] /\ p \in ListHead /\ k.group \subseteq Priority
      BY <3>1, KernelAssumption DEF Sound, State, ListHead
    <3> HIDE DEF p, to
    <3>4. /\ k2 \in State /\ Once(k2)
          /\ \A h \in ListHead : Nodes(k2.list[h]) =
               IF Stays(k) /\ h = prio[k.cur] THEN Nodes(k.list[h]) \cup {k.cur} ELSE Nodes(k.list[h])
          /\ k2.group = IF Stays(k) THEN k.group \cup {prio[k.cur]} ELSE k.group
          /\ \A t \in Thread : k2.statu[t] = IF t = to THEN "RUNNING"
                                             ELSE IF Stays(k) /\ t = k.cur THEN "READY" ELSE k.statu[t]
          /\ k2.cur = to /\ SameClock(k, k2) /\ SameSwitch(k, k2)
      BY <3>1, <1>HandOverFacts
    <3>leaves. k3 = rt_schedule_remove_thread(k2, to) /\ k2 \in State /\ Once(k2) /\ to \in Thread
      BY <3>1, <3>4
    <3> HIDE DEF k2, k3
    <3>removed. Removed(k2, to, k3)
      BY <3>leaves, <1>RemoveThreadFacts
    <3>5. /\ k3 \in State /\ Once(k3) /\ ButQueues(k2, k3)
          /\ \A h \in ListHead : Nodes(k3.list[h]) = Nodes(k2.list[h]) \ {to}
          /\ k3.group = IF Nodes(k3.list[prio[to]]) = {} THEN k2.group \ {prio[to]} ELSE k2.group
      BY <3>removed DEF Removed
    <3>6. SameClock(k2, k3) /\ SameSwitch(k2, k3) /\ k3.cur = k2.cur /\ k3.statu = k2.statu
      BY <3>4, <3>5, <1>ButQueuesFields
    <3>7. /\ r \in State /\ ButSwitch(k3, r)
          /\ IF k3.nest = 0 THEN r.cpu = to /\ r.flag = k3.flag
             ELSE /\ r.cpu = k3.cpu /\ r.flag /\ r.to = to
                  /\ r.from = IF k3.flag THEN k3.from ELSE k.cur
      BY <3>1, <3>2, <3>3, <3>5, <1>ContextSwitchFacts, SMTT(60)
    <3>8. /\ SameClock(k3, r) /\ r.cur = k3.cur /\ r.statu = k3.statu
          /\ r.list = k3.list /\ r.group = k3.group
      BY <3>5, <3>7, <1>ButSwitchFields
    <3>9. SameClock(k, r)
      BY <3>4, <3>6, <3>8 DEF SameClock
    <3>10. /\ r.cur = to /\ k3.nest = k.nest /\ k3.cpu = k.cpu
           /\ k3.flag = k.flag /\ k3.from = k.from
      BY <3>4, <3>6, <3>8 DEF SameClock, SameSwitch
    <3>11. SwitchMatches(r)
      BY <3>3, <3>7, <3>8, <3>9, <3>10, SMTT(60) DEF SwitchMatches, Sound, SameClock
    <3>12. \A h \in ListHead : Nodes(r.list[h]) =
             IF Stays(k) /\ h = prio[k.cur] THEN (Nodes(k.list[h]) \cup {k.cur}) \ {to}
             ELSE Nodes(k.list[h]) \ {to}
      BY <3>4, <3>5, <3>8
    <3>13. \A t \in Thread : r.statu[t] = IF t = to THEN "RUNNING"
                                         ELSE IF Stays(k) /\ t = k.cur THEN "READY" ELSE k.statu[t]
      BY <3>4, <3>6, <3>8
    <3>14. Once(r)
      BY <3>5, <3>8 DEF Once
    <3>loose. Stays(k) => ~ Linked(k, k.cur)
      BY <3>3, LinkedStatu DEF Sound, Stays
    <3>placed. Placed(k, freed)
      BY DEF Sound
    <3>15. Placed(r, freed)
      <4>1. ASSUME NEW t \in Thread, NEW h \in ListHead, t \in Nodes(r.list[h])
            PROVE  /\ h \in Priority => r.statu[t] = "READY" /\ h = prio[t]
                   /\ h \in Wait => r.statu[t] = "SUSPEND"
                   /\ h = Dead => r.statu[t] = "CLOSE" /\ t \notin freed
                   /\ \A g \in ListHead : t \in Nodes(r.list[g]) => g = h
        <5>1. t # to
          BY <3>12, <4>1
        <5>2. CASE Stays(k) /\ t = k.cur
          <6>1. h = prio[t] /\ \A g \in ListHead : t \in Nodes(r.list[g]) => g = h
            BY <3>loose, <3>12, <4>1, <5>2 DEF Linked
          <6>2. h \in Priority /\ h \notin Wait /\ h # Dead
            BY <3>3, <4>1, <6>1, KernelAssumption
          <6> QED BY <3>13, <5>1, <5>2, <6>1, <6>2
        <5>3. CASE ~ (Stays(k) /\ t = k.cur)
          <6>1. t \in Nodes(k.list[h]) /\ r.statu[t] = k.statu[t]
            BY <3>12, <3>13, <4>1, <5>1, <5>3
          <6>2. \A g \in ListHead : t \in Nodes(r.list[g]) => t \in Nodes(k.list[g])
            BY <3>12, <5>3
          <6> QED BY <3>placed, <6>1, <6>2 DEF Placed
        <5> QED BY <5>2, <5>3
      <4>2. ASSUME NEW t \in Thread
            PROVE  /\ r.statu[t] \in {"READY", "SUSPEND"} => Linked(r, t)
                   /\ r.statu[t] = "CLOSE" => Linked(r, t) \/ t \in freed
                   /\ r.statu[t] = "RUNNING" => t = r.cur
        <5>1. t # to /\ Linked(k, t) => Linked(r, t)
          BY <3>12 DEF Linked
        <5>2. CASE t = to
          BY <3>10, <3>13, <5>2
        <5>3. CASE t # to /\ Stays(k) /\ t = k.cur
          <6>1. prio[t] \in ListHead
            BY <3>3 DEF ListHead
          <6>2. t \in Nodes(r.list[prio[t]])
            BY <3>12, <5>3, <6>1
          <6> QED BY <3>13, <5>3, <6>1, <6>2 DEF Linked
        <5>4. CASE t # to /\ ~ (Stays(k) /\ t = k.cur)
          <6>1. r.statu[t] = k.statu[t]
            BY <3>13, <5>4
          <6>2. k.statu[t] # "RUNNING"
            BY <3>placed, <5>4 DEF Placed, Stays
          <6> QED BY <3>placed, <5>1, <5>4, <6>1, <6>2 DEF Placed
        <5> QED BY <5>2, <5>3, <5>4
      <4> QED BY <3>14, <4>1, <4>2 DEF Placed, Once
    <3>16. GroupMatches(r)
      <4>1. k.group = {q \in Priority : Nodes(k.list[q]) # {}}
        BY <3>3, GroupNodes DEF Sound
      <4>2. prio[k.cur] \in Priority /\ Priority \subseteq ListHead
        BY <3>3 DEF ListHead
      <4>3. k2.group = {q \in Priority : Nodes(k2.list[q]) # {}}
        BY <3>4, <4>1, <4>2
      <4>4. \A q \in Priority : to \in Nodes(k2.list[q]) => q = p
        <5>1. \A q \in Priority : to \in Nodes(k.list[q]) => q = p
          BY <3>1, <3>placed, <4>2 DEF Placed
        <5>2. ASSUME NEW q \in Priority, to \in Nodes(k2.list[q]) PROVE q = p
          <6>1. Nodes(k2.list[q]) \subseteq Nodes(k.list[q]) \cup {k.cur}
            BY <3>4, <4>2
          <6> QED BY <3>1, <5>1, <5>2, <6>1
        <5> QED BY <5>2
      <4>5. k3.group = {q \in Priority : Nodes(k3.list[q]) # {}}
        BY <3>1, <3>5, <4>2, <4>3, <4>4, SMTT(60)
      <4> QED BY <3>7, <3>8, <4>5, GroupNodes
    <3>17. r.fault = "none" /\ \A t \in Thread : r.remaining[t] > 0
      BY <3>9 DEF SameClock, Sound
    <3>18. ASSUME NEW h \in Wait \cup {Dead} PROVE Nodes(r.list[h]) = Nodes(k.list[h])
      <4>1. h \in ListHead /\ h # prio[k.cur]
        BY <3>3, KernelAssumption DEF ListHead
      <4>2. to \notin Nodes(k.list[h])
        BY <3>1, <3>placed, <4>1 DEF Placed
      <4> QED BY <3>12, <4>1, <4>2
    <3>19. Rescheduled(k, r)
      BY <2>2, <3>1, <3>3, <3>7, <3>9, <3>10, <3>13, <3>18 DEF Rescheduled, Stays
    <3> QED BY <3>1, <3>7, <3>10, <3>11, <3>13, <3>15, <3>16, <3>17, <3>19 DEF Sound
  <2> QED BY <2>1, <2>2

\* Two steps about t make one.
<1>DidTrans.
  ASSUME NEW k, NEW t, NEW r, NEW s, Did(k, t, r), Did(r, t, s)
  PROVE  Did(k, t, s)
  BY <1>DidTrans DEF Did, Aside, SameSwitch

\* rt_list_remove(&t->tlist) of a thread in no ready queue
<1>UnlinkStep.
  ASSUME NEW k, Basic(k), NEW t \in Thread, Homes(k, t) \cap Priority = {},
         NEW r, r = Unlink(k, t)
  PROVE  /\ Did(k, t, r) /\ Homes(r, t) = {} /\ r.statu = k.statu
         /\ r.active = k.active /\ r.error = k.error /\ r.timers = k.timers
  <2> USE <1>UnlinkStep
  <2>1. k \in State /\ Once(k)
    BY DEF Basic
  <2>2. /\ r \in State /\ Once(r) /\ ButList(k, r)
        /\ \A h \in ListHead : Nodes(r.list[h]) = Nodes(k.list[h]) \ {t}
    BY <2>1, <1>UnlinkFacts
  <2>3. SameClock(k, r) /\ SameSwitch(k, r) /\ r.cur = k.cur /\ r.statu = k.statu /\ r.group = k.group
    BY <2>1, <2>2, <1>ButListFields
  <2>4. Homes(r, t) = {}
    BY <2>2 DEF Homes
  <2>5. \A u \in Thread \ {t} : Homes(r, u) = Homes(k, u)
    BY <2>2 DEF Homes
  <2>6. GroupMatches(r)
    <3>1. \A p \in Priority : p \in ListHead /\ t \notin Nodes(k.list[p])
      BY DEF Homes, ListHead
    <3>2. \A p \in Priority : Nodes(r.list[p]) = Nodes(k.list[p])
      BY <2>2, <3>1
    <3> QED BY <2>1, <2>2, <2>3, <3>2, GroupNodes DEF Basic
  <2> QED BY <2>2, <2>3, <2>4, <2>5, <2>6 DEF Did, Basic, Aside, SameClock

\* rt_schedule_remove_thread of a thread in no ready queue but its own
<1>RemoveStep.
  ASSUME NEW k, Basic(k), NEW t \in Thread, Homes(k, t) \cap Priority \subseteq {prio[t]},
         NEW r, r = rt_schedule_remove_thread(k, t)
  PROVE  /\ Did(k, t, r) /\ Homes(r, t) = {} /\ r.statu = k.statu
         /\ r.active = k.active /\ r.error = k.error /\ r.timers = k.timers
  <2> USE <1>RemoveStep
  <2>1. k \in State /\ Once(k)
    BY DEF Basic
  <2>2. Removed(k, t, r)
    BY <2>1, <1>RemoveThreadFacts
  <2>3. /\ r \in State /\ Once(r) /\ ButQueues(k, r)
        /\ \A h \in ListHead : Nodes(r.list[h]) = Nodes(k.list[h]) \ {t}
        /\ r.group = IF Nodes(r.list[prio[t]]) = {} THEN k.group \ {prio[t]} ELSE k.group
    BY <2>2 DEF Removed
  <2>4. SameClock(k, r) /\ SameSwitch(k, r) /\ r.cur = k.cur /\ r.statu = k.statu
    BY <2>1, <2>3, <1>ButQueuesFields
  <2>5. Homes(r, t) = {}
    BY <2>3 DEF Homes
  <2>6. \A u \in Thread \ {t} : Homes(r, u) = Homes(k, u)
    BY <2>3 DEF Homes
  <2>7. GroupMatches(r)
    <3>1. k.group = {p \in Priority : Nodes(k.list[p]) # {}}
      BY <2>1, GroupNodes DEF Basic
    <3>2. \A p \in Priority : p \in ListHead /\ (p # prio[t] => t \notin Nodes(k.list[p]))
      BY DEF Homes, ListHead
    <3>3. ASSUME NEW p \in Priority \ {prio[t]} PROVE Nodes(r.list[p]) = Nodes(k.list[p])
      <4>1. p \in ListHead /\ t \notin Nodes(k.list[p])
        BY <3>2
      <4>2. Nodes(r.list[p]) = Nodes(k.list[p]) \ {t}
        BY <2>3, <4>1
      <4> QED BY <4>1, <4>2
    <3>4. prio[t] \in Priority /\ Nodes(r.list[prio[t]]) \subseteq Nodes(k.list[prio[t]])
      <4>1. prio[t] \in Priority /\ prio[t] \in ListHead
        BY KernelAssumption DEF ListHead
      <4>2. Nodes(r.list[prio[t]]) = Nodes(k.list[prio[t]]) \ {t}
        BY <2>3, <4>1
      <4> QED BY <4>1, <4>2
    <3>5. r.group = {p \in Priority : Nodes(r.list[p]) # {}}
      BY <2>3, <3>1, <3>3, <3>4
    <3> QED BY <2>3, <3>5, GroupNodes
  <2> QED BY <2>3, <2>4, <2>5, <2>6, <2>7 DEF Did, Basic, Aside, SameClock

\* rt_timer_stop for the timer of t
<1>StopStep.
  ASSUME NEW k, Basic(k), TimersLinked(k), NEW t \in Thread, NEW r, r = rt_timer_stop(k, t)
  PROVE  /\ Did(k, t, r) /\ Homes(r, t) = Homes(k, t) /\ r.statu = k.statu
         /\ TimersLinked(r) /\ t \notin r.active /\ r.error = k.error
  <2> USE <1>StopStep
  <2>1. /\ k \in State /\ r \in State /\ TimersLinked(r) /\ r.active = k.active \ {t}
        /\ r.timeout = k.timeout /\ ButTimers(k, r)
    BY <1>TimerStopFacts DEF Basic
  <2>2. /\ SameSwitch(k, r) /\ r.cur = k.cur /\ r.statu = k.statu /\ r.group = k.group
        /\ r.list = k.list /\ r.error = k.error /\ r.tick = k.tick
        /\ r.remaining = k.remaining /\ r.nest = k.nest /\ r.fault = k.fault
    BY <2>1, <1>ButTimersFields
  <2> QED BY <2>1, <2>2 DEF Did, Basic, Aside, Once, GroupMatches, Homes

\* rt_timer_start for a timer that is not running
<1>StartStep.
  ASSUME NEW k, Basic(k), TimersLinked(k), NEW t \in Thread, t \notin k.active, NEW i \in Tick,
         NEW r, r = rt_timer_start(k, t, i)
  PROVE  /\ Did(k, t, r) /\ Homes(r, t) = Homes(k, t) /\ r.statu = k.statu
         /\ TimersLinked(r) /\ t \in r.active /\ r.error = k.error
         /\ r.timeout[t] = TickSum(k.tick, i)
  <2> USE <1>StartStep
  <2>1. /\ k \in State /\ r \in State /\ TimersLinked(r) /\ r.active = k.active \cup {t}
        /\ r.timeout[t] = TickSum(k.tick, i) /\ \A u \in Thread \ {t} : r.timeout[u] = k.timeout[u]
        /\ ButTimers(k, r)
    <3>1. k \in State
      BY DEF Basic
    <3>2. /\ rt_timer_start(k, t, i) \in State /\ TimersLinked(rt_timer_start(k, t, i))
          /\ rt_timer_start(k, t, i).active = k.active \cup {t}
          /\ rt_timer_start(k, t, i).timeout[t] = TickSum(k.tick, i)
          /\ \A u \in Thread \ {t} : rt_timer_start(k, t, i).timeout[u] = k.timeout[u]
          /\ ButTimers(k, rt_timer_start(k, t, i))
      BY ONLY <3>1, TimersLinked(k), t \in Thread, t \notin k.active, i \in Tick, <1>TimerStartFacts
    <3> QED BY <3>1, <3>2, Zenon
  <2>2. /\ SameSwitch(k, r) /\ r.cur = k.cur /\ r.statu = k.statu /\ r.group = k.group
        /\ r.list = k.list /\ r.error = k.error /\ r.tick = k.tick
        /\ r.remaining = k.remaining /\ r.nest = k.nest /\ r.fault = k.fault
    BY <2>1, <1>ButTimersFields
  <2> QED BY <2>1, <2>2 DEF Did, Basic, Aside, Once, GroupMatches, Homes

\* t becomes the last or the first of a list that is no ready queue.
<1>PutStep.
  ASSUME NEW k, Basic(k), NEW t \in Thread, Homes(k, t) = {}, NEW h \in Wait \cup {Dead},
         NEW r, r \in {PutLast(k, h, t), PutFirst(k, h, t)}
  PROVE  /\ Did(k, t, r) /\ Homes(r, t) = {h} /\ r.statu = k.statu
         /\ r.active = k.active /\ r.error = k.error /\ r.timers = k.timers
  <2> USE <1>PutStep
  <2>1. k \in State /\ Once(k) /\ ~ Linked(k, t)
    BY Homeless DEF Basic
  <2>2. h \in ListHead /\ h \notin Priority
    BY KernelAssumption DEF ListHead
  <2>3. /\ r \in State /\ Once(r) /\ ButList(k, r)
        /\ \A g \in ListHead : Nodes(r.list[g]) =
             IF g = h THEN Nodes(k.list[g]) \cup {t} ELSE Nodes(k.list[g])
    <3>1. CASE r = PutLast(k, h, t)
      <4>1. /\ PutLast(k, h, t) \in State /\ Once(PutLast(k, h, t))
            /\ \A g \in ListHead : Nodes(PutLast(k, h, t).list[g]) =
                 IF g = h THEN Nodes(k.list[g]) \cup {t} ELSE Nodes(k.list[g])
            /\ ButList(k, PutLast(k, h, t))
        BY <2>1, <2>2, PutLastFacts
      <4> QED BY <3>1, <4>1
    <3>2. CASE r = PutFirst(k, h, t)
      <4>1. /\ PutFirst(k, h, t) \in State /\ Once(PutFirst(k, h, t))
            /\ \A g \in ListHead : Nodes(PutFirst(k, h, t).list[g]) =
                 IF g = h THEN Nodes(k.list[g]) \cup {t} ELSE Nodes(k.list[g])
            /\ ButList(k, PutFirst(k, h, t))
        BY <2>1, <2>2, <1>PutFirstFacts
      <4> QED BY <3>2, <4>1
    <3> QED BY <3>1, <3>2
  <2>4. SameClock(k, r) /\ SameSwitch(k, r) /\ r.cur = k.cur /\ r.statu = k.statu /\ r.group = k.group
    BY <2>1, <2>3, <1>ButListFields
  <2>5. Homes(r, t) = {h}
    BY <2>2, <2>3 DEF Homes
  <2>6. \A u \in Thread \ {t} : Homes(r, u) = Homes(k, u)
    BY <2>3 DEF Homes
  <2>7. GroupMatches(r)
    <3>1. \A p \in Priority : p \in ListHead /\ p # h
      BY <2>2 DEF ListHead
    <3>2. \A p \in Priority : Nodes(r.list[p]) = Nodes(k.list[p])
      BY <2>3, <3>1
    <3> QED BY <2>1, <2>3, <2>4, <3>2, GroupNodes DEF Basic
  <2> QED BY <2>3, <2>4, <2>5, <2>6, <2>7 DEF Did, Basic, Aside, SameClock

\* rt_schedule_insert_thread of an unlinked thread: it is ready, or runs on
\* when it is still the current one.
<1>InsertStep.
  ASSUME NEW k, Basic(k), NEW t \in Thread, Homes(k, t) = {},
         NEW r, r = rt_schedule_insert_thread(k, t)
  PROVE  /\ Did(k, t, r) /\ r.active = k.active /\ r.error = k.error /\ r.timers = k.timers
         /\ IF t = k.cur THEN Homes(r, t) = {} /\ r.statu[t] = "RUNNING"
            ELSE Homes(r, t) = {prio[t]} /\ r.statu[t] = "READY"
  <2> USE <1>InsertStep
  <2>1. k \in State /\ Once(k) /\ ~ Linked(k, t) /\ k.statu \in [Thread -> Statu]
    BY Homeless DEF Basic, State
  <2>2. CASE t = k.cur
    <3> DEFINE m == [k.statu EXCEPT ![t] = "RUNNING"]
    <3>1. r = [k EXCEPT !.statu = m]
      BY <2>2 DEF rt_schedule_insert_thread, State
    <3>2. m \in [Thread -> Statu] /\ m[t] = "RUNNING" /\ \A u \in Thread \ {t} : m[u] = k.statu[u]
      BY <2>1 DEF Statu
    <3> HIDE DEF m
    <3>3. r \in State /\ r.statu = m
      BY <2>1, <3>1, <3>2 DEF State
    <3>4. SameClock(k, r) /\ SameSwitch(k, r) /\ r.cur = k.cur /\ r.list = k.list /\ r.group = k.group
      BY <2>1, <3>1 DEF State, SameClock, SameSwitch
    <3> QED BY <2>2, <3>2, <3>3, <3>4
            DEF Did, Basic, Aside, SameClock, Once, GroupMatches, Homes
  <2>3. CASE t # k.cur
    <3>1. /\ r \in State /\ Once(r)
          /\ \A h \in ListHead : Nodes(r.list[h]) = IF h = prio[t] THEN Nodes(k.list[h]) \cup {t}
                                                    ELSE Nodes(k.list[h])
          /\ r.group = k.group \cup {prio[t]}
          /\ r.statu = [k.statu EXCEPT ![t] = "READY"]
          /\ ButReady(k, r)
      <4>1. Inserted(k, t, r)
        BY <2>1, <2>3, <1>InsertThreadFacts
      <4> QED BY <4>1 DEF Inserted
    <3>2. SameClock(k, r) /\ SameSwitch(k, r) /\ r.cur = k.cur
      BY <2>1, <3>1, <1>ButReadyFields
    <3>3. r.statu[t] = "READY" /\ \A u \in Thread \ {t} : r.statu[u] = k.statu[u]
      BY <2>1, <3>1
    <3>4. prio[t] \in ListHead /\ prio[t] \in Priority
      BY KernelAssumption DEF ListHead
    <3>5. Homes(r, t) = {prio[t]}
      BY <3>1, <3>4 DEF Homes
    <3>6. \A u \in Thread \ {t} : Homes(r, u) = Homes(k, u)
      BY <3>1 DEF Homes
    <3>7. GroupMatches(r)
      <4>1. k.group = {p \in Priority : Nodes(k.list[p]) # {}}
        BY <2>1, GroupNodes DEF Basic
      <4>2. \A p \in Priority : Nodes(r.list[p]) = IF p = prio[t] THEN Nodes(k.list[p]) \cup {t}
                                                   ELSE Nodes(k.list[p])
        BY <3>1 DEF ListHead
      <4>3. r.group = {p \in Priority : Nodes(r.list[p]) # {}}
        BY <3>1, <3>4, <4>1, <4>2
      <4> QED BY <3>1, <4>3, GroupNodes
    <3> QED BY <2>3, <3>1, <3>2, <3>3, <3>5, <3>6, <3>7 DEF Did, Basic, Aside, SameClock
  <2> QED BY <2>2, <2>3

\* An assignment to t->statu is about t alone.
<1>StatuStep.
  ASSUME NEW k, Basic(k), NEW t \in Thread, NEW s \in Statu, NEW r, r = SetStatu(k, t, s)
  PROVE  /\ Did(k, t, r) /\ Homes(r, t) = Homes(k, t) /\ r.statu[t] = s
         /\ r.active = k.active /\ r.error = k.error /\ r.timers = k.timers
  <2> USE <1>StatuStep
  <2> DEFINE m == [k.statu EXCEPT ![t] = s]
  <2>1. k \in State /\ k.statu \in [Thread -> Statu]
    BY DEF Basic, State
  <2>2. r = [k EXCEPT !.statu = m]
    BY <2>1 DEF State, SetStatu
  <2>3. m \in [Thread -> Statu] /\ m[t] = s /\ \A u \in Thread \ {t} : m[u] = k.statu[u]
    BY <2>1
  <2> HIDE DEF m
  <2>4. r \in State /\ r.statu = m
    BY <2>1, <2>2, <2>3 DEF State
  <2>5. SameClock(k, r) /\ SameSwitch(k, r) /\ r.cur = k.cur /\ r.list = k.list /\ r.group = k.group
    BY <2>1, <2>2 DEF State, SameClock, SameSwitch
  <2> QED BY <2>3, <2>4, <2>5 DEF Did, Basic, Aside, SameClock, Once, GroupMatches, Homes

\* rt_thread_suspend of the running thread
<1>SuspendCall.
  ASSUME NEW k, Basic(k), TimersLinked(k), NEW t \in Thread, k.statu[t] = "RUNNING",
         Homes(k, t) = {}, NEW s \in Statu, NEW r, r = rt_thread_suspend(k, t, s)
  PROVE  /\ Did(k, t, r) /\ Homes(r, t) = {} /\ r.statu[t] = s
         /\ TimersLinked(r) /\ t \notin r.active /\ r.error = k.error
  <2> USE <1>SuspendCall
  <2> DEFINE k1 == rt_schedule_remove_thread(k, t)
             k2 == [k1 EXCEPT !.statu[t] = s]
  <2>1. r = rt_timer_stop(k2, t)
    BY DEF rt_thread_suspend
  <2>2. k1 = rt_schedule_remove_thread(k, t) /\ Homes(k, t) \cap Priority \subseteq {prio[t]}
    OBVIOUS
  <2>3. k2 = SetStatu(k1, t, s)
    BY DEF SetStatu
  <2> HIDE DEF k1, k2
  <2>4. /\ Did(k, t, k1) /\ Homes(k1, t) = {} /\ k1.statu = k.statu
        /\ k1.active = k.active /\ k1.error = k.error /\ k1.timers = k.timers
    BY <2>2, <1>RemoveStep
  <2>5. Basic(k1)
    BY <2>4 DEF Did
  <2>6. /\ Did(k1, t, k2) /\ Homes(k2, t) = Homes(k1, t) /\ k2.statu[t] = s
        /\ k2.active = k1.active /\ k2.error = k1.error /\ k2.timers = k1.timers
    BY <2>3, <2>5, <1>StatuStep, SMT
  <2>7. Basic(k2) /\ TimersLinked(k2)
    BY <2>4, <2>6 DEF Did, TimersLinked
  <2>8. /\ Did(k2, t, r) /\ Homes(r, t) = Homes(k2, t) /\ r.statu = k2.statu
        /\ TimersLinked(r) /\ t \notin r.active /\ r.error = k2.error
    BY <2>1, <2>7, <1>StopStep
  <2>9. Did(k, t, r)
    BY <2>4, <2>6, <2>8, <1>DidTrans
  <2> QED BY <2>4, <2>6, <2>8, <2>9

<1>SleepCall. SleepCall
  <2> USE DEF SleepCall
  <2> TAKE k, f, r
  <2> TAKE t \in Thread, i \in Tick
  <2> HAVE /\ Whole(k, f) /\ k.statu[t] = "RUNNING" /\ r = rt_thread_sleep(k, t, i)
  <2> DEFINE k1 == rt_thread_suspend(k, t, "SLEEP")
  <2>1. Basic(k) /\ TimersLinked(k) /\ Homes(k, t) = {}
    BY RunningFacts
  <2>2. k1 = rt_thread_suspend(k, t, "SLEEP") /\ "SLEEP" \in Statu
    BY DEF Statu
  <2>3. r = rt_timer_start(k1, t, i)
    BY DEF rt_thread_sleep
  <2> HIDE DEF k1
  <2>4. /\ Did(k, t, k1) /\ Homes(k1, t) = {} /\ k1.statu[t] = "SLEEP"
        /\ TimersLinked(k1) /\ t \notin k1.active /\ k1.error = k.error
    BY <2>1, <2>2, <1>SuspendCall, SMT
  <2>5. Basic(k1)
    BY <2>4 DEF Did
  <2>6. /\ Did(k1, t, r) /\ Homes(r, t) = Homes(k1, t) /\ r.statu = k1.statu
        /\ TimersLinked(r) /\ t \in r.active /\ r.error = k1.error
        /\ r.timeout[t] = TickSum(k1.tick, i)
    BY <2>3, <2>4, <2>5, <1>StartStep, SMT
  <2>7. Did(k, t, r)
    BY <2>4, <2>6, <1>DidTrans
  <2>8. Home(r, t, f) /\ Timed(r, t)
    BY <2>4, <2>6 DEF Home, Timed
  <2>9. Whole(r, f)
    BY <2>6, <2>7, <2>8, OneWhole
  <2>10. k1.tick = k.tick
    BY <2>4 DEF Did, Aside
  <2> QED BY <2>4, <2>6, <2>7, <2>9, <2>10 DEF Called

<1>BlockCall. BlockCall
  <2> USE DEF BlockCall
  <2> TAKE k, f, r
  <2> TAKE t \in Thread, h \in Wait, i \in Tick \cup {-1}
  <2> HAVE /\ Whole(k, f) /\ k.statu[t] = "RUNNING" /\ r = Block(k, t, h, i)
  <2> DEFINE k0 == [k EXCEPT !.error[t] = "EOK"]
             k1 == rt_thread_suspend(k0, t, "SUSPEND")
             k2 == PutLast(k1, h, t)
  <2>1. Basic(k) /\ TimersLinked(k) /\ Homes(k, t) = {}
    BY RunningFacts
  <2>2. k0 = SetError(k, t, "EOK") /\ "EOK" \in Error /\ "SUSPEND" \in Statu
    BY DEF Error, Statu, SetError
  <2>3. k1 = rt_thread_suspend(k0, t, "SUSPEND")
    OBVIOUS
  <2>4. k2 \in {PutLast(k1, h, t), PutFirst(k1, h, t)}
    OBVIOUS
  <2>5. r = IF i > 0 THEN rt_timer_start(k2, t, i) ELSE k2
    BY DEF Block
  <2> HIDE DEF k0, k1, k2
  <2>6. /\ Did(k, t, k0) /\ Homes(k0, t) = Homes(k, t) /\ k0.statu = k.statu
        /\ k0.active = k.active /\ k0.error[t] = "EOK" /\ k0.timers = k.timers
    BY <2>1, <2>2, ErrorStep, SMT
  <2>7. Basic(k0) /\ TimersLinked(k0) /\ k0.statu[t] = "RUNNING" /\ Homes(k0, t) = {}
    BY <2>1, <2>6 DEF Did, TimersLinked
  <2>8. /\ Did(k0, t, k1) /\ Homes(k1, t) = {} /\ k1.statu[t] = "SUSPEND"
        /\ TimersLinked(k1) /\ t \notin k1.active /\ k1.error = k0.error
    BY <2>2, <2>3, <2>7, <1>SuspendCall, SMT
  <2>9. Basic(k1)
    BY <2>8 DEF Did
  <2>10. /\ Did(k1, t, k2) /\ Homes(k2, t) = {h} /\ k2.statu = k1.statu
         /\ k2.active = k1.active /\ k2.error = k1.error /\ k2.timers = k1.timers
    BY <2>4, <2>8, <2>9, <1>PutStep, SMT
  <2>11. Basic(k2) /\ TimersLinked(k2) /\ t \notin k2.active /\ Did(k, t, k2)
    <3>1. Did(k, t, k1)
      BY <2>6, <2>8, <1>DidTrans
    <3> QED BY <2>8, <2>10, <3>1, <1>DidTrans DEF Did, TimersLinked
  <2>12. /\ Did(k, t, r) /\ Homes(r, t) = {h} /\ r.statu[t] = "SUSPEND"
         /\ TimersLinked(r) /\ r.error[t] = "EOK"
         /\ i > 0 => r.timeout[t] = TickSum(k.tick, i)
    <3>1. CASE i > 0
      <4>1. i \in Tick /\ r = rt_timer_start(k2, t, i)
        BY <2>5, <3>1, SMT
      <4>2. /\ Did(k2, t, r) /\ Homes(r, t) = Homes(k2, t) /\ r.statu = k2.statu
            /\ TimersLinked(r) /\ t \in r.active /\ r.error = k2.error
            /\ r.timeout[t] = TickSum(k2.tick, i)
        BY <2>11, <4>1, <1>StartStep, SMT
      <4>3. k2.tick = k.tick
        BY <2>11 DEF Did, Aside
      <4> QED BY <2>6, <2>8, <2>10, <2>11, <4>2, <4>3, <1>DidTrans
    <3>2. CASE ~ (i > 0)
      BY <2>5, <2>6, <2>8, <2>10, <2>11, <3>2
    <3> QED BY <3>1, <3>2
  <2>13. Home(r, t, f) /\ Timed(r, t)
    BY <2>12 DEF Home, Timed
  <2>14. Whole(r, f)
    BY <2>12, <2>13, OneWhole
  <2>15. i = -1 => t \notin r.active
    <3>1. i = -1 => ~ (i > 0)
      BY SMT
    <3> QED BY <2>5, <2>11, <3>1
  <2> QED BY <2>12, <2>14, <2>15 DEF Called

<1>ResumeCall. ResumeCall
  <2> USE DEF ResumeCall
  <2> TAKE k, f, r
  <2> TAKE t \in Thread
  <2> HAVE /\ Whole(k, f) /\ k.statu[t] = "SUSPEND" /\ r = rt_thread_resume(k, t)
  <2> DEFINE k1 == Unlink(k, t)
             k2 == rt_timer_stop(k1, t)
  <2>1. Basic(k) /\ TimersLinked(k) /\ Home(k, t, f)
    BY SoundTogether DEF Whole, Together, TimersMatch, TimersLinked
  <2>2. Homes(k, t) \cap Priority = {}
    BY <2>1, KernelAssumption DEF Home
  <2>3. k1 = Unlink(k, t)
    OBVIOUS
  <2>4. k2 = rt_timer_stop(k1, t)
    OBVIOUS
  <2>5. r = rt_schedule_insert_thread(k2, t)
    BY DEF rt_thread_resume
  <2> HIDE DEF k1, k2
  <2>6. /\ Did(k, t, k1) /\ Homes(k1, t) = {} /\ k1.statu = k.statu
        /\ k1.active = k.active /\ k1.error = k.error /\ k1.timers = k.timers
    BY <2>1, <2>2, <2>3, <1>UnlinkStep
  <2>7. Basic(k1) /\ TimersLinked(k1)
    BY <2>1, <2>6 DEF Did, TimersLinked
  <2>8. /\ Did(k1, t, k2) /\ Homes(k2, t) = Homes(k1, t) /\ k2.statu = k1.statu
        /\ TimersLinked(k2) /\ t \notin k2.active /\ k2.error = k1.error
    BY <2>4, <2>7, <1>StopStep
  <2>9. Basic(k2) /\ Homes(k2, t) = {} /\ Did(k, t, k2)
    BY <2>6, <2>8, <1>DidTrans DEF Did
  <2>10. /\ Did(k2, t, r) /\ r.active = k2.active /\ r.error = k2.error /\ r.timers = k2.timers
         /\ IF t = k2.cur THEN Homes(r, t) = {} /\ r.statu[t] = "RUNNING"
            ELSE Homes(r, t) = {prio[t]} /\ r.statu[t] = "READY"
    BY <2>5, <2>9, <1>InsertStep, SMT
  <2>11. Did(k, t, r) /\ k2.cur = k.cur /\ r.cur = k.cur
    <3>1. Did(k, t, r)
      BY <2>9, <2>10, <1>DidTrans, Zenon
    <3> QED BY <2>9, <3>1 DEF Did, Aside
  <2>12. Home(r, t, f) /\ Timed(r, t) /\ TimersLinked(r)
    BY <2>8, <2>10, <2>11 DEF Home, Timed, TimersLinked
  <2>13. Whole(r, f)
    BY <2>11, <2>12, OneWhole
  <2> QED BY <2>6, <2>8, <2>10, <2>11, <2>13 DEF Called

<1>CloseCall. CloseCall
  <2> USE DEF CloseCall
  <2> TAKE k, f, r
  <2> TAKE t \in Thread
  <2> HAVE /\ Whole(k, f) /\ t \notin f /\ r = Close(k, t)
  <2> DEFINE k1 == [k EXCEPT !.statu[t] = "CLOSE"]
             k2 == rt_timer_stop(k1, t)
             k3 == rt_schedule_remove_thread(k2, t)
  <2>1. Basic(k) /\ TimersLinked(k) /\ Home(k, t, f)
    BY SoundTogether DEF Whole, Together, TimersMatch, TimersLinked
  <2>2. Homes(k, t) \cap Priority \subseteq {prio[t]}
    BY <2>1, KernelAssumption DEF Home
  <2>3. k1 = SetStatu(k, t, "CLOSE") /\ "CLOSE" \in Statu
    BY DEF SetStatu, Statu
  <2>4. k2 = rt_timer_stop(k1, t)
    OBVIOUS
  <2>5. k3 = rt_schedule_remove_thread(k2, t)
    OBVIOUS
  <2>6. r \in {PutLast(k3, Dead, t), PutFirst(k3, Dead, t)}
    BY DEF Close
  <2> HIDE DEF k1, k2, k3
  <2>7. /\ Did(k, t, k1) /\ Homes(k1, t) = Homes(k, t) /\ k1.statu[t] = "CLOSE"
        /\ k1.active = k.active /\ k1.error = k.error /\ k1.timers = k.timers
    BY <2>1, <2>3, <1>StatuStep, SMT
  <2>8. Basic(k1) /\ TimersLinked(k1)
    BY <2>1, <2>7 DEF Did, TimersLinked
  <2>9. /\ Did(k1, t, k2) /\ Homes(k2, t) = Homes(k1, t) /\ k2.statu = k1.statu
        /\ TimersLinked(k2) /\ t \notin k2.active /\ k2.error = k1.error
    BY <2>4, <2>8, <1>StopStep
  <2>10. Basic(k2) /\ Homes(k2, t) \cap Priority \subseteq {prio[t]} /\ Did(k, t, k2)
    BY <2>2, <2>7, <2>9, <1>DidTrans DEF Did
  <2>11. /\ Did(k2, t, k3) /\ Homes(k3, t) = {} /\ k3.statu = k2.statu
         /\ k3.active = k2.active /\ k3.error = k2.error /\ k3.timers = k2.timers
    BY <2>5, <2>10, <1>RemoveStep
  <2>12. Basic(k3) /\ Did(k, t, k3)
    BY <2>10, <2>11, <1>DidTrans DEF Did
  <2>13. /\ Did(k3, t, r) /\ Homes(r, t) = {Dead} /\ r.statu = k3.statu
         /\ r.active = k3.active /\ r.error = k3.error /\ r.timers = k3.timers
    BY <2>6, <2>11, <2>12, <1>PutStep, SMT
  <2>14. Did(k, t, r)
    BY <2>12, <2>13, <1>DidTrans
  <2>15. Home(r, t, f) /\ Timed(r, t) /\ TimersLinked(r)
    BY <2>7, <2>9, <2>11, <2>13 DEF Home, Timed, TimersLinked
  <2>16. Whole(r, f)
    BY <2>14, <2>15, OneWhole
  <2> QED BY <2>7, <2>9, <2>11, <2>13, <2>14, <2>16 DEF Called

<1>ReapCall. ReapCall
  <2> USE DEF ReapCall
  <2> TAKE k, f, g, r
  <2> TAKE t \in Thread
  <2> HAVE /\ Whole(k, f) /\ t \in Nodes(k.list[Dead]) /\ t \in g
           /\ (\A u \in Thread \ {t} : u \in g <=> u \in f) /\ r = Unlink(k, t)
  <2>1. Basic(k) /\ TimersLinked(k) /\ TimersMatch(k) /\ Home(k, t, f)
    BY SoundTogether DEF Whole, Together, TimersMatch, TimersLinked
  <2>2. Dead \in Homes(k, t)
    BY DEF Homes, ListHead
  <2>3. Homes(k, t) = {Dead} /\ k.statu[t] = "CLOSE"
    BY <2>1, <2>2, KernelAssumption, SMT DEF Home
  <2>4. Homes(k, t) \cap Priority = {}
    BY <2>3, KernelAssumption
  <2>5. /\ Did(k, t, r) /\ Homes(r, t) = {} /\ r.statu = k.statu
        /\ r.active = k.active /\ r.error = k.error /\ r.timers = k.timers
    BY <2>1, <2>4, <1>UnlinkStep
  <2>6. Home(r, t, g) /\ Timed(r, t) /\ TimersLinked(r)
    BY <2>1, <2>3, <2>5 DEF Home, Timed, TimersLinked, TimersMatch
  <2>7. Whole(r, g)
    BY <2>5, <2>6, OneWhole
  <2> QED BY <2>3, <2>5, <2>7 DEF Called

<1>FreeCall. FreeCall
  <2> USE DEF FreeCall
  <2> TAKE k, f, g, r
  <2> TAKE t \in Thread
  <2> HAVE /\ Whole(k, f) /\ t \in f /\ k.statu[t] = "CLOSE" /\ t # k.cur
           /\ (\A u \in Thread \ {t} : u \in g <=> u \in f) /\ r = SetStatu(k, t, "INIT")
  <2>1. Basic(k) /\ TimersLinked(k) /\ TimersMatch(k) /\ Home(k, t, f) /\ "INIT" \in Statu
    BY SoundTogether DEF Whole, Together, TimersMatch, TimersLinked, Statu
  <2>2. Homes(k, t) = {} /\ t \notin k.active
    BY <2>1 DEF Home, TimersMatch
  <2>3. /\ Did(k, t, r) /\ Homes(r, t) = Homes(k, t) /\ r.statu[t] = "INIT"
        /\ r.active = k.active /\ r.error = k.error /\ r.timers = k.timers
    BY <2>1, <1>StatuStep, SMT
  <2>4. r.cur = k.cur
    BY <2>3 DEF Did, Aside
  <2>5. Home(r, t, g) /\ Timed(r, t) /\ TimersLinked(r)
    BY <2>1, <2>2, <2>3, <2>4 DEF Home, Timed, TimersLinked
  <2>6. Whole(r, g)
    BY <2>3, <2>5, OneWhole
  <2> QED BY <2>2, <2>3, <2>6 DEF Called

<1>JoinCall. JoinCall
  <2> USE DEF JoinCall
  <2> TAKE k, f, r
  <2> TAKE t \in Thread
  <2> HAVE /\ Whole(k, f) /\ k.statu[t] = "INIT" /\ r = rt_schedule_insert_thread(k, t)
  <2>1. Basic(k) /\ TimersLinked(k) /\ TimersMatch(k) /\ Home(k, t, f)
    BY SoundTogether DEF Whole, Together, TimersMatch, TimersLinked
  <2>2. Homes(k, t) = {} /\ t \notin k.active /\ t # k.cur
    BY <2>1 DEF Home, TimersMatch
  <2>3. /\ Did(k, t, r) /\ r.active = k.active /\ r.error = k.error /\ r.timers = k.timers
        /\ Homes(r, t) = {prio[t]} /\ r.statu[t] = "READY"
    BY <2>1, <2>2, <1>InsertStep
  <2>4. r.cur = k.cur
    BY <2>3 DEF Did, Aside
  <2>5. Home(r, t, f) /\ Timed(r, t) /\ TimersLinked(r)
    BY <2>1, <2>2, <2>3, <2>4 DEF Home, Timed, TimersLinked
  <2>6. Whole(r, f)
    BY <2>3, <2>5, OneWhole
  <2> QED BY <2>3, <2>6 DEF Called

<1>ScheduleCall. ScheduleCall
  <2> USE DEF ScheduleCall
  <2> TAKE k, f, r
  <2> HAVE /\ Whole(k, f) /\ r = rt_schedule(k)
  <2>1. Sound(k, f) /\ TimersMatch(k)
    BY DEF Whole
  <2>2. Sound(r, f) /\ Rescheduled(k, r)
    BY <2>1, <1>ScheduleFacts
  <2>3. r.timers = k.timers /\ r.active = k.active
    BY <2>2 DEF Rescheduled, SameClock
  <2>4. \A t \in Thread : \/ r.statu[t] = k.statu[t]
                            \/ /\ r.statu[t] \in {"READY", "RUNNING"}
                               /\ k.statu[t] \in {"READY", "RUNNING"}
    BY <2>2 DEF Rescheduled
  <2>5. TimersMatch(r)
    BY <2>1, <2>3, <2>4 DEF TimersMatch
  <2> QED BY <2>2, <2>5 DEF Whole

<1>FireCall. FireCall
  <2> USE DEF FireCall
  <2> TAKE k, f, r
  <2> TAKE t \in Thread
  <2> HAVE /\ Whole(k, f) /\ r = FireIfDue(k, t)
  <2>1. CASE ~ (t \in k.active /\ k.tick > k.timeout[t])
    BY <2>1 DEF FireIfDue
  <2>2. CASE t \in k.active /\ k.tick > k.timeout[t]
    <3> DEFINE l == rt_list_remove(k.timers, t)
               k0 == [k EXCEPT !.timers = l]
               k1 == [k0 EXCEPT !.error[t] = "ETIMEOUT"]
               k2 == Unlink(k1, t)
               k3 == rt_schedule_insert_thread(k2, t)
               k4 == rt_schedule(k3)
    <3>1. /\ k \in State /\ Basic(k) /\ TimersMatch(k) /\ Sound(k, f) /\ Home(k, t, f)
          /\ k.timers \in Seq(Thread) /\ k.active \subseteq Thread /\ k.cur \in Thread
      BY SoundTogether DEF Whole, Sound, Together, State
    <3>2. r = [k4 EXCEPT !.active = @ \ {t}]
      BY <2>2, <3>1 DEF FireIfDue, rt_thread_timeout, State
    <3>3. l \in Seq(Thread) /\ Nodes(l) = Nodes(k.timers) \ {t} /\ NoRepeat(l)
      BY <3>1, Remove DEF TimersMatch
    <3> HIDE DEF l
    <3>4. Did(k, t, k0) /\ Homes(k0, t) = Homes(k, t) /\ k0.timers = l /\ k0.active = k.active
          /\ k0.statu = k.statu
      <4>1. k0 \in State
        BY <3>1, <3>3 DEF State
      <4>2. /\ k0.timers = l /\ k0.active = k.active /\ k0.statu = k.statu /\ k0.list = k.list
            /\ k0.error = k.error /\ k0.cur = k.cur /\ SameSwitch(k, k0) /\ k0.tick = k.tick
            /\ k0.remaining = k.remaining /\ k0.nest = k.nest /\ k0.fault = k.fault
            /\ k0.group = k.group /\ k0.timeout = k.timeout
        BY <3>1 DEF State, SameSwitch
      <4> HIDE DEF k0
      <4> QED BY <3>1, <4>1, <4>2 DEF Did, Basic, Aside, Once, GroupMatches, Homes
    <3>5. k1 = SetError(k0, t, "ETIMEOUT") /\ "ETIMEOUT" \in Error
      BY DEF SetError, Error
    <3>6. k2 = Unlink(k1, t)
      OBVIOUS
    <3>7. k3 = rt_schedule_insert_thread(k2, t)
      OBVIOUS
    <3>8. k4 = rt_schedule(k3)
      OBVIOUS
    <3> HIDE DEF k0, k1, k2, k3, k4
    <3>9. k.statu[t] \in {"SLEEP", "SUSPEND"}
      BY <2>2, <3>1 DEF TimersMatch
    <3>10. Basic(k0) /\ Homes(k, t) \cap Priority = {}
      BY <3>1, <3>4, <3>9, KernelAssumption DEF Did, Home
    <3>11. /\ Did(k0, t, k1) /\ Homes(k1, t) = Homes(k0, t) /\ k1.statu = k0.statu
           /\ k1.active = k0.active /\ k1.timers = k0.timers /\ k1.error[t] = "ETIMEOUT"
      BY <3>5, <3>10, ErrorStep, SMT
    <3>12. Basic(k1) /\ Homes(k1, t) \cap Priority = {} /\ Did(k, t, k1)
      BY <3>4, <3>10, <3>11, <1>DidTrans DEF Did
    <3>13. /\ Did(k1, t, k2) /\ Homes(k2, t) = {} /\ k2.statu = k1.statu
           /\ k2.active = k1.active /\ k2.timers = k1.timers /\ k2.error = k1.error
      BY <3>6, <3>12, <1>UnlinkStep
    <3>14. Basic(k2) /\ Did(k, t, k2)
      BY <3>12, <3>13, <1>DidTrans DEF Did
    <3>15. /\ Did(k2, t, k3) /\ k3.active = k2.active /\ k3.timers = k2.timers
           /\ k3.error = k2.error
           /\ IF t = k2.cur THEN Homes(k3, t) = {} /\ k3.statu[t] = "RUNNING"
              ELSE Homes(k3, t) = {prio[t]} /\ k3.statu[t] = "READY"
      BY <3>7, <3>13, <3>14, <1>InsertStep, SMT
    <3>16. Did(k, t, k3) /\ k2.cur = k.cur /\ k3.cur = k.cur /\ SameSwitch(k, k3) /\ k3.nest = k.nest
      <4>1. Did(k, t, k3)
        BY <3>14, <3>15, <1>DidTrans
      <4> QED BY <3>14, <4>1 DEF Did, Aside
    <3>17. Home(k3, t, f)
      BY <3>15, <3>16 DEF Home
    <3>18. Sound(k3, f)
      BY <3>1, <3>16, <3>17, OneSound
    <3>19. Sound(k4, f) /\ Rescheduled(k3, k4)
      BY <3>8, <3>18, <1>ScheduleFacts
    <3>20. k4.timers = l /\ k4.active = k.active
      BY <3>4, <3>11, <3>13, <3>15, <3>19 DEF Rescheduled, SameClock
    <3>21. k4 \in State
      BY <3>19 DEF Sound
    <3>22. r \in State /\ r.active = k.active \ {t}
      BY <3>2, <3>20, <3>21 DEF State
    <3>23. /\ r.timers = l /\ r.statu = k4.statu /\ r.list = k4.list /\ r.group = k4.group
           /\ r.cur = k4.cur /\ r.remaining = k4.remaining /\ r.nest = k4.nest
           /\ r.fault = k4.fault /\ r.error = k4.error /\ SameSwitch(k4, r)
           /\ r.tick = k4.tick /\ r.timeout = k4.timeout
      BY <3>2, <3>20, <3>21 DEF State, SameSwitch
    <3>24. Sound(r, f)
      BY <3>19, <3>22, <3>23 DEF Sound, Placed, GroupMatches, SwitchMatches, Linked, SameSwitch
    <3>25. Quiet(k, t, k4)
      BY <3>16, <3>19, DidQuiet, RescheduledQuiet, QuietTrans
    <3>26. Quiet(k, t, r)
      BY <3>23, <3>25 DEF Quiet
    <3>27. r.statu[t] \in {"READY", "RUNNING"}
      BY <3>15, <3>19, <3>23 DEF Rescheduled
    <3>28. TimersMatch(r)
      <4>1. NoRepeat(r.timers) /\ Nodes(r.timers) = r.active
        BY <3>1, <3>3, <3>22, <3>23 DEF TimersMatch
      <4>2. ASSUME NEW u \in Thread PROVE Timed(r, u)
        BY <3>1, <3>22, <3>26, <3>27 DEF Timed, TimersMatch, Quiet
      <4> QED BY <4>1, <4>2 DEF TimersMatch, Timed
    <3>29. \A h \in Wait \cup {Dead} : t \notin Nodes(r.list[h])
      <4>1. ASSUME NEW h \in Wait \cup {Dead} PROVE t \notin Nodes(k3.list[h])
        <5>1. h \in ListHead /\ h # prio[t]
          BY KernelAssumption DEF ListHead
        <5>2. h \notin Homes(k3, t)
          BY <3>15, <5>1
        <5> QED BY <5>1, <5>2 DEF Homes
      <4> QED BY <3>19, <3>23, <4>1 DEF Rescheduled
    <3>30. Runs(k, r)
      <4>1. CASE k3.group # {}
        BY <3>19, <3>23, <4>1 DEF Rescheduled, Runs
      <4>2. CASE k3.group = {}
        <5>1. k4 = k3
          BY <3>19, <4>2 DEF Rescheduled
        <5>2. t = k.cur \/ k3.statu[k.cur] = k.statu[k.cur]
          BY <3>1, <3>16 DEF Did, Aside
        <5> QED BY <3>15, <3>16, <3>23, <5>1, <5>2 DEF Runs, SameSwitch
      <4> QED BY <4>1, <4>2
    <3>31. r.nest = k.nest
      BY <3>16, <3>19, <3>23 DEF Rescheduled, SameClock
    <3>32. r.error[t] = "ETIMEOUT" /\ \A u \in Thread \ {t} : r.error[u] = k.error[u]
      <4>1. r.error = k3.error
        BY <3>19, <3>23 DEF Rescheduled, SameClock
      <4>2. \A u \in Thread \ {t} : k3.error[u] = k.error[u]
        BY <3>16 DEF Did, Aside
      <4> QED BY <3>11, <3>13, <3>15, <4>1, <4>2
    <3>33. r.tick = k.tick /\ \A u \in Thread \ {t} : r.timeout[u] = k.timeout[u]
      <4>1. r.tick = k3.tick /\ r.timeout = k3.timeout
        BY <3>19, <3>23 DEF Rescheduled, SameClock
      <4> QED BY <3>16, <4>1 DEF Did, Aside
    <3>34. Whole(r, f)
      BY <3>24, <3>28 DEF Whole
    <3>35. r.timers = rt_list_remove(k.timers, t)
      BY <3>23 DEF l
    <3> QED BY <2>2, <3>3, <3>9, <3>23, <3>26, <3>27, <3>29, <3>30, <3>31, <3>32, <3>33, <3>34, <3>35
            DEF Fired
  <2> QED BY <2>1, <2>2

<1> QED BY <1>SleepCall, <1>BlockCall, <1>ResumeCall, <1>CloseCall, <1>ReapCall,
           <1>FreeCall, <1>JoinCall, <1>ScheduleCall, <1>FireCall

-----------------------------------------------------------------------------
\* The kernel state before the first thread runs: start is chosen, the threads
\* of off are not created, and the queues are l.
Boot(start, off, l) ==
  [cur |-> start, cpu |-> start,
   statu |-> [t \in Thread |-> IF t \in off THEN "INIT" ELSE IF t = start THEN "RUNNING" ELSE "READY"],
   error |-> [t \in Thread |-> "EOK"], list |-> l,
   group |-> {prio[t] : t \in Thread \ (off \cup {start})},
   timers |-> <<>>, active |-> {}, timeout |-> [t \in Thread |-> 0],
   tick |-> 0, remaining |-> slice, nest |-> 0,
   flag |-> FALSE, from |-> start, to |-> start, fault |-> "none"]

\* The kernel is whole there when every created thread but the one that starts
\* is in the queue of its priority and no thread is in another list.
LEMMA BootWhole ==
  ASSUME NEW off, NEW start \in Thread, start \notin off, NEW l \in [ListHead -> Seq(Thread)],
         \A p \in Priority : NoRepeat(l[p])
           /\ Nodes(l[p]) = {t \in Thread \ (off \cup {start}) : prio[t] = p},
         \A h \in Wait \cup {Dead} : l[h] = <<>>,
         NEW f, NEW k, k = Boot(start, off, l)
  PROVE  Whole(k, f)
<1> DEFINE others == Thread \ (off \cup {start})
<1>1. /\ start \in Thread /\ start \notin off
      /\ 0 \in Tick /\ \A t \in Thread : prio[t] \in Priority
      /\ \A t \in Thread : slice[t] \in Nat /\ slice[t] > 0
  BY ONLY KernelAssumption, start \in Thread, start \notin off DEF Tick
<1>2. slice \in [Thread -> Nat]
  BY KernelAssumption
<1>3. /\ k.cur = start /\ k.cpu = start /\ k.list = l /\ k.timers = <<>> /\ k.active = {}
      /\ k.group = {prio[t] : t \in others} /\ k.nest = 0 /\ k.flag = FALSE /\ k.fault = "none"
      /\ k.remaining = slice
      /\ \A t \in Thread : k.statu[t] = IF t \in off THEN "INIT"
                                        ELSE IF t = start THEN "RUNNING" ELSE "READY"
  BY DEF Boot
<1>4. k \in State
  <2>1. k.statu \in [Thread -> Statu] /\ k.error \in [Thread -> Error] /\ k.timeout \in [Thread -> Tick]
    BY <1>1 DEF Boot, Statu, Error
  <2>2. k.group \in SUBSET Priority /\ k.timers \in Seq(Thread) /\ k.active \in SUBSET Thread
    BY ONLY <1>1, <1>3
  <2>3. k.tick \in Tick /\ k.from \in Thread /\ k.to \in Thread
    BY <1>1 DEF Boot
  <2>4. k = [cur |-> k.cur, cpu |-> k.cpu, statu |-> k.statu, error |-> k.error, list |-> k.list,
             group |-> k.group, timers |-> k.timers, active |-> k.active, timeout |-> k.timeout,
             tick |-> k.tick, remaining |-> k.remaining, nest |-> k.nest, flag |-> k.flag,
             from |-> k.from, to |-> k.to, fault |-> k.fault]
    BY DEF Boot
  <2> QED BY <1>1, <1>2, <1>3, <2>1, <2>2, <2>3, <2>4 DEF State
<1>5. /\ \A h \in ListHead : NoRepeat(k.list[h])
      /\ \A p \in Priority : Nodes(k.list[p]) = {t \in others : prio[t] = p}
      /\ \A h \in Wait \cup {Dead} : Nodes(k.list[h]) = {}
  BY <1>3, EmptyList DEF ListHead
<1>6. Placed(k, f)
  <2>1. \A t \in Thread, h \in ListHead : t \in Nodes(k.list[h]) <=> t \in others /\ h = prio[t]
    <3> SUFFICES ASSUME NEW t \in Thread, NEW h \in ListHead
                 PROVE  t \in Nodes(k.list[h]) <=> t \in others /\ h = prio[t]
      OBVIOUS
    <3>1. CASE h \in Priority
      <4>1. Nodes(k.list[h]) = {u \in others : prio[u] = h}
        BY ONLY <1>5, <3>1
      <4> QED BY ONLY <4>1, Zenon
    <3>2. CASE h \notin Priority
      <4>1. h \in Wait \cup {Dead} /\ h # prio[t]
        BY ONLY <1>1, <3>2, t \in Thread, h \in ListHead DEF ListHead
      <4>2. Nodes(k.list[h]) = {}
        BY ONLY <1>5, <4>1
      <4> QED BY ONLY <4>1, <4>2
    <3> QED BY <3>1, <3>2
  <2>2. ASSUME NEW t \in Thread, NEW h \in ListHead, t \in Nodes(k.list[h])
        PROVE  /\ h \in Priority => k.statu[t] = "READY" /\ h = prio[t]
               /\ h \in Wait => k.statu[t] = "SUSPEND"
               /\ h = Dead => k.statu[t] = "CLOSE" /\ t \notin f
               /\ \A g \in ListHead : t \in Nodes(k.list[g]) => g = h
    BY ONLY <1>3, <1>5, <2>1, <2>2, KernelAssumption DEF ListHead
  <2>3. ASSUME NEW t \in Thread
        PROVE  /\ k.statu[t] \in {"READY", "SUSPEND"} => Linked(k, t)
               /\ k.statu[t] = "CLOSE" => Linked(k, t) \/ t \in f
               /\ k.statu[t] = "RUNNING" => t = k.cur
    <3>1. prio[t] \in ListHead
      BY <1>1 DEF ListHead
    <3> QED BY <1>1, <1>3, <2>1, <3>1 DEF Linked
  <2> QED BY <1>5, <2>2, <2>3 DEF Placed
<1>7. GroupMatches(k)
  <2>1. \A p \in Priority : k.list[p] \in Seq(Thread)
    BY <1>4 DEF State, ListHead
  <2>2. \A p \in Priority : rt_list_isempty(k.list[p]) <=> Nodes(k.list[p]) = {}
    BY <2>1, IsEmptyNodes
  <2>3. \A p \in Priority : p \in k.group <=> Nodes(k.list[p]) # {}
    BY <1>3, <1>5
  <2>4. k.group \subseteq Priority
    BY <1>1, <1>3
  <2> QED BY <2>2, <2>3, <2>4 DEF GroupMatches
<1>8. TimersMatch(k) /\ SwitchMatches(k)
  BY <1>3, EmptyList DEF TimersMatch, SwitchMatches
<1> QED BY <1>1, <1>3, <1>4, <1>6, <1>7, <1>8 DEF Whole, Sound

=============================================================================
