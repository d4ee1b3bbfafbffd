# Verification of luojiOs for the Loongson 1C

luojiOs is a small real-time kernel derived from RT-Thread: preemptive threads on
one MIPS processor, a tick interrupt, semaphores and mailboxes, with lwIP, a flash
environment, a TFTP client and a shell on top. This directory models its kernel
core, mailboxes, heap, console input, Ethernet driver, environment store and TFTP
client in TLA+, checks the models with TLC and proves with TLAPS, for all values of
the constants, every safety property that the runs check. Paths below are relative
to `src/`.

## The system

| part | code | state | operations |
|---|---|---|---|
| lists | `os/thread.c` 42-76, `os/include/rtdef.h` | circular doubly linked lists | insert_before, insert_after, remove, isempty, safe walk |
| scheduler | `os/thread.c`, `os/context_gcc.S` | ready queues, priority group, `rt_current_thread`, pending switch | `rt_schedule`, suspend, resume, sleep |
| tick and timers | `lib/ls1c_sys_tick.c`, `os/thread.c` 280-474 | `system_tick`, `rt_timer_list`, time slices | `sys_tick_handler`, `rt_timer_check`, timer start and stop |
| semaphores | `os/thread.c` 830-1042 | value, wait queue | take, release, delete, detach |
| life of a thread | `os/thread.c` 307, 662-825, 1541-1587 | dead list, all-threads list | create, exit, kill, clean-up by idle |
| mailboxes | `os/thread.c` 1046-1431 | ring of messages, two wait queues | send, receive with timeouts |
| heap | `os/mem.c` | block chain, `lfree`, `heap_sem` | malloc, realloc, free |
| console input | `os/getchar.c` | receive ring | receive interrupt, `getchar` |
| lwIP layer, Ethernet | `sys_arch.c`, `ethernetif.c`, `os/net/synMain.c` | mailboxes, `tx_ack`, descriptor rings, `sem_lock` | send and receive threads, interrupt |
| environment, flash | `os/env.c`, `os/hardware/spi_flash.c` | one flash sector | set, unset, erase, write |
| files, TFTP | `os/filesys/` | file slots, transfer state | open, read, write, retry |
| shell | `os/shell.c` | line, history | edit, run a command |

Threads interact through the lists: a thread is linked by one node (`tlist`) into a
ready queue, a wait queue or the dead list, and by its timer into `rt_timer_list`.
The tick interrupts any code that has interrupts enabled. What makes the code hard:

- every blocking call enables interrupts *before* it calls `rt_schedule`, so the tick
  can come while a thread is suspended but still on the processor;
- each timer that fires calls `rt_schedule` inside the handler, so the current thread
  changes several times before the one deferred switch;
- `malloc` and `free` block on a semaphore, inside sections of `thread_join_init` and
  of the idle thread that disable interrupts; a blocked thread gives the processor to
  one that runs with interrupts enabled;
- the release and the timeout of one waiter race; a thread is killed anywhere;
- a woken mailbox waiter tests the ring again, and another thread may have been first;
- `realloc` gives `heap_sem` up between its parts;
- the DMA engine changes descriptors between any two accesses of the driver, and
  three threads wait for each other through `etx`'s mail, `tx_ack` and `sem_lock`;
- power fails while the one environment sector is erased and rewritten;
- packets are lost, repeated, late and out of order.

`PROJECT.json` lists these hazards at their lines, with the properties that cover them.

## Modules

| module | what it is |
|---|---|
| `RtList` | lists as sequences of linked nodes |
| `Kernel` | the scheduler and timer primitives as operators on a record, the kernel state |
| `Threads` | the state machine: threads, semaphores, creation, exit, kill, idle, tick |
| `MCThreads` | the small instances of `Threads` |
| `Mailbox`, `MbFifo`, `MCMailbox` | one mailbox with its callers, tick and handler, on `Kernel`; the FIFO it implements |
| `Heap`, `HeapRegions`, `MCHeap` | the block list of `os/mem.c`; the disjoint regions it implements |
| `Gmac`, `MCGmac` | descriptor rings, DMA engine, threads etx and erx, `sem_lock`, `tx_ack` |
| `EnvFlash`, `MCEnvFlash` | environment table and flash sector, with power loss |
| `Tftp`, `MCTftp` | `tftplib.c` and the firmware update, with network and server |
| `UartFifo`, `RxQueue`, `MCUartFifo` | the receive ring, the queue it implements, its instance |
| `KernelProofs` | lemmas on lists, on the primitives of `Kernel` and on the calls made of them |
| `ThreadsProofs`, `MailboxProofs`, `HeapProofs`, `GmacProofs`, `EnvFlashProofs`, `TftpProofs`, `UartFifoProofs` | the theorems about the module of that name |

**Atomicity.** A stretch with interrupts disabled is one step; a window is the gap
between two steps and is a value of the thread's `pc`: `"sched"`, `"wait"` and
`"exit"` lie before `rt_schedule`, `"taken"` after it in `rt_sem_take`. The handler
is split too (`TickEnter`, one `TimerCheck` for each turn of the loop, `TickExit`),
so that what holds between its turns is visible. `handle_int` does not nest.

**Double insertion.** Inserting a node that is linked leaves garbage pointers in the
code. The model records it in `fault` and stops there, as it does for the endless
loop of `rt_schedule` ("still in read list").

**Interrupt level.** `masked` is the set of threads that run with interrupts
disabled, `level` remembers what `thread_join_init` restores. A failed creation
returns with interrupts disabled, as in the code (lines 705 and 721).

**Abstractions.** Thread slots stand for allocated control blocks; a slot is `INIT`
before creation and after idle's second `free`. The contents of the heap, stacks and
registers, names, and `rt_all_thread` (used only to look up an id) are left out.
`DEAD_SLEEP` is never assigned in the code. `holds` and `lost` are bookkeeping of the
model for the ownership of locks. A definition `Op_Word` is `Op` with a plausible
mistake; no specification uses it.

**Inputs.** Threads use the calls as the code around them does: a thread does not
take a lock it already holds, releases only a lock it holds, and inside `malloc`
and `free` it neither blocks again nor ends. `thread_join_init` is called with a legal
priority, a stack size and a slice other than 0, as its callers do (those of lwIP's
PPP and SLIP, which `opt.h` switches off, were not looked at). A polling thread (`Busy`)
takes semaphores only with timeout 0 or when they are available.

### State and actions of the other modules

- `Mailbox`: one turn of the loops of `rt_mb_send_wait` and `rt_mb_recv` is one step,
  since both keep interrupts disabled from the test to the end of the section.
  `Schedule` and `Resume` are the windows before and after `rt_schedule`. Timeouts
  keep the signedness of the code: int for a send, unsigned for a receive.
  `sys_arch_mbox_fetch` adds lwIP's conversion of 0 to `RT_WAITING_FOREVER`.
- `Heap`: `malloc` and `free` are steps, because `heap_sem` makes them so; `realloc`
  is three. `malloc` of 0 or too much and `free(NULL)` keep the semaphore, as in the
  code. Headers that a merge swallows leave the state, so a pointer to one is an error.
- `Gmac`: one step for each access to a descriptor by etx; `rt_eth_rx` is one step under
  `sem_lock`. The DMA engine is external: it goes through each ring in order and
  stops at a descriptor it does not own. `Refuse` is the error return of `rt_eth_tx`,
  which keeps `sem_lock`.
- `EnvFlash`: erasing, the first byte and the last byte of a sector are steps;
  `PowerLoss` may come at each. `getenv` has no return statement for a missing name
  (`os/env.c` 121-132), so both outcomes of the test in `envinit` are possible. The
  test for a full sector compares a constant (385): the model records the overrun
  and goes to `"lost"`. `malloc` does not fail, and the checksum tells a torn sector.
- `Tftp`: `net` is a set of packets; one that is never received is lost. The server,
  external, opens a session for each request, so a repeated request leaves two.
  The 100 timeouts of `tftprrq` are `MaxRexmt`; `tftpwrq` has no limit short of
  2^31 - 1 (the comment at `tftplib.c` 202 speaks of 5). After a block with another
  number than the expected one `synchnet` (131-151) loops while a local variable is not
  0. That variable is never written: `ioctl` is the one of `filesys.c` 198, which ends in
  `tftpioctl`, a `return -1`. So `synchnet` returns at once, having discarded nothing,
  or never; `Take` has both, and `synchnet` is the loop. One thread uses the client.

## Runs

| run | instance | shows |
|---|---|---|
| `uart_ring` | 4-cell ring, 2 characters | index, full flag, refinement of the drop-oldest queue |
| `threads_life` | 4 threads, 3 priorities, heap lock, failing `malloc`, 3 ticks | lists, walks, locks and the dead list survive creation, exit and kill in every order |
| `threads_sem` | 4 threads, heap lock and a counting semaphore, 2 ticks | release against timeout, several `rt_schedule` calls in one handler; every due timer fires or is stopped |
| `threads_robin` | one priority, a tick that wraps | no starvation in the highest priority |
| `threads_alone` | no polling thread | *violation*: see finding 1 |
| `threads_lower` | polling thread of high priority | *violation*: see finding 2 |
| `mailbox` | 2 cells, 4 threads, one of which sends and receives, handler posts, 3 ticks | FIFO, no lost wake-up, no early timeout, scheduler intact |
| `mb_forever` | the same | *violation*: see finding 3 |
| `heap` | 120 bytes, 2 threads of 2 blocks, sizes 0, 5, 24, 60, 200 | list and `used_mem` exact; callers never share a byte; only a cut hides memory from `malloc` |
| `env` | 4 names, 2 slots, 3 entries in the sector, 4 commands, 2 power failures | completed settings survive, copies agree, each start ends |
| `eth` | rings of 3 and 2, 5 frames out, 3 in | no buffer lost, freed early or sent out of order; nobody waits for ever |
| `tftp` | blocks of 2 bytes, files of 0, 1, 4, 5, 2 sessions, 2 timeouts, 1 duplicate | the file's bytes or an error; an update ends or is in `synchnet` |

Four threads are the least that give a running thread, a waiter, a thread that
releases or kills, and idle; three priorities give a middle one. Timeouts are -1, 0
and 1, slices 1 and 2, so slice end, timeout and release fall into the same tick.
`MaxTick` bounds the ticks, `MaxValue` the value of a semaphore, `IdleDelay` stands
for 1000 ticks.

The other bounds: two mailbox cells and three callers make the ring wrap, fill and
drain with a waiter on either side; the heap's sizes split, fit exactly, fail, cut
and move; five frames go round a ring of three; two slots and a sector of three for
four names fill both copies, and the sector can hold a name that the table cannot; the file lengths end inside a block and at its end. Block numbers have a
range of 8 (`BlockRange`), more than a file needs; with 2 `ReadExact` fails and with
3 `StoredExact`, the wrap listed in `PROJECT.json`.

What the properties allow for, because the code does it:

- `NobodyStarves`: a wait after `rt_eth_tx` returned an error with `sem_lock` taken.
- `Durable`: the loss of all variables when power fails between erasure and last byte,
  and the loss of a name that stands in the sector behind `NVAR` others. The sector
  has room for more names than the table has slots, and `map_rom_env` drops the rest.
- `MemoryAgrees`: a value too long for the sector, and a name that found the table full
  (`set_mem_env` drops it, `set_rom_env` stores it). It and `UpdatesReadFormatted` do
  not speak of the time after `clearEnv` or an overrun.
- `OnlyCutHides`: the free block that `realloc` cuts off (`os/mem.c` 447-474). `lfree` is
  not lowered then, so it is not always "the lowest free block" of the comment in line
  89, and `malloc`, which searches from `lfree`, may return `NULL` although there is memory
  (the comment in line 232 says "if no free memory was found"). With 120 bytes three calls
  do it: `malloc(5)`, `malloc(60)`, and `realloc` of the second to 5. `OnlyCutHides` says
  that no other step puts free bytes below `lfree`.
- `UpdateEnds`: an update that is in `synchnet`, where it may stay for ever.

**Fairness** (`FairSpec`). The tick happens again and again if it is enabled again and
again: the hardware keeps an interrupt pending while it is disabled. Code that the
tick cannot interrupt goes on. Nothing is assumed of other thread code: a thread
may poll forever. The conditions are written out (`CanTick`, `InSection`) instead of
with `WF` and `SF`; they say when the steps are enabled. `EnvFlash` and `Tftp` assume
that the one thread goes on (`WF` of its steps), nothing of power, network or server.
`Gmac` assumes that etx, erx, the handler and the acknowledged thread run when they
can, and strong fairness of `netifapi_netif_set_link_up`, because tcpip_thread's mailbox
is a FIFO; nothing of DMA engine and network. `Mailbox` and `Heap` have no fairness.

## Findings

1. *A blocked thread runs on.* When no thread is ready `rt_schedule` returns to its
   caller (`os/thread.c` 494). `rt_sem_take` then goes on in a thread that is still in
   the wait queue and returns `RT_EOK` without the semaphore, although `rtdef.h` 35
   says "Block forever until get resource." Idle sleeps 1000 ticks at a time (791), so
   this needs every other thread to be blocked as well, the shell included; the shell
   blocks in `os/filesys/tftplib.c` 201 and in lwIP calls.
2. *Priorities do not exclude.* The running thread is in no ready queue and
   `rt_schedule` does not compare with it, so at each slice end, release or timeout
   the best of the *other* threads runs. The comments of `os/testFun.c` 489 and 496
   say that lower priorities never run beside a thread that does not delay.
3. *Forever is one tick.* `rt_mb_recv` takes the timeout as `unsigned int`
   (`os/thread.c` 1287), so `RT_WAITING_FOREVER` is positive and starts a timer whose
   wrapped end has passed: the receive times out after a tick. `rtdef.h` 35 says
   "Block forever until get resource.", and `ethernetif.c` 285 asserts of the error
   return "Should not happen!". etx and erx receive again; `netconn_accept` and
   `netconn_recv` (`api_lib.c` 304, 371) do not look at the result.

## Proofs

TLC looks at the instances above; the theorems hold for every set of threads,
priorities, queues, messages, names, values and sizes that satisfies the assumptions
named in the modules. The bounds `MaxTick`, `MaxValue`, `Frames`, `Arrivals`, `Sets`,
`Failures` and `Extra` are arbitrary numbers in the proofs.

| module | theorem: property | beyond the module's assumption |
|---|---|---|
| `ThreadsProofs` | `AlwaysInductive`: `Inductive`; `ListsMatchStatus`: `Placement`; `GroupAlwaysExact`: `GroupExact`; `TimersAlwaysExact`: `TimersExact`; `DispatchAlwaysExact`: `DispatchExact`; `NeverIdleToken`: `NoIdleToken`; `WalksAlwaysStay`: `WalksStay`; `NeverFaults`: `NoFault`; `BlockedNeverRuns`: `OnlyRunningRuns`; `DeadNeverReturn`: `DeadStayDead`; `LocksHaveOneOwner`: `OneOwner`; `AlwaysTyped` | `Busy # {}` |
| | `NoTimerOverdue`: `NoneOverdue` | `Busy # {}`, `TicksFit` |
| `MailboxProofs` | `MailboxRing`: `RingExact`; `MailboxRefines`: `RefinesFifo` | |
| | `MailboxTyped`: `TypeOK`; `MailboxKernelSound`: `KernelSound`; `NoWakeupLost`: `NoLostWakeup` | `IdleExists` |
| | `NeverEarlyTimeout`: `NoEarlyTimeout` | `IdleExists`, `Unwrapped` |
| `HeapProofs` | `HeapTiled`: `Tiled`; `HeapCoalesced`: `Coalesced`; `OnlyCutEverHides`: `OnlyCutHides`; `UsedAlwaysExact`: `UsedExact`; `UsedAlwaysHeld`: `UsedIsHeld`; `HeapRefines`: `RefinesRegions` | |
| `GmacProofs` | `TransmitRing`: `TxRing`; `ReceiveRing`: `RxRing` | |
| `EnvFlashProofs` | `AlwaysReadFormatted`: `UpdatesReadFormatted`; `AlwaysDurable`: `Durable`; `MemoryAlwaysAgrees`: `MemoryAgrees` | |
| `TftpProofs` | `ReadsAlwaysExact`: `ReadExact`; `AlwaysFlashedWhole`: `FlashedWhole`; `AlwaysStoredExact`: `StoredExact` | `Unwrapped` |
| `UartFifoProofs` | `RingTyped`: `TypeOK`; `FullFlagAlwaysTrue`: `FullFlagInv`; `RingRefines`: `RefinesRxQueue` | |

**What is assumed.**

- `Busy # {}`: some thread polls and never blocks. It excludes the state of finding 1;
  without it the theorems are false. It holds while the shell polls for input
  (`getchar` never blocks), that is, outside the commands that block. `IdleExists` is
  the same for the mailbox: a thread that is in none of its calls and does not sleep,
  the polling shell again (idle does sleep).
- `TicksFit`, and `Unwrapped` of the mailbox: the last tick plus any timeout is below
  the range of a tick. When `system_tick` wraps, `NoneOverdue` and `NoEarlyTimeout` are
  false: the code compares ends of waits as unsigned numbers (finding 3 is an instance).
  At 1000 ticks a second the wrap comes after 49 days.
- `Unwrapped` of TFTP: a file has fewer blocks than the block number has values, which
  is 32 MB. Beyond, a late block passes for the current one.
- `HeapAssumption` and `EnvAssumption` say that the value that stands for "none" is no
  record of a job; TLC's model values are none.

**Scheduler** (`Inductive`, `Held` in the proofs). No safety property is inductive
alone. `rt_schedule` is safe only if the group matches the queues, the queues match the
statuses, and the running thread is in no queue; that a thread in a window is still the
one `rt_schedule` must take off the processor is `CurrentRuns`; that a ready thread exists
then is `BusyReady`. The walks need that nothing but the walk itself removes nodes: the
timer walk because the callbacks start and stop no timer, the dead walk because a second
kill puts the thread back into the same list (`FreeingClosed`, `HeapCalls`). Creation
needs that two callers interrupted in `malloc` have different slots (`SlotsFree`).
`KernelProofs` shows what each primitive does to the lists and combines them into
blocking, waking and scheduling (`KernelCalls`: each definition `...Call` states what one
kernel call promises, and the primitives are steps of its proof); `ThreadsProofs` has one
lemma for each action and invariant.

**Locks** (`Locks`). That a token has one owner needs to say where it is while it is
handed over: a thread that was resumed waited for that very semaphore and has no error,
a timeout reaches no thread that was resumed (its timer is stopped), and a thread that
ends takes only its own tokens with it. Owners are counted with the theorems about
finite sets.

**Timers** (`Prompt`). During the handler a due timer is allowed as long as it lies
ahead of the walk (`Behind`). Passing a node, with or without unlinking it, keeps what
comes after it ahead of its saved successor (`AfterSuccessor`), and between handlers
every call starts timers that end later (`Punctual`).

**Mailbox** (`KernelInv`, `NoLost`, `InTime`). A step stores behind the last message,
fetches the first, or leaves the ring alone, whatever it does to the kernel state; the
refinement needs no more, and that a sender that waited still has its message. The
other properties follow the kernel state through the call: a thread in a wait queue is
in a call of that kind without an error; the awake threads are counted when a message
or cell is taken and the next waiter is woken; `tick_delta` and what is left of the
timeout add up to the end of the wait, which is also the end of the timer. The handler
posts and then runs the whole loop of `rt_timer_check`, a recursive function; its
lemmas are proved for each turn, with the well-founded order of the naturals.

**Heap** (`HeapInv`). `Tiled` as stated leaves out the `prev` of the end; the list is
carried with it, with the blocks that callers and half-finished `realloc`s have, pairwise
different and each long enough. Every call is a composition of split, merge and mark,
and a lemma for each says what happens to the set of used bytes and to the free bytes
below `lfree`. `used_mem` is compared with the number of used bytes.

**Ethernet** (`TxInv`, `RxInv`). The transmit ring is sound because `tcpip_thread` hands
over one frame at a time (`Handshake`), so that a new frame is younger than all in the
ring; the receive ring because a buffer is in one descriptor only, or lost.

**Environment** (`EnvInv`). The proofs follow the sector that will be there when the
write in progress is over: what is in it, which variables have been promised, and that
the table agrees but for the entry being stored. A name that is loaded is loaded with
its last value; one that is not has `NVAR` others before it, because loading only
fills slots.

**TFTP** (`TftpInv`). Every packet under way is one the session could have sent: for a
reader, block `b` of any session holds bytes `b` of the file; for a writer, only the
packet with the highest number is the block it waits for. Block numbers are compared
modulo `BlockRange`, and `Unwrapped` makes that the comparison of numbers.

**Console ring.** The full flag is set only while all cells but one are used, so equal
indices mean an empty ring; this and the types give both refinement and safety.

*Only model-checked:* liveness (`RoundRobin`, `TimersFire`, `NobodyStarves`, `Boots`,
`UpdateEnds`), which the prover cannot express with fairness. The three violations are
counterexamples that TLC finds. TLC finds no violation of the proofs' invariants on the
instances of the runs that meet their assumptions (`Busy` is empty in the `alone`
instance, and the tick counter wraps in the `robin` one); `Inductive` is checked in a run.

## Not modelled

The models stand for about 3,600 of the 114,500 lines under `src/`, some 3%. Most of
the rest is lwIP, USB, NAND and FAT code and board libraries; in `os/thread.c`,
`os/mem.c`, `os/env.c`, `os/getchar.c` and `os/filesys/tftplib.c` it is about 60% of each
file. So the results are about the kernel and the listed services, not about the
system as a whole.

- *Deletion of semaphores and mailboxes* (`rt_sem_delete`, `rt_sem_detach`,
  `rt_mb_delete`): the walks run with interrupts enabled and free what is waited for;
  listed as a hazard.
- *Wrap of the tick and of a semaphore's 16-bit value*: the instances stay below them.
- *GMAC*: reset after a fatal bus error, a stopped transmitter, the cable timer.
- *Two updates at a time*: they share `tftpOpenfile` (`filesys.c` 231) and the static
  buffers of `tftplib.c`; `Tftp` has one client.
- *File table* (`filesys.c`, `mtd.c`): slots are claimed without a lock, a hazard;
  no property yet. *Shell*: line editor and history.
- *lwIP* core: third-party code with a state space of its own. lwIP's PPP and SLIP
  are switched off.
- *USB, NAND, FAT and the SPI byte protocol*: device I/O; their behaviour is in
  registers and timing that the source only writes to.
- *Board libraries, C library, examples, tests*: register access and pure functions
  without shared state.
