# LiteOS kernel: specifications, model checking and proofs

TLA+ specifications of the LiteOS kernel in this repository (`kernel/`), the TLC
configurations that check them on small instances, and proofs, for all instances, of theorems
about tasks and their scheduling, semaphores, mutexes, queues, events, software timers and the
heap. Paths below are relative to the repository's root.

## 1. The system

LiteOS is a preemptive fixed-priority kernel for one Cortex-M core. Code runs in tasks, in
interrupt handlers, in the tick interrupt and in PendSV, the exception of lowest priority,
which switches tasks. The kernel protects its data with `LOS_IntLock`/`LOS_IntRestore`
(interrupts off), and applications protect theirs with `LOS_TaskLock` (no task switch).
Nothing is persistent and there are no messages between machines: what is hard is where
interrupts and switches fall between two locked sections, and which flags, lists and
timers of a task have to agree afterwards.

| component | state | operations | depends on |
|---|---|---|---|
| tasks (`kernel/base/core/los_task.c`) | TCBs, `g_stLosTask`, `g_usLosTaskLock`, free and recycle lists | create, delete, suspend, resume, delay, yield, lock, unlock, priority, return of the entry function | ready queues, timer wheel, heap |
| ready queues (`los_priqueue.c`, `kernel/include/los_list.h`) | one list per priority | enqueue, dequeue, top, size | |
| timer wheel (`los_task.c`) | 32 buckets with relative roll counts | add, delete, scan in the tick | |
| scheduler (`kernel/cpu/arm/cortex-m4/los_hw.c`, `los_dispatch_*.s`) | `pstRunTask`, `pstNewTask`, PendSV pending | `LOS_Schedule`, `osSchedule`, `PendSV_Handler`, `LOS_StartToRun`, `osTaskExit` | ready queues |
| tick, time slice (`los_tick.c`, `los_timeslice.c`) | `g_ullTickCount`, `g_stTaskTimeSlice` | `osTickHandler`, `osTimesliceCheck` | tasks, software timers |
| semaphores (`kernel/base/ipc/los_sem.c`) | count, wait list, unused list | create, delete, pend, post | tasks |
| mutexes (`los_mux.c`) | owner, count, priority of the owner | create, delete, pend, post | tasks (`osTaskPriModify`) |
| queues, mail (`los_queue.c`) | ring, counters, three wait lists, free mail blocks | create, delete, read, write, mail alloc and free | tasks, memory boxes |
| events (`los_event.c`) | event bits, wait list | init, read, write, clear, poll, destroy | tasks |
| software timers (`los_swtmr.c`) | control blocks with ids, relative list, free list, handler queue | create, start, stop, delete, scan in the tick, the timer task | tick, queue, memory box, a task |
| heap (`kernel/base/mem/los_memory.c`, `los_multipledlinkhead.c`, `los_memstat.c`) | node headers, one free list per size class, a counter per task | alloc, aligned alloc, free, realloc | tasks (the running one is charged) |
| memory boxes (`los_membox.c`) | a free list of equal blocks | alloc, free | |
| time conversion (`los_sys.c`, `los_misc.c`) | | ticks and milliseconds, alignment | |
| CMSIS adapter (`kernel/cmsis/cmsis_liteos.c`) | an event in each TCB for signals | signals; wrappers of one call each | all of the above |
| interrupt vectors, hardware tick | | register access | |

What makes them correct:

* **tasks, ready queues**: a TCB is in exactly the list that its flags say; TCBs are
  neither lost nor used twice; no list operation meets a node that is in no list (its links
  are NULL) or in two.
* **scheduler**: the most urgent ready task runs; a pending switch leads to a task that is
  still ready when PendSV runs; the scheduler lock holds, and a switch it delayed happens.
* **timers**: a task has a timer exactly while it waits for time; it is served in its tick.
* **time slice**: tasks of equal priority share the CPU, and only ready tasks are rotated.
* **semaphores**: no token is lost, invented or idle while a task waits; what `LOS_SemPend`
  returns is what happened.
* **mutexes**: one owner, no unbounded inversion, priority restored.
* **queues**: messages arrive once and in order; a slot or a mail block that is promised to
  a woken task is nobody else's; nobody waits for what is there.
* **events, signals**: no write is missed by a reader, whether it waits or is about to; a woken
  reader returns the bits it was woken for unless somebody took them; no signal is erased.
* **software timers**: expiry in the tick of the deadline, in the order of start; an id means the
  timer it was created for; no block is lost.
* **heap**: nodes tile the pool; blocks that are given never overlap; what is free is merged and found.

`PROJECT.json` lists the hazards at their lines, and the properties aimed at each.

## 2. Modules

| module | models |
|---|---|
| `LosTask` | tasks, ready queues, scheduler, tick and time slice together: they share all of their state |
| `SortLink`, `Calendar` | the timer wheel as the code builds it, and what it promises; the first implements the second |
| `LosIpc` | blocking and waking, which the modules of semaphores, mutexes, queues and events share, on top of `LosTask` |
| `LosSem`, `LosMux` | semaphores, mutexes |
| `LosQueue`, `Channel` | queues and mail, and what a queue promises: a bounded first-in first-out channel; the first implements the second |
| `LosEvent`, `LosSignal` | events, and the signals of CMSIS threads, which are events initialised on first use |
| `LosSwtmr`, `Alarm` | software timers, and what they promise: deadlines; the first implements the second |
| `LosMemory`, `Heap` | the memory pool, and what it promises: blocks that do not overlap; the first implements the second |
| `ListLemmas` | lemmas on sequences |
| `LosTaskProofs` | theorems about `LosTask`: flags, lists and timers; faults and scheduling. And lemmas on `LosIpc`: what waiting, waking and the task component's steps do to who waits |
| `SortLinkProofs` | theorems about `SortLink`: that it implements the safety part of `Calendar` |
| `LosSyncProofs`, `LosMuxProofs` | theorems about `LosSem` and `LosEvent`, and about `LosMux` |
| `LosQueueProofs` | theorems about `LosQueue`, among them that it implements `Channel` |
| `LosSwtmrProofs` | theorems about `LosSwtmr`, among them that it implements the safety part of `Alarm` |
| `LosMemoryProofs` | theorems about `LosMemory`, among them that it implements `Heap` |
| `MCLosTask`, `MCLosSem`, `MCLosMux`, `MCLosQueue`, `MCLosEvent`, `MCLosSignal` | instances for TLC |

**State of `LosTask`.** The kernel's globals are the fields of one record `k`, so that a
handler is the composition of the functions it calls (`Deleted(x, t)` is
`Buried(Untimed(Unhooked(x, t), t), t)`, in the order of `LOS_TaskDelete`). `k.status` are
the flags of `usTaskStatus`; RUNNING is not among them because the code keeps it set for
`pstRunTask` only. `k.ready`, `k.wait`, `k.free` and `k.recycle` are the lists that the
single node `stPendList` of a TCB can be in, `k.due` the timers in the form of `Calendar`.
`k.fault` becomes TRUE when a list operation dereferences a NULL link or ties two lists,
or a task reaches `osTaskExit`; the model then stops, because what follows depends on the
memory map. `pc` says where the code of each thread is, `tick` where the tick handler is.
`Dummy` is the extra TCB `g_pstTaskCBArray[g_uwTskMaxNum]`, in whose name `main()` runs and
a self-deleted task stays until it is switched from.

**Steps.** A step of a task is one section with interrupts off. So a blocking call is at
least two steps, the section and its `LOS_Schedule`, and interrupts, the tick and PendSV
come between them. A handler's call is one step. The tick handler runs with interrupts on, and
handlers of a higher priority than the tick's nest in it, between any two rounds of the loop of
`osTaskScan`. Whether they call the kernel inside a round too is the constant `Nesting`. Without it
a round is one step (`ScanRound`). With it a round has a step for each piece that a handler can
come between: `ScanReads` (`usTempStatus` is read, los_task.c:193), `ScanUnlinks` (the timer
leaves its bucket, 200), `ScanHalfReleases` and `ScanReleases` (its flag and its place in the wait list
go, by the flags that were read, in the order of the code, 201 to 220), then `ScanLeaves` (the task
was suspended, 222), or `ScanFlags` (224) and `ScanEnqueues` (225). A handler that comes between two
rounds comes before the next `ScanReads`.
`k.round` holds the locals of that round. A C statement is one step, read-modify-writes of
`usTaskStatus` included. PendSV runs when no
handler does, and a task only when no PendSV is pending. The dequeue of
`osTaskEntry`, which the code does with interrupts on, is two steps, one for each link.

**Environment.** Which calls tasks and handlers make is given by the constants `Api` and
`IsrApi`, which describe the application, and by `Nesting`. The runs other than `core_exit` and most
theorems ask for `Nesting = FALSE`: handlers that can preempt the tick handler do not call the
kernel inside a round of `osTaskScan`. That is a premise. Neither the guide nor the boot sequence
provides it; a board meets it by giving the tick the highest priority of all interrupts whose handlers
call the kernel. `v_scan`, `v_scanpost`, `v_resume` and `v_wheel` show what happens without it
(section 5). The model also assumes, from the guide, the code and the boot sequence:

* `main()` creates and resumes tasks before `LOS_Start`, and interrupts come after it;
* another thread does not use the id of a task before `LOS_TaskCreate` returns, and a task
  inside `LOS_TaskCreate` is not deleted; handlers do not create tasks;
* a client writes and frees only mail blocks that it owns, and asks for mail while the queue
  exists; handlers read and write with `LOS_NO_WAIT`, as the code demands;
* events are initialised before they are used (signals excepted) and not destroyed;
* timers: ids are any ids, valid or stale; the handlers of the run do not use timers;
* the heap: running tasks free and resize what they have been given, and requests are small
  enough for 32 bits;
* `main()` takes no mutex; a task that holds one is not deleted and its priority is not set by
  the application (guide, line 714 and the notes on mutexes);
* the time slice is longer than a tick, and no two ticks fall into the few instructions
  between a self-deletion and its switch;
* the check of `LOS_Schedule` and the PendSV request after it are one step: an interrupt
  between them can only ask for the same switch again.

**`SortLink`** is the wheel: `osTaskAdd2TimerList`, `osTimerListDelete` and `osTaskScan` on
buckets with relative roll counts. Its own `Nesting` says whether a timer may be deleted between the
roll test of a round and the charge (`ChargeFallsOn`). Its `ImplementsCalendar` shows it to implement `Calendar`, a
list of tasks for each coming tick. **`LosSem`** adds the control blocks of semaphores;
`granted` is a history variable that records whom a post has chosen. **`LosMux`** adds those of
mutexes, and three history variables: `asked`, the mutex a thread is inside `LOS_MuxPend`
for, `held`, what each task has been told it holds, and `base`, the priority it was created
with. `LOS_MuxPend` is split by outcome (`MuxTake`, `MuxNest`, `MuxBlock`, `MuxPendReturns`), and so is
`LOS_MuxPost` (`MuxUnnest`, `MuxFree`, `MuxHand`).

**`LosQueue`** adds the control blocks of queues with their rings, and the memory box that mail
comes from. A read or write is one step when it need not wait (`ReadNow`, `WriteNow`),
and otherwise two, `ReadBlocks` and `ReadReturns` or `TimesOut`, with `LOS_Schedule` between
them. What makes queues hard is that a task woken by the other side owns a slot that
`usReadableCnt` and `usWritableCnt` no longer count: the refinement to `Channel` counts
such messages with `Chosen`, the tasks that have been woken and have not run. `own`, `lost`
and `got` are history: who may write or free a block, what a deleted queue took with it,
and what was read. A slot is emptied when it is read, so that a second read of it shows.

**`LosEvent`** adds the bits, and `want`, what each waiting thread asked for. `LOS_EventWrite`
wakes every satisfied reader in one step and leaves the bits; the reader polls again
when it runs (`ReadReturns`), and may find them gone: `robbed` is the history of that.
**`LosSignal`** takes the event out of the TCB. A call copies `uwEvent` without a lock
(`Copies`), initialises it if the copy says so (`LOS_EventInit`), then reads or writes; an
interrupt or another thread can come between any two of these steps.

**`LosSwtmr`** stands alone: its list is touched by calls and by the tick only, and the queue
to the timer task is used without waiting, as a channel. `osSwtmrScan` is several steps,
because it runs with interrupts on: the expired timer is first unlinked and recorded, then
restarted or deleted. `ucOverrun` and the difference of `uwExpiry` and `uwInterval` are
abstracted, since only modes ONCE and PERIOD can be created; the count of a timer exists while
it is listed, when it is read. `live` and `past` are the history of ids.

**`LosMemory`** stands alone too, since its calls run with interrupts locked. Addresses
and sizes are words. A node is a header with size, used flag and predecessor, and the
helpers (`osMemSpitNode`, `osMemMergeNode`, `osMemFreeNode`) compose into the calls as in the code.

Operators marked "Mutant" in the modules are not part of the specifications. Each is a
plausible mistake in one definition; with it in place TLC finds the property violated that
`PROJECT.json` pairs it with.

## 3. Runs

| run | instance | shows |
|---|---|---|
| `core` | 3 tasks and idle; create, delay, yield, lock, suspend, resume, delete, set priorities; handlers resume and delete | flags, queues, timers and TCBs agree, no fault, the right task runs, the lock holds |
| `core_exit` | 2 tasks and idle; also return, priority changes, yield; handlers resume, inside the rounds of `osTaskScan` too (`Nesting`) | a leaving task keeps the CPU while it holds the lock |
| `slice_rr` | 2 tasks and idle, time slice of 3 ticks, no blocking calls, fairness | round robin; the most urgent task gets the CPU |
| `sortlink` | 3 tasks, 2 buckets, timeouts up to 6 | the wheel implements the calendar |
| `sem` | 2 tasks and idle, one semaphore of capacity 1, fairness | no token is lost or invented; timed waits end |
| `mux` | 3 tasks and idle, one mutex; suspend, handlers resume | one owner, which knows it; hand-over; inherited priorities come and go |
| `queue` | 2 tasks and idle, one queue of length 1 or 2, two mail blocks; tasks of two priorities, handlers read and write | the queue is a channel; waiters are served in order of priority; mail blocks have one owner |
| `event` | 2 tasks and idle, one event of two bits, all modes; handlers write, clear and resume | no wake-up missed; a woken reader finds its bits |
| `swtmr` | 2 timers, intervals 1 and 2, 2 generations of ids, one client, fairness of the tick | deadlines, blocks and ids; expiries are dropped only when the timer task lags |
| `heap` | 30 words, headers of 4, sizes 1 and 8, boundary 2, two clients | the pool is sound, blocks never overlap, refusals are justified, statistics add up |
| `v_*` | the smallest instance | one disagreement of code and guide or header each, see section 5 |

The longest, `queue`, `mux` and `event`, have about a million distinct states and take two minutes.

**Bounds.** Three priorities, the lowest being idle's. Idle never gives up the CPU to an
equal, so tasks of its priority run only after a priority change or with the time slice; the
two priorities above it give more urgent, equal and less urgent tasks that run. Three tasks
besides idle make queues in which a middle one leaves and the order of the rest matters; two
are enough for preemption and for two TCBs in the recycle list. Whether a task is
detached is varied only where tasks return. `MaxTimeout` 2
gives timers that expire together and apart; with two buckets, `MaxTimeout` 6 gives three
rolls and all multiples of the wheel's length (32 in the code, `OS_TSK_SORTLINK_LEN`).
`MaxLock` bounds the nesting of locks, `MaxNest` that of mutexes, 2. In `mux`, `queue` and `event`
a timeout is one tick or none, which is enough for it to race the other side. One semaphore of
capacity 1 reaches zero, its maximum and the refusal of a post. Two mail blocks and a queue of
length up to 2 make the ring wrap, fill it, empty it, and let the box run dry while a
block is in the queue. Two bits separate the modes AND and OR. Two timers are a predecessor
and a successor, on either side of an insertion or deletion; with two generations, 4 ids, the
ids wrap. In 30 words there is room for three nodes that can be split, merged on both sides,
resized in place, into the next node and elsewhere; the two sizes leave rests that are large
enough for a node of their own and rests that are not. `UintSize` lets the counters of the statistics wrap.
Symmetry is not used.

`core_exit` has no invariant on the queues and no check for deadlock: tasks return in it, so it
reaches `osTaskExit`, which turns interrupts off, and the race of section 5 in which a returning
task corrupts its queue; the model stops after either. It is also the run in which handlers nest in
the rounds of `osTaskScan`, which breaks the agreement of queues and flags but not the exit path. All other passing runs check for deadlock.

**Further configurations.** Not among the runs, but kept beside them, for the questions they answer:

| configuration | module | shows |
|---|---|---|
| `core_live.cfg` | `MCLosTask` | every delay ends (`DelayEnds`), the most urgent task runs (`UrgentRuns`), with blocking calls and locks |
| `v_semdelete.cfg` | `MCLosSem` | violation of `NoFault`: section 5 |
| `v_exit.cfg`, `v_suspend.cfg` | `MCLosTask` | violations of `ReadyAgrees`, `SuspendedNotScheduled`: section 5 |
| `v_inherit.cfg`, `v_muxpost.cfg` | `MCLosMux` | violations of `Inherits`, `HighestRuns`: section 5 |
| `v_scan.cfg`, `v_scanpost.cfg` | `MCLosTask`, `MCLosSem` | violations of `NoFault` when handlers delete, or post to, a task inside its round of `osTaskScan`: section 5 |
| `v_resume.cfg` | `MCLosTask` | violation of `NoneStranded` when a handler resumes a task there: section 5 |
| `v_wheel.cfg` | `SortLink` | violation of `ImplementsCalendar` when a handler deletes a timer there: section 5 |
| `v_swtmr.cfg` | `LosSwtmr` | violation of `TimersAgree` when nested handlers stop timers: section 5 |
| `v_realloc.cfg` | `LosMemory` | violation of `ContentsKept`: section 5 |

**Fairness.** The tick keeps firing; handlers, PendSV and kernel code that a running task
is in run to their end: weak fairness, because nothing but interrupts delays them.
`main()` reaches `LOS_Start`, and a task that holds the scheduler lock unlocks it, as the
guide demands (doc/HuaweiLiteOSKernelDevGuide.md:709): strong fairness, because other
calls and interrupts keep coming. In `LosSwtmr` the tick fires and its handler ends: weak fairness
of `Tick`, on which the liveness of `Alarm` rests; nothing is assumed of the timer
task, which may be starved. Nothing is assumed of what tasks call otherwise.

## 4. Proofs

The theorems hold for all values of the constants: any number of tasks, priorities, timeouts,
wait objects, any pool. What an application may do is a constant too (`Api`, `IsrApi`,
`TIMESLICE`, `Nesting`), and where a theorem asks something of it, a configuration of section 3 shows why:

| premise | asks | because |
|---|---|---|
| `~Nesting`, of all theorems about tasks, IPC and the wheel | handlers do not call the kernel inside a round of `osTaskScan` | `v_scan`, `v_scanpost`, `v_resume`, `v_wheel` |
| `Tame` | `~Nesting` | |
| | no time slice | `v_slice` |
| | no task returns | `v_exit` |
| | handlers do not suspend | `v_suspend` |
| `Steady` | `Tame`, and no task is deleted | `v_semdelete`, where tasks wait with a timeout |
| `~Lax` | no mutex is posted | `v_muxpost` |
| `Placid` | `Steady`, and the scheduler is not locked | `osQueueMailAlloc` waits without a test of the lock (`los_queue.c:521`): section 5 |
| `PrioritiesGiven` | `Steady`, and no priority is set | the guide: the priority of an owner is not to be changed (section 2) |
| `[]OneEach` | of the behaviour: no task owns or waits for two mutexes at once | each mutex saves one priority: section 5 |
| `HandlersKeepOut` | handlers that nest in the scan start, stop and delete no timer | `v_swtmr` |

The applications of the runs are of these kinds (all but `core_exit` are without `Nesting`; `core` is `Tame` and not `Lax`, `sem`, `mux` and
`event` are `Steady`, `queue` is `Placid`; in `mux` no priority is set and there is one mutex, so
that `OneEach` always holds; the handlers of `swtmr` use no timers), so no theorem is empty. All
proofs rest on the assumptions about constants in the modules, which TLC evaluates in the runs:
`TaskAssumption` (the idle task and the software timer task are tasks, `Dummy` and NULL are not,
the bounds are positive), `SortLinkAssumption` (there are buckets and timeouts), `FreeOrderAssumption` (the free list holds every TCB but idle's once),
the like for semaphores, mutexes and events, `SwtmrAssumption` (there are timers, and the ids are
a whole number of generations of them) and `MemoryAssumption`.

**Tasks** (`LosTaskProofs`), every application whose handlers do not nest in the rounds of `osTaskScan`:

* `TypeCorrect`: `TypeOK` is an invariant;
* `ReadyCorrect`, `TimersCorrect`, `TcbsCorrect`, `BlockedCorrect`: `ReadyAgrees`, `TimerAgrees`,
  `TcbAgrees` and `BlockedNotReady` hold as long as no list operation has faulted. The code does
  fault under some applications, and the queues need not agree after that; the theorems say
  that nothing but a fault breaks the agreement;
* `ExitKeepsCpu`: the action property `ExitNotPreempted`. Its invariant, `LeavingInv`, says that the
  thread in the exit path is the running one, that it holds the scheduler lock and that no switch is
  pending; handlers then change nothing but the lists and flags of others.

None of these invariants is inductive. `IInv` is their conjunction with what the code
relies on elsewhere, and with the premise `~Nesting`. If there is no fault:

* `Sound`: every list holds a task at most once, and the lists are disjoint: a task is in one
  wait list or none, in one exactly when its flags say so, and then not in a ready queue.
  Waking a task needs this, for instance;
* `Tcbs`: an unused TCB is in the free list, the recycle list or the hands of one create, and
  in no queue, wait list or timer, so that a create starts with a clean TCB;
* `Running`: what holds of the running thread at each `pc`, for instance that a task in
  `LOS_TaskCreate` is not unused, and that `Dummy` is between deletion and switch;
* `Creating`: the thread that holds a fresh TCB is in `LOS_TaskCreate`, and two threads hold
  different ones;
* `Delaying`: a task that waits or is delayed has the CPU only inside the call it waits in.

`Invariance` is the usual argument (`InitInv`, `NextInv`) with a lemma for each action.
A fault cannot be recovered from, and a step that faults has nothing to show except types. Each
handler is proved through the functions it is composed of: there is one lemma for each
of `Unlink`, `MakeReady`, `Suspended`, `Deleted`, and so on, that says what it preserves.
`ListLemmas` has what they need of sequences: removing, appending, pushing and reversing
keep a list free of repetitions and change its members in the expected way.

**Scheduling** (`LosTaskProofs`), tame applications: `NeverFaults` (`NoFault`), which makes the
theorems above unconditional; `SwitchesToReady` (`SwitchTargetReady`); `MostUrgentRuns`
(`HighestRuns`, if not `Lax`); `LockKeepsCpu` and `SuspendedStaysAway`, the action properties
`LockHolds` and `SuspendedNotScheduled`. The inductive invariant adds to `IInv`:

* `Settles`: a pending switch has the scheduler unlocked and leads to a ready task; the running
  task is ready, unless it is between a section and its `LOS_Schedule`; and unless a
  `LOS_Schedule` is due, the running task, or the target of the pending switch, is the first of the
  most urgent queue. That a task is in its queue when it is unlinked, the reason for `NoFault`,
  comes from here and from `Sound`;
* `NoneReturns`: no thread is in the exit path;
* `NoTimeouts`: without waits, a timer means DELAY, so that `LOS_TaskDelete` finds what it removes.

**Timer wheel** (`SortLinkProofs`), any number of tasks, buckets and ticks, without `Nesting`: `WheelInvariant`, and
`WheelServesInTime`, the refinement of `Calendar!Serves`, the safety part of `ImplementsCalendar`.
What the calendar has for tick n is a piece of one bucket (`Segment`): bucket `Slot`, the tasks whose
roll counts sum up, from the head of the list, to the visits that the cursor still pays to that
bucket before (`Turn`). The proof has four parts:

* arithmetic: no two ticks share a visit (`OneVisit`), the turning wheel brings every tick one
  nearer (`Turns`), and the charge at the end of a visit makes up for the cursor that stands on
  the bucket (`VisitEnds`). The correction for multiples of `LinkLen` in `RollNum` is needed here;
* the sums along a list (`Row`, an unfolded recursion) and the segments they cut it into (`Cut`):
  a new task stands behind all of its sum and moves no other's sum, because its successor gives
  up what it adds; a deleted task's successor takes over (`InsertRow`, `RemoveRow`, `ChargeRow`);
* what these do to the segments: one grows at its end, or loses one task, or none changes
  (`PutSegments`, `DropSegments`);
* the invariant `Wheel`: a task is in one bucket at most, its sort index knows which, and every sum
  is the visit of a tick within `MaxTimeout` (`Dated`). Without the last, a task could
  stand in a bucket and in no list of the calendar, and deleting it would be no `Cancel`.

**Semaphores** (`LosSyncProofs`), steady applications: `SemNeverFaults`, `SemWaitsAgree`
(`WaitAgrees`), `NoTokenIdle`, `OkMeansPosted`. `SemTypeCorrect` needs only that the time slice is
off and that handlers do not nest in rounds, and so does `SemSoundUntilFault`: up to a fault, the same holds with every call allowed. The
invariant `SemInv` says of each thread inside `LOS_SemPend` that it is either waiting, or has timed
out and is not in `granted`, or has been chosen and is; and of each control block that it is
in the free list exactly once or in use.

**Mutexes** (`LosMuxProofs`), steady applications: `MuxTypeCorrect`, `MuxNeverFaults`,
`MuxOwnerKnows` (`OwnerKnows`, mutual exclusion as the tasks see it) and `MuxWaitersHaveOwner`.
`OwnerKnows` is inductive with `Owners` (an owner is a task that lives), `Asking` (who waits for
a mutex is inside the `LOS_MuxPend` that asked for it, and that thread waits or has been
woken), `Blocks` (the free control blocks) and `WaitersHaveOwner`. Priority inheritance
comes in through `Reprioritised`: `osTaskPriModify` changes a priority and the ready queues, and
nothing that the rest of the call looks at.

`MuxRestoresPriority` (`Restored`) and `MuxInheritsFromNewcomer` are of applications that set no
priority, and of behaviours in which `OneEach` holds throughout: it is a hypothesis on the
behaviour, because no set of calls expresses it. `Restored` is inductive with `Lent` (an owned mutex
remembers its owner's own priority) and `Born` (a task is in use from the moment its creation
ends, when `base` is set). That a
task's priority is its own when it takes a mutex, the reason for `Lent`, is where one mutex at a
time is needed.

**Queues and mail** (`LosQueueProofs`), placid applications: `QueueTypeCorrect`, `QueueNeverFaults`,
`MailHasOneOwner` (`MailOwnedOnce`), `SlotsAreAccounted`, `WaitersAreServed` (`WaitersServed`) and
`QueuesAreChannels`, the refinement of `Channel` step by step. The invariant `QueueInv` adds to that of
the task component, in this order:

* `Calling`: a thread inside of a call has asked for one thing, and it waits for it, has
  timed out, or has been chosen. Between two steps at most one thread's turn ends (`Turns`)
  and one is woken, so the numbers of chosen readers and writers of a queue change by one;
* `Rings`: the slots from `head` on that hold a message are `readable` and one for each chosen reader,
  the empty ones are `writable` and one for each chosen writer, and `tail` is where the first end.
  It is these two kinds of reserved slots that no counter of the code shows;
* `Starved`: who waits in a list of a queue finds nothing for itself;
* `Handed`: `puwMsg` of a task holds a block exactly while the task is chosen for mail, and
  `Writing`: what a waiting writer writes is its own;
* `Mail`: a block is in the box, with one client, in a slot, in `puwMsg` or lost, and nowhere else.

For the refinement, a channel's contents are the slots of `Rings` in the order of the ring
(`Listed`): taking one is `Tail` and giving one is `Append`, whether the counters show it or not.
The order of the waiters (`Ranked`) is invariant by itself: `Placed`, the insertion of
`osQueuePend`, keeps a sorted list sorted, and every other step takes members out. A call of
`LOS_TaskPriSet` on a waiting task breaks it, which is why `WaitersAreServed` asks for
applications without it.

**Events** (`LosSyncProofs`): `EventNeverFaults`, `NoEventMissed` (`NoMissedEvent`) and
`WokenFindsEvent` (`ZeroOnlyIfRobbed`) of steady applications; `EventTypeCorrect` and, up to a fault,
`EventSoundUntilFault` need only that the time slice is off and handlers do not nest in rounds. `LOS_EventWrite` walks the wait list and wakes
readers as it goes, and the model folds over the list. The lemma `Walk` unfolds this fold into a
row of kernel states, one after each reader that is looked at, so that an ordinary lemma about
waking one task carries from each state to the next; the row exists, and its members are as they
should be, because otherwise there would be a least index at which they are not. `NoMissedEvent` is
then the statement that a walk leaves exactly the unsatisfied readers.

**Software timers** (`LosSwtmrProofs`), handlers that keep out: `SwtmrTypeCorrect`, `BlocksAgree`
(`TimersAgree`), `StaleIdsRefused`, `DropsOnlyWhenBehind` and `RingsAsStarted`. The invariant `SwtmrInv`:

* `Listing`: the listed timers are those that tick, except one that the scan has unlinked; their
  counts are positive except for what is due in this tick;
* `Blocks`: a block is free, taken by one client in `LOS_SwtmrCreate`, or in use;
* `Living` and `Aging`: the live ids are those of the blocks in use, and the ids in `past` of a block
  are of the generations before its present one, in order (`History`), so that an old id does not come back
  before the others have been used;
* `Counting`: the nodes of the box that are free, queued or with the timer task are all of them.
  An expiry that finds no node therefore finds every node in use, by fewer other timers
  than there are nodes: one timer is in the queue twice (`DroppedOnlyWhenBehind`).

`RingsAsStarted` is the refinement of `Alarm!Rings`, the safety part of `ImplementsAlarm`. A
timer's deadline is the sum of the counts up to it. `PrefixSums` unfolds that fold into a row of sums, again
by a least counterexample, and `osSwtmrStart`, `osSwtmrStop` and the tick each have a lemma
that says what they do to the row: they move no other timer's sum, and a new timer comes behind all
of its tick.

**What the components share** (`LosTaskProofs`): `Queued` and `AwakeOk`, what entering a wait list
and being woken do to `IInv`; `Endures`, what no step of the task component does to a thread that
is inside a blocking call: it does not begin to wait, and does not lose both PEND and TIMEOUT, so that
only the calls of the component decide what a wait returns. `UsedStays` and `InsideStays`
add that a task stays in use and in its call when no task is deleted.

**Heap** (`LosMemoryProofs`), every pool: `MemTypeCorrect`; `PoolStaysSound` (`PoolSound`: nodes
tile the pool, each free list holds the free nodes of its class once, and each pointer in use leads to
a node of its own); `RefusesOnlyIfFull`; and
`PoolImplementsHeap`, the refinement of `Heap` step by step. The invariant `MemInv` describes the
chain of nodes without recursion: an address is a node or lies inside of exactly one, each
node's `pre` is the node that ends where it begins, and a free node is in the free list of its
class, once. Each of `osMemSpitNode`, `osMemMergeNode` and `osMemFreeNode` has a lemma that says what it
does to such a chain. `StatisticsAreExact` (`StatisticsAddUp`, for finitely many clients) is about sums over the nodes
and over the clients. `Total` is the sum of a finite set, whatever order `CHOOSE` takes its members in;
with it, `Charged` says that the counters add up to the used nodes and a multiple of the
counters' width, and `TotalFits` that what is used fits into one counter, because the nodes are
disjoint parts of the pool.

**Only model-checked**: all liveness, which is out of the provers' reach, as is ENABLED, the liveness part of
`ImplementsAlarm` and `ImplementsCalendar` with it; and the property of signals, which the code
violates (section 5).

## 5. Disagreements found

Two have a run that shows them:

* `v_slice`: `osTimesliceCheck` rotates the running task even if it has just left the ready
  queue to block. The blocked task is put back into the ready queue, or its wait list is torn.
  The same window exists in every blocking call.
* `v_signal`: `osSignalSet` and `osSignalWait` decide on a copy of the thread's event whether to
  initialise it, without a lock. A signal set in between is erased by the second initialisation.

Others have one of the further configurations of section 3:

* `v_semdelete`: `LOS_TaskDelete` of a task whose timed wait has expired, before that task has
  run, removes a timer that is not in the wheel any more.
* `v_exit`: a returning joinable task dequeues itself with interrupts on; an interrupt
  between the two link writes that readies a task of its priority loses that task.
* `v_inherit`: `LOS_MuxPost` hands the mutex to the task that has waited longest, with that
  task's priority, while a more urgent one waits on. Tasks of a priority between the two
  then keep both from running: the inversion that inheritance is for.
* `v_muxpost`: a waiter that has raised the owner times out and is ready; the owner posts and gets
  its own priority back, but nothing is rescheduled because nobody waits. The less urgent task
  runs on.
* `v_suspend`: `LOS_TaskSuspend` leaves `pstNewTask` alone, so a handler that suspends the task
  a pending switch leads to has it run once more.
* `v_scan`, `v_scanpost`: `osTaskScan` (los_task.c:191-230) takes no lock, and `LOS_TickHandler`
  (los_hw_tick.c:58) calls it with interrupts on. A handler that nests inside a round meets a task
  that is in its wheel and about to be unlinked, or unlinked and not yet ready. If it deletes the
  task, or posts to it, between lines 193 and 200, line 200 unlinks NULL links. After 200 the
  handler's own `osTimerListDelete` unlinks NULL links as long as the task's flags say that it has a
  timer (`NoFault` fails). Once DELAY is cleared (219) a delete puts the TCB in the free or
  the recycle list, and line 225 then enqueues that node.
* `v_resume`: in the same round line 222 tests the flags as they were at line 193. A
  `LOS_TaskResume` that nests after that finds the task delayed or waiting, and only clears SUSPEND; line 222
  finds it suspended and leaves it. It is then neither ready nor waiting nor suspended.
* `v_wheel`: a handler deletes the timer at the head of the bucket between the roll test (194) and
  the charge (196): the charge falls on the deleted task, and the tasks behind it are a turn late.
* `v_swtmr`: `osSwTmrTimeoutHandle` unlinks an expired timer and restarts it later, with interrupts
  on. A nested handler that stops it in between searches to the end of the list and beyond.
* `v_realloc`: `LOS_MemRealloc` of a block from `LOS_MemAllocAlign` returns the start of the
  node, while the contents lie behind the alignment gap; the guide says that they are kept.

And some were met in reading and need no model. `LOS_TaskSuspend` and `LOS_TaskResume` accept a
joinable task that has returned, which then runs into `osTaskExit`. `osSignalSet` returns
0xFFFFFFFF as the previous signals of a thread that had none, and `osSignalClear` of
such a thread leaves all other bits set. `LOS_SwtmrDelete` by the owner leaves the timer's id
to the next timer of that block, unlike expiry. `osQueueMailAlloc` waits even under the scheduler
lock, unlike `LOS_QueueRead`. `Restored` and `InheritsFromNewcomer` are not
claimed for tasks that hold several mutexes: each mutex saves one priority, and releasing
them in another order than they were taken gives back the wrong one. The order of
`UrgentFirst` is that of tasks whose priority does not change while they wait in a queue: the lists are not
sorted again.

## 6. Not modelled, and the plan

Not modelled, because there is no state or nothing that the models could decide:

* time conversion (`LOS_MS2Tick`, `LOS_Tick2MS`, `LOS_Align`): arithmetic; timeouts and sizes are
  bounded here below the values at which 32 bits matter;
* register contents and stack frames, interrupt vectors and SysTick registers; the Cortex-M0 and M3
  ports, which differ from the M4 port in registers only;
* the CMSIS wrappers of one kernel call each; `LOS_EventDestory`, `LOS_MemboxClr`,
  `osSwTmrAdjust`, `osSwTmrGetNextTimeout`;
* failures of `osMain`, after which the kernel does not start;
* boards, IDE projects, demonstrations and vendored drivers, and headers, which are most
  of the repository's lines.

Still to do:

1. Compositions: the timer task on `LosQueue` and `LosTask`, which would allow handlers that
   call the kernel; tasks deleted while a slot is reserved for them.
