------------------------------- MODULE LosTask -------------------------------
(***************************************************************************)
(* The task component of the kernel: TCBs, ready queues, the delay         *)
(* calendar, the tick with its time slice, PendSV and the task API         *)
(* (kernel/base/core/los_task.c, los_priqueue.c, los_timeslice.c,          *)
(* los_tick.c and kernel/cpu/arm/cortex-m4/los_hw.c, los_dispatch_keil.s). *)
(*                                                                         *)
(* One core.  A step of a task is one section between LOS_IntLock and      *)
(* LOS_IntRestore, so every window in which the code of a task accepts     *)
(* interrupts is a state.  osTaskScan takes no lock in the tick handler:   *)
(* whether other handlers nest inside a round of its loop is up to Nesting *)
(* (the interrupt priorities of a board).  PendSV has the lowest exception *)
(* priority: when a switch is pending, interrupt handlers run before it    *)
(* and no task does.                                                       *)
(*                                                                         *)
(* The kernel's globals are the fields of the record k, so a handler is    *)
(* the composition of the functions it calls; k.round holds the locals of  *)
(* osTaskScan, of which there is one at a time.  RUNNING is not a flag     *)
(* here: PendSV_Handler and LOS_StartToRun keep it set for pstRunTask only. *)
(***************************************************************************)
EXTENDS Integers, SequencesExt

CONSTANTS
  Task,        (* the TCBs g_pstTaskCBArray[0 .. LOSCFG_BASE_CORE_TSK_LIMIT]     *)
  Idle,        (* g_uwIdleTaskID                                                 *)
  SwtmrTask,   (* g_uwSwtmrTaskID; LOSCFG_BASE_CORE_SWTMR = NO leaves it at Idle *)
  Dummy,       (* g_pstTaskCBArray[g_uwTskMaxNum]: runs main(), and stands for a *)
               (* task that deleted itself until PendSV has left it              *)
  NoTask,      (* NULL                                                           *)
  FreeOrder,   (* g_stLosFreeTask after osMain                                   *)
  LowestPrio,  (* OS_TASK_PRIORITY_LOWEST                                        *)
  WaitObj,     (* the IPC objects a task can wait on                             *)
  MaxTimeout,  (* the longest delay or timeout, in ticks (a bound of the model)  *)
  TIMESLICE,   (* LOSCFG_BASE_CORE_TIMESLICE                                     *)
  Tout,        (* LOSCFG_BASE_CORE_TIMESLICE_TIMEOUT                             *)
  MaxLock,     (* the deepest LOS_TaskLock nesting (a bound of the model)        *)
  Nesting,     (* handlers that call the kernel interrupt rounds of osTaskScan   *)
  Api,         (* the calls tasks make, and the calls interrupt handlers make:   *)
  IsrApi       (* the application's part of a configuration                      *)

Prio    == 0 .. LowestPrio
Thread  == Task \cup {Dummy}
Flag    == {"UNUSED", "SUSPEND", "READY", "PEND", "PEND_QUEUE", "DELAY", "TIMEOUT",
            "DETACHED"}
Control == {"none", "user", "sched", "alloc", "switch", "return", "exit", "unlink",
            "unlock", "leave", "exited", "pend", "woken", "signal"}

ASSUME TaskAssumption ==
  /\ Idle \in Task /\ SwtmrTask \in Task
  /\ Dummy \notin Task /\ NoTask \notin Task /\ NoTask # Dummy
  /\ LowestPrio \in Nat /\ MaxTimeout \in Nat \ {0} /\ MaxLock \in Nat \ {0}
  /\ TIMESLICE \in BOOLEAN /\ Nesting \in BOOLEAN
  /\ Tout \in Nat /\ Tout > 1
ASSUME FreeOrderAssumption ==
  /\ FreeOrder \in Seq(Task \ {Idle})
  /\ \A t \in Task \ {Idle} : \E i \in 1 .. Len(FreeOrder) : FreeOrder[i] = t
  /\ \A i, j \in 1 .. Len(FreeOrder) : FreeOrder[i] = FreeOrder[j] => i = j

VARIABLES
  k,     (* the kernel's globals                                                  *)
  pc,    (* where the code of each thread is                                      *)
  fresh, (* the TCB a thread has taken in LOS_TaskCreateOnly and not yet filled   *)
  tick,  (* the tick handler: "off", or in osTaskScan without/with bNeedSchedule  *)
  cut    (* the neighbourhood osTaskEntry's unlocked LOS_ListDelete has read      *)

vars == <<k, pc, fresh, tick, cut>>

(***************************************************************************)
(* Lists.  stPendList is one node per TCB: it is in a ready queue, in the  *)
(* wait list of an object, in the free list or in the recycle list.        *)
(***************************************************************************)
Linked(x, t) ==
  \/ \E p \in Prio : Contains(x.ready[p], t)
  \/ \E o \in WaitObj : Contains(x.wait[o], t)
  \/ Contains(x.free, t)
  \/ Contains(x.recycle, t)

Has(x, t, f) == f \in x.status[t]
Blocked(x, t) == x.status[t] \cap {"DELAY", "PEND", "SUSPEND", "PEND_QUEUE"} # {}

(* LOS_ListDelete of a node that is in no list dereferences NULL: it leaves
   both links of a node it unlinks at NULL.                                *)
Unlink(x, t) ==
  [x EXCEPT !.ready   = [p \in Prio |-> RemoveFirst(x.ready[p], t)],
            !.wait    = [o \in WaitObj |-> RemoveFirst(x.wait[o], t)],
            !.fault   = @ \/ ~Linked(x, t)]

(* |= OS_TASK_STATUS_READY and LOS_PriqueueEnqueue: to the tail of the queue
   of the task's priority.  Inserting a linked node would tie two lists.   *)
MakeReady(x, t) ==
  [x EXCEPT !.status[t] = @ \cup {"READY"},
            !.ready[x.prio[t]] = Append(@, t),
            !.fault = @ \/ Linked(x, t)]

(* LOS_PriqueueDequeue and &= ~OS_TASK_STATUS_READY. *)
MakeUnready(x, t) ==
  LET y == Unlink(x, t) IN [y EXCEPT !.status[t] = @ \ {"READY"}]

LOS_PriqueueTop(x) ==
  LET p == CHOOSE p \in Prio : /\ x.ready[p] # <<>>
                               /\ \A q \in Prio : q < p => x.ready[q] = <<>>
  IN Head(x.ready[p])

LOS_PriqueueSize(x, p) == Len(x.ready[p])

(***************************************************************************)
(* The calendar: due[n] holds the tasks whose timer expires in n ticks, in *)
(* the order the sort link serves them (module SortLink); due[0] is what   *)
(* osTaskScan is serving.                                                  *)
(***************************************************************************)
InTimer(x, t) == \E n \in 0 .. MaxTimeout : Contains(x.due[n], t)

(* Mutant: the task is not put into the sort link. *)
NoTimer(x, t, n) == x

osTaskAdd2TimerList(x, t, n) == [x EXCEPT !.due[n] = Append(@, t)]

osTimerListDelete(x, t) ==
  [x EXCEPT !.due = [n \in 0 .. MaxTimeout |-> RemoveFirst(x.due[n], t)],
            !.fault = @ \/ ~InTimer(x, t)]

(***************************************************************************)
(* Scheduling.                                                             *)
(***************************************************************************)
osSchedule(x) == [x EXCEPT !.pendsv = TRUE]

LOS_Schedule(x) ==
  LET top == LOS_PriqueueTop(x)
  IN [x EXCEPT !.new = top, !.pendsv = @ \/ (x.run # top /\ x.lock = 0)]

(* The section of LOS_TaskYield that rotates the ready queue. *)
CanYield(x) == x.run \in Task /\ LOS_PriqueueSize(x, x.prio[x.run]) > 1
Rotate(x)   == MakeReady(Unlink(x, x.run), x.run)

YieldInTick(x) == IF CanYield(x) THEN LOS_Schedule(Rotate(x)) ELSE x

(* slice.left is usTime - (UINT16)g_ullTickCount. *)
osTimesliceCheck(x) ==
  LET left == IF x.slice.task # x.run THEN Tout - 1 ELSE x.slice.left - 1
  IN IF left = 0
     THEN YieldInTick([x EXCEPT !.slice = [task |-> NoTask, left |-> 0]])
     ELSE [x EXCEPT !.slice = [task |-> x.run, left |-> left]]

(***************************************************************************)
(* What the locked section of each API call does to the kernel.            *)
(***************************************************************************)
(* Mutant: the suspended task stays in its ready queue. *)
SuspendedInQueue(x, t) == [x EXCEPT !.status[t] = @ \cup {"SUSPEND"}]

Suspended(x, t) ==
  LET y == IF Has(x, t, "READY") THEN MakeUnready(x, t) ELSE x
  IN [y EXCEPT !.status[t] = @ \cup {"SUSPEND"}]

Unsuspended(x, t) == [x EXCEPT !.status[t] = @ \ {"SUSPEND"}]
Resumed(x, t) ==
  LET y == Unsuspended(x, t)
      z == MakeReady(y, t)
  IN IF Blocked(y, t) THEN y
     ELSE IF x.scheduled THEN z ELSE [z EXCEPT !.new = LOS_PriqueueTop(z)]

WithPrio(x, t, p) == [x EXCEPT !.prio[t] = p]
(* osTaskPriModify, and the same code in LOS_TaskPriSet. *)
osTaskPriModify(x, t, p) ==
  IF Has(x, t, "READY") THEN MakeReady(WithPrio(MakeUnready(x, t), t, p), t)
  ELSE WithPrio(x, t, p)

Delayed(x, n) ==
  LET y == osTaskAdd2TimerList(MakeUnready(x, x.run), x.run, n)
  IN [y EXCEPT !.status[x.run] = @ \cup {"DELAY"}]

(* A deleted task leaves its queue or wait list and its timer; the running
   one goes to the recycle list, because its stack is in use until the
   switch, and Dummy runs in its place.                                    *)
Unhooked(x, t) ==
  IF Has(x, t, "READY") THEN MakeUnready(x, t)
  ELSE IF x.status[t] \cap {"PEND", "PEND_QUEUE"} # {} THEN Unlink(x, t) ELSE x

Untimed(x, t) ==
  IF x.status[t] \cap {"DELAY", "TIMEOUT"} # {} THEN osTimerListDelete(x, t) ELSE x

Buried(x, t) ==
  LET y == [x EXCEPT !.status[t] = {"UNUSED"}, !.fault = @ \/ Linked(x, t),
                     !.new = LOS_PriqueueTop(x)]
  IN IF t = x.run THEN [y EXCEPT !.recycle = Append(@, t), !.run = Dummy]
     ELSE [y EXCEPT !.free = <<t>> \o @]

Deleted(x, t) == Buried(Untimed(Unhooked(x, t), t), t)

(* The same for a task whose entry function has returned; its timer is looked
   at only if it waits.                                                    *)
osTaskSelfDelete(x, t) ==
  IF ~Has(x, t, "READY") /\ x.status[t] \cap {"PEND", "PEND_QUEUE"} # {}
  THEN Deleted(x, t) ELSE Buried(Unhooked(x, t), t)

(* Mutant: the reclaimed TCBs are not taken off the recycle list. *)
DrainedTwice(x) == [x EXCEPT !.free = Reverse(x.recycle) \o @]

(* LOS_TaskCreateOnly's first section: TCBs and stacks of self-deleted tasks
   are reclaimed one by one to the head of the free list.                  *)
Drained(x) == [x EXCEPT !.free = Reverse(x.recycle) \o @, !.recycle = <<>>]

Filled(x, t, p, detached) ==
  [x EXCEPT !.status[t] = {"SUSPEND"} \cup (IF detached THEN {"DETACHED"} ELSE {}),
            !.prio[t] = p]

(* The rest of LOS_TaskCreate: LOS_CHECK_SCHEDULE repeats the lock test. *)
Started(x, t) ==
  LET y == MakeReady(Unsuspended(x, t), t)
      top == LOS_PriqueueTop(y)
      z == [y EXCEPT !.new = top]
  IN IF x.scheduled /\ x.lock = 0 /\ x.run # top THEN osSchedule(z) ELSE z

(***************************************************************************)
(* Contexts.                                                               *)
(***************************************************************************)
InTask(c) == ~k.fault /\ ~k.pendsv /\ tick = "off" /\ pc[k.run] = c
UserCode  == InTask("user") /\ k.run # Idle       \* osIdleTask calls nothing
InIsr     == ~k.fault /\ k.scheduled

Goto(t, c) == pc' = [pc EXCEPT ![t] = c]

(* A call whose section turns k into x, followed by LOS_Schedule when resched.
   A task takes the section and LOS_Schedule in two steps; a handler that is
   not nested takes them in one.                                           *)
Call(op, x, resched) ==
  /\ \/ /\ op \in Api /\ UserCode
        /\ k' = x
        /\ IF resched THEN Goto(k.run, "sched") ELSE UNCHANGED pc
     \/ /\ op \in IsrApi /\ InIsr
        /\ k' = IF resched THEN LOS_Schedule(x) ELSE x
        /\ UNCHANGED pc
  /\ UNCHANGED <<fresh, tick, cut>>

(***************************************************************************)
(* The task API.                                                           *)
(***************************************************************************)
LOS_TaskSuspend(t) ==
  /\ k.scheduled /\ t \notin {Idle, SwtmrTask}
  /\ ~Has(k, t, "UNUSED") /\ ~Has(k, t, "SUSPEND")
  /\ ~(t = k.run /\ k.lock # 0)
  /\ Call("suspend", Suspended(k, t), t = k.run)

LOS_TaskResume(t) ==
  /\ ~Has(k, t, "UNUSED") /\ Has(k, t, "SUSPEND")
  /\ Call("resume", Resumed(k, t), k.scheduled /\ ~Blocked(Unsuspended(k, t), t))

LOS_TaskPriSet(t, p) ==
  /\ k.scheduled /\ t # Idle /\ ~Has(k, t, "UNUSED")
  /\ Call("priset", osTaskPriModify(k, t, p), Has(k, t, "READY"))

LOS_TaskDelay(n) ==
  /\ k.scheduled /\ k.lock = 0 /\ "delay" \in Api /\ UserCode
  /\ k' = Delayed(k, n)
  /\ Goto(k.run, "sched")
  /\ UNCHANGED <<fresh, tick, cut>>

LOS_TaskYield ==
  /\ k.scheduled /\ "yield" \in Api /\ UserCode /\ CanYield(k)
  /\ k' = Rotate(k)
  /\ Goto(k.run, "sched")
  /\ UNCHANGED <<fresh, tick, cut>>

LOS_TaskLock ==
  /\ k.scheduled /\ "lock" \in Api /\ UserCode /\ k.lock < MaxLock
  /\ k' = [k EXCEPT !.lock = @ + 1]
  /\ UNCHANGED <<pc, fresh, tick, cut>>

(* Mutants: the lock count is not tested; nothing is rescheduled. *)
UnlockUnchecked ==
  /\ k.scheduled /\ "lock" \in Api /\ UserCode
  /\ k' = [k EXCEPT !.lock = @ - 1]
  /\ UNCHANGED <<pc, fresh, tick, cut>>
UnlockWithoutSchedule == k.lock > 0 /\ UnlockUnchecked

LOS_TaskUnlock ==
  /\ k.scheduled /\ "lock" \in Api /\ UserCode /\ k.lock > 0
  /\ k' = [k EXCEPT !.lock = @ - 1]
  /\ IF k.lock = 1 THEN Goto(k.run, "sched") ELSE UNCHANGED pc
  /\ UNCHANGED <<fresh, tick, cut>>

(* The developer guide asks that a deleted task hold no resource: a task that
   is inside LOS_TaskCreate holds a TCB and is not deleted.                *)
LOS_TaskDelete(t) ==
  /\ k.scheduled /\ t # Idle /\ ~Has(k, t, "UNUSED")
  /\ ~(t = k.run /\ k.lock # 0)
  /\ pc[t] # "alloc"
  /\ \/ /\ "delete" \in Api /\ UserCode
        /\ k' = Deleted(k, t)
        /\ pc' = [pc EXCEPT ![t] = "none", ![Dummy] = IF t = k.run THEN "switch" ELSE @]
     \/ /\ "delete" \in IsrApi /\ InIsr
        /\ k' = IF t = k.run THEN osSchedule(Deleted(k, t)) ELSE Deleted(k, t)
        /\ Goto(t, "none")
  /\ UNCHANGED <<fresh, tick, cut>>

(* LOS_TaskCreateOnly up to LOS_MemAllocAlign, which runs outside the lock. *)
TakeTcb ==
  /\ "create" \in Api /\ UserCode
  /\ LET x == Drained(k)
     IN /\ x.free # <<>>
        /\ k' = [x EXCEPT !.free = Tail(@)]
        /\ fresh' = [fresh EXCEPT ![k.run] = Head(x.free)]
  /\ Goto(k.run, "alloc")
  /\ UNCHANGED <<tick, cut>>

(* No memory for the stack: the TCB goes back to the head of the free list. *)
CreateFails ==
  /\ InTask("alloc")
  /\ k' = [k EXCEPT !.free = <<fresh[k.run]>> \o @, !.fault = @ \/ Linked(k, fresh[k.run])]
  /\ fresh' = [fresh EXCEPT ![k.run] = NoTask]
  /\ Goto(k.run, "user")
  /\ UNCHANGED <<tick, cut>>

(* The TCB is filled, and readied unless the call was LOS_TaskCreateOnly.  The
   id is not known to another thread before the call returns.              *)
LOS_TaskCreate(p, detached, only) ==
  /\ InTask("alloc")
  /\ LET t == fresh[k.run]
         x == Filled(k, t, p, detached)
     IN /\ k' = IF only THEN x ELSE Started(x, t)
        /\ pc' = [pc EXCEPT ![k.run] = "user", ![t] = "user"]
  /\ fresh' = [fresh EXCEPT ![k.run] = NoTask]
  /\ UNCHANGED <<tick, cut>>

(* The LOS_Schedule that follows a section, or the osSchedule that follows the
   deletion of the running task.                                           *)
Reschedule ==
  /\ InTask("sched")
  /\ k' = LOS_Schedule(k)
  /\ Goto(k.run, "user")
  /\ UNCHANGED <<fresh, tick, cut>>

SwitchFromDeleted ==
  /\ k.run = Dummy /\ InTask("switch")
  /\ k' = osSchedule(k)
  /\ Goto(Dummy, "none")
  /\ UNCHANGED <<fresh, tick, cut>>

(***************************************************************************)
(* osTaskEntry, after the task's entry function has returned.              *)
(***************************************************************************)
Unlocked(x) == [x EXCEPT !.lock = 0]

ReturnDetached ==
  /\ k.scheduled /\ "return" \in Api /\ UserCode /\ Has(k, k.run, "DETACHED")
  /\ k' = osTaskSelfDelete(Unlocked(k), k.run)
  /\ pc' = [pc EXCEPT ![k.run] = "none", ![Dummy] = "switch"]
  /\ UNCHANGED <<fresh, tick, cut>>

(* A joinable task drops the locks it still holds, locks the scheduler, and
   dequeues itself with interrupts on: LOS_ListDelete first repairs the
   successor's back link ...                                               *)
ReturnJoinable ==
  /\ k.scheduled /\ "return" \in Api /\ UserCode /\ ~Has(k, k.run, "DETACHED")
  /\ k' = Unlocked(k)
  /\ Goto(k.run, "return")
  /\ UNCHANGED <<fresh, tick, cut>>

(* Mutant: the scheduler is not locked. *)
ExitDoesNotLock ==
  /\ InTask("return") /\ Goto(k.run, "exit")
  /\ UNCHANGED <<k, fresh, tick, cut>>

ExitLocks ==
  /\ InTask("return")
  /\ k' = [k EXCEPT !.lock = @ + 1]
  /\ Goto(k.run, "exit")
  /\ UNCHANGED <<fresh, tick, cut>>

Around(s, t) ==
  LET i == SelectInSeq(s, LAMBDA u : u = t)
  IN SubSeq(s, Max({1, i - 1}), Min({i + 1, Len(s)}))
OwnQueue == k.ready[k.prio[k.run]]

ExitReadsLinks ==
  /\ InTask("exit")
  /\ IF Has(k, k.run, "READY")
     THEN cut' = Around(OwnQueue, k.run) /\ Goto(k.run, "unlink")
     ELSE cut' = cut /\ Goto(k.run, "unlock")
  /\ UNCHANGED <<k, fresh, tick>>

(* ... then the predecessor's forward link.  When a handler has changed the
   neighbourhood in between, a link is stale; a node appended behind a tail
   that is leaving is lost.                                                *)
ExitUnlinks ==
  /\ InTask("unlink")
  /\ LET s == OwnQueue
         x == MakeUnready(k, k.run)
         lost == Last(cut) = k.run
         i == SelectInSeq(s, LAMBDA u : u = k.run)
     IN k' = IF Around(s, k.run) = cut THEN x
             ELSE [x EXCEPT !.fault = TRUE,
                            !.ready[k.prio[k.run]] = IF lost THEN SubSeq(s, 1, i - 1) ELSE @]
  /\ cut' = <<>>
  /\ Goto(k.run, "unlock")
  /\ UNCHANGED <<fresh, tick>>

ExitUnlocks ==
  /\ InTask("unlock")
  /\ k' = [k EXCEPT !.lock = IF @ > 0 THEN @ - 1 ELSE @]
  /\ Goto(k.run, "leave")
  /\ UNCHANGED <<fresh, tick, cut>>

(* Once in LOS_TaskUnlock; the second LOS_Schedule would find nothing new. *)
ExitSchedules ==
  /\ InTask("leave")
  /\ k' = LOS_Schedule(k)
  /\ Goto(k.run, "exited")
  /\ UNCHANGED <<fresh, tick, cut>>

(* osTaskEntry returns to osTaskExit: interrupts off for ever. *)
osTaskExit ==
  /\ InTask("exited")
  /\ k' = [k EXCEPT !.fault = TRUE]
  /\ UNCHANGED <<pc, fresh, tick, cut>>

(***************************************************************************)
(* Exceptions.                                                             *)
(***************************************************************************)
LOS_StartToRun ==
  /\ ~k.scheduled /\ UserCode
  /\ k' = [k EXCEPT !.scheduled = TRUE, !.run = k.new]
  /\ Goto(Dummy, "none")
  /\ UNCHANGED <<fresh, tick, cut>>

PendSV_Handler ==
  /\ ~k.fault /\ k.pendsv /\ tick = "off"
  /\ k' = [k EXCEPT !.run = k.new, !.pendsv = FALSE]
  /\ pc' = IF k.run = Dummy THEN [pc EXCEPT ![Dummy] = "none"] ELSE pc
  /\ UNCHANGED <<fresh, tick, cut>>

(* osTickHandler up to the loop of osTaskScan.  A second tick does not fit into
   the few instructions between a self-deletion and its switch.            *)
osTickHandler ==
  /\ InIsr /\ tick = "off"
  /\ ~(k.run = Dummy /\ k.slice.task = Dummy)
  /\ LET x == IF TIMESLICE THEN osTimesliceCheck(k) ELSE k
     IN k' = [x EXCEPT !.due = [n \in 0 .. MaxTimeout |->
                                  IF n < MaxTimeout THEN x.due[n + 1] ELSE <<>>]]
  /\ tick' = IF k.due[1] = <<>> THEN "off" ELSE "scan"
  /\ UNCHANGED <<pc, fresh, cut>>

(* What ends for a task whose timer expired, its wait or its delay, going by the
   flags f.  TIMEOUT stays, for the task to see.                           *)
OutOfList(x, t, f) == IF f \cap {"PEND", "PEND_QUEUE"} # {} THEN Unlink(x, t) ELSE x

FlagCleared(x, t, f) ==
  LET gone == IF "PEND" \in f THEN {"PEND"}
              ELSE IF "PEND_QUEUE" \in f THEN {"PEND_QUEUE"} ELSE {"DELAY"}
  IN [x EXCEPT !.status[t] = @ \ gone]

Expired(x, t) ==
  LET f == x.status[t]
      z == FlagCleared(OutOfList(x, t, f), t, f)
  IN IF Has(x, t, "SUSPEND") THEN z ELSE MakeReady(z, t)

Serving == ~k.fault /\ tick \in {"scan", "ready"}

(* A round of the loop into which no handler nests. *)
ScanRound ==
  /\ ~Nesting /\ Serving /\ k.due[0] # <<>>
  /\ LET t == Head(k.due[0])
     IN /\ k' = Expired([k EXCEPT !.due[0] = Tail(@)], t)
        /\ tick' = IF Has(k, t, "SUSPEND") THEN tick ELSE "ready"
  /\ UNCHANGED <<pc, fresh, cut>>

(* A round that is open to handlers: it decides on the flags that it has read
   first, whatever becomes of the task and its lists meanwhile.            *)
Round == k.round
InRound(c) == Nesting /\ Serving /\ Round.at = c
Reaches(c, x) ==
  /\ k' = [x EXCEPT !.round.at = c]
  /\ UNCHANGED <<pc, fresh, tick, cut>>

ScanReads ==
  /\ InRound("none") /\ k.due[0] # <<>>
  /\ LET t == Head(k.due[0])
     IN Reaches("read", [k EXCEPT !.round.task = t, !.round.status = k.status[t]])

ScanUnlinks == InRound("read") /\ Reaches("unlinked", osTimerListDelete(k, Round.task))

(* The flag goes before the node leaves the wait list, but for queues after it. *)
FlagFirst == "PEND_QUEUE" \notin Round.status
Half(flag) ==
  IF flag THEN FlagCleared(k, Round.task, Round.status)
  ELSE OutOfList(k, Round.task, Round.status)

ScanHalfReleases == InRound("unlinked") /\ Reaches("half", Half(FlagFirst))
ScanReleases     == InRound("half") /\ Reaches("released", Half(~FlagFirst))

ScanLeaves == InRound("released") /\ "SUSPEND" \in Round.status /\ Reaches("none", k)

ScanFlags ==
  /\ InRound("released") /\ "SUSPEND" \notin Round.status
  /\ Reaches("flagged", [k EXCEPT !.status[Round.task] = @ \cup {"READY"}])

ScanEnqueues ==
  /\ InRound("flagged")
  /\ k' = [MakeReady(k, Round.task) EXCEPT !.round.at = "none"]
  /\ tick' = "ready"
  /\ UNCHANGED <<pc, fresh, cut>>

osTaskScan ==
  \/ ScanRound
  \/ ScanReads \/ ScanUnlinks \/ ScanHalfReleases \/ ScanReleases
  \/ ScanLeaves \/ ScanFlags \/ ScanEnqueues

osTaskScanEnds ==
  /\ Serving /\ k.due[0] = <<>> /\ Round.at = "none"
  /\ k' = IF tick = "ready" THEN LOS_Schedule(k) ELSE k
  /\ tick' = "off"
  /\ UNCHANGED <<pc, fresh, cut>>

(***************************************************************************)
(* The specification.  osMain has created Idle; main() is still running.   *)
(***************************************************************************)
Init ==
  /\ k = [status    |-> [t \in Task |-> IF t = Idle THEN {"READY"} ELSE {"UNUSED"}],
          prio      |-> [t \in Task |-> IF t = Idle THEN LowestPrio ELSE 0],
          ready     |-> [p \in Prio |-> IF p = LowestPrio THEN <<Idle>> ELSE <<>>],
          wait      |-> [o \in WaitObj |-> <<>>],
          free      |-> FreeOrder,
          recycle   |-> <<>>,
          due       |-> [n \in 0 .. MaxTimeout |-> <<>>],
          run       |-> Dummy,
          new       |-> Idle,
          pendsv    |-> FALSE,
          lock      |-> 0,
          scheduled |-> FALSE,
          slice     |-> [task |-> NoTask, left |-> 0],
          round     |-> [at |-> "none", task |-> NoTask, status |-> {}],
          fault     |-> FALSE]
  /\ pc = [t \in Thread |-> IF t \in {Idle, Dummy} THEN "user" ELSE "none"]
  /\ fresh = [t \in Thread |-> NoTask]
  /\ tick = "off"
  /\ cut = <<>>

(* DETACHED is read only when a task returns. *)
Resved == IF "return" \in Api THEN BOOLEAN ELSE {FALSE}

(* What runs to completion once started, whoever started it. *)
Continue ==
  \/ CreateFails
  \/ \E p \in Prio, d \in Resved, o \in BOOLEAN : LOS_TaskCreate(p, d, o)
  \/ Reschedule \/ SwitchFromDeleted
  \/ ExitLocks \/ ExitReadsLinks \/ ExitUnlinks
  \/ ExitUnlocks \/ ExitSchedules \/ osTaskExit

TaskApi ==
  \/ \E t \in Task : LOS_TaskSuspend(t) \/ LOS_TaskResume(t) \/ LOS_TaskDelete(t)
  \/ \E t \in Task, p \in Prio : LOS_TaskPriSet(t, p)
  \/ \E n \in 1 .. MaxTimeout : LOS_TaskDelay(n)
  \/ LOS_TaskYield \/ LOS_TaskLock \/ LOS_TaskUnlock
  \/ TakeTcb \/ ReturnDetached \/ ReturnJoinable

Exceptions ==
  \/ LOS_StartToRun \/ PendSV_Handler
  \/ osTickHandler \/ osTaskScan \/ osTaskScanEnds

Next == TaskApi \/ Continue \/ Exceptions

Spec == Init /\ [][Next]_vars

(* SysTick keeps firing, handlers and PendSV run to their end, and a task that
   has the CPU executes the kernel code it is in.  main() reaches LOS_Start
   after finitely many calls, and a task the LOS_TaskUnlock of each
   LOS_TaskLock, also of the outermost, which the guide demands in pairs:
   they are strong, because other calls and interrupts come in between.
   Nothing is assumed of what tasks call otherwise.                        *)
Fairness ==
  /\ WF_vars(osTickHandler) /\ WF_vars(osTaskScan) /\ WF_vars(osTaskScanEnds)
  /\ WF_vars(PendSV_Handler) /\ WF_vars(Continue)
  /\ SF_vars(LOS_StartToRun)
  /\ SF_vars(LOS_TaskUnlock) /\ SF_vars(k.lock = 1 /\ LOS_TaskUnlock)

FairSpec == Spec /\ Fairness

-----------------------------------------------------------------------------
(***************************************************************************)
(* Properties.                                                             *)
(***************************************************************************)
Kernel ==
  [status : [Task -> SUBSET Flag], prio : [Task -> Prio],
   ready : [Prio -> Seq(Task)], wait : [WaitObj -> Seq(Task)],
   free : Seq(Task), recycle : Seq(Task), due : [0 .. MaxTimeout -> Seq(Task)],
   run : Thread, new : Task, pendsv : BOOLEAN, lock : Nat, scheduled : BOOLEAN,
   slice : [task : Thread \cup {NoTask}, left : Int],
   round : [at : {"none", "read", "unlinked", "half", "released", "flagged"},
            task : Task \cup {NoTask}, status : SUBSET Flag],
   fault : BOOLEAN]

(* The type of every variable. *)
TypeOK ==
  /\ k \in Kernel
  /\ pc \in [Thread -> Control]
  /\ fresh \in [Thread -> Task \cup {NoTask}]
  /\ tick \in {"off", "scan", "ready"}
  /\ cut \in Seq(Task)

(* Each ready queue holds exactly the tasks that are READY at its priority,
   once each (usTaskStatus and g_pstLosPriorityQueueList agree).           *)
ReadyAgrees ==
  /\ \A p \in Prio : IsInjective(k.ready[p])
  /\ \A t \in Task, p \in Prio :
       Contains(k.ready[p], t) <=> (Has(k, t, "READY") /\ k.prio[t] = p)

(* A task has a running timer exactly when it is delayed or waits with a
   timeout, and never two: osTimerListDelete and osTaskScan rely on it.    *)
TimerAgrees ==
  /\ \A n \in 0 .. MaxTimeout : IsInjective(k.due[n])
  /\ \A t \in Task : InTimer(k, t) <=>
       \/ Has(k, t, "DELAY")
       \/ Has(k, t, "TIMEOUT") /\ k.status[t] \cap {"PEND", "PEND_QUEUE"} # {}
  /\ \A t \in Task, m, n \in 0 .. MaxTimeout :
       Contains(k.due[m], t) /\ Contains(k.due[n], t) => m = n

(* No TCB is lost or owned twice: an unused one is in the free list, in the
   recycle list or in the hands of one LOS_TaskCreate, and no other is.    *)
TcbAgrees ==
  /\ IsInjective(k.free) /\ IsInjective(k.recycle)
  /\ \A t \in Task :
       /\ ~(Contains(k.free, t) /\ Contains(k.recycle, t))
       /\ Has(k, t, "UNUSED") <=>
            Contains(k.free, t) \/ Contains(k.recycle, t) \/ \E u \in Thread : fresh[u] = t
  /\ \A u \in Thread :
       fresh[u] # NoTask =>
         /\ ~Contains(k.free, fresh[u]) /\ ~Contains(k.recycle, fresh[u])
         /\ \A v \in Thread : fresh[v] = fresh[u] => v = u

(* A task is not READY and blocked at once: the guide's "a blocked task is not
   in the ready list".                                                     *)
BlockedNotReady ==
  \A t \in Task : Blocked(k, t) => \A p \in Prio : ~Contains(k.ready[p], t)

(* No list operation dereferences a NULL link or ties two lists, as long as no
   handler calls the kernel inside a round of osTaskScan: line 200 unlinks the
   timer of a task, and line 225 enqueues a task, that a handler which nests
   there may have unlinked, readied or deleted (v_scan.cfg, v_scanpost.cfg). *)
NoFault == ~k.fault

(* Whenever a task runs its own code with the scheduler unlocked and no switch
   pending, it is the first of the highest ready queue.                    *)
HighestRuns ==
  k.scheduled /\ InTask("user") /\ k.lock = 0 => k.run = LOS_PriqueueTop(k)

(* A pending switch leads to a ready task: PendSV_Handler takes pstNewTask as
   it was when the switch was requested.                                   *)
SwitchTargetReady == k.pendsv => Has(k, k.new, "READY")

(* While a task holds the scheduler lock no other task gets the CPU. *)
LockHolds == [][k.lock > 0 /\ k'.lock > 0 => k'.run = k.run]_vars

(* A suspended task does not take part in scheduling until it is resumed. *)
SuspendedNotScheduled ==
  [][\A t \in Task : Has(k, t, "SUSPEND") /\ k'.run = t => k.run = t]_vars

(* A joinable task that has locked the scheduler to leave the ready queue is not
   switched from before it has unlocked it (osTaskEntry).                  *)
ExitNotPreempted ==
  [][pc[k.run] \in {"exit", "unlink", "unlock"} => k'.run = k.run]_vars

(* A delay ends. *)
DelayEnds == \A t \in Task : Has(k, t, "DELAY") ~> ~Has(k, t, "DELAY")

(* A ready task that is more urgent than every other ready task gets the CPU,
   whatever the others do and wherever they were when it became ready.     *)
Urgent(t) ==
  /\ Has(k, t, "READY")
  /\ \A u \in Task \ {t} : Has(k, u, "READY") => k.prio[t] < k.prio[u]
UrgentRuns == \A t \in Task : Urgent(t) ~> (k.run = t \/ ~Urgent(t))

(* With the time slice, every task of the most urgent ready queue gets the CPU
   although none of them ever blocks.                                      *)
TopReady(t) ==
  Has(k, t, "READY") /\ \A u \in Task : Has(k, u, "READY") => k.prio[t] <= k.prio[u]
RoundRobin == \A t \in Task : TopReady(t) ~> (k.run = t \/ ~TopReady(t))

=============================================================================
