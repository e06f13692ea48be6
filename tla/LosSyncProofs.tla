---------------------------- MODULE LosSyncProofs ----------------------------
(***************************************************************************)
(* Theorems about semaphores and events.                                   *)
(*                                                                         *)
(* Semaphores, for every number of semaphores and tasks, every count and   *)
(* timeout, and every application that is Tame and deletes no task.  The   *)
(* inductive invariant SemInv needs less, and says what holds as long as   *)
(* no list operation has faulted; that none faults needs what is known of  *)
(* the scheduler.                                                          *)
(*                                                                         *)
(* Events: waiting and scheduling stay sound while a write walks the wait  *)
(* list and wakes any number of readers, no reader waits for what is       *)
(* there, and a woken reader finds its event unless somebody has taken     *)
(* some of its bits since.                                                 *)
(***************************************************************************)
EXTENDS LosSem, LosEvent, LosTaskProofs

(* The control blocks in the free list are unused, and in it once. *)
Blocks ==
  /\ IsInjective(unused)
  /\ \A s \in Sem : Contains(unused, s) => s \notin used

(* How a thread inside LOS_SemPend will return. *)
Outcome(t) ==
  IF Has(k, t, "PEND") THEN t \notin granted
  ELSE t \in granted <=> ~Has(k, t, "TIMEOUT")

Pending ==
  /\ \A t \in Task : ~Has(k, t, "PEND_QUEUE")
  /\ \A t \in Task : pc[t] \in Inside => Outcome(t)

(* The inductive invariant. *)
SemInv == IInv /\ SemTypeOK /\ (~k.fault => Blocks /\ NoIdleToken /\ Pending)

LEMMA SemType ==
  ASSUME SemInv
  PROVE  /\ IInv /\ TypeOK /\ k \in Kernel /\ pc \in [Thread -> Control]
         /\ used \in SUBSET Sem /\ count \in [Sem -> 0 .. MaxCount]
         /\ unused \in Seq(Sem) /\ granted \in SUBSET Task
BY DEF SemInv, SemTypeOK, TypeOK

LEMMA SemInitInv == ~Nesting /\ SemInit => SemInv
<1> SUFFICES ASSUME ~Nesting, SemInit PROVE SemInv
  OBVIOUS
<1>1. IInv
  BY InitInv DEF SemInit
<1>2. SemTypeOK
  BY <1>1, SemAssumption DEF SemInit, SemTypeOK, IInv
<1>3. /\ k.wait = [o \in WaitObj |-> <<>>]
      /\ k.status = [t \in Task |-> IF t = Idle THEN {"READY"} ELSE {"UNUSED"}]
      /\ pc = [t \in Thread |-> IF t \in {Idle, Dummy} THEN "user" ELSE "none"]
      /\ used = {} /\ unused = UnusedOrder /\ count = [s \in Sem |-> 0]
  BY DEF SemInit, Init
<1>4. Blocks
  BY <1>3, SemAssumption DEF Blocks, IsInjective
<1>5. NoIdleToken
  BY <1>3 DEF NoIdleToken, Sem
<1>6. Pending
  BY <1>3 DEF Pending, Has, Inside, Thread
<1> QED BY <1>1, <1>2, <1>4, <1>5, <1>6 DEF SemInv

(* A step of the task component. *)
LEMMA TaskStep ==
  ASSUME SemInv, [Next]_vars, UNCHANGED semVars
  PROVE  SemInv'
<1>1. IInv' /\ k' \in Kernel /\ k \in Kernel
  BY NextInv, SemType DEF IInv, TypeOK
<1>2. SemTypeOK'
  BY <1>1 DEF SemInv, SemTypeOK, IInv, semVars
<1>3. ASSUME ~k'.fault PROVE Blocks' /\ NoIdleToken' /\ Pending'
  <2>1. Endures
    BY <1>3, NextEndures DEF SemInv
  <2>2. Blocks /\ NoIdleToken /\ Pending
    <3>1. ~k.fault
      BY <1>3, FaultStays, SemType
    <3> QED BY <3>1 DEF SemInv
  <2>3. Blocks'
    BY <2>2 DEF Blocks, semVars
  <2>4. NoIdleToken'
    <3>1. \A s \in Sem : k'.wait[s] # <<>> => k.wait[s] # <<>>
      BY <1>1, <2>1, WaiterExists DEF Endures, Sem
    <3> QED BY <2>2, <3>1 DEF NoIdleToken, semVars
  <2>5. Pending'
    BY <2>1, <2>2 DEF Endures, Pending, Outcome, semVars
  <2> QED BY <2>3, <2>4, <2>5
<1> QED BY <1>1, <1>2, <1>3 DEF SemInv

(* Control blocks are taken from the free list and returned to it. *)
LEMMA SemCreateStep ==
  ASSUME SemInv, NEW c \in 0 .. MaxCount, LOS_SemCreate(c)
  PROVE  SemInv'
<1> DEFINE s == Head(unused)
<1>1. /\ unused # <<>> /\ used' = used \cup {s} /\ count' = [count EXCEPT ![s] = c]
      /\ unused' = Tail(unused) /\ UNCHANGED <<vars, granted>> /\ ~k.fault
  BY DEF LOS_SemCreate, UserCode, InTask
<1>2. /\ IInv /\ k \in Kernel /\ used \in SUBSET Sem /\ count \in [Sem -> 0 .. MaxCount]
      /\ unused \in Seq(Sem) /\ granted \in SUBSET Task
      /\ Blocks /\ NoIdleToken /\ Pending
  BY <1>1, SemType DEF SemInv
<1>3. IInv' /\ TypeOK'
  BY <1>1, <1>2, NextInv DEF IInv, vars
<1>4. /\ s \in Sem /\ Contains(unused, s) /\ Tail(unused) \in Seq(Sem)
      /\ IsInjective(Tail(unused))
      /\ \A u : Contains(Tail(unused), u) => Contains(unused, u) /\ u # s
  BY <1>1, <1>2, TailList DEF Blocks
<1> HIDE DEF s
<1>5. k' = k /\ pc' = pc /\ granted' = granted
  BY <1>1 DEF vars
<1>6. SemTypeOK'
  BY <1>1, <1>2, <1>3, <1>4, <1>5 DEF SemTypeOK
<1>7. Blocks'
  BY <1>1, <1>2, <1>4 DEF Blocks
<1>8. NoIdleToken'
  <2>1. k.wait[s] = <<>>
    BY <1>2, <1>4 DEF Blocks, NoIdleToken
  <2> QED BY <1>1, <1>2, <1>4, <1>5, <2>1 DEF NoIdleToken
<1>9. Pending'
  BY <1>2, <1>5 DEF Pending, Outcome
<1> QED BY <1>3, <1>6, <1>7, <1>8, <1>9 DEF SemInv

LEMMA SemDeleteStep ==
  ASSUME SemInv, NEW s \in Sem, LOS_SemDelete(s)
  PROVE  SemInv'
<1>1. /\ s \in used /\ k.wait[s] = <<>> /\ used' = used \ {s} /\ unused' = <<s>> \o unused
      /\ UNCHANGED <<vars, count, granted>> /\ ~k.fault
  BY DEF LOS_SemDelete, UserCode, InTask
<1>2. /\ IInv /\ k \in Kernel /\ used \in SUBSET Sem /\ count \in [Sem -> 0 .. MaxCount]
      /\ unused \in Seq(Sem) /\ granted \in SUBSET Task
      /\ Blocks /\ NoIdleToken /\ Pending
  BY <1>1, SemType DEF SemInv
<1>3. IInv' /\ TypeOK'
  BY <1>1, <1>2, NextInv DEF IInv, vars
<1>4. ~Contains(unused, s)
  BY <1>1, <1>2 DEF Blocks
<1>5. /\ <<s>> \o unused \in Seq(Sem) /\ IsInjective(<<s>> \o unused)
      /\ \A u : Contains(<<s>> \o unused, u) <=> u = s \/ Contains(unused, u)
  BY <1>2, <1>4, PushList DEF Blocks
<1>6. k' = k /\ pc' = pc /\ granted' = granted /\ count' = count
  BY <1>1 DEF vars
<1>7. SemTypeOK'
  BY <1>1, <1>2, <1>3, <1>5, <1>6 DEF SemTypeOK
<1>8. Blocks'
  BY <1>1, <1>2, <1>5 DEF Blocks
<1>9. NoIdleToken'
  BY <1>1, <1>2, <1>6 DEF NoIdleToken
<1>10. Pending'
  BY <1>2, <1>6 DEF Pending, Outcome
<1> QED BY <1>3, <1>7, <1>8, <1>9, <1>10 DEF SemInv

(* A count changes while nobody waits. *)
LEMMA CountStep ==
  ASSUME SemInv, NEW s \in Sem, NEW c \in 0 .. MaxCount, ~k.fault, k.wait[s] = <<>>,
         UNCHANGED vars, count' = [count EXCEPT ![s] = c], UNCHANGED <<used, unused, granted>>
  PROVE  SemInv'
<1>1. /\ IInv /\ k \in Kernel /\ used \in SUBSET Sem /\ count \in [Sem -> 0 .. MaxCount]
      /\ Blocks /\ NoIdleToken /\ Pending
  BY SemType DEF SemInv
<1>2. IInv' /\ TypeOK'
  BY <1>1, NextInv DEF IInv, vars
<1>3. k' = k /\ pc' = pc
  BY DEF vars
<1>4. SemTypeOK'
  BY <1>1, <1>2 DEF SemInv, SemTypeOK
<1>5. Blocks' /\ NoIdleToken' /\ Pending'
  BY <1>1, <1>3 DEF Blocks, NoIdleToken, Pending, Outcome
<1> QED BY <1>2, <1>4, <1>5 DEF SemInv

LEMMA SemTakeStep ==
  ASSUME SemInv, NEW s \in Sem, SemTake(s)
  PROVE  SemInv'
<1>1. /\ s \in used /\ count[s] > 0 /\ count' = [count EXCEPT ![s] = count[s] - 1]
      /\ UNCHANGED vars /\ UNCHANGED <<used, unused, granted>> /\ ~k.fault
  BY SemType DEF SemTake, Call, vars, UserCode, InTask, InIsr
<1>2. k.wait[s] = <<>>
  BY <1>1, SemType DEF SemInv, NoIdleToken
<1>3. count[s] - 1 \in 0 .. MaxCount
  <2>1. count[s] \in 0 .. MaxCount
    BY SemType
  <2> QED BY <1>1, <2>1, SemAssumption
<1> QED BY <1>1, <1>2, <1>3, CountStep

LEMMA SemBlockStep ==
  ASSUME SemInv, ~TIMESLICE, NEW s \in Sem, NEW n \in 1 .. Forever, SemBlock(s, n)
  PROVE  SemInv'
<1> DEFINE t == k.run
<1>1. /\ k.scheduled /\ UserCode /\ k.lock = 0 /\ s \in used /\ count[s] = 0
      /\ k' = WaitOn(k, s, n) /\ pc' = [pc EXCEPT ![t] = "pend"]
      /\ granted' = granted \ {t}
      /\ fresh' = fresh /\ tick' = tick /\ cut' = cut
      /\ used' = used /\ count' = count /\ unused' = unused
      /\ InTask(pc[t]) /\ pc[t] = "user" /\ t # Idle /\ s \in WaitObj
  BY DEF SemBlock, Goto, UserCode, InTask, Sem
<1>2. /\ ~k.fault /\ Ok(k) /\ k \in Kernel /\ t \in Task \ {Idle}
      /\ pc \in [Thread -> Control] /\ ~Waits(k, t)
  BY <1>1, CallerFacts DEF SemInv
<1>3. Queued(k, k', s, n, "PEND")
  BY <1>1, <1>2, WaitOnQueued
<1>4. IInv' /\ TypeOK' /\ k' \in Kernel
  <2>1. Gentle(k, k)
    BY FrameReflexive DEF Frame
  <2>2. IInv'
    BY <1>1, <1>2, <1>3, <2>1, BlockStep DEF SemInv
  <2> QED BY <2>2 DEF IInv, TypeOK
<1>5. /\ \A p \in WaitObj, u \in Task :
           Contains(k'.wait[p], u) <=> Contains(k.wait[p], u) \/ (u = t /\ p = s)
      /\ \A u \in Task : u # t => k'.status[u] = k.status[u]
      /\ \A f \in Flag \ {"TIMEOUT", "READY"} : Has(k', t, f) <=> Has(k, t, f) \/ f = "PEND"
  <2>1. "PEND" \in {"PEND", "PEND_QUEUE"} /\ t \in Task
    BY <1>2
  <2> QED BY <1>1, <1>2, <1>3, <2>1, QueuedFacts
<1>6. SemTypeOK'
  BY <1>1, <1>4, SemType DEF SemTypeOK
<1>7. Blocks /\ NoIdleToken /\ Pending
  BY <1>2 DEF SemInv
<1>8. Blocks'
  BY <1>1, <1>7 DEF Blocks
<1>9. NoIdleToken'
  <2>1. \A p \in Sem : k'.wait[p] # <<>> => p = s \/ k.wait[p] # <<>>
    BY <1>2, <1>4, <1>5, WaiterExists DEF Sem
  <2> QED BY <1>1, <1>7, <2>1 DEF NoIdleToken
<1>10. Pending'
  <2>1. /\ Has(k', t, "PEND") /\ ~Has(k', t, "PEND_QUEUE")
        /\ pc'[t] = "pend" /\ t \notin granted'
    BY <1>1, <1>2, <1>5, <1>7 DEF Pending, Flag, Thread
  <2>2. \A u \in Task : u # t =>
          /\ pc'[u] = pc[u] /\ (u \in granted' <=> u \in granted)
          /\ \A f : Has(k', u, f) <=> Has(k, u, f)
    BY <1>1, <1>2, <1>5 DEF Has, Thread
  <2> QED BY <1>7, <2>1, <2>2 DEF Pending, Outcome
<1> QED BY <1>4, <1>6, <1>8, <1>9, <1>10 DEF SemInv

LEMMA SemWaitSchedulesStep ==
  ASSUME SemInv, WaitSchedules, UNCHANGED semVars
  PROVE  SemInv'
<1>1. /\ ~k.fault /\ pc[k.run] = "pend" /\ k' = LOS_Schedule(k)
      /\ pc' = [pc EXCEPT ![k.run] = "woken"]
  BY DEF WaitSchedules, InTask, Goto
<1>2. IInv' /\ TypeOK'
  BY WaitSchedulesStep DEF SemInv, IInv
<1>3. k'.status = k.status /\ k'.wait = k.wait
  BY <1>1, SemType DEF LOS_Schedule, Kernel
<1>4. /\ used' = used /\ count' = count /\ unused' = unused /\ granted' = granted
      /\ Blocks /\ NoIdleToken /\ Pending
  BY <1>1 DEF semVars, SemInv
<1>5. SemTypeOK'
  BY <1>2, <1>4 DEF SemInv, SemTypeOK
<1>6. Blocks' /\ NoIdleToken'
  BY <1>3, <1>4 DEF Blocks, NoIdleToken
<1>7. Pending'
  <2>1. \A t \in Task : pc'[t] \in Inside => pc[t] \in Inside
    BY <1>1, SemType DEF Inside, Thread
  <2> QED BY <1>3, <1>4, <2>1 DEF Pending, Outcome, Has
<1> QED BY <1>2, <1>5, <1>6, <1>7 DEF SemInv

LEMMA SemPendReturnsStep ==
  ASSUME SemInv, SemPendReturns
  PROVE  SemInv'
<1>1. /\ ~k.fault /\ InTask("woken") /\ k' = [k EXCEPT !.status[k.run] = @ \ {"TIMEOUT"}]
      /\ pc' = [pc EXCEPT ![k.run] = "user"]
      /\ fresh' = fresh /\ tick' = tick /\ cut' = cut /\ UNCHANGED semVars
  BY DEF SemPendReturns, InTask, Goto
<1>2. /\ Ok(k') /\ Gentle(k, k') /\ k'.due = k.due /\ k'.wait = k.wait /\ k.run \in Task
      /\ k'.status = [k.status EXCEPT ![k.run] = @ \ {"TIMEOUT"}]
  BY <1>1, ClearsTimeout DEF SemInv
<1>3. IInv' /\ TypeOK'
  BY <1>1, <1>2, WokenStep DEF SemInv, IInv
<1>4. /\ used' = used /\ count' = count /\ unused' = unused /\ granted' = granted
      /\ Blocks /\ NoIdleToken /\ Pending
  BY <1>1 DEF semVars, SemInv
<1>5. SemTypeOK'
  BY <1>3, <1>4 DEF SemInv, SemTypeOK
<1>6. Blocks' /\ NoIdleToken'
  BY <1>2, <1>4 DEF Blocks, NoIdleToken
<1>7. Pending'
  <2>1. /\ k'.status[k.run] = k.status[k.run] \ {"TIMEOUT"}
        /\ \A u \in Task : u # k.run => k'.status[u] = k.status[u]
    BY <1>2, SemType DEF Kernel
  <2>2. pc'[k.run] = "user" /\ \A u \in Task : u # k.run => pc'[u] = pc[u]
    BY <1>1, <1>2, SemType DEF Thread
  <2> QED BY <1>4, <2>1, <2>2 DEF Pending, Outcome, Has, Inside
<1> QED BY <1>3, <1>5, <1>6, <1>7 DEF SemInv

LEMMA FirstWaiter ==
  ASSUME SemInv, ~k.fault, NEW s \in Sem, k.wait[s] # <<>>
  PROVE  LET t == Head(k.wait[s])
         IN t \in Task /\ Contains(k.wait[s], t) /\ Has(k, t, "PEND") /\ k.scheduled
<1> DEFINE t == Head(k.wait[s])
<1>1. Ok(k) /\ Sound(k) /\ Delaying(k) /\ k \in Kernel /\ Pending /\ s \in WaitObj
  BY Start, SemType DEF SemInv, Sem
<1>2. t \in Task /\ Contains(k.wait[s], t)
  <2>1. k.wait[s] \in Seq(Task)
    BY <1>1, KernelType
  <2> QED BY <2>1, TailList
<1> HIDE DEF t
<1>3. Waits(k, t)
  BY <1>1, <1>2 DEF Sound, Good, WaitLists
<1>4. Has(k, t, "PEND") /\ k.scheduled
  BY <1>1, <1>2, <1>3 DEF Pending, Waits, Stopped, Delaying
<1> QED BY <1>2, <1>4 DEF t

(* A post wakes the first waiter, or adds to the count. *)
LEMMA SemWakeStep ==
  ASSUME SemInv, NEW s \in Sem, k.wait[s] # <<>>,
         Call("sempost", WakeFirst(k, s), TRUE),
         granted' = granted \cup {Head(k.wait[s])}, UNCHANGED <<used, count, unused>>
  PROVE  SemInv'
<1> DEFINE t == Head(k.wait[s])
           x == Awake(k, s, t, "PEND")
<1>1. ~k.fault /\ s \in WaitObj /\ Call("sempost", x, TRUE)
  BY DEF Call, UserCode, InTask, InIsr, WakeFirst, Sem
<1>2. /\ Ok(k) /\ Sound(k) /\ Delaying(k) /\ k \in Kernel
      /\ Blocks /\ NoIdleToken /\ Pending
  BY <1>1, Start, SemType DEF SemInv
<1>3. t \in Task /\ Contains(k.wait[s], t) /\ Has(k, t, "PEND") /\ k.scheduled
  BY <1>1, FirstWaiter
<1> HIDE DEF t
<1>5. /\ Ok(x) /\ Gentle(k, x)
      /\ k.due[0] = <<>> => x.due[0] = <<>>
      /\ x.status[t] = AwakeFlags(k.status[t], "PEND")
      /\ \A u \in Task : u # t => x.status[u] = k.status[u]
      /\ \A p \in WaitObj, u \in Task : Contains(x.wait[p], u) <=> Contains(k.wait[p], u) /\ u # t
  <2>1. "PEND" \in {"PEND", "PEND_QUEUE"}
    OBVIOUS
  <2> QED BY <1>1, <1>2, <1>3, <2>1, AwakeOk
<1> HIDE DEF x
<1>6. IInv' /\ TypeOK' /\ k' \in Kernel
  <2>1. IInv'
    BY <1>1, <1>3, <1>5, CallStep DEF SemInv
  <2> QED BY <2>1 DEF IInv, TypeOK
<1>7. k'.status = x.status /\ k'.wait = x.wait
  <2>1. x \in Kernel /\ (k' = x \/ k' = LOS_Schedule(x))
    BY <1>1, <1>5 DEF Call, Ok
  <2>2. LOS_Schedule(x).status = x.status /\ LOS_Schedule(x).wait = x.wait
    BY <2>1 DEF LOS_Schedule, Kernel
  <2> QED BY <2>1, <2>2
<1>8. pc' = pc \/ pc' = [pc EXCEPT ![k.run] = "sched"]
  BY <1>1 DEF Call, Goto
<1>9. granted' = granted \cup {t} /\ used' = used /\ count' = count /\ unused' = unused
  BY DEF t
<1>10. SemTypeOK'
  BY <1>3, <1>6, <1>9, SemType DEF SemTypeOK
<1>11. Blocks'
  BY <1>2, <1>9 DEF Blocks
<1>12. NoIdleToken'
  <2>1. \A p \in Sem : k'.wait[p] # <<>> => k.wait[p] # <<>>
    BY <1>2, <1>5, <1>6, <1>7, WaiterExists DEF Sem
  <2> QED BY <1>2, <1>9, <2>1 DEF NoIdleToken
<1>13. Pending'
  <2>1. /\ k'.status[t] = AwakeFlags(k.status[t], "PEND")
        /\ \A u \in Task : u # t => k'.status[u] = k.status[u]
    BY <1>2, <1>3, <1>5, <1>7 DEF Kernel
  <2>2. ~Has(k', t, "PEND") /\ ~Has(k', t, "TIMEOUT") /\ ~Has(k', t, "PEND_QUEUE")
    BY <1>2, <1>3, <2>1 DEF AwakeFlags, Has, Pending
  <2>3. \A u \in Task : pc'[u] \in Inside => pc[u] \in Inside
    BY <1>8, SemType DEF Inside, Thread
  <2>4. \A u \in Task : u # t => /\ \A f : Has(k', u, f) <=> Has(k, u, f)
                                 /\ (u \in granted' <=> u \in granted)
    BY <1>9, <2>1 DEF Has
  <2> QED BY <1>2, <1>9, <2>2, <2>3, <2>4 DEF Pending, Outcome
<1> QED BY <1>6, <1>10, <1>11, <1>12, <1>13 DEF SemInv

LEMMA SemPostStep ==
  ASSUME SemInv, NEW s \in Sem, LOS_SemPost(s)
  PROVE  SemInv'
<1>1. s \in used /\ count[s] # MaxCount /\ used' = used /\ unused' = unused
  BY DEF LOS_SemPost
<1>2. CASE /\ k.wait[s] # <<>> /\ Call("sempost", WakeFirst(k, s), TRUE)
           /\ granted' = granted \cup {Head(k.wait[s])} /\ UNCHANGED count
  BY <1>1, <1>2, SemWakeStep
<1>3. CASE /\ k.wait[s] = <<>> /\ Call("sempost", k, FALSE)
           /\ count' = [count EXCEPT ![s] = @ + 1] /\ UNCHANGED granted
  <2>1. UNCHANGED vars /\ ~k.fault
    BY <1>3 DEF Call, vars, UserCode, InTask, InIsr
  <2>2. count[s] + 1 \in 0 .. MaxCount /\ count' = [count EXCEPT ![s] = count[s] + 1]
    <3>1. count[s] \in 0 .. MaxCount
      BY SemType
    <3> QED BY <1>1, <1>3, <3>1, SemAssumption
  <2> QED BY <1>1, <1>3, <2>1, <2>2, CountStep
<1> QED BY <1>2, <1>3 DEF LOS_SemPost

LEMMA SemNextInv ==
  ASSUME ~TIMESLICE
  PROVE  SemInv /\ [SemNext]_allVars => SemInv'
<1> SUFFICES ASSUME SemInv, [SemNext]_allVars PROVE SemInv'
  OBVIOUS
<1>1. CASE SemStep
  BY <1>1, SemCreateStep, SemDeleteStep, SemTakeStep, SemPostStep, SemBlockStep,
     SemWaitSchedulesStep, SemPendReturnsStep DEF SemStep
<1>2. CASE Next /\ UNCHANGED semVars
  BY <1>2, TaskStep
<1>3. CASE UNCHANGED allVars
  BY <1>3, TaskStep DEF allVars
<1> QED BY <1>1, <1>2, <1>3 DEF SemNext

LEMMA SemInvariance ==
  ASSUME ~TIMESLICE, ~Nesting
  PROVE  SemSpec => []SemInv
<1>1. SemInv /\ [SemNext]_allVars => SemInv'
  BY SemNextInv
<1> QED BY <1>1, SemInitInv, PTL DEF SemSpec

(***************************************************************************)
(* No list operation faults.                                               *)
(***************************************************************************)
SettledSem == SemInv /\ ~k.fault /\ Settles /\ NoneReturns

LEMMA SemBlockSettles ==
  ASSUME SettledSem, NEW s \in Sem, NEW n \in 1 .. Forever, SemBlock(s, n)
  PROVE  ~k'.fault /\ Settles'
<1>1. /\ UserCode /\ k.scheduled /\ k.lock = 0 /\ k' = WaitOn(k, s, n)
      /\ Goto(k.run, "pend") /\ tick' = tick /\ s \in WaitObj
  BY DEF SemBlock, Sem
<1>2. IInv /\ Settles /\ ~k.fault
  BY DEF SettledSem, SemInv
<1>3. Ok(k) /\ SameRest(k, k)
  BY <1>2, Start DEF SameRest
<1> QED BY <1>1, <1>2, <1>3, WaitSettles

LEMMA SemPostSettles ==
  ASSUME SettledSem, NEW s \in Sem, LOS_SemPost(s), k.wait[s] # <<>>
  PROVE  ~k'.fault /\ Settles'
<1> DEFINE t == Head(k.wait[s])
           x == Awake(k, s, t, "PEND")
<1>1. Call("sempost", x, TRUE) /\ s \in WaitObj
  BY DEF LOS_SemPost, WakeFirst, Sem
<1>2. IInv /\ Settles /\ ~k.fault
  BY DEF SettledSem, SemInv
<1>3. Ok(k) /\ SameRest(k, k)
  BY <1>2, Start DEF SameRest
<1>4. t \in Task /\ Contains(k.wait[s], t) /\ Has(k, t, "PEND") /\ k.scheduled
  BY FirstWaiter DEF SettledSem
<1>5. "PEND" \in {"PEND", "PEND_QUEUE"}
  OBVIOUS
<1> HIDE DEF t
<1>6. /\ Ok(x) /\ ~x.fault /\ SameRest(k, x)
      /\ x.status[t] = AwakeFlags(k.status[t], "PEND")
      /\ \A u \in Task : u # t => x.status[u] = k.status[u]
  BY <1>1, <1>2, <1>3, <1>4, <1>5, AwakeOk
<1> HIDE DEF x
<1> QED BY <1>1, <1>2, <1>3, <1>4, <1>5, <1>6, AwakeSettles

LEMMA SemStepSettles ==
  ASSUME SettledSem, SemStep
  PROVE  ~k'.fault /\ Settles' /\ NoneReturns'
<1>1. /\ IInv /\ ~k.fault /\ Settles /\ NoneReturns /\ pc \in [Thread -> Control]
  BY SemType DEF SettledSem
<1>2. UNCHANGED vars => ~k'.fault /\ Settles' /\ NoneReturns'
  BY <1>1 DEF vars, Settles, Moving, Late, NoneReturns
<1>3. ASSUME NEW s \in Sem, LOS_SemDelete(s) \/ SemTake(s) \/ LOS_SemPost(s)
      PROVE  ~k'.fault /\ Settles' /\ NoneReturns'
  <2>1. CASE LOS_SemDelete(s) \/ SemTake(s)
    BY <1>2, <2>1 DEF LOS_SemDelete, SemTake, Call, vars
  <2>2. CASE LOS_SemPost(s) /\ k.wait[s] = <<>>
    BY <1>2, <2>2 DEF LOS_SemPost, Call, vars
  <2>3. CASE LOS_SemPost(s) /\ k.wait[s] # <<>>
    <3>1. pc' = pc \/ pc' = [pc EXCEPT ![k.run] = "sched"]
      BY <2>3 DEF LOS_SemPost, Call, Goto
    <3>2. NoneReturns'
      BY <1>1, <3>1, GoesElsewhere
    <3> QED BY <2>3, <3>2, SemPostSettles
  <2> QED BY <1>3, <2>1, <2>2, <2>3
<1>4. ASSUME NEW s \in Sem, NEW n \in 1 .. Forever, SemBlock(s, n)
      PROVE  ~k'.fault /\ Settles' /\ NoneReturns'
  <2>1. NoneReturns'
    BY <1>1, <1>4, GoesElsewhere DEF SemBlock, Goto
  <2> QED BY <1>4, <2>1, SemBlockSettles
<1>5. CASE WaitSchedules
  <2>1. InTask(pc[k.run]) /\ k' = LOS_Schedule(k)
    BY <1>5 DEF WaitSchedules, InTask
  <2>2. NoneReturns'
    BY <1>1, <1>5, GoesElsewhere DEF WaitSchedules, Goto
  <2> QED BY <1>1, <2>1, <2>2, ReschedulesSettles
<1>6. CASE SemPendReturns
  <2>1. NoneReturns'
    BY <1>1, <1>6, GoesElsewhere DEF SemPendReturns, Goto
  <2> QED BY <1>1, <1>6, <2>1, ReturnSettles DEF SemPendReturns
<1>7. \A c : LOS_SemCreate(c) => UNCHANGED vars
  BY DEF LOS_SemCreate
<1> QED BY <1>2, <1>3, <1>4, <1>5, <1>6, <1>7 DEF SemStep

LEMMA SettledSemInvariance ==
  ASSUME Steady
  PROVE  SemSpec => []SettledSem
<1>1. SemInit => SettledSem
  BY SemInitInv, InitSettles DEF SemInit, SettledSem, Steady, Tame
<1>2. SettledSem /\ [SemNext]_allVars => SettledSem'
  <2> SUFFICES ASSUME SettledSem, [SemNext]_allVars PROVE SettledSem'
    OBVIOUS
  <2>1. SemInv'
    BY SemNextInv DEF SettledSem, Steady, Tame
  <2>2. CASE SemStep
    BY <2>1, <2>2, SemStepSettles DEF SettledSem
  <2>3. CASE [Next]_vars
    <3>1. ~k'.fault /\ Settles' /\ NoneReturns'
      BY <2>3, NextSettles DEF SettledSem, SemInv, Steady
    <3> QED BY <2>1, <3>1 DEF SettledSem
  <2> QED BY <2>2, <2>3 DEF SemNext, allVars
<1> QED BY <1>1, <1>2, PTL DEF SemSpec

(***************************************************************************)
(* The theorems.                                                           *)
(***************************************************************************)

(* Every variable keeps its type: no count exceeds OS_SEM_COUNT_MAX or falls
   below zero.                                                             *)
THEOREM SemTypeCorrect == ASSUME ~TIMESLICE, ~Nesting PROVE SemSpec => []SemTypeOK
<1>1. SemInv => SemTypeOK
  BY DEF SemInv
<1> QED BY <1>1, SemInvariance, PTL

(* Handlers post before, between and after the rounds of osTaskScan, not inside one
   (~Nesting, in Steady; v_scanpost.cfg shows why).  Then no list operation of a
   semaphore call or of the kernel below it meets a node that is in no list or in
   two, and the scheduler's promises hold.                                 *)
THEOREM SemNeverFaults ==
  ASSUME Steady
  PROVE  SemSpec => [](NoFault /\ SwitchTargetReady /\ (~Lax => HighestRuns))
<1>1. SettledSem => NoFault /\ SwitchTargetReady
  BY DEF SettledSem, NoFault, Settles, Settled, SwitchTargetReady
<1>2. SettledSem => (~Lax => HighestRuns)
  BY SettledHighest DEF SettledSem, SemInv
<1> QED BY <1>1, <1>2, SettledSemInvariance, PTL

(* A task waits in one list or in none, is PEND exactly then, and does not run on
   while it waits ...                                                      *)
THEOREM SemWaitsAgree == ASSUME Steady PROVE SemSpec => []WaitAgrees
<1>1. SettledSem => WaitAgrees
  BY WaitsAgree DEF SettledSem, SemInv
<1> QED BY <1>1, SettledSemInvariance, PTL

(* ... no token lies idle while a task waits for it ... *)
THEOREM NoTokenIdle == ASSUME Steady PROVE SemSpec => []NoIdleToken
<1>1. SettledSem => NoIdleToken
  BY DEF SettledSem, SemInv
<1> QED BY <1>1, SettledSemInvariance, PTL

(* ... and LOS_SemPend returns LOS_OK exactly to the tasks a LOS_SemPost chose, in
   whatever order posts, timeouts and suspensions come, as long as no handler's
   LOS_SemPost falls inside the round of osTaskScan that serves the waiter. *)
THEOREM OkMeansPosted == ASSUME Steady PROVE SemSpec => []OkIffPosted
<1>1. SettledSem => OkIffPosted
  BY DEF SettledSem, SemInv, Pending, Outcome, Inside, OkIffPosted
<1> QED BY <1>1, SettledSemInvariance, PTL

(* A task that is deleted after its wait has timed out and before it runs faults
   the kernel (v_semdelete.cfg): up to a fault, the same holds with deletion, with
   tasks that return and with handlers that suspend between the
   rounds of osTaskScan.                                                   *)
THEOREM SemSoundUntilFault ==
  ASSUME ~TIMESLICE, ~Nesting
  PROVE  SemSpec => [](NoFault => WaitAgrees /\ NoIdleToken /\ OkIffPosted)
<1>1. SemInv => (NoFault => WaitAgrees)
  BY WaitsAgree DEF SemInv, NoFault
<1>2. SemInv => (NoFault => NoIdleToken /\ OkIffPosted)
  BY DEF SemInv, NoFault, Pending, Outcome, Inside, OkIffPosted
<1> QED BY <1>1, <1>2, SemInvariance, PTL

(***************************************************************************)
(* Events.                                                                 *)
(***************************************************************************)
(***************************************************************************)
(* LOS_EventWrite walks the wait list.                                     *)
(***************************************************************************)

(* Awakened is the last of a row of kernel states, one for each reader it has
   looked at.                                                              *)
LEMMA Walk ==
  ASSUME NEW x, NEW e, NEW new, NEW bits, NEW S, x.wait[e] \in Seq(S)
  PROVE  LET s == x.wait[e]
         IN \E g : /\ g[0] = x
                   /\ \A m \in 1 .. Len(s) :
                        g[m] = IF Wakes(s[m], new, bits) THEN Awake(g[m - 1], e, s[m], "PEND")
                               ELSE g[m - 1]
                   /\ Awakened(x, e, new, bits) = g[Len(s)]
<1> DEFINE s == x.wait[e]
           n == Len(s)
           Op(y, t) == IF Wakes(t, new, bits) THEN Awake(y, e, t, "PEND") ELSE y
           Step(h, T) == IF T = {} THEN x ELSE Op(h[T \ {Max(T)}], s[Max(T)])
           Fold(h, m) == h = [T \in SUBSET (1 .. m) |-> Step(h, T)]
<1>1. n \in Nat /\ DOMAIN s = 1 .. n
  OBVIOUS
<1>2. Awakened(x, e, new, bits) = (CHOOSE h : Fold(h, n))[1 .. n]
  BY <1>1 DEF Awakened, FoldLeft, MapThenFoldSet
<1> HIDE DEF Op, s, n
<1>3. ASSUME NEW m \in Nat PROVE \E h : Fold(h, m)
  <2> DEFINE B == {l \in Nat : ~ \E h : Fold(h, l)}
  <2>1. SUFFICES ASSUME B # {} PROVE FALSE
    OBVIOUS
  <2>2. PICK l \in B : \A i \in B : l <= i
    BY <2>1, LeastNatural
  <2>3. CASE l = 0
    <3>1. \A T \in SUBSET (1 .. 0) : T = {}
      OBVIOUS
    <3>2. Fold([T \in SUBSET (1 .. 0) |-> x], 0)
      BY <3>1
    <3> QED BY <2>2, <2>3, <3>2
  <2>4. CASE l # 0
    <3>1. l \in Nat /\ l - 1 \in Nat /\ l - 1 \notin B
      <4> HIDE DEF Fold
      <4>1. l \in Nat
        BY <2>2
      <4>2. l - 1 \in Nat /\ ~(l <= l - 1)
        BY <2>4, <4>1
      <4> QED BY <2>2, <4>1, <4>2
    <3>2. PICK h : Fold(h, l - 1)
      BY <3>1
    <3> DEFINE i == [T \in SUBSET (1 .. l) |->
                       IF l \in T THEN Op(h[T \ {l}], s[l]) ELSE h[T]]
               j == [T \in SUBSET (1 .. l) |-> Step(i, T)]
    <3>3. \A T \in SUBSET (1 .. l - 1) :
            /\ h[T] = Step(h, T) /\ i[T] = h[T]
            /\ T # {} => T \ {Max(T)} \in SUBSET (1 .. l - 1)
      <4>1. \A T \in SUBSET (1 .. l - 1) : T \in SUBSET (1 .. l) /\ l \notin T
        BY <3>1
      <4> QED BY <3>2, <4>1
    <3>4. ASSUME NEW T \in SUBSET (1 .. l) PROVE i[T] = j[T]
      <4>1. CASE l \in T
        <5>1. Max(T) = l /\ T \ {l} \in SUBSET (1 .. l - 1)
          BY <3>1, <4>1, MaxUpTo
        <5>2. i[T] = Op(h[T \ {l}], s[l]) /\ T # {} /\ i[T \ {l}] = h[T \ {l}]
          BY <3>3, <4>1, <5>1
        <5> QED BY <5>1, <5>2
      <4>2. CASE l \notin T
        <5>1. T \in SUBSET (1 .. l - 1)
          BY <3>1, <4>2, MaxUpTo
        <5>2. i[T] = Step(h, T) /\ (T # {} => i[T \ {Max(T)}] = h[T \ {Max(T)}])
          BY <3>3, <5>1
        <5> QED BY <5>2
      <4> QED BY <4>1, <4>2
    <3>5. i = j
      <4>1. i = [T \in SUBSET (1 .. l) |-> i[T]] /\ j = [T \in SUBSET (1 .. l) |-> j[T]]
        OBVIOUS
      <4> HIDE DEF i, j
      <4> QED BY <3>4, <4>1
    <3>6. Fold(i, l)
      BY <3>5
    <3> QED BY <2>2, <3>6
  <2> QED BY <2>3, <2>4
<1> DEFINE h == CHOOSE h : Fold(h, n)
<1>4. Fold(h, n)
  BY <1>1, <1>3 DEF s, n
<1> HIDE DEF h
<1>5. \A T \in SUBSET (1 .. n) : h[T] = Step(h, T)
  BY <1>4
<1> DEFINE g == [m \in 0 .. n |-> h[1 .. m]]
<1>6. g[0] = x
  <2>1. 1 .. 0 = {} /\ {} \in SUBSET (1 .. n) /\ 0 \in 0 .. n
    BY <1>1
  <2>2. h[{}] = x
    BY <1>5, <2>1
  <2> QED BY <2>1, <2>2
<1>7. ASSUME NEW m \in 1 .. n PROVE g[m] = Op(g[m - 1], s[m])
  <2>1. 1 .. m \in SUBSET (1 .. n) /\ m \in 1 .. m /\ m \in 0 .. n /\ m - 1 \in 0 .. n /\ m \in Nat
    <3> HIDE DEF g
    <3>1. n \in Nat
      BY <1>1
    <3>2. m \in Nat /\ 1 <= m /\ m <= n
      BY <3>1
    <3> QED BY <3>1, <3>2
  <2>2. Max(1 .. m) = m /\ (1 .. m) \ {m} = 1 .. m - 1
    BY <2>1, MaxUpTo
  <2>3. h[1 .. m] = Op(h[1 .. m - 1], s[m])
    BY <1>5, <2>1, <2>2
  <2> QED BY <2>1, <2>3
<1>8. Awakened(x, e, new, bits) = g[n]
  BY <1>1, <1>2 DEF h
<1> HIDE DEF g
<1> QED BY <1>6, <1>7, <1>8 DEF Op, s, n

(* What the walk leaves: the readers that the bits satisfy are awake, and the
   others wait on.                                                         *)
LEMMA AwakenedOk ==
  ASSUME Ok(k), ~k.fault, \A t \in Task : ~Has(k, t, "PEND_QUEUE"),
         NEW e \in Event, NEW new, NEW bits
  PROVE  LET y == Awakened(k, e, new, bits)
             W(t) == Contains(k.wait[e], t) /\ Wakes(t, new, bits)
         IN /\ Ok(y) /\ ~y.fault /\ Gentle(k, y) /\ SameRest(k, y)
            /\ k.due[0] = <<>> => y.due[0] = <<>>
            /\ \A t \in Task :
                 y.status[t] = IF W(t) THEN AwakeFlags(k.status[t], "PEND") ELSE k.status[t]
            /\ \A p \in WaitObj, t \in Task :
                 Contains(y.wait[p], t) <=> Contains(k.wait[p], t) /\ ~W(t)
            /\ y # k => k.wait[e] # <<>>
<1> DEFINE s == k.wait[e]
<1>1. /\ e \in WaitObj /\ k \in Kernel /\ Sound(k) /\ s \in Seq(Task) /\ IsInjective(s)
      /\ \A t \in Task : Contains(s, t) => Has(k, t, "PEND")
  <2>1. e \in WaitObj /\ k \in Kernel /\ Sound(k)
    BY DEF Ok, Event
  <2>2. s \in Seq(Task) /\ IsInjective(s)
    BY <2>1, KernelType DEF Sound, Good, WaitLists
  <2>3. \A t \in Task : Contains(s, t) => Waits(k, t)
    BY <2>1 DEF Sound, Good, WaitLists
  <2> QED BY <2>1, <2>2, <2>3 DEF Waits
<1>2. PICK g : /\ g[0] = k
               /\ \A m \in 1 .. Len(s) :
                    g[m] = IF Wakes(s[m], new, bits) THEN Awake(g[m - 1], e, s[m], "PEND")
                           ELSE g[m - 1]
               /\ Awakened(k, e, new, bits) = g[Len(s)]
  BY <1>1, Walk
<1> DEFINE C(m) == {t \in Task : \E j \in 1 .. m : s[j] = t /\ Wakes(t, new, bits)}
           P(m) == LET y == g[m]
                   IN /\ Ok(y) /\ ~y.fault /\ Gentle(k, y) /\ SameRest(k, y)
                      /\ k.due[0] = <<>> => y.due[0] = <<>>
                      /\ \A t \in Task :
                           y.status[t] = IF t \in C(m) THEN AwakeFlags(k.status[t], "PEND")
                                         ELSE k.status[t]
                      /\ \A p \in WaitObj, t \in Task :
                           Contains(y.wait[p], t) <=> Contains(k.wait[p], t) /\ t \notin C(m)
<1>3. P(0)
  <2>1. C(0) = {}
    OBVIOUS
  <2>2. Gentle(k, k) /\ SameRest(k, k)
    BY FrameReflexive DEF Frame, SameRest
  <2> HIDE DEF C
  <2> QED BY <1>2, <2>1, <2>2
<1>4. ASSUME NEW m \in 1 .. Len(s), P(m - 1) PROVE P(m)
  <2> DEFINE t == s[m]
             x == g[m - 1]
             y == g[m]
  <2>1. t \in Task /\ Contains(s, t) /\ m \in Nat /\ m - 1 \in Nat
    BY <1>1 DEF Contains
  <2>2. CASE ~Wakes(t, new, bits)
    <3>1. C(m) = C(m - 1)
      <4>1. \A u : Wakes(u, new, bits) => u # t
        BY <2>2
      <4> HIDE DEF s, P
      <4>2. \A j \in 1 .. m : j = m \/ j \in 1 .. m - 1
        BY <2>1
      <4>3. \A j \in 1 .. m - 1 : j \in 1 .. m
        BY <2>1
      <4> QED BY <4>1, <4>2, <4>3
    <3>2. g[m] = g[m - 1]
      BY <1>2, <2>2
    <3> HIDE DEF C
    <3> QED BY <1>4, <3>1, <3>2
  <2>3. CASE Wakes(t, new, bits)
    <3>1. t \notin C(m - 1)
      <4>1. \A j \in 1 .. m - 1 : j \in 1 .. Len(s) /\ j # m
        BY <2>1
      <4>2. \A j \in 1 .. Len(s) : j # m => s[j] # s[m]
        BY <1>1 DEF IsInjective
      <4> QED BY <4>1, <4>2
    <3>2. C(m) = C(m - 1) \cup {t}
      <4> HIDE DEF s, P
      <4>1. \A j \in 1 .. m : j = m \/ j \in 1 .. m - 1
        BY <2>1
      <4>2. \A j \in 1 .. m - 1 : j \in 1 .. m
        BY <2>1
      <4>3. m \in 1 .. m
        BY <2>1
      <4> QED BY <2>1, <2>3, <4>1, <4>2, <4>3
    <3> DEFINE D == C(m - 1)
               E == C(m)
    <3>3. /\ Ok(x) /\ ~x.fault /\ Gentle(k, x) /\ SameRest(k, x)
          /\ k.due[0] = <<>> => x.due[0] = <<>>
          /\ \A u \in Task :
               x.status[u] = IF u \in D THEN AwakeFlags(k.status[u], "PEND") ELSE k.status[u]
          /\ \A p \in WaitObj, u \in Task :
               Contains(x.wait[p], u) <=> Contains(k.wait[p], u) /\ u \notin D
          /\ t \notin D /\ E = D \cup {t}
      BY <1>4, <3>1, <3>2
    <3>4. y = Awake(x, e, t, "PEND")
      BY <1>2, <2>3
    <3> HIDE DEF C, D, E, x, y, t
    <3>5. Contains(x.wait[e], t) /\ Has(x, t, "PEND")
      BY <1>1, <2>1, <3>3 DEF Has
    <3>6. /\ Ok(y) /\ Gentle(x, y) /\ ~y.fault /\ SameRest(x, y)
          /\ x.due[0] = <<>> => y.due[0] = <<>>
          /\ y.status[t] = AwakeFlags(x.status[t], "PEND")
          /\ \A u \in Task : u # t => y.status[u] = x.status[u]
          /\ \A p \in WaitObj, u \in Task :
               Contains(y.wait[p], u) <=> Contains(x.wait[p], u) /\ u # t
      BY <1>1, <2>1, <3>3, <3>4, <3>5, AwakeFacts
    <3>7. Gentle(k, y) /\ SameRest(k, y) /\ (k.due[0] = <<>> => y.due[0] = <<>>)
      BY <3>3, <3>6, GentleTransitive DEF SameRest
    <3>8. \A u \in Task :
            y.status[u] = IF u \in E THEN AwakeFlags(k.status[u], "PEND") ELSE k.status[u]
      BY <3>3, <3>6
    <3>9. \A p \in WaitObj, u \in Task :
            Contains(y.wait[p], u) <=> Contains(k.wait[p], u) /\ u \notin E
      BY <3>3, <3>6
    <3> QED BY <3>6, <3>7, <3>8, <3>9 DEF y, E
  <2> QED BY <2>2, <2>3
<1>5. P(Len(s))
  <2> DEFINE B == {m \in 0 .. Len(s) : ~P(m)}
  <2>0. Len(s) \in Nat
    BY <1>1
  <2> HIDE DEF P, s
  <2>1. SUFFICES ASSUME B # {} PROVE FALSE
    BY <2>0
  <2>2. PICK m \in B : \A j \in B : m <= j
    <3>1. B \in SUBSET Nat
      BY <2>0
    <3> HIDE DEF B
    <3> QED BY <2>1, <3>1, LeastNatural
  <2>3. m \in 0 .. Len(s) /\ ~P(m) /\ m # 0
    BY <1>3, <2>2
  <2>4. m \in 1 .. Len(s) /\ m - 1 \in 0 .. Len(s) /\ ~(m <= m - 1)
    BY <2>0, <2>3
  <2>5. P(m - 1)
    BY <2>2, <2>4
  <2> QED BY <1>4, <2>3, <2>4, <2>5
<1>6. \A t \in Task : t \in C(Len(s)) <=> Contains(s, t) /\ Wakes(t, new, bits)
  BY <1>1 DEF Contains
<1>7. g[Len(s)] # k => s # <<>>
  BY <1>2
<1> HIDE DEF C
<1> QED BY <1>2, <1>5, <1>6, <1>7

(***************************************************************************)
(* The inductive invariant.                                                *)
(***************************************************************************)
NotMail == \A t \in Task : ~Has(k, t, "PEND_QUEUE")

EventInv ==
  IInv /\ EventTypeOK /\ (~k.fault => NotMail /\ NoMissedEvent /\ ZeroOnlyIfRobbed)

LEMMA EventType ==
  ASSUME EventInv
  PROVE  /\ IInv /\ TypeOK /\ k \in Kernel /\ pc \in [Thread -> Control]
         /\ id \in [Event -> SUBSET Bit] /\ robbed \in SUBSET Task
         /\ want \in [Thread -> [event : Event \cup {NoTask}, mask : SUBSET Bit, mode : Mode]]
         /\ \A t \in Thread : want[t].event \in Event => want[t].mask # {}
         /\ Event = WaitObj /\ \A t \in Task : t \in Thread
BY DEF EventInv, EventTypeOK, TypeOK, Event, Thread

LEMMA EventInitInv == ~Nesting /\ EventInit => EventInv
<1> SUFFICES ASSUME ~Nesting, EventInit PROVE EventInv
  OBVIOUS
<1>1. IInv /\ TypeOK
  BY InitInv DEF EventInit, IInv
<1>2. /\ k.wait = [o \in WaitObj |-> <<>>]
      /\ k.status = [t \in Task |-> IF t = Idle THEN {"READY"} ELSE {"UNUSED"}]
      /\ id = [e \in Event |-> {}] /\ want = [t \in Thread |-> NoWant] /\ robbed = {}
  BY DEF EventInit, Init
<1>3. EventTypeOK
  <2>1. NoWant \in [event : Event \cup {NoTask}, mask : SUBSET Bit, mode : Mode]
    BY DEF NoWant, Mode
  <2>2. NoWant.event \notin Event
    BY EventAssumption DEF NoWant
  <2> HIDE DEF NoWant
  <2> QED BY <1>1, <1>2, <2>1, <2>2 DEF EventTypeOK
<1>4. NotMail
  BY <1>2 DEF NotMail, Has
<1>5. NoMissedEvent
  <2>1. \A t : ~Contains(<<>>, t)
    BY EmptyList
  <2> QED BY <1>2, <2>1 DEF NoMissedEvent, Event
<1>6. ZeroOnlyIfRobbed
  <2>1. \A t \in Task, e \in Event : want[t].event # e
    BY <1>2, EventAssumption DEF NoWant, Thread
  <2> QED BY <2>1 DEF ZeroOnlyIfRobbed, Woken
<1> QED BY <1>1, <1>3, <1>4, <1>5, <1>6 DEF EventInv

(***************************************************************************)
(* The bits and what a reader finds.                                       *)
(***************************************************************************)

(* Bits that are cleared satisfy nobody; bits that nobody asked for are not missed;
   and new bits dissatisfy nobody.                                         *)
LEMMA PolledLess ==
  ASSUME NEW bits, NEW less, less \subseteq bits, NEW mask, mask # {}, NEW mode
  PROVE  /\ Polled(bits, mask, mode) = {} => Polled(less, mask, mode) = {}
         /\ mask \cap (bits \ less) = {} /\ Polled(bits, mask, mode) # {}
              => Polled(less, mask, mode) # {}
BY DEF Polled

LEMMA PolledMore ==
  ASSUME NEW bits, NEW new, NEW t, want[t].mask # {}
  PROVE  LET w == want[t]
             all == bits \cup new
         IN /\ Polled(bits, w.mask, w.mode) # {} => Polled(all, w.mask, w.mode) # {}
            /\ Wakes(t, new, all) => Polled(all, w.mask, w.mode) # {}
            /\ ~Wakes(t, new, all) /\ Polled(bits, w.mask, w.mode) = {}
                 => Polled(all, w.mask, w.mode) = {}
BY DEF Polled, Wakes

LEMMA PollType ==
  ASSUME NEW bits \in SUBSET Bit, NEW mask, NEW mode
  PROVE  LOS_EventPoll(bits, mask, mode) \in SUBSET Bit /\ LOS_EventPoll(bits, mask, mode) \subseteq bits
BY DEF LOS_EventPoll

(* A step that wakes nobody, makes nobody wait and sets no bit: whoever of the
   woken readers loses bits is noted as robbed.                            *)
LEMMA ReadersKept ==
  ASSUME EventInv, ~k.fault,
         \A e \in Event, t \in Task :
           Contains(k'.wait[e], t) => Contains(k.wait[e], t) /\ want'[t] = want[t],
         \A e \in Event, t \in Task : t \in Woken(e)' => t \in Woken(e) /\ want'[t] = want[t],
         \A e \in Event : id'[e] \subseteq id[e],
         \A e \in Event : \A t \in Woken(e)' : t \in robbed \cup Loses(e, id[e] \ id'[e])
                                                 => t \in robbed'
  PROVE  NoMissedEvent' /\ ZeroOnlyIfRobbed'
<1>1. /\ NoMissedEvent /\ ZeroOnlyIfRobbed
      /\ \A t \in Task : t \in Thread
      /\ \A t \in Thread : want[t].event \in Event => want[t].mask # {}
  BY EventType DEF EventInv
<1>2. NoMissedEvent'
  <2> SUFFICES ASSUME NEW e \in Event, NEW t \in Task, Contains(k'.wait[e], t)
               PROVE  want'[t].event = e /\ Polled(id'[e], want'[t].mask, want'[t].mode) = {}
    BY DEF NoMissedEvent
  <2>1. want'[t] = want[t] /\ want[t].event = e /\ Polled(id[e], want[t].mask, want[t].mode) = {}
    BY <1>1 DEF NoMissedEvent
  <2>2. want[t].mask # {} /\ id'[e] \subseteq id[e]
    BY <1>1, <2>1
  <2> QED BY <2>1, <2>2, PolledLess
<1>3. ZeroOnlyIfRobbed'
  <2> SUFFICES ASSUME NEW e \in Event, NEW t \in Woken(e)', t \notin robbed'
               PROVE  Polled(id'[e], want'[t].mask, want'[t].mode) # {}
    BY DEF ZeroOnlyIfRobbed
  <2>1. t \in Task
    BY DEF Woken
  <2>2. t \in Woken(e) /\ want'[t] = want[t] /\ t \notin robbed /\ t \notin Loses(e, id[e] \ id'[e])
    BY <2>1
  <2>3. want[t].event = e /\ want[t].mask \cap (id[e] \ id'[e]) = {}
    BY <2>2 DEF Loses, Woken
  <2>4. Polled(id[e], want[t].mask, want[t].mode) # {} /\ want[t].mask # {} /\ id'[e] \subseteq id[e]
    BY <1>1, <2>1, <2>2, <2>3 DEF ZeroOnlyIfRobbed
  <2> QED BY <2>2, <2>3, <2>4, PolledLess
<1> QED BY <1>2, <1>3

(***************************************************************************)
(* The steps.                                                              *)
(***************************************************************************)

(* A step of the task component. *)
LEMMA EventTaskStep ==
  ASSUME EventInv, [Next]_vars, UNCHANGED eventVars
  PROVE  EventInv'
<1>1. IInv' /\ k' \in Kernel /\ k \in Kernel
  BY NextInv, EventType DEF IInv, TypeOK
<1>2. id' = id /\ want' = want /\ robbed' = robbed
  BY DEF eventVars
<1>3. EventTypeOK'
  BY <1>1, <1>2 DEF EventInv, EventTypeOK, IInv
<1>4. ASSUME ~k'.fault PROVE NotMail' /\ NoMissedEvent' /\ ZeroOnlyIfRobbed'
  <2>1. Endures
    BY <1>4, NextEndures DEF EventInv
  <2>2. ~k.fault
    BY <1>4, FaultStays
  <2>3. NotMail'
    BY <2>1, <2>2 DEF Endures, EventInv, NotMail
  <2>4. \A e \in Event, t \in Task : Contains(k'.wait[e], t) => Contains(k.wait[e], t)
    BY <2>1 DEF Endures, Event
  <2>5. \A e \in Event, t \in Task : t \in Woken(e)' => t \in Woken(e)
    <3> SUFFICES ASSUME NEW e \in Event, NEW t \in Task, t \in Woken(e)' PROVE t \in Woken(e)
      OBVIOUS
    <3>1. pc'[t] \in Inside /\ want[t].event = e /\ ~Has(k', t, "PEND") /\ ~Has(k', t, "TIMEOUT")
      BY <1>2 DEF Woken, Inside, Has
    <3>2. pc[t] \in Inside /\ ~Has(k, t, "PEND") /\ ~Has(k, t, "TIMEOUT")
      BY <2>1, <3>1 DEF Endures
    <3> QED BY <3>1, <3>2 DEF Woken, Inside, Has
  <2>6. NoMissedEvent' /\ ZeroOnlyIfRobbed'
    <3>1. \A e \in Event : Loses(e, {}) = {}
      BY DEF Loses
    <3>2. \A e \in Event : id[e] \ id'[e] = {}
      BY <1>2
    <3> QED BY <1>2, <2>2, <2>4, <2>5, <3>1, <3>2, ReadersKept
  <2> QED BY <2>3, <2>6
<1> QED BY <1>1, <1>3, <1>4 DEF EventInv

(* Bits are cleared while nobody moves. *)
LEMMA ClearsStep ==
  ASSUME EventInv, ~k.fault, UNCHANGED vars, NEW e \in Event, NEW less \in SUBSET Bit,
         less \subseteq id[e], id' = [id EXCEPT ![e] = less],
         robbed' = robbed \cup Loses(e, id[e] \ less), want' = want
  PROVE  EventInv'
<1>1. IInv' /\ TypeOK'
  BY EventType, NextInv DEF IInv
<1>2. k' = k /\ pc' = pc
  BY DEF vars
<1>3. robbed' \subseteq Task
  BY EventType DEF Loses, Woken
<1>4. EventTypeOK'
  BY <1>1, <1>3, EventType DEF EventTypeOK
<1>5. NotMail'
  BY <1>2 DEF EventInv, NotMail
<1>6. NoMissedEvent' /\ ZeroOnlyIfRobbed'
  <2>1. \A d \in Event : Woken(d)' = Woken(d)
    BY <1>2 DEF Woken
  <2>2. \A d \in Event : id'[d] = IF d = e THEN less ELSE id[d]
    BY EventType
  <2>3. \A d \in Event : Loses(d, id[d] \ id'[d]) \subseteq robbed'
    <3>1. \A d \in Event : Loses(d, {}) = {}
      BY DEF Loses
    <3>2. \A d \in Event : d # e => id[d] \ id'[d] = {}
      BY <2>2
    <3> QED BY <2>2, <3>1, <3>2
  <2> QED BY <1>2, <2>1, <2>2, <2>3, ReadersKept
<1> QED BY <1>1, <1>4, <1>5, <1>6 DEF EventInv

LEMMA ReadTakesStep ==
  ASSUME EventInv, ~k.fault, NEW e \in Event, NEW mask \in SUBSET Bit, NEW mode \in Mode,
         Takes(e, mask, mode), UNCHANGED pc
  PROVE  EventInv'
<1> DEFINE less == LOS_EventPoll(id[e], mask, mode)
<1>1. less \in SUBSET Bit /\ less \subseteq id[e]
  BY PollType, EventType
<1>2. id' = [id EXCEPT ![e] = less] /\ id'[e] = less
  BY EventType DEF Takes
<1> QED BY <1>1, <1>2, ClearsStep DEF Takes, vars

LEMMA EventClearStep ==
  ASSUME EventInv, NEW e \in Event, NEW bits \in SUBSET Bit, LOS_EventClear(e, bits)
  PROVE  EventInv'
<1> DEFINE less == id[e] \ bits
<1>1. UNCHANGED vars /\ ~k.fault
  BY DEF LOS_EventClear, Call, vars, UserCode, InTask, InIsr
<1>2. less \in SUBSET Bit /\ less \subseteq id[e] /\ id[e] \ less = id[e] \cap bits
  BY EventType
<1>3. id' = [id EXCEPT ![e] = less] /\ robbed' = robbed \cup Loses(e, id[e] \ less) /\ want' = want
  BY <1>2 DEF LOS_EventClear
<1> QED BY <1>1, <1>2, <1>3, ClearsStep

LEMMA EventWaitSchedulesStep ==
  ASSUME EventInv, WaitSchedules, UNCHANGED eventVars
  PROVE  EventInv'
<1>1. /\ ~k.fault /\ pc[k.run] = "pend" /\ k' = LOS_Schedule(k)
      /\ pc' = [pc EXCEPT ![k.run] = "woken"]
      /\ id' = id /\ want' = want /\ robbed' = robbed
  BY DEF WaitSchedules, InTask, Goto, eventVars
<1>2. IInv' /\ TypeOK'
  BY WaitSchedulesStep DEF EventInv, IInv
<1>3. k'.status = k.status /\ k'.wait = k.wait
  BY <1>1, EventType DEF LOS_Schedule, Kernel
<1>4. EventTypeOK'
  BY <1>1, <1>2 DEF EventInv, EventTypeOK
<1>5. NotMail'
  BY <1>1, <1>3 DEF EventInv, NotMail, Has
<1>6. NoMissedEvent' /\ ZeroOnlyIfRobbed'
  <2>1. \A e \in Event, t \in Task : t \in Woken(e)' => t \in Woken(e)
    BY <1>1, <1>3, EventType DEF Woken
  <2>2. \A e \in Event : Loses(e, id[e] \ id'[e]) = {}
    BY <1>1 DEF Loses
  <2> QED BY <1>1, <1>3, <2>1, <2>2, ReadersKept
<1> QED BY <1>2, <1>4, <1>5, <1>6 DEF EventInv

(* A reader that finds nothing waits. *)
LEMMA ReadWaitsStep ==
  ASSUME EventInv, ~TIMESLICE, UserCode, NEW e \in Event,
         NEW mask \in SUBSET Bit, mask # {}, NEW mode \in Mode,
         NEW n \in 1 .. Forever, ReadWaits(e, mask, mode, n)
  PROVE  EventInv'
<1> DEFINE t == k.run
           w == [event |-> e, mask |-> mask, mode |-> mode]
<1>1. /\ k.scheduled /\ k.lock = 0 /\ Polled(id[e], mask, mode) = {}
      /\ k' = WaitOn(k, e, n) /\ pc' = [pc EXCEPT ![t] = "pend"]
      /\ want' = [want EXCEPT ![t] = w]
      /\ fresh' = fresh /\ tick' = tick /\ cut' = cut /\ id' = id /\ robbed' = robbed
      /\ InTask(pc[t]) /\ pc[t] = "user" /\ t # Idle /\ e \in WaitObj
  BY DEF ReadWaits, Goto, UserCode, InTask, Event
<1>2. /\ ~k.fault /\ Ok(k) /\ k \in Kernel /\ t \in Task \ {Idle} /\ t \in Thread
      /\ pc \in [Thread -> Control] /\ ~Waits(k, t)
  BY <1>1, CallerFacts, EventType DEF EventInv
<1>3. Queued(k, k', e, n, "PEND")
  BY <1>1, <1>2, WaitOnQueued
<1>4. IInv' /\ TypeOK'
  <2>1. Gentle(k, k)
    BY FrameReflexive DEF Frame
  <2>2. IInv'
    BY <1>1, <1>2, <1>3, <2>1, BlockStep DEF EventInv
  <2> QED BY <2>2 DEF IInv
<1>5. /\ \A p \in WaitObj, u \in Task :
           Contains(k'.wait[p], u) <=> Contains(k.wait[p], u) \/ (u = t /\ p = e)
      /\ \A u \in Task : u # t => k'.status[u] = k.status[u]
      /\ \A f \in Flag \ {"TIMEOUT", "READY"} : Has(k', t, f) <=> Has(k, t, f) \/ f = "PEND"
  <2>1. "PEND" \in {"PEND", "PEND_QUEUE"} /\ t \in Task
    BY <1>2
  <2> QED BY <1>1, <1>2, <1>3, <2>1, QueuedFacts
<1>6. /\ NotMail /\ NoMissedEvent /\ ZeroOnlyIfRobbed
      /\ want'[t] = w /\ (\A u \in Task : u # t => want'[u] = want[u] /\ pc'[u] = pc[u])
  BY <1>1, <1>2, EventType DEF EventInv
<1>7. EventTypeOK'
  <2>1. w \in [event : Event \cup {NoTask}, mask : SUBSET Bit, mode : Mode] /\ w.mask # {}
    OBVIOUS
  <2> HIDE DEF w
  <2>2. want' \in [Thread -> [event : Event \cup {NoTask}, mask : SUBSET Bit, mode : Mode]]
    BY <1>1, <2>1, EventType
  <2>3. \A u \in Thread : want'[u].event \in Event => want'[u].mask # {}
    BY <1>1, <2>1, EventType
  <2> QED BY <1>1, <1>4, <2>2, <2>3, EventType DEF EventTypeOK
<1>8. NotMail'
  <2>1. ~Has(k', t, "PEND_QUEUE") /\ \A u \in Task : u # t => ~Has(k', u, "PEND_QUEUE")
    BY <1>2, <1>5, <1>6 DEF NotMail, Flag, Has
  <2> QED BY <2>1 DEF NotMail
<1>9. NoMissedEvent'
  <2> SUFFICES ASSUME NEW d \in Event, NEW u \in Task, Contains(k'.wait[d], u)
               PROVE  want'[u].event = d /\ Polled(id'[d], want'[u].mask, want'[u].mode) = {}
    BY DEF NoMissedEvent
  <2>1. Contains(k.wait[d], u) \/ (u = t /\ d = e)
    BY <1>5 DEF Event
  <2>2. \A p \in WaitObj : ~Contains(k.wait[p], t)
    BY <1>2 DEF Ok, Sound, Good, WaitLists
  <2>3. CASE u = t
    BY <1>1, <1>6, <2>1, <2>2, <2>3 DEF Event
  <2>4. CASE u # t
    BY <1>1, <1>6, <2>1, <2>4 DEF NoMissedEvent
  <2> QED BY <2>3, <2>4
<1>10. ZeroOnlyIfRobbed'
  <2> SUFFICES ASSUME NEW d \in Event, NEW u \in Woken(d)', u \notin robbed'
               PROVE  Polled(id'[d], want'[u].mask, want'[u].mode) # {}
    BY DEF ZeroOnlyIfRobbed
  <2>1. u \in Task /\ ~Has(k', u, "PEND")
    BY DEF Woken, Has
  <2>2. Has(k', t, "PEND")
    BY <1>5 DEF Flag
  <2>3. u # t
    BY <2>1, <2>2
  <2>4. u \in Woken(d) /\ u \notin robbed
    BY <1>1, <1>5, <1>6, <2>1, <2>3 DEF Woken
  <2> QED BY <1>1, <1>6, <2>1, <2>3, <2>4 DEF ZeroOnlyIfRobbed
<1> QED BY <1>4, <1>7, <1>8, <1>9, <1>10 DEF EventInv

(* A woken reader polls, and one that has timed out does not. *)
LEMMA ReadReturnsStep ==
  ASSUME EventInv, ReadReturns
  PROVE  EventInv'
<1> DEFINE t == k.run
           w == want[t]
           e == w.event
           less == IF Has(k, t, "TIMEOUT") THEN id[e] ELSE LOS_EventPoll(id[e], w.mask, w.mode)
<1>1. /\ ~k.fault /\ InTask("woken") /\ e # NoTask
      /\ k' = [k EXCEPT !.status[t] = @ \ {"TIMEOUT"}]
      /\ pc' = [pc EXCEPT ![t] = "user"] /\ want' = [want EXCEPT ![t] = NoWant]
      /\ fresh' = fresh /\ tick' = tick /\ cut' = cut
      /\ robbed' = (robbed \cup Loses(e, id[e] \ id'[e])) \ {t}
      /\ id' = IF Has(k, t, "TIMEOUT") THEN id
               ELSE [id EXCEPT ![e] = LOS_EventPoll(@, w.mask, w.mode)]
  BY DEF ReadReturns, InTask, Goto
<1>2. /\ Ok(k') /\ Gentle(k, k') /\ k'.due = k.due /\ k'.wait = k.wait /\ t \in Task
      /\ k'.status = [k.status EXCEPT ![t] = @ \ {"TIMEOUT"}]
  BY <1>1, ClearsTimeout DEF EventInv
<1>3. IInv' /\ TypeOK'
  <2>1. "user" \in {"user", "sched"}
    OBVIOUS
  <2> QED BY <1>1, <1>2, <2>1, WokenStep DEF EventInv, IInv
<1>4. e \in Event /\ t \in Thread /\ id \in [Event -> SUBSET Bit]
  BY <1>1, <1>2, EventType
<1>5. less \in SUBSET Bit /\ less \subseteq id[e]
  BY <1>4, PollType
<1>6. id' = [id EXCEPT ![e] = less]
  BY <1>1, <1>4
<1> HIDE DEF less
<1>7. /\ id' \in [Event -> SUBSET Bit] /\ id'[e] = less
      /\ \A d \in Event : d # e => id'[d] = id[d]
  BY <1>4, <1>5, <1>6
<1>8. EventTypeOK'
  <2>1. NoWant \in [event : Event \cup {NoTask}, mask : SUBSET Bit, mode : Mode]
    BY DEF NoWant, Mode
  <2>2. NoWant.event \notin Event
    BY EventAssumption DEF NoWant
  <2>3. robbed' \subseteq Task
    BY <1>1, EventType DEF Loses, Woken
  <2> HIDE DEF NoWant
  <2>4. want' \in [Thread -> [event : Event \cup {NoTask}, mask : SUBSET Bit, mode : Mode]]
    BY <1>1, <2>1, EventType
  <2>5. \A u \in Thread : want'[u].event \in Event => want'[u].mask # {}
    BY <1>1, <2>2, EventType
  <2> QED BY <1>3, <1>7, <2>3, <2>4, <2>5 DEF EventTypeOK
<1>9. NotMail'
  BY <1>1, <1>2, EventType DEF EventInv, NotMail, Has, Kernel
<1>10. NoMissedEvent' /\ ZeroOnlyIfRobbed'
  <2>1. \A d \in Event : ~Contains(k.wait[d], t)
    <3>1. t # Idle /\ k.scheduled /\ InTask(pc[k.run]) /\ pc[k.run] = "woken"
      BY <1>1, Start DEF InTask, EventInv, Running
    <3>2. Ok(k) /\ ~Waits(k, t)
      BY <3>1, CallerFacts DEF EventInv
    <3> QED BY <1>1, <1>2, <3>2, EventType DEF Ok, Sound, Good, WaitLists
  <2>2. \A u \in Task : u # t => want'[u] = want[u] /\ pc'[u] = pc[u] /\ k'.status[u] = k.status[u]
    BY <1>1, <1>2, EventType DEF Kernel
  <2>3. \A d \in Event : t \notin Woken(d)'
    <3>1. pc'[t] = "user"
      BY <1>1, <1>4, EventType
    <3> QED BY <3>1 DEF Woken
  <2>4. \A d \in Event, u \in Task : u \in Woken(d)' => u \in Woken(d) /\ want'[u] = want[u]
    <3> SUFFICES ASSUME NEW d \in Event, NEW u \in Task, u \in Woken(d)'
                 PROVE  u \in Woken(d) /\ want'[u] = want[u]
      OBVIOUS
    <3>1. u # t
      BY <2>3
    <3> QED BY <2>2, <3>1 DEF Woken
  <2>5. \A d \in Event, u \in Task :
          Contains(k'.wait[d], u) => Contains(k.wait[d], u) /\ want'[u] = want[u]
    BY <1>2, <2>1, <2>2
  <2>6. \A d \in Event : id'[d] \subseteq id[d]
    BY <1>5, <1>7
  <2>7. \A d \in Event : \A u \in Woken(d)' : u \in robbed \cup Loses(d, id[d] \ id'[d]) => u \in robbed'
    <3>1. \A d \in Event : d # e => Loses(d, id[d] \ id'[d]) = {}
      BY <1>7 DEF Loses
    <3> QED BY <1>1, <2>3, <3>1
  <2> QED BY <1>1, <2>4, <2>5, <2>6, <2>7, ReadersKept
<1> QED BY <1>3, <1>8, <1>9, <1>10 DEF EventInv

(* LOS_EventWrite sets bits and wakes whom they satisfy. *)
LEMMA EventWriteStep ==
  ASSUME EventInv, NEW e \in Event, NEW new \in SUBSET Bit, LOS_EventWrite(e, new)
  PROVE  EventInv'
<1> DEFINE bits == id[e] \cup new
           y == Awakened(k, e, new, bits)
           W(t) == Contains(k.wait[e], t) /\ Wakes(t, new, bits)
<1>1. /\ Call("eventwrite", y, y # k) /\ ~k.fault
      /\ id' = [id EXCEPT ![e] = bits] /\ want' = want /\ robbed' = robbed
  BY DEF LOS_EventWrite, Call, UserCode, InTask, InIsr
<1>2. /\ Ok(k) /\ Sound(k) /\ Delaying(k) /\ k \in Kernel
      /\ NotMail /\ NoMissedEvent /\ ZeroOnlyIfRobbed
  BY <1>1, Start, EventType DEF EventInv
<1>3. /\ Ok(y) /\ Gentle(k, y) /\ (k.due[0] = <<>> => y.due[0] = <<>>)
      /\ \A t \in Task :
           y.status[t] = IF W(t) THEN AwakeFlags(k.status[t], "PEND") ELSE k.status[t]
      /\ \A p \in WaitObj, t \in Task : Contains(y.wait[p], t) <=> Contains(k.wait[p], t) /\ ~W(t)
      /\ y # k => k.wait[e] # <<>>
  BY <1>1, <1>2, AwakenedOk DEF NotMail
<1> HIDE DEF y
<1>4. y # k => k.scheduled
  <2>1. ASSUME NEW t \in Task, Contains(k.wait[e], t) PROVE k.scheduled
    BY <1>2, <2>1, EventType DEF Sound, Good, WaitLists, Delaying, Stopped
  <2>2. k.wait[e] # <<>> => \E t \in Task : Contains(k.wait[e], t)
    BY <1>2, WaiterExists, EventType
  <2> QED BY <1>3, <2>1, <2>2
<1>5. IInv' /\ TypeOK'
  <2>1. (y # k) \in BOOLEAN
    OBVIOUS
  <2>2. IInv'
    BY <1>1, <1>3, <1>4, <2>1, CallStep DEF EventInv
  <2> QED BY <2>2 DEF IInv
<1>6. k'.status = y.status /\ k'.wait = y.wait
  <2>1. y \in Kernel /\ (k' = y \/ k' = LOS_Schedule(y))
    BY <1>1, <1>3 DEF Call, Ok
  <2>2. LOS_Schedule(y).status = y.status /\ LOS_Schedule(y).wait = y.wait
    BY <2>1 DEF LOS_Schedule, Kernel
  <2> QED BY <2>1, <2>2
<1>7. \A t \in Task : pc'[t] \in Inside => pc'[t] = pc[t]
  <2>1. pc' = pc \/ pc' = [pc EXCEPT ![k.run] = "sched"]
    BY <1>1 DEF Call, Goto
  <2> QED BY <2>1, EventType DEF Inside
<1>8. bits \in SUBSET Bit /\ id'[e] = bits /\ \A d \in Event : d # e => id'[d] = id[d]
  BY <1>1, EventType
<1>9. EventTypeOK'
  BY <1>1, <1>5, <1>8, EventType DEF EventTypeOK
<1>10. NotMail'
  <2>1. \A t \in Task : k'.status[t] \subseteq k.status[t] \cup {"READY"}
    BY <1>3, <1>6 DEF AwakeFlags
  <2> QED BY <1>2, <2>1 DEF NotMail, Has
<1>11. \A t \in Task : want[t].event = e => want[t].mask # {}
  BY EventType
<1>14. \A t \in Task : want[t].mask # {} =>
         /\ Polled(id[e], want[t].mask, want[t].mode) # {} => Polled(bits, want[t].mask, want[t].mode) # {}
         /\ Wakes(t, new, bits) => Polled(bits, want[t].mask, want[t].mode) # {}
  BY PolledMore
<1>12. NoMissedEvent'
  <2> SUFFICES ASSUME NEW d \in Event, NEW t \in Task, Contains(k'.wait[d], t)
               PROVE  want[t].event = d /\ Polled(id'[d], want[t].mask, want[t].mode) = {}
    BY <1>1 DEF NoMissedEvent
  <2>1. Contains(k.wait[d], t) /\ ~W(t)
    BY <1>3, <1>6, EventType
  <2>2. want[t].event = d /\ Polled(id[d], want[t].mask, want[t].mode) = {}
    BY <1>2, <2>1 DEF NoMissedEvent
  <2>3. CASE d = e
    BY <1>8, <1>11, <2>1, <2>2, <2>3, PolledMore
  <2>4. CASE d # e
    BY <1>8, <2>2, <2>4
  <2> QED BY <2>2, <2>3, <2>4
<1>13. ZeroOnlyIfRobbed'
  <2> SUFFICES ASSUME NEW d \in Event, NEW t \in Woken(d)', t \notin robbed
               PROVE  Polled(id'[d], want[t].mask, want[t].mode) # {}
    BY <1>1 DEF ZeroOnlyIfRobbed
  <2>1. /\ t \in Task /\ pc'[t] = pc[t] /\ pc[t] \in Inside /\ want[t].event = d
        /\ k'.status[t] \cap {"PEND", "TIMEOUT"} = {}
    BY <1>1, <1>7 DEF Woken, Inside
  <2>2. CASE W(t)
    <3>1. want[t].event = e
      BY <1>2, <2>1, <2>2 DEF NoMissedEvent
    <3>2. d = e /\ want[t].mask # {} /\ Wakes(t, new, bits) /\ id'[d] = bits
      BY <1>8, <1>11, <2>1, <2>2, <3>1
    <3>3. Polled(bits, want[t].mask, want[t].mode) # {}
      BY <1>14, <2>1, <3>2
    <3> QED BY <3>2, <3>3
  <2>3. CASE ~W(t)
    <3>1. t \in Woken(d)
      BY <1>3, <1>6, <2>1, <2>3 DEF Woken, Inside
    <3>2. Polled(id[d], want[t].mask, want[t].mode) # {}
      BY <1>2, <3>1 DEF ZeroOnlyIfRobbed
    <3>3. CASE d = e
      <4>1. want[t].mask # {} /\ id'[d] = bits
        BY <1>8, <1>11, <2>1, <3>3
      <4>2. Polled(bits, want[t].mask, want[t].mode) # {}
        BY <1>14, <2>1, <3>2, <3>3, <4>1
      <4> QED BY <4>1, <4>2
    <3>4. CASE d # e
      BY <1>8, <3>2, <3>4
    <3> QED BY <3>3, <3>4
  <2> QED BY <2>2, <2>3
<1> QED BY <1>5, <1>9, <1>10, <1>12, <1>13 DEF EventInv

LEMMA EventNextInv ==
  ASSUME ~TIMESLICE
  PROVE  EventInv /\ [EventNext]_allEventVars => EventInv'
<1> SUFFICES ASSUME EventInv, [EventNext]_allEventVars PROVE EventInv'
  OBVIOUS
<1>1. ASSUME NEW e \in Event, NEW mask \in SUBSET Bit, NEW mode \in Mode,
             LOS_EventRead(e, mask, mode)
      PROVE  EventInv'
  <2>1. UserCode /\ ~k.fault /\ mask # {}
    BY <1>1 DEF LOS_EventRead, UserCode, InTask, Legal
  <2> QED BY <1>1, <2>1, ReadTakesStep, ReadWaitsStep DEF LOS_EventRead
<1>2. CASE EventStep
  BY <1>1, <1>2, ReadReturnsStep, EventWriteStep, EventClearStep, EventWaitSchedulesStep
     DEF EventStep
<1>3. CASE Next /\ UNCHANGED eventVars
  BY <1>3, EventTaskStep
<1>4. CASE UNCHANGED allEventVars
  BY <1>4, EventTaskStep DEF allEventVars
<1> QED BY <1>2, <1>3, <1>4 DEF EventNext

LEMMA EventInvariance ==
  ASSUME ~TIMESLICE, ~Nesting
  PROVE  EventSpec => []EventInv
<1>1. EventInv /\ [EventNext]_allEventVars => EventInv'
  BY EventNextInv
<1> QED BY <1>1, EventInitInv, PTL DEF EventSpec

(***************************************************************************)
(* No list operation faults.                                               *)
(***************************************************************************)
SettledEvent == EventInv /\ ~k.fault /\ Settles /\ NoneReturns

LEMMA EventWaitSettles ==
  ASSUME SettledEvent, UserCode, NEW e \in Event, NEW mask, NEW mode, NEW n \in 1 .. Forever,
         ReadWaits(e, mask, mode, n)
  PROVE  ~k'.fault /\ Settles'
<1>1. /\ k.scheduled /\ k.lock = 0 /\ k' = WaitOn(k, e, n) /\ Goto(k.run, "pend") /\ tick' = tick
      /\ e \in WaitObj
  BY DEF ReadWaits, Event
<1>2. IInv /\ Settles /\ ~k.fault
  BY DEF SettledEvent, EventInv
<1>3. Ok(k) /\ SameRest(k, k)
  BY <1>2, Start DEF SameRest
<1> QED BY <1>1, <1>2, <1>3, WaitSettles

LEMMA EventWriteSettles ==
  ASSUME SettledEvent, NEW e \in Event, NEW new, LOS_EventWrite(e, new)
  PROVE  ~k'.fault /\ Settles'
<1> DEFINE bits == id[e] \cup new
           y == Awakened(k, e, new, bits)
           W(t) == Contains(k.wait[e], t) /\ Wakes(t, new, bits)
<1>1. Call("eventwrite", y, y # k)
  BY DEF LOS_EventWrite
<1>2. /\ IInv /\ Settles /\ ~k.fault /\ NotMail /\ Event = WaitObj
      /\ Ok(k) /\ k \in Kernel /\ Sound(k) /\ Delaying(k)
  BY Start, EventType DEF SettledEvent, EventInv
<1>3. /\ Ok(y) /\ ~y.fault /\ SameRest(k, y)
      /\ \A t \in Task :
           y.status[t] = IF W(t) THEN AwakeFlags(k.status[t], "PEND") ELSE k.status[t]
      /\ y # k => k.wait[e] # <<>>
  BY <1>2, AwakenedOk DEF NotMail
<1> HIDE DEF y
<1>4. y # k => k.scheduled
  <2>1. ASSUME NEW t \in Task, Contains(k.wait[e], t) PROVE k.scheduled
    BY <1>2, <2>1 DEF Sound, Good, WaitLists, Delaying, Stopped
  <2>2. k.wait[e] # <<>> => \E t \in Task : Contains(k.wait[e], t)
    BY <1>2, WaiterExists
  <2> QED BY <1>3, <2>1, <2>2
<1>5. \A t \in Task : Has(k, t, "READY") => Has(y, t, "READY")
  BY <1>3 DEF Has, AwakeFlags
<1>6. y.run = k.run /\ y.lock = k.lock /\ y.pendsv = k.pendsv /\ y.new = k.new
  BY <1>3 DEF SameRest
<1>7. ~(y # k) => LOS_PriqueueTop(y) = LOS_PriqueueTop(k) /\ (Has(k, k.new, "READY") => Has(y, k.new, "READY"))
  OBVIOUS
<1>8. (y # k) \in BOOLEAN
  OBVIOUS
<1> QED BY <1>1, <1>2, <1>3, <1>4, <1>5, <1>6, <1>7, <1>8, CallSettles

LEMMA EventStepSettles ==
  ASSUME SettledEvent, EventStep
  PROVE  ~k'.fault /\ Settles' /\ NoneReturns'
<1>1. /\ IInv /\ ~k.fault /\ Settles /\ NoneReturns /\ pc \in [Thread -> Control]
  BY EventType DEF SettledEvent
<1>2. UNCHANGED vars => ~k'.fault /\ Settles' /\ NoneReturns'
  BY <1>1 DEF vars, Settles, Moving, Late, NoneReturns
<1>3. ASSUME NEW e \in Event, NEW mask \in SUBSET Bit, NEW mode \in Mode,
             LOS_EventRead(e, mask, mode)
      PROVE  ~k'.fault /\ Settles' /\ NoneReturns'
  <2>1. CASE Takes(e, mask, mode) /\ UNCHANGED pc
    BY <1>2, <2>1 DEF Takes, vars
  <2>2. ASSUME NEW n \in 1 .. Forever, ReadWaits(e, mask, mode, n)
        PROVE  ~k'.fault /\ Settles' /\ NoneReturns'
    <3>1. NoneReturns'
      BY <1>1, <2>2, GoesElsewhere DEF ReadWaits, Goto
    <3>2. UserCode
      BY <1>3 DEF LOS_EventRead
    <3> QED BY <2>2, <3>1, <3>2, EventWaitSettles
  <2> QED BY <1>3, <2>1, <2>2 DEF LOS_EventRead
<1>4. ASSUME NEW e \in Event, NEW bits, LOS_EventClear(e, bits)
      PROVE  ~k'.fault /\ Settles' /\ NoneReturns'
  BY <1>2, <1>4 DEF LOS_EventClear, Call, vars
<1>5. ASSUME NEW e \in Event, NEW bits, LOS_EventWrite(e, bits)
      PROVE  ~k'.fault /\ Settles' /\ NoneReturns'
  <2>1. pc' = pc \/ pc' = [pc EXCEPT ![k.run] = "sched"]
    BY <1>5 DEF LOS_EventWrite, Call, Goto
  <2>2. NoneReturns'
    BY <1>1, <2>1, GoesElsewhere
  <2> QED BY <1>5, <2>2, EventWriteSettles
<1>6. CASE WaitSchedules
  <2>1. InTask(pc[k.run]) /\ k' = LOS_Schedule(k)
    BY <1>6 DEF WaitSchedules, InTask
  <2>2. NoneReturns'
    BY <1>1, <1>6, GoesElsewhere DEF WaitSchedules, Goto
  <2> QED BY <1>1, <2>1, <2>2, ReschedulesSettles
<1>7. CASE ReadReturns
  <2>1. NoneReturns'
    BY <1>1, <1>7, GoesElsewhere DEF ReadReturns, Goto
  <2> QED BY <1>1, <1>7, <2>1, ReturnSettles DEF ReadReturns
<1> QED BY <1>3, <1>4, <1>5, <1>6, <1>7 DEF EventStep

LEMMA SettledEventInvariance ==
  ASSUME Steady
  PROVE  EventSpec => []SettledEvent
<1>1. EventInit => SettledEvent
  BY EventInitInv, InitSettles DEF EventInit, SettledEvent, Steady, Tame
<1>2. SettledEvent /\ [EventNext]_allEventVars => SettledEvent'
  <2> SUFFICES ASSUME SettledEvent, [EventNext]_allEventVars PROVE SettledEvent'
    OBVIOUS
  <2>1. EventInv'
    BY EventNextInv DEF SettledEvent, Steady, Tame
  <2>2. CASE EventStep
    BY <2>1, <2>2, EventStepSettles DEF SettledEvent
  <2>3. CASE [Next]_vars
    <3>1. ~k'.fault /\ Settles' /\ NoneReturns'
      BY <2>3, NextSettles DEF SettledEvent, EventInv, Steady
    <3> QED BY <2>1, <3>1 DEF SettledEvent
  <2> QED BY <2>2, <2>3 DEF EventNext, allEventVars
<1> QED BY <1>1, <1>2, PTL DEF EventSpec

(***************************************************************************)
(* The theorems.                                                           *)
(***************************************************************************)

(* Every variable keeps its type; in particular no thread reads an event with an
   empty mask.                                                             *)
THEOREM EventTypeCorrect == ASSUME ~TIMESLICE, ~Nesting PROVE EventSpec => []EventTypeOK
<1>1. EventInv => EventTypeOK
  BY DEF EventInv
<1> QED BY <1>1, EventInvariance, PTL

(* No list operation of an event call or of the kernel below it meets a node that
   is in no list or in two, whatever number of readers a write wakes while it
   walks the list, as long as no handler writes inside a round of osTaskScan
   (~Nesting, in Steady); waiting and scheduling stay sound.               *)
THEOREM EventNeverFaults ==
  ASSUME Steady
  PROVE  EventSpec => [](NoFault /\ WaitAgrees /\ SwitchTargetReady /\ (~Lax => HighestRuns))
<1>1. SettledEvent => NoFault /\ SwitchTargetReady
  BY DEF SettledEvent, NoFault, Settles, Settled, SwitchTargetReady
<1>2. SettledEvent => (~Lax => HighestRuns)
  BY SettledHighest DEF SettledEvent, EventInv
<1>3. SettledEvent => WaitAgrees
  BY WaitsAgree DEF SettledEvent, EventInv
<1> QED BY <1>1, <1>2, <1>3, SettledEventInvariance, PTL

(* A reader does not wait for what is there ... *)
THEOREM NoEventMissed == ASSUME Steady PROVE EventSpec => []NoMissedEvent
<1>1. SettledEvent => NoMissedEvent
  BY DEF SettledEvent, EventInv
<1> QED BY <1>1, SettledEventInvariance, PTL

(* ... and one that a write has woken finds its event, unless somebody has taken
   some of its bits since.                                                 *)
THEOREM WokenFindsEvent == ASSUME Steady PROVE EventSpec => []ZeroOnlyIfRobbed
<1>1. SettledEvent => ZeroOnlyIfRobbed
  BY DEF SettledEvent, EventInv
<1> QED BY <1>1, SettledEventInvariance, PTL

(* Up to a fault, both hold with every call of the task component allowed: with
   deletion, with tasks that return and with handlers that suspend.        *)
THEOREM EventSoundUntilFault ==
  ASSUME ~TIMESLICE, ~Nesting
  PROVE  EventSpec => [](NoFault => WaitAgrees /\ NoMissedEvent /\ ZeroOnlyIfRobbed)
<1>1. EventInv => (NoFault => WaitAgrees)
  BY WaitsAgree DEF EventInv, NoFault
<1>2. EventInv => (NoFault => NoMissedEvent /\ ZeroOnlyIfRobbed)
  BY DEF EventInv, NoFault
<1> QED BY <1>1, <1>2, EventInvariance, PTL
=============================================================================
