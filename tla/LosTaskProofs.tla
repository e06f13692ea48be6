--------------------------- MODULE LosTaskProofs ---------------------------
(***************************************************************************)
(* Theorems about the task component, for every number of tasks and        *)
(* priorities, every timeout, and every set of calls that tasks and        *)
(* interrupt handlers make.                                                *)
(*                                                                         *)
(* First the invariant of the lists and flags, and the CPU of a task that  *)
(* leaves, which every application keeps whose handlers do not nest in the *)
(* rounds of osTaskScan (~Nesting, the premise of every theorem).  Then    *)
(* what blocking and waking preserve (LosIpc), which the proofs of the IPC *)
(* components use.  Last the scheduler, for applications that also keep    *)
(* clear of three other defects of the code (Tame): no list operation      *)
(* faults, a pending switch leads to a ready task, the most urgent ready   *)
(* task runs, the scheduler lock holds, and a suspended task does not get  *)
(* the CPU.  The lemmas about LosIpc are stated without the time slice,    *)
(* which puts a task back into the ready queue that has just begun to wait *)
(* (osTimesliceCheck).                                                     *)
(***************************************************************************)
EXTENDS LosIpc, ListLemmas, FiniteSetTheorems

(***************************************************************************)
(* The inductive invariant.  A state after a fault has no successor, so it *)
(* only has to be well typed.                                              *)
(***************************************************************************)

(* Ready queues and READY flags. *)
Queues(x) ==
  /\ \A p \in Prio : IsInjective(x.ready[p])
  /\ \A t \in Task, p \in Prio :
       Contains(x.ready[p], t) <=> (Has(x, t, "READY") /\ x.prio[t] = p)

(* Tasks that wait for an object, and tasks that wait or are delayed. *)
Waits(x, t)   == Has(x, t, "PEND") \/ Has(x, t, "PEND_QUEUE")
Stopped(x, t) == Has(x, t, "DELAY") \/ Waits(x, t)

(* Timers and the flags that stand for one. *)
Clocked(x, t) == Has(x, t, "DELAY") \/ (Has(x, t, "TIMEOUT") /\ Waits(x, t))
Timers(x) ==
  /\ \A n \in 0 .. MaxTimeout : IsInjective(x.due[n])
  /\ \A t \in Task : InTimer(x, t) <=> Clocked(x, t)
  /\ \A t \in Task, m, n \in 0 .. MaxTimeout :
       Contains(x.due[m], t) /\ Contains(x.due[n], t) => m = n

(* Wait lists and the flags of waiting tasks. *)
WaitLists(x) ==
  /\ \A o \in WaitObj : IsInjective(x.wait[o])
  /\ \A t \in Task : Waits(x, t) <=> \E o \in WaitObj : Contains(x.wait[o], t)
  /\ \A t \in Task, o, q \in WaitObj :
       Contains(x.wait[o], t) /\ Contains(x.wait[q], t) => o = q

(* The flags of a task exclude each other.  The time slice puts the running task
   behind its equals also if it has just begun to wait (osTimesliceCheck), so
   what is said of waiting tasks is said without the time slice.             *)
FlagsOf(x, t) ==
  /\ Has(x, t, "UNUSED") => x.status[t] = {"UNUSED"}
  /\ Has(x, t, "READY") => ~Has(x, t, "SUSPEND") /\ ~Stopped(x, t)
  /\ Has(x, t, "DELAY") => ~Waits(x, t)
  /\ ~(Has(x, t, "PEND") /\ Has(x, t, "PEND_QUEUE"))
  /\ TIMESLICE => ~Waits(x, t)
Flags(x) == \A t \in Task : FlagsOf(x, t)

Good(x) == Queues(x) /\ Timers(x) /\ WaitLists(x) /\ Flags(x)

(* Good depends on the lists and the flags only; Sound adds that Idle is ready,
   that used TCBs run and will run, and that TCBs in the free lists are unused. *)
Sound(x) ==
  /\ Good(x)
  /\ Has(x, Idle, "READY")
  /\ ~Has(x, x.new, "UNUSED")
  /\ x.run \in Task => ~Has(x, x.run, "UNUSED")
  /\ \A t \in Task : Contains(x.free, t) \/ Contains(x.recycle, t) => Has(x, t, "UNUSED")

(* TcbAgrees, as a relation of the kernel and the TCBs in creation. *)
Tcbs(x, f) ==
  /\ IsInjective(x.free) /\ IsInjective(x.recycle)
  /\ \A t \in Task :
       /\ ~(Contains(x.free, t) /\ Contains(x.recycle, t))
       /\ Has(x, t, "UNUSED") <=>
            Contains(x.free, t) \/ Contains(x.recycle, t) \/ \E u \in Thread : f[u] = t
  /\ \A u \in Thread :
       f[u] # NoTask =>
         /\ ~Contains(x.free, f[u]) /\ ~Contains(x.recycle, f[u])
         /\ \A v \in Thread : f[v] = f[u] => v = u

(* Before LOS_Start only main() runs, and not afterwards; Idle only runs its loop;
   between two ticks nothing is left to serve.                               *)
Running ==
  /\ pc[Idle] = "user"
  /\ ~k.scheduled => k.run = Dummy /\ ~k.pendsv /\ pc[Dummy] \in {"user", "alloc"}
  /\ k.scheduled => pc[Dummy] \in {"none", "switch"}
  /\ tick = "off" => k.due[0] = <<>>
  /\ tick # "off" => k.scheduled

(* Threads inside LOS_TaskCreate. *)
Creating ==
  /\ \A u \in Thread : fresh[u] # NoTask <=> pc[u] = "alloc"
  /\ \A t \in Task : pc[t] = "alloc" => ~Has(k, t, "UNUSED")

(* A task that waits or is delayed has the CPU only until the LOS_Schedule of the
   call it is in, and none does before LOS_Start.                            *)
Delaying(x) ==
  /\ x.pendsv \/ x.run = Dummy => ~Stopped(x, x.new)
  /\ x.run \in Task /\ Stopped(x, x.run) /\ ~x.pendsv =>
       pc[x.run] \in {"sched", "pend"} /\ x.lock = 0
  /\ ~x.scheduled => \A t \in Task : ~Stopped(x, t)

IInv ==
  /\ ~Nesting
  /\ TypeOK
  /\ ~k.fault => Sound(k) /\ Tcbs(k, fresh) /\ Running /\ Creating /\ Delaying(k)

(***************************************************************************)
(* What the operators do to a kernel state.                                *)
(***************************************************************************)
LEMMA KernelType ==
  ASSUME NEW x \in Kernel
  PROVE  /\ \A t \in Task : x.status[t] \in SUBSET Flag /\ x.prio[t] \in Prio
         /\ \A p \in Prio : x.ready[p] \in Seq(Task)
         /\ \A o \in WaitObj : x.wait[o] \in Seq(Task)
         /\ \A n \in 0 .. MaxTimeout : x.due[n] \in Seq(Task)
         /\ x.free \in Seq(Task) /\ x.recycle \in Seq(Task)
         /\ x.run \in Thread /\ x.new \in Task /\ x.lock \in Nat
         /\ x.pendsv \in BOOLEAN /\ x.scheduled \in BOOLEAN /\ x.fault \in BOOLEAN
BY DEF Kernel

(* Fields that decide Good are shared. *)
SameLists(x, y) ==
  /\ y.status = x.status /\ y.prio = x.prio /\ y.ready = x.ready
  /\ y.wait = x.wait /\ y.due = x.due

(* Fields that the operators on queues leave alone. *)
SameRest(x, y) ==
  /\ y.free = x.free /\ y.recycle = x.recycle /\ y.run = x.run /\ y.new = x.new
  /\ y.pendsv = x.pendsv /\ y.lock = x.lock /\ y.scheduled = x.scheduled
  /\ y.slice = x.slice

LEMMA UnlinkFacts ==
  ASSUME NEW x \in Kernel, NEW t \in Task
  PROVE  LET y == Unlink(x, t)
         IN /\ y \in Kernel /\ SameRest(x, y)
            /\ y.status = x.status /\ y.prio = x.prio /\ y.due = x.due
            /\ y.fault = (x.fault \/ ~Linked(x, t))
            /\ \A p \in Prio : y.ready[p] = RemoveFirst(x.ready[p], t)
            /\ \A o \in WaitObj : y.wait[o] = RemoveFirst(x.wait[o], t)
<1>1. \A p \in Prio : RemoveFirst(x.ready[p], t) \in Seq(Task)
  BY KernelType, RemoveFirstType
<1>2. \A o \in WaitObj : RemoveFirst(x.wait[o], t) \in Seq(Task)
  BY KernelType, RemoveFirstType
<1> QED BY <1>1, <1>2 DEF Unlink, Kernel, SameRest

LEMMA MakeReadyFacts ==
  ASSUME NEW x \in Kernel, NEW t \in Task
  PROVE  LET y == MakeReady(x, t)
         IN /\ y \in Kernel /\ SameRest(x, y)
            /\ y.status = [x.status EXCEPT ![t] = @ \cup {"READY"}]
            /\ y.prio = x.prio /\ y.due = x.due /\ y.wait = x.wait
            /\ y.fault = (x.fault \/ Linked(x, t))
            /\ y.ready = [x.ready EXCEPT ![x.prio[t]] = Append(@, t)]
<1>1. x.prio[t] \in Prio /\ Append(x.ready[x.prio[t]], t) \in Seq(Task)
  BY KernelType
<1>2. x.status[t] \cup {"READY"} \in SUBSET Flag
  BY KernelType DEF Flag
<1> QED BY <1>1, <1>2 DEF MakeReady, Kernel, SameRest

(* The idle task is in a queue: LOS_PriqueueTop finds a task. *)
IdleQueued(x) == \E p \in Prio : Contains(x.ready[p], Idle)

LEMMA TopFacts ==
  ASSUME NEW x \in Kernel, IdleQueued(x)
  PROVE  /\ LOS_PriqueueTop(x) \in Task
         /\ \E p \in Prio : Contains(x.ready[p], LOS_PriqueueTop(x))
<1> DEFINE Q == {p \in Prio : x.ready[p] # <<>>}
<1>1. \A p \in Prio : p \in Nat
  BY TaskAssumption DEF Prio
<1>2. Q \in SUBSET Nat /\ Q # {}
  <2>1. PICK p \in Prio : Contains(x.ready[p], Idle)
    BY DEF IdleQueued
  <2>2. x.ready[p] # <<>>
    BY <2>1, EmptyList
  <2> QED BY <1>1, <2>2
<1>3. \E p \in Q : \A q \in Q : p <= q
  BY <1>2, LeastNatural
<1>4. \E p \in Prio : x.ready[p] # <<>> /\ \A q \in Prio : q < p => x.ready[q] = <<>>
  BY <1>1, <1>3
<1> DEFINE p == CHOOSE p \in Prio : x.ready[p] # <<>> /\ \A q \in Prio : q < p => x.ready[q] = <<>>
<1>5. p \in Prio /\ x.ready[p] # <<>>
  BY <1>4
<1>6. LOS_PriqueueTop(x) = Head(x.ready[p])
  BY DEF LOS_PriqueueTop
<1> HIDE DEF p
<1> QED BY <1>5, <1>6, KernelType, TailList

LEMMA MakeUnreadyFacts ==
  ASSUME NEW x \in Kernel, NEW t \in Task
  PROVE  LET y == MakeUnready(x, t)
         IN /\ y \in Kernel /\ SameRest(x, y)
            /\ y.status = [x.status EXCEPT ![t] = @ \ {"READY"}]
            /\ y.prio = x.prio /\ y.due = x.due
            /\ y.fault = (x.fault \/ ~Linked(x, t))
            /\ \A p \in Prio : y.ready[p] = RemoveFirst(x.ready[p], t)
            /\ \A o \in WaitObj : y.wait[o] = RemoveFirst(x.wait[o], t)
<1> DEFINE z == Unlink(x, t)
<1>1. /\ z \in Kernel /\ SameRest(x, z)
      /\ z.status = x.status /\ z.prio = x.prio /\ z.due = x.due
      /\ z.fault = (x.fault \/ ~Linked(x, t))
      /\ \A p \in Prio : z.ready[p] = RemoveFirst(x.ready[p], t)
      /\ \A o \in WaitObj : z.wait[o] = RemoveFirst(x.wait[o], t)
  BY UnlinkFacts
<1> HIDE DEF z
<1>2. MakeUnready(x, t) = [z EXCEPT !.status[t] = @ \ {"READY"}]
  BY DEF MakeUnready, z
<1> DEFINE y == [z EXCEPT !.status[t] = @ \ {"READY"}]
<1>3. y \in Kernel
  BY <1>1 DEF Kernel
<1>4. /\ SameRest(z, y) /\ y.prio = z.prio /\ y.due = z.due /\ y.fault = z.fault
      /\ y.ready = z.ready /\ y.wait = z.wait
      /\ y.status = [z.status EXCEPT ![t] = @ \ {"READY"}]
  BY <1>1 DEF Kernel, SameRest
<1> HIDE DEF y
<1>5. SameRest(x, y)
  BY <1>1, <1>4 DEF SameRest
<1> QED BY <1>1, <1>2, <1>3, <1>4, <1>5 DEF y

LEMMA IdleStaysQueued ==
  ASSUME NEW x \in Kernel, NEW t \in Task, IdleQueued(x)
  PROVE  /\ t # Idle => IdleQueued(Unlink(x, t)) /\ IdleQueued(MakeUnready(x, t))
         /\ IdleQueued(MakeReady(x, t))
<1>1. PICK p \in Prio : Contains(x.ready[p], Idle)
  BY DEF IdleQueued
<1>2. t # Idle => Contains(RemoveFirst(x.ready[p], t), Idle)
  BY <1>1, KernelType, RemoveFirstType
<1>3. Contains(MakeReady(x, t).ready[p], Idle)
  <2>1. Contains(Append(x.ready[p], t), Idle)
    BY <1>1, KernelType, AppendList
  <2>2. MakeReady(x, t).ready = [x.ready EXCEPT ![x.prio[t]] = Append(@, t)]
    BY MakeReadyFacts
  <2>3. x.ready \in [Prio -> Seq(Task)] /\ x.prio[t] \in Prio
    BY DEF Kernel
  <2>4. CASE p = x.prio[t]
    BY <2>1, <2>2, <2>3, <2>4
  <2>5. CASE p # x.prio[t]
    BY <1>1, <2>2, <2>3, <2>5
  <2> QED BY <2>4, <2>5
<1> QED BY <1>2, <1>3, UnlinkFacts, MakeUnreadyFacts DEF IdleQueued

(* Good depends on the lists and the flags only. *)
LEMMA GoodShared ==
  ASSUME NEW x, NEW y, SameLists(x, y), Good(x)
  PROVE  Good(y)
<1>1. /\ \A t : /\ Clocked(y, t) <=> Clocked(x, t)
                /\ Waits(y, t) <=> Waits(x, t)
                /\ FlagsOf(y, t) <=> FlagsOf(x, t)
                /\ InTimer(y, t) <=> InTimer(x, t)
      /\ \A t, f : Has(y, t, f) <=> Has(x, t, f)
  BY DEF SameLists, Clocked, Waits, FlagsOf, Stopped, InTimer, Has
<1>2. Queues(y) /\ Timers(y) /\ WaitLists(y) /\ Flags(y)
  BY <1>1 DEF SameLists, Good, Queues, Timers, WaitLists, Flags
<1> QED BY <1>2 DEF Good

(* Everything there is to say of a task depends on its flags. *)
LEMMA FlagsShared ==
  ASSUME NEW x, NEW y, NEW u, y.status[u] = x.status[u]
  PROVE  /\ \A f : Has(y, u, f) <=> Has(x, u, f)
         /\ Waits(y, u) <=> Waits(x, u)
         /\ Stopped(y, u) <=> Stopped(x, u)
         /\ Clocked(y, u) <=> Clocked(x, u)
         /\ FlagsOf(y, u) <=> FlagsOf(x, u)
BY DEF Has, Waits, Stopped, Clocked, FlagsOf

(* A task leaves all lists but the free ones, with the flags that say where it
   was: what stays is as good as it was.                                   *)
LEMMA LeavesGood ==
  ASSUME NEW x \in Kernel, NEW y \in Kernel, NEW t \in Task, Good(x), y.prio = x.prio,
         \A p \in Prio : /\ IsInjective(y.ready[p])
                         /\ \A u \in Task : Contains(y.ready[p], u) <=> Contains(x.ready[p], u) /\ u # t,
         \A o \in WaitObj : /\ IsInjective(y.wait[o])
                            /\ \A u \in Task : Contains(y.wait[o], u) <=> Contains(x.wait[o], u) /\ u # t,
         \A n \in 0 .. MaxTimeout : /\ IsInjective(y.due[n])
                                    /\ \A u \in Task : Contains(y.due[n], u) <=> Contains(x.due[n], u) /\ u # t,
         \A u \in Task : u # t => y.status[u] = x.status[u],
         ~Has(y, t, "READY"), ~Stopped(y, t),
         Has(y, t, "UNUSED") => y.status[t] = {"UNUSED"}
  PROVE  Good(y)
<1>1. \A u \in Task : u # t => /\ \A f : Has(y, u, f) <=> Has(x, u, f)
                               /\ Waits(y, u) <=> Waits(x, u)
                               /\ Clocked(y, u) <=> Clocked(x, u)
                               /\ FlagsOf(y, u) <=> FlagsOf(x, u)
  BY FlagsShared
<1>2. ~Waits(y, t) /\ ~Clocked(y, t)
  BY DEF Stopped, Clocked
<1>3. Queues(y)
  BY <1>1 DEF Good, Queues
<1>4. Timers(y)
  <2>1. \A u \in Task : InTimer(y, u) <=> InTimer(x, u) /\ u # t
    BY DEF InTimer
  <2> QED BY <1>1, <1>2, <2>1 DEF Good, Timers
<1>5. WaitLists(y)
  BY <1>1, <1>2 DEF Good, WaitLists
<1>6. Flags(y)
  <2>1. FlagsOf(y, t)
    BY <1>2 DEF FlagsOf, Stopped, Waits
  <2> QED BY <1>1, <2>1 DEF Good, Flags
<1> QED BY <1>3, <1>4, <1>5, <1>6 DEF Good

(* A task that does not wait leaves its ready queue. *)
LEMMA MakeUnreadyGood ==
  ASSUME NEW x \in Kernel, NEW t \in Task, Good(x), ~Waits(x, t)
  PROVE  Good(MakeUnready(x, t))
<1> DEFINE y == MakeUnready(x, t)
<1>1. /\ y.status = [x.status EXCEPT ![t] = @ \ {"READY"}]
      /\ y.prio = x.prio /\ y.due = x.due
      /\ \A p \in Prio : y.ready[p] = RemoveFirst(x.ready[p], t)
      /\ \A o \in WaitObj : y.wait[o] = RemoveFirst(x.wait[o], t)
  BY MakeUnreadyFacts
<1> HIDE DEF y
<1>2. /\ y.status[t] = x.status[t] \ {"READY"}
      /\ \A u \in Task : u # t => y.status[u] = x.status[u]
  BY <1>1 DEF Kernel
<1>3. \A p \in Prio : /\ IsInjective(y.ready[p])
                      /\ \A u : Contains(y.ready[p], u) <=> Contains(x.ready[p], u) /\ u # t
  BY <1>1, KernelType, RemoveFirstList DEF Good, Queues
<1>4. \A u \in Task : /\ \A f : f # "READY" => (Has(y, u, f) <=> Has(x, u, f))
                      /\ Waits(y, u) <=> Waits(x, u)
                      /\ Stopped(y, u) <=> Stopped(x, u)
                      /\ Clocked(y, u) <=> Clocked(x, u)
                      /\ Has(y, u, "READY") => Has(x, u, "READY")
  BY <1>2 DEF Has, Waits, Stopped, Clocked
<1>5. Queues(y)
  BY <1>1, <1>2, <1>3 DEF Good, Queues, Has
<1>6. Timers(y)
  BY <1>1, <1>4 DEF Good, Timers, InTimer
<1>7. WaitLists(y)
  <2>1. \A o \in WaitObj : /\ IsInjective(y.wait[o])
                           /\ \A u : Contains(y.wait[o], u) <=> Contains(x.wait[o], u) /\ u # t
    BY <1>1, KernelType, RemoveFirstList DEF Good, WaitLists
  <2>2. \A o \in WaitObj : ~Contains(x.wait[o], t)
    BY DEF Good, WaitLists
  <2> QED BY <1>4, <2>1, <2>2 DEF Good, WaitLists
<1>8. Flags(y)
  <2>1. ASSUME NEW u \in Task PROVE FlagsOf(y, u)
    <3>1. FlagsOf(x, u)
      BY DEF Good, Flags
    <3>2. Has(y, u, "UNUSED") => y.status[u] = {"UNUSED"}
      BY <1>2, <1>4, <3>1 DEF FlagsOf
    <3> QED BY <1>4, <3>1, <3>2 DEF FlagsOf
  <2> QED BY <2>1 DEF Flags
<1> QED BY <1>5, <1>6, <1>7, <1>8 DEF Good, y

(* A task that is in no queue begins to wait (W is its object), to be delayed, or
   both (D is where its timer is).                                         *)
LEMMA StopsGood ==
  ASSUME NEW x \in Kernel, NEW y \in Kernel, NEW t \in Task,
         NEW D \in SUBSET (0 .. MaxTimeout), NEW W \in SUBSET WaitObj,
         Good(x), ~Has(x, t, "READY"), ~Stopped(x, t),
         y.prio = x.prio, y.ready = x.ready,
         \A n \in 0 .. MaxTimeout :
           /\ IsInjective(y.due[n])
           /\ \A u \in Task : Contains(y.due[n], u) <=> Contains(x.due[n], u) \/ (u = t /\ n \in D),
         \A m, n \in D : m = n,
         \A o \in WaitObj :
           /\ IsInjective(y.wait[o])
           /\ \A u \in Task : Contains(y.wait[o], u) <=> Contains(x.wait[o], u) \/ (u = t /\ o \in W),
         \A o, q \in W : o = q,
         \A u \in Task : u # t => y.status[u] = x.status[u],
         ~Has(y, t, "READY"), FlagsOf(y, t),
         Waits(y, t) <=> W # {}, Clocked(y, t) <=> D # {}
  PROVE  Good(y)
<1>1. \A u \in Task : u # t => /\ \A f : Has(y, u, f) <=> Has(x, u, f)
                               /\ Waits(y, u) <=> Waits(x, u)
                               /\ Clocked(y, u) <=> Clocked(x, u)
                               /\ FlagsOf(y, u) <=> FlagsOf(x, u)
  BY FlagsShared
<1>2. ~Waits(x, t) /\ ~Clocked(x, t)
  BY DEF Stopped, Clocked
<1>3. /\ \A n \in 0 .. MaxTimeout : ~Contains(x.due[n], t)
      /\ \A o \in WaitObj : ~Contains(x.wait[o], t)
  BY <1>2 DEF Good, Timers, WaitLists, InTimer
<1>4. Queues(y)
  BY <1>1 DEF Good, Queues
<1>5. Timers(y)
  <2>1. \A u \in Task : u # t => (InTimer(y, u) <=> InTimer(x, u))
    BY DEF InTimer
  <2>2. InTimer(y, t) <=> D # {}
    BY <1>3 DEF InTimer
  <2> QED BY <1>1, <1>3, <2>1, <2>2 DEF Good, Timers
<1>6. WaitLists(y)
  BY <1>1, <1>3 DEF Good, WaitLists
<1>7. Flags(y)
  BY <1>1 DEF Good, Flags
<1> QED BY <1>4, <1>5, <1>6, <1>7 DEF Good

(* A task that may be put into a ready queue. *)
Startable(x, t) == ~Has(x, t, "UNUSED") /\ ~Has(x, t, "SUSPEND") /\ ~Stopped(x, t)

LEMMA MakeReadyGood ==
  ASSUME NEW x \in Kernel, NEW t \in Task, Good(x), ~MakeReady(x, t).fault,
         Startable(x, t)
  PROVE  Good(MakeReady(x, t))
<1> DEFINE y == MakeReady(x, t)
<1>1. /\ y.status = [x.status EXCEPT ![t] = @ \cup {"READY"}]
      /\ y.prio = x.prio /\ y.due = x.due /\ y.wait = x.wait
      /\ y.fault = (x.fault \/ Linked(x, t))
      /\ y.ready = [x.ready EXCEPT ![x.prio[t]] = Append(@, t)]
  BY MakeReadyFacts
<1>2. ~Linked(x, t)
  BY <1>1
<1> HIDE DEF y
<1>3. /\ y.status[t] = x.status[t] \cup {"READY"}
      /\ \A u \in Task : u # t => y.status[u] = x.status[u]
  BY <1>1 DEF Kernel
<1> DEFINE q == x.prio[t]
<1>4. /\ q \in Prio /\ y.ready[q] = Append(x.ready[q], t)
      /\ \A p \in Prio : p # q => y.ready[p] = x.ready[p]
  BY <1>1 DEF Kernel
<1>5. \A p \in Prio : ~Contains(x.ready[p], t)
  BY <1>2 DEF Linked
<1>6. /\ IsInjective(y.ready[q])
      /\ \A u : Contains(y.ready[q], u) <=> Contains(x.ready[q], u) \/ u = t
  BY <1>4, <1>5, KernelType, AppendList DEF Good, Queues
<1>7. Queues(y)
  <2>1. ASSUME NEW p \in Prio PROVE IsInjective(y.ready[p])
    BY <1>4, <1>6 DEF Good, Queues
  <2>2. ASSUME NEW u \in Task, NEW p \in Prio
        PROVE  Contains(y.ready[p], u) <=> (Has(y, u, "READY") /\ y.prio[u] = p)
    <3>1. Contains(x.ready[p], u) <=> (Has(x, u, "READY") /\ x.prio[u] = p)
      BY DEF Good, Queues
    <3>2. CASE u = t
      BY <1>1, <1>3, <1>4, <1>5, <1>6, <3>2 DEF Has
    <3>3. CASE u # t
      BY <1>1, <1>3, <1>4, <1>6, <3>1, <3>3 DEF Has
    <3> QED BY <3>2, <3>3
  <2> QED BY <2>1, <2>2 DEF Queues
<1>8. \A u \in Task : /\ \A f : f # "READY" => (Has(y, u, f) <=> Has(x, u, f))
                      /\ Waits(y, u) <=> Waits(x, u)
                      /\ Stopped(y, u) <=> Stopped(x, u)
                      /\ Clocked(y, u) <=> Clocked(x, u)
  BY <1>3 DEF Has, Waits, Stopped, Clocked
<1>9. Timers(y) /\ WaitLists(y)
  BY <1>1, <1>8 DEF Good, Timers, InTimer, WaitLists
<1>10. Flags(y)
  <2>1. ASSUME NEW u \in Task PROVE FlagsOf(y, u)
    <3>1. FlagsOf(x, u)
      BY DEF Good, Flags
    <3>2. CASE u = t
      BY <1>8, <3>1, <3>2 DEF FlagsOf, Startable
    <3>3. CASE u # t
      BY <1>3, <3>1, <3>3, FlagsShared
    <3> QED BY <3>2, <3>3
  <2> QED BY <2>1 DEF Flags
<1> QED BY <1>7, <1>9, <1>10 DEF Good, y

(***************************************************************************)
(* What a handler composed of such operators preserves.  Ok also holds of  *)
(* what is left after a fault, so that the next operator is well typed.    *)
(***************************************************************************)
Ok(x) == x \in Kernel /\ IdleQueued(x) /\ (~x.fault => Sound(x))

(* y is x after a step that creates and deletes no task. *)
KeepsTcbs(x, y) ==
  /\ x.fault => y.fault
  /\ y.free = x.free /\ y.recycle = x.recycle
  /\ y.run = x.run /\ y.scheduled = x.scheduled
  /\ x.pendsv => y.pendsv
  /\ x.scheduled \/ y.pendsv = x.pendsv
  /\ \A t \in Task : Has(y, t, "UNUSED") <=> Has(x, t, "UNUSED")

Keeps(x, y) == KeepsTcbs(x, y) /\ y.lock = x.lock

(* No delay and no wait begins in it, and it does not ask for a switch to a task
   that is delayed or waits.                                               *)
Calm(x, y) ==
  ~y.fault =>
    /\ \A t \in Task : Stopped(y, t) => Stopped(x, t)
    /\ Stopped(y, y.new) => Stopped(x, x.new)
    /\ y.pendsv => x.pendsv \/ ~Stopped(y, y.new)

Gentle(x, y) == Keeps(x, y) /\ Calm(x, y)

(* A wait that ends in it has timed out. *)
Patient(x, y) ==
  ~y.fault => \A t \in Task :
    /\ \A f \in {"PEND", "PEND_QUEUE"} : /\ Has(y, t, f) => Has(x, t, f)
                                         /\ Has(x, t, f) => Has(y, t, f) \/ Has(y, t, "TIMEOUT")
    /\ Has(y, t, "TIMEOUT") <=> Has(x, t, "TIMEOUT")
    /\ \A o \in WaitObj : Contains(y.wait[o], t) => Contains(x.wait[o], t)

Frame(x, y) == Gentle(x, y) /\ Patient(x, y)

LEMMA GentleTransitive ==
  ASSUME NEW x, NEW y, NEW z, Gentle(x, y), Gentle(y, z)
  PROVE  Gentle(x, z)
BY DEF Gentle, Keeps, KeepsTcbs, Calm

LEMMA FrameTransitive ==
  ASSUME NEW x, NEW y, NEW z, Frame(x, y), Frame(y, z)
  PROVE  Frame(x, z)
<1>1. z.fault \/ ~y.fault
  BY DEF Frame, Gentle, Keeps, KeepsTcbs
<1>2. Patient(x, z)
  BY <1>1 DEF Frame, Patient
<1> QED BY <1>2, GentleTransitive DEF Frame

LEMMA FrameReflexive ==
  ASSUME NEW x
  PROVE  Frame(x, x)
BY DEF Frame, Gentle, Keeps, KeepsTcbs, Calm, Patient

LEMMA CalmSame ==
  ASSUME NEW x \in Kernel, NEW y, y.new = x.new, y.pendsv = x.pendsv,
         ~y.fault => \A t \in Task : Stopped(y, t) => Stopped(x, t)
  PROVE  Calm(x, y)
BY KernelType DEF Calm

(* Nobody begins or ceases to wait. *)
LEMMA PatientSame ==
  ASSUME NEW x, NEW y,
         \A t \in Task, f \in {"PEND", "PEND_QUEUE", "TIMEOUT"} : Has(y, t, f) <=> Has(x, t, f),
         \A t \in Task, o \in WaitObj : Contains(y.wait[o], t) => Contains(x.wait[o], t)
  PROVE  Patient(x, y)
BY DEF Patient

(* Only flags of one task change, and none that say whether it waits. *)
LEMMA FlagsKept ==
  ASSUME NEW x \in Kernel, NEW y, NEW t \in Task, NEW f,
         y.status = [x.status EXCEPT ![t] = f],
         \A g \in {"UNUSED", "DELAY", "PEND", "PEND_QUEUE", "TIMEOUT"} :
           g \in f <=> g \in x.status[t]
  PROVE  \A u \in Task :
           /\ \A g \in {"UNUSED", "DELAY", "PEND", "PEND_QUEUE", "TIMEOUT"} :
                Has(y, u, g) <=> Has(x, u, g)
           /\ Stopped(y, u) <=> Stopped(x, u)
           /\ Waits(y, u) <=> Waits(x, u)
           /\ Clocked(y, u) <=> Clocked(x, u)
<1>1. y.status[t] = f /\ \A u \in Task : u # t => y.status[u] = x.status[u]
  BY DEF Kernel
<1>2. \A u \in Task : \A g \in {"UNUSED", "DELAY", "PEND", "PEND_QUEUE", "TIMEOUT"} :
                Has(y, u, g) <=> Has(x, u, g)
  BY <1>1 DEF Has
<1> QED BY <1>2 DEF Stopped, Waits, Clocked

(* The task LOS_PriqueueTop finds is READY. *)
LEMMA TopIsReady ==
  ASSUME NEW x \in Kernel, IdleQueued(x), Good(x)
  PROVE  /\ Has(x, LOS_PriqueueTop(x), "READY")
         /\ ~Has(x, LOS_PriqueueTop(x), "UNUSED")
         /\ ~Stopped(x, LOS_PriqueueTop(x))
<1>1. Has(x, LOS_PriqueueTop(x), "READY")
  BY TopFacts DEF Good, Queues
<1>2. FlagsOf(x, LOS_PriqueueTop(x))
  BY TopFacts DEF Good, Flags
<1> QED BY <1>1, <1>2 DEF FlagsOf, Has

(* A used task whose node is in a list, and that does not wait, is in a ready queue. *)
LEMMA LinkedIsReady ==
  ASSUME NEW x, NEW t \in Task, Sound(x), ~Has(x, t, "UNUSED"), ~Waits(x, t), Linked(x, t)
  PROVE  Has(x, t, "READY")
<1>1. \A o \in WaitObj : ~Contains(x.wait[o], t)
  BY DEF Sound, Good, WaitLists
<1>2. ~Contains(x.free, t) /\ ~Contains(x.recycle, t)
  BY DEF Sound
<1>3. PICK p \in Prio : Contains(x.ready[p], t)
  BY <1>1, <1>2 DEF Linked
<1> QED BY <1>3 DEF Sound, Good, Queues

LEMMA ScheduleOk ==
  ASSUME NEW x, Ok(x), x.scheduled
  PROVE  Ok(LOS_Schedule(x)) /\ Frame(x, LOS_Schedule(x))
<1> DEFINE y == LOS_Schedule(x)
           top == LOS_PriqueueTop(x)
<1>1. x \in Kernel /\ top \in Task
  BY TopFacts DEF Ok
<1>2. y = [x EXCEPT !.new = top, !.pendsv = @ \/ (x.run # top /\ x.lock = 0)]
  BY DEF LOS_Schedule
<1> HIDE DEF y, top
<1>3. /\ y \in Kernel /\ SameLists(x, y)
      /\ y.free = x.free /\ y.recycle = x.recycle /\ y.run = x.run
      /\ y.scheduled = x.scheduled /\ y.fault = x.fault /\ y.new = top
      /\ y.lock = x.lock /\ (x.pendsv => y.pendsv)
  BY <1>1, <1>2 DEF Kernel, SameLists
<1>4. ~x.fault => Good(x) /\ ~Has(x, top, "UNUSED") /\ ~Stopped(x, top)
  BY TopIsReady DEF Ok, Sound, top
<1>5. ~y.fault => Sound(y)
  BY <1>3, <1>4, GoodShared DEF Ok, Sound, Has, SameLists
<1>6. IdleQueued(y)
  BY <1>3 DEF Ok, IdleQueued, SameLists
<1>7. \A t : /\ Stopped(y, t) <=> Stopped(x, t)
             /\ \A f : Has(y, t, f) <=> Has(x, t, f)
  BY <1>3 DEF Stopped, Waits, Has, SameLists
<1>8. Calm(x, y)
  BY <1>3, <1>4, <1>7 DEF Calm
<1>9. Patient(x, y)
  BY <1>3, <1>7, PatientSame DEF SameLists
<1> QED BY <1>3, <1>5, <1>6, <1>7, <1>8, <1>9 DEF Ok, Frame, Gentle, Keeps, KeepsTcbs, y

LEMMA PendOk ==
  ASSUME NEW x, Ok(x), x.scheduled, ~x.fault => ~Stopped(x, x.new)
  PROVE  Ok(osSchedule(x)) /\ Frame(x, osSchedule(x))
<1> DEFINE y == osSchedule(x)
<1>1. /\ y \in Kernel /\ SameLists(x, y) /\ y.new = x.new
      /\ y.free = x.free /\ y.recycle = x.recycle /\ y.run = x.run
      /\ y.scheduled = x.scheduled /\ y.fault = x.fault
      /\ y.lock = x.lock /\ y.pendsv
  BY DEF Ok, osSchedule, Kernel, SameLists
<1> HIDE DEF y
<1>2. ~y.fault => Sound(y)
  BY <1>1, GoodShared DEF Ok, Sound, Has, SameLists
<1>3. IdleQueued(y)
  BY <1>1 DEF Ok, IdleQueued, SameLists
<1>4. \A t : /\ Stopped(y, t) <=> Stopped(x, t)
             /\ \A f : Has(y, t, f) <=> Has(x, t, f)
  BY <1>1 DEF Stopped, Waits, Has, SameLists
<1>5. Patient(x, y)
  BY <1>1, <1>4, PatientSame DEF SameLists
<1> QED BY <1>1, <1>2, <1>3, <1>4, <1>5 DEF Ok, Frame, Gentle, Keeps, KeepsTcbs, Calm, y

LEMMA MakeUnreadyOk ==
  ASSUME NEW x, Ok(x), NEW t \in Task \ {Idle}, ~x.fault => ~Waits(x, t)
  PROVE  LET y == MakeUnready(x, t)
         IN /\ Ok(y) /\ Frame(x, y)
            /\ y.status = [x.status EXCEPT ![t] = @ \ {"READY"}]
            /\ y.prio = x.prio /\ y.due = x.due /\ y.lock = x.lock
<1> DEFINE y == MakeUnready(x, t)
<1>1. x \in Kernel /\ IdleQueued(x)
  BY DEF Ok
<1>2. /\ y \in Kernel /\ SameRest(x, y)
      /\ y.status = [x.status EXCEPT ![t] = @ \ {"READY"}]
      /\ y.prio = x.prio /\ y.due = x.due
      /\ x.fault => y.fault
      /\ \A o \in WaitObj : y.wait[o] = RemoveFirst(x.wait[o], t)
  BY <1>1, MakeUnreadyFacts
<1>3. IdleQueued(y)
  BY <1>1, IdleStaysQueued
<1>4. ~x.fault => Good(y)
  BY <1>1, MakeUnreadyGood DEF Ok, Sound
<1> HIDE DEF y
<1> DEFINE f == x.status[t] \ {"READY"}
<1>5. /\ \A u \in Task : /\ Has(y, u, "UNUSED") <=> Has(x, u, "UNUSED")
                         /\ Stopped(y, u) <=> Stopped(x, u)
                         /\ \A g \in {"PEND", "PEND_QUEUE", "TIMEOUT"} : Has(y, u, g) <=> Has(x, u, g)
      /\ Has(y, Idle, "READY") <=> Has(x, Idle, "READY")
  <2>1. Has(y, Idle, "READY") <=> Has(x, Idle, "READY")
    BY <1>1, <1>2, TaskAssumption DEF Has, Kernel
  <2>2. \A g \in {"UNUSED", "DELAY", "PEND", "PEND_QUEUE", "TIMEOUT"} : g \in f <=> g \in x.status[t]
    OBVIOUS
  <2>3. y.status = [x.status EXCEPT ![t] = f]
    BY <1>2
  <2> HIDE DEF f
  <2> QED BY <1>1, <2>1, <2>2, <2>3, FlagsKept
<1>6. ~y.fault => Sound(y)
  BY <1>1, <1>2, <1>4, <1>5, KernelType DEF Ok, Sound, SameRest
<1>7. Calm(x, y)
  BY <1>1, <1>2, <1>5, CalmSame DEF SameRest
<1>8. \A u \in Task, o \in WaitObj : Contains(y.wait[o], u) => Contains(x.wait[o], u)
  BY <1>1, <1>2, KernelType, RemoveFirstMembers
<1>9. Patient(x, y)
  BY <1>5, <1>8, PatientSame
<1> QED BY <1>2, <1>3, <1>5, <1>6, <1>7, <1>9 DEF Ok, Frame, Gentle, Keeps, KeepsTcbs, SameRest, y

LEMMA MakeReadyOk ==
  ASSUME NEW x, Ok(x), NEW t \in Task, ~x.fault => Startable(x, t)
  PROVE  LET y == MakeReady(x, t)
         IN /\ Ok(y) /\ Frame(x, y)
            /\ y.status = [x.status EXCEPT ![t] = @ \cup {"READY"}]
            /\ y.prio = x.prio /\ y.due = x.due /\ y.lock = x.lock
<1> DEFINE y == MakeReady(x, t)
<1>1. x \in Kernel /\ IdleQueued(x)
  BY DEF Ok
<1>2. /\ y \in Kernel /\ SameRest(x, y)
      /\ y.status = [x.status EXCEPT ![t] = @ \cup {"READY"}]
      /\ y.prio = x.prio /\ y.due = x.due /\ y.wait = x.wait
      /\ x.fault => y.fault
  BY <1>1, MakeReadyFacts
<1>3. IdleQueued(y)
  BY <1>1, IdleStaysQueued
<1>4. ~y.fault => Good(y)
  BY <1>1, <1>2, MakeReadyGood DEF Ok, Sound
<1> HIDE DEF y
<1> DEFINE f == x.status[t] \cup {"READY"}
<1>5. /\ \A u \in Task : /\ Has(y, u, "UNUSED") <=> Has(x, u, "UNUSED")
                         /\ Stopped(y, u) <=> Stopped(x, u)
                         /\ \A g \in {"PEND", "PEND_QUEUE", "TIMEOUT"} : Has(y, u, g) <=> Has(x, u, g)
      /\ Has(x, Idle, "READY") => Has(y, Idle, "READY")
  <2>1. Has(x, Idle, "READY") => Has(y, Idle, "READY")
    <3>1. /\ y.status[t] = x.status[t] \cup {"READY"}
          /\ \A u \in Task : u # t => y.status[u] = x.status[u]
      BY <1>1, <1>2 DEF Kernel
    <3> QED BY <3>1, TaskAssumption DEF Has
  <2>2. \A g \in {"UNUSED", "DELAY", "PEND", "PEND_QUEUE", "TIMEOUT"} : g \in f <=> g \in x.status[t]
    OBVIOUS
  <2>3. y.status = [x.status EXCEPT ![t] = f]
    BY <1>2
  <2> HIDE DEF f
  <2> QED BY <1>1, <2>1, <2>2, <2>3, FlagsKept
<1>6. ~y.fault => Sound(y)
  BY <1>1, <1>2, <1>4, <1>5, KernelType DEF Ok, Sound, SameRest
<1>7. Calm(x, y)
  BY <1>1, <1>2, <1>5, CalmSame DEF SameRest
<1>8. Patient(x, y)
  BY <1>2, <1>5, PatientSame
<1> QED BY <1>2, <1>3, <1>5, <1>6, <1>7, <1>8 DEF Ok, Frame, Gentle, Keeps, KeepsTcbs, SameRest, y

(***************************************************************************)
(* The locked sections of the API.                                         *)
(***************************************************************************)

(* A change of the flags of one task that touches none of READY, DELAY, UNUSED, PEND
   and PEND_QUEUE, nor TIMEOUT while it waits.                             *)
LEMMA FlagsOk ==
  ASSUME NEW x, Ok(x), NEW t \in Task, NEW f \in SUBSET Flag,
         NEW y, y = [x EXCEPT !.status[t] = f],
         \A g \in {"READY", "DELAY", "UNUSED", "PEND", "PEND_QUEUE"} : g \in f <=> Has(x, t, g),
         ~x.fault => ("UNUSED" \in f => f = {"UNUSED"}),
         ~x.fault => ("READY" \in f => "SUSPEND" \notin f),
         ~x.fault => (Waits(x, t) => ("TIMEOUT" \in f <=> Has(x, t, "TIMEOUT")))
  PROVE  /\ Ok(y) /\ Gentle(x, y)
         /\ ("TIMEOUT" \in f <=> Has(x, t, "TIMEOUT")) => Frame(x, y)
<1>1. /\ y \in Kernel /\ SameRest(x, y)
      /\ y.status = [x.status EXCEPT ![t] = f]
      /\ y.prio = x.prio /\ y.ready = x.ready /\ y.wait = x.wait /\ y.due = x.due
      /\ y.fault = x.fault
  BY DEF Ok, Kernel, SameRest
<1>2. /\ y.status[t] = f
      /\ \A u \in Task : u # t => y.status[u] = x.status[u]
  BY <1>1 DEF Ok, Kernel
<1>3. \A u \in Task : /\ \A g \in {"READY", "DELAY", "UNUSED", "PEND", "PEND_QUEUE"} :
                           Has(y, u, g) <=> Has(x, u, g)
                      /\ Waits(y, u) <=> Waits(x, u)
                      /\ Stopped(y, u) <=> Stopped(x, u)
  <2>1. \A u \in Task : \A g \in {"READY", "DELAY", "UNUSED", "PEND", "PEND_QUEUE"} :
                           Has(y, u, g) <=> Has(x, u, g)
    BY <1>2 DEF Has
  <2> QED BY <2>1 DEF Waits, Stopped
<1>4. ASSUME ~x.fault PROVE Sound(y)
  <2>1. \A u \in Task : Clocked(y, u) <=> Clocked(x, u)
    <3>1. \A u \in Task : Waits(x, u) => (Has(y, u, "TIMEOUT") <=> Has(x, u, "TIMEOUT"))
      BY <1>2, <1>4 DEF Has
    <3> QED BY <1>3, <3>1 DEF Clocked
  <2>2. Queues(y)
    BY <1>1, <1>3, <1>4 DEF Ok, Sound, Good, Queues
  <2>3. Timers(y) /\ WaitLists(y)
    BY <1>1, <1>3, <1>4, <2>1 DEF Ok, Sound, Good, Timers, InTimer, WaitLists
  <2>4. Flags(y)
    <3>1. ASSUME NEW u \in Task PROVE FlagsOf(y, u)
      <4>1. FlagsOf(x, u)
        BY <1>4 DEF Ok, Sound, Good, Flags
      <4>2. CASE u = t
        <5>1. /\ Has(y, t, "UNUSED") => y.status[t] = {"UNUSED"}
              /\ Has(y, t, "READY") => ~Has(y, t, "SUSPEND")
          BY <1>2, <1>4 DEF Has
        <5> QED BY <1>3, <4>1, <4>2, <5>1 DEF FlagsOf
      <4>3. CASE u # t
        BY <1>2, <4>1, <4>3, FlagsShared
      <4> QED BY <4>2, <4>3
    <3> QED BY <3>1 DEF Flags
  <2> QED BY <1>1, <1>3, <1>4, <2>2, <2>3, <2>4, TaskAssumption, KernelType
          DEF Ok, Sound, Good, SameRest
<1>5. Calm(x, y)
  BY <1>1, <1>3, CalmSame DEF Ok, SameRest
<1>6. Ok(y) /\ Gentle(x, y)
  BY <1>1, <1>3, <1>4, <1>5 DEF Ok, Gentle, Keeps, KeepsTcbs, IdleQueued, SameRest
<1>7. ASSUME "TIMEOUT" \in f <=> Has(x, t, "TIMEOUT") PROVE Patient(x, y)
  <2>1. \A u \in Task : Has(y, u, "TIMEOUT") <=> Has(x, u, "TIMEOUT")
    BY <1>2, <1>7 DEF Has
  <2>2. \A u \in Task, g \in {"PEND", "PEND_QUEUE", "TIMEOUT"} : Has(y, u, g) <=> Has(x, u, g)
    BY <1>3, <2>1
  <2>3. \A u \in Task, o \in WaitObj : Contains(y.wait[o], u) => Contains(x.wait[o], u)
    BY <1>1
  <2> QED BY <2>2, <2>3, PatientSame
<1> QED BY <1>6, <1>7 DEF Frame

LEMMA SuspendedOk ==
  ASSUME NEW x, Ok(x), NEW t \in Task \ {Idle}, ~x.fault, ~Has(x, t, "UNUSED")
  PROVE  Ok(Suspended(x, t)) /\ Frame(x, Suspended(x, t))
<1> DEFINE y == IF Has(x, t, "READY") THEN MakeUnready(x, t) ELSE x
           f == y.status[t] \cup {"SUSPEND"}
           z == [y EXCEPT !.status[t] = f]
<1>1. /\ Ok(y) /\ Frame(x, y) /\ ~Has(y, t, "READY")
      /\ ~Has(y, t, "UNUSED")
  <2>1. CASE Has(x, t, "READY")
    <3>1. ~Waits(x, t)
      BY <2>1 DEF Ok, Sound, Good, Flags, FlagsOf, Stopped
    <3>2. /\ Ok(y) /\ Frame(x, y)
          /\ y.status = [x.status EXCEPT ![t] = @ \ {"READY"}]
      BY <2>1, <3>1, MakeUnreadyOk
    <3> HIDE DEF y
    <3>3. y.status[t] = x.status[t] \ {"READY"}
      BY <3>2 DEF Ok, Kernel
    <3> QED BY <3>2, <3>3 DEF Has
  <2>2. CASE ~Has(x, t, "READY")
    BY <2>2, FrameReflexive
  <2> QED BY <2>1, <2>2
<1>2. Suspended(x, t) = z
  BY DEF Suspended
<1> HIDE DEF y
<1>3. f \in SUBSET Flag
  BY <1>1, KernelType DEF Ok, Flag
<1>4. Ok(z) /\ Frame(y, z)
  <2>1. /\ \A g \in {"READY", "DELAY", "UNUSED", "PEND", "PEND_QUEUE"} : g \in f <=> Has(y, t, g)
        /\ "TIMEOUT" \in f <=> Has(y, t, "TIMEOUT")
    BY DEF Has
  <2>2. "UNUSED" \notin f /\ "READY" \notin f
    BY <1>1 DEF Has
  <2> HIDE DEF f
  <2> QED BY <1>1, <1>3, <2>1, <2>2, FlagsOk
<1> QED BY <1>1, <1>2, <1>4, FrameTransitive

LEMMA UnsuspendedOk ==
  ASSUME NEW x, Ok(x), NEW t \in Task, ~x.fault, ~Has(x, t, "UNUSED")
  PROVE  LET y == Unsuspended(x, t)
         IN /\ Ok(y) /\ Frame(x, y) /\ y.fault = x.fault
            /\ y.status[t] = x.status[t] \ {"SUSPEND"}
            /\ y.new = x.new /\ y.lock = x.lock
<1> DEFINE f == x.status[t] \ {"SUSPEND"}
           y == [x EXCEPT !.status[t] = f]
<1>1. f \in SUBSET Flag
  BY KernelType DEF Ok
<1>2. /\ \A g \in {"READY", "DELAY", "UNUSED", "PEND", "PEND_QUEUE"} : g \in f <=> Has(x, t, g)
      /\ "TIMEOUT" \in f <=> Has(x, t, "TIMEOUT")
      /\ "UNUSED" \notin f /\ "SUSPEND" \notin f
  BY DEF Has
<1>3. y.fault = x.fault /\ y.status[t] = f /\ y.new = x.new /\ y.lock = x.lock
  BY DEF Ok, Kernel
<1>4. Unsuspended(x, t) = y
  BY DEF Unsuspended
<1>5. Ok(y) /\ Frame(x, y)
  <2> HIDE DEF f
  <2> QED BY <1>1, <1>2, FlagsOk
<1> QED BY <1>3, <1>4, <1>5

(* pstNewTask is recomputed. *)
LEMMA NewTopOk ==
  ASSUME NEW x, Ok(x)
  PROVE  LET y == [x EXCEPT !.new = LOS_PriqueueTop(x)]
         IN Ok(y) /\ Frame(x, y) /\ y.pendsv = x.pendsv
<1> DEFINE top == LOS_PriqueueTop(x)
           y == [x EXCEPT !.new = top]
<1>1. x \in Kernel /\ top \in Task
  BY TopFacts DEF Ok
<1>2. ~x.fault => Good(x) /\ ~Has(x, top, "UNUSED") /\ ~Stopped(x, top)
  BY TopIsReady DEF Ok, Sound
<1> HIDE DEF top
<1>3. /\ y \in Kernel /\ SameLists(x, y)
      /\ y.free = x.free /\ y.recycle = x.recycle /\ y.run = x.run
      /\ y.scheduled = x.scheduled /\ y.fault = x.fault /\ y.new = top
      /\ y.pendsv = x.pendsv /\ y.lock = x.lock
  BY <1>1 DEF Kernel, SameLists
<1> HIDE DEF y
<1>4. ~y.fault => Sound(y)
  BY <1>2, <1>3, GoodShared DEF Ok, Sound, Has, SameLists
<1>5. IdleQueued(y)
  BY <1>3 DEF Ok, IdleQueued, SameLists
<1>6. \A t : /\ Stopped(y, t) <=> Stopped(x, t)
             /\ \A f : Has(y, t, f) <=> Has(x, t, f)
  BY <1>3 DEF Stopped, Waits, Has, SameLists
<1>7. Calm(x, y)
  BY <1>2, <1>3, <1>6 DEF Calm
<1>8. Patient(x, y)
  BY <1>3, <1>6, PatientSame DEF SameLists
<1> QED BY <1>3, <1>4, <1>5, <1>6, <1>7, <1>8
        DEF Ok, Frame, Gentle, Keeps, KeepsTcbs, y, top

LEMMA ResumedOk ==
  ASSUME NEW x, Ok(x), NEW t \in Task, ~x.fault, ~Has(x, t, "UNUSED")
  PROVE  Ok(Resumed(x, t)) /\ Frame(x, Resumed(x, t))
<1> DEFINE y == Unsuspended(x, t)
           z == MakeReady(y, t)
           v == [z EXCEPT !.new = LOS_PriqueueTop(z)]
<1>1. Ok(y) /\ Frame(x, y) /\ ~y.fault /\ ~Has(y, t, "UNUSED")
  BY UnsuspendedOk DEF Has
<1>2. Resumed(x, t) = IF Blocked(y, t) THEN y ELSE IF x.scheduled THEN z ELSE v
  BY DEF Resumed
<1> HIDE DEF y
<1>3. CASE Blocked(y, t)
  BY <1>1, <1>2, <1>3
<1>4. CASE ~Blocked(y, t)
  <2>1. Startable(y, t)
    BY <1>1, <1>4 DEF Blocked, Has, Startable, Stopped, Waits
  <2>2. Ok(z) /\ Frame(y, z)
    BY <1>1, <2>1, MakeReadyOk
  <2> HIDE DEF z
  <2>3. Ok(v) /\ Frame(z, v)
    BY <2>2, NewTopOk
  <2> HIDE DEF v
  <2> QED BY <1>1, <1>2, <1>4, <2>2, <2>3, FrameTransitive
<1> QED BY <1>3, <1>4

(* The priority of a task that is in no ready queue may change. *)
LEMMA WithPrioOk ==
  ASSUME NEW x, Ok(x), NEW t \in Task, NEW p \in Prio, ~x.fault => ~Has(x, t, "READY")
  PROVE  LET y == WithPrio(x, t, p)
         IN Ok(y) /\ Frame(x, y) /\ y.status = x.status
<1> DEFINE y == WithPrio(x, t, p)
<1>1. /\ y \in Kernel /\ SameRest(x, y)
      /\ y.prio = [x.prio EXCEPT ![t] = p] /\ y.status = x.status
      /\ y.ready = x.ready /\ y.wait = x.wait /\ y.due = x.due
      /\ y.fault = x.fault
  BY DEF Ok, Kernel, SameRest, WithPrio
<1> HIDE DEF y
<1>2. \A u \in Task : u # t => y.prio[u] = x.prio[u]
  BY <1>1 DEF Ok, Kernel
<1>3. \A u : /\ \A f : Has(y, u, f) <=> Has(x, u, f)
             /\ Stopped(y, u) <=> Stopped(x, u)
             /\ Waits(y, u) <=> Waits(x, u)
             /\ Clocked(y, u) <=> Clocked(x, u)
             /\ FlagsOf(y, u) <=> FlagsOf(x, u)
  BY <1>1, FlagsShared
<1>4. ASSUME ~x.fault PROVE Sound(y)
  <2>1. Queues(y)
    BY <1>1, <1>2, <1>3, <1>4 DEF Ok, Sound, Good, Queues
  <2>2. Timers(y) /\ WaitLists(y) /\ Flags(y)
    BY <1>1, <1>3, <1>4 DEF Ok, Sound, Good, Timers, WaitLists, Flags, InTimer
  <2> QED BY <1>1, <1>3, <1>4, <2>1, <2>2 DEF Ok, Sound, Good, SameRest
<1>5. Calm(x, y)
  BY <1>1, <1>3, CalmSame DEF Ok, SameRest
<1>6. Patient(x, y)
  BY <1>1, <1>3, PatientSame
<1> QED BY <1>1, <1>3, <1>4, <1>5, <1>6
        DEF Ok, Frame, Gentle, Keeps, KeepsTcbs, IdleQueued, SameRest, y

LEMMA PriModifyOk ==
  ASSUME NEW x, Ok(x), NEW t \in Task \ {Idle}, NEW p \in Prio, ~x.fault,
         ~Has(x, t, "UNUSED")
  PROVE  Ok(osTaskPriModify(x, t, p)) /\ Frame(x, osTaskPriModify(x, t, p))
<1>1. CASE ~Has(x, t, "READY")
  BY <1>1, WithPrioOk DEF osTaskPriModify
<1>2. CASE Has(x, t, "READY")
  <2> DEFINE y == MakeUnready(x, t)
             z == WithPrio(y, t, p)
  <2>1. Startable(x, t) /\ ~Waits(x, t)
    BY <1>2 DEF Ok, Sound, Good, Flags, FlagsOf, Startable, Stopped
  <2>2. Ok(y) /\ Frame(x, y) /\ y.status = [x.status EXCEPT ![t] = @ \ {"READY"}]
    BY <2>1, MakeUnreadyOk
  <2>3. osTaskPriModify(x, t, p) = MakeReady(z, t)
    BY <1>2 DEF osTaskPriModify
  <2> HIDE DEF y
  <2>4. y.status[t] = x.status[t] \ {"READY"}
    BY <2>2 DEF Ok, Kernel
  <2>5. Ok(z) /\ Frame(y, z) /\ z.status = y.status
    BY <2>2, <2>4, WithPrioOk DEF Has
  <2> HIDE DEF z
  <2>6. Startable(z, t)
    BY <2>1, <2>4, <2>5 DEF Startable, Stopped, Waits, Has
  <2>7. Ok(MakeReady(z, t)) /\ Frame(z, MakeReady(z, t))
    BY <2>5, <2>6, MakeReadyOk
  <2> QED BY <2>2, <2>3, <2>5, <2>7, FrameTransitive
<1> QED BY <1>1, <1>2

(* LOS_TaskYield: the running task goes to the tail of its queue. *)
LEMMA RotateOk ==
  ASSUME NEW x, Ok(x), x.run \in Task, ~x.fault, ~Waits(x, x.run)
  PROVE  /\ Ok(Rotate(x)) /\ Frame(x, Rotate(x))
         /\ Rotate(x).due = x.due
<1> DEFINE t == x.run
           y == Unlink(x, t)
           r == MakeReady(y, t)
           u == MakeUnready(x, t)
           w == MakeReady(u, t)
<1>1. /\ y \in Kernel /\ SameRest(x, y)
      /\ y.status = x.status /\ y.prio = x.prio /\ y.due = x.due
      /\ y.fault = (x.fault \/ ~Linked(x, t))
      /\ \A o \in WaitObj : y.wait[o] = RemoveFirst(x.wait[o], t)
  BY UnlinkFacts DEF Ok
<1>2. u = [y EXCEPT !.status[t] = @ \ {"READY"}]
  BY DEF MakeUnready
<1>3. x \in Kernel /\ u \in Kernel /\ (~x.fault => Good(u))
  BY MakeUnreadyFacts, MakeUnreadyGood DEF Ok, Sound
<1>4. Rotate(x) = r
  BY DEF Rotate
<1> HIDE DEF y
<1>5. /\ u.prio = y.prio /\ u.ready = y.ready /\ u.wait = y.wait /\ u.due = y.due
      /\ u.free = y.free /\ u.recycle = y.recycle /\ u.fault = y.fault
      /\ u.status = [y.status EXCEPT ![t] = @ \ {"READY"}]
  BY <1>1, <1>2 DEF Kernel
<1> HIDE DEF u
<1>6. /\ r \in Kernel /\ SameRest(y, r)
      /\ r.status = [y.status EXCEPT ![t] = @ \cup {"READY"}]
      /\ r.prio = y.prio /\ r.due = y.due /\ r.wait = y.wait
      /\ r.fault = (y.fault \/ Linked(y, t))
      /\ r.ready = [y.ready EXCEPT ![y.prio[t]] = Append(@, t)]
  BY <1>1, MakeReadyFacts
<1>7. /\ w.status = [u.status EXCEPT ![t] = @ \cup {"READY"}]
      /\ w.prio = u.prio /\ w.due = u.due /\ w.wait = u.wait
      /\ w.fault = (u.fault \/ Linked(u, t))
      /\ w.ready = [u.ready EXCEPT ![u.prio[t]] = Append(@, t)]
  BY <1>3, MakeReadyFacts
<1> HIDE DEF r
<1>8. IdleQueued(r)
  <2>1. CASE t = Idle
    <3>1. Contains(Append(y.ready[y.prio[t]], t), t)
      BY <1>1, KernelType, AppendList
    <3>2. y.prio[t] \in Prio /\ r.ready[y.prio[t]] = Append(y.ready[y.prio[t]], t)
      BY <1>1, <1>6 DEF Kernel
    <3> QED BY <2>1, <3>1, <3>2 DEF IdleQueued
  <2>2. CASE t # Idle
    <3>1. IdleQueued(y)
      BY <2>2, IdleStaysQueued DEF Ok, y
    <3> QED BY <1>1, <3>1, IdleStaysQueued DEF r
  <2> QED BY <2>1, <2>2
<1>9. /\ r.status[t] = x.status[t] \cup {"READY"}
      /\ \A v \in Task : v # t => r.status[v] = x.status[v]
  <2>1. x.status \in [Task -> SUBSET Flag] /\ t \in Task
    BY <1>3 DEF Kernel
  <2>2. r.status = [x.status EXCEPT ![t] = @ \cup {"READY"}]
    BY <1>1, <1>6
  <2> HIDE DEF t
  <2> QED BY <2>1, <2>2
<1>10. /\ \A v \in Task : /\ Has(r, v, "UNUSED") <=> Has(x, v, "UNUSED")
                          /\ Stopped(r, v) <=> Stopped(x, v)
       /\ \A v \in Task, g \in {"PEND", "PEND_QUEUE", "TIMEOUT"} : Has(r, v, g) <=> Has(x, v, g)
       /\ Has(x, Idle, "READY") => Has(r, Idle, "READY")
  BY <1>9, TaskAssumption DEF Has, Stopped, Waits
<1>11. ASSUME ~r.fault PROVE Good(r)
  <2>1. Linked(x, t)
    BY <1>1, <1>6, <1>11
  <2>2. ~Has(x, t, "UNUSED")
    BY DEF Ok, Sound
  <2>3. Has(x, t, "READY")
    BY <2>1, <2>2, LinkedIsReady DEF Ok
  <2>4. Startable(x, t)
    BY <2>2, <2>3 DEF Ok, Sound, Good, Flags, FlagsOf, Startable
  <2>5. Linked(u, t) <=> Linked(y, t)
    BY <1>5 DEF Linked
  <2>6. ~w.fault
    BY <1>5, <1>6, <1>7, <1>11, <2>5
  <2>7. Startable(u, t)
    <3>1. u.status[t] = x.status[t] \ {"READY"}
      <4>1. x.status \in [Task -> SUBSET Flag] /\ t \in Task
        BY <1>3 DEF Kernel
      <4>2. y.status = x.status /\ u.status = [y.status EXCEPT ![t] = @ \ {"READY"}]
        BY <1>1, <1>5
      <4> QED BY <4>1, <4>2
    <3> QED BY <2>4, <3>1 DEF Startable, Stopped, Waits, Has
  <2>8. Good(w)
    BY <1>3, <2>6, <2>7, MakeReadyGood
  <2> HIDE DEF w
  <2>9. w.status = r.status
    <3>1. [u.status EXCEPT ![t] = @ \cup {"READY"}] = [y.status EXCEPT ![t] = @ \cup {"READY"}]
      BY <1>1, <1>5 DEF Kernel
    <3> QED BY <1>6, <1>7, <3>1
  <2> QED BY <1>5, <1>6, <1>7, <2>8, <2>9, GoodShared DEF SameLists
<1>12. ~r.fault => Sound(r)
  BY <1>1, <1>6, <1>10, <1>11, KernelType DEF Ok, Sound, SameRest
<1>13. Calm(x, r)
  BY <1>1, <1>3, <1>6, <1>10, CalmSame DEF SameRest
<1>14. \A v \in Task, o \in WaitObj : Contains(r.wait[o], v) => Contains(x.wait[o], v)
  BY <1>1, <1>3, <1>6, KernelType, RemoveFirstMembers
<1>15. Patient(x, r)
  BY <1>10, <1>14, PatientSame
<1> QED BY <1>1, <1>4, <1>6, <1>8, <1>10, <1>12, <1>13, <1>15
        DEF Ok, Frame, Gentle, Keeps, KeepsTcbs, SameRest

(* The timer of a task that has none is started, as its delay begins. *)
LEMMA TimerOnOk ==
  ASSUME NEW x, Ok(x), NEW t \in Task, NEW n \in 1 .. MaxTimeout,
         ~x.fault => ~Has(x, t, "UNUSED") /\ ~Has(x, t, "READY") /\ ~Stopped(x, t)
  PROVE  LET y == [osTaskAdd2TimerList(x, t, n) EXCEPT !.status[t] = @ \cup {"DELAY"}]
         IN Ok(y) /\ Keeps(x, y) /\ y.due[0] = x.due[0] /\ y.pendsv = x.pendsv
<1> DEFINE y == [osTaskAdd2TimerList(x, t, n) EXCEPT !.status[t] = @ \cup {"DELAY"}]
<1>1. n \in 0 .. MaxTimeout /\ n # 0 /\ 0 \in 0 .. MaxTimeout
  BY TaskAssumption
<1>2. x \in Kernel /\ x.due[n] \in Seq(Task) /\ Append(x.due[n], t) \in Seq(Task)
  BY <1>1, KernelType DEF Ok
<1>3. /\ y \in Kernel /\ SameRest(x, y)
      /\ y.status = [x.status EXCEPT ![t] = @ \cup {"DELAY"}]
      /\ y.prio = x.prio /\ y.ready = x.ready /\ y.wait = x.wait
      /\ y.due = [x.due EXCEPT ![n] = Append(@, t)]
      /\ y.fault = x.fault
  BY <1>1, <1>2 DEF osTaskAdd2TimerList, Kernel, SameRest, Flag
<1> HIDE DEF y
<1>4. /\ y.status[t] = x.status[t] \cup {"DELAY"}
      /\ \A u \in Task : u # t => y.status[u] = x.status[u]
  BY <1>2, <1>3 DEF Kernel
<1>5. /\ y.due[n] = Append(x.due[n], t)
      /\ \A m \in 0 .. MaxTimeout : m # n => y.due[m] = x.due[m]
  BY <1>1, <1>2, <1>3 DEF Kernel
<1>6. \A u \in Task, g \in Flag : g # "DELAY" => (Has(y, u, g) <=> Has(x, u, g))
  BY <1>4 DEF Has
<1>7. ASSUME ~x.fault PROVE Good(y)
  <2>1. Good(x) /\ FlagsOf(x, t)
    BY <1>7 DEF Ok, Sound, Good, Flags
  <2>2. ~Contains(x.due[n], t)
    BY <1>1, <1>7, <2>1 DEF Good, Timers, InTimer, Clocked, Stopped
  <2>3. /\ IsInjective(y.due[n])
        /\ \A u : Contains(y.due[n], u) <=> Contains(x.due[n], u) \/ u = t
    <3>1. IsInjective(x.due[n])
      BY <1>1, <2>1 DEF Good, Timers
    <3> QED BY <1>2, <1>5, <2>2, <3>1, AppendList
  <2> DEFINE D == {n}
             W == {o \in WaitObj : FALSE}
  <2>4. /\ D \in SUBSET (0 .. MaxTimeout) /\ D # {} /\ (\A l, m \in D : l = m)
        /\ \A m : m \in D <=> m = n
        /\ W \in SUBSET WaitObj /\ W = {} /\ \A o : o \notin W
    BY <1>1
  <2> HIDE DEF D, W
  <2>5. \A m \in 0 .. MaxTimeout :
          /\ IsInjective(y.due[m])
          /\ \A u \in Task : Contains(y.due[m], u) <=> Contains(x.due[m], u) \/ (u = t /\ m \in D)
    BY <1>5, <2>1, <2>3, <2>4 DEF Good, Timers
  <2>6. \A o \in WaitObj :
          /\ IsInjective(y.wait[o])
          /\ \A u \in Task : Contains(y.wait[o], u) <=> Contains(x.wait[o], u) \/ (u = t /\ o \in W)
    BY <1>3, <2>1, <2>4 DEF Good, WaitLists
  <2>7. /\ ~Has(y, t, "READY") /\ FlagsOf(y, t)
        /\ ~Waits(y, t) /\ Clocked(y, t)
    BY <1>4, <1>7, <2>1 DEF Has, FlagsOf, Stopped, Waits, Clocked
  <2> QED BY <1>2, <1>3, <1>4, <1>7, <2>1, <2>4, <2>5, <2>6, <2>7, StopsGood
<1>8. ASSUME ~x.fault PROVE Sound(y)
  BY <1>3, <1>6, <1>7, <1>8, TaskAssumption, KernelType DEF Ok, Sound, SameRest, Flag
<1> QED BY <1>1, <1>3, <1>5, <1>6, <1>8 DEF Ok, Keeps, KeepsTcbs, IdleQueued, SameRest, Flag, y

(* A running task that has left its ready queue is nowhere. *)
LEMMA LeftAlone ==
  ASSUME NEW x, Ok(x), x.run \in Task \ {Idle}, ~x.fault, ~Waits(x, x.run),
         ~MakeUnready(x, x.run).fault
  PROVE  LET u == MakeUnready(x, x.run)
         IN ~Has(u, x.run, "UNUSED") /\ ~Has(u, x.run, "READY") /\ ~Stopped(u, x.run)
<1> DEFINE t == x.run
           u == MakeUnready(x, t)
<1>1. Ok(u) /\ u.status = [x.status EXCEPT ![t] = @ \ {"READY"}]
  BY MakeUnreadyOk
<1>2. Linked(x, t) /\ ~Has(x, t, "UNUSED")
  BY MakeUnreadyFacts DEF Ok, Sound
<1>3. Has(x, t, "READY")
  BY <1>2, LinkedIsReady DEF Ok
<1>4. ~Stopped(x, t)
  BY <1>3 DEF Ok, Sound, Good, Flags, FlagsOf
<1>5. u.status[t] = x.status[t] \ {"READY"}
  BY <1>1 DEF Ok, Kernel
<1> QED BY <1>2, <1>4, <1>5 DEF Stopped, Waits, Has

LEMMA DelayedOk ==
  ASSUME NEW x, Ok(x), x.run \in Task \ {Idle}, NEW n \in 1 .. MaxTimeout, ~x.fault,
         ~Waits(x, x.run)
  PROVE  /\ Ok(Delayed(x, n)) /\ Keeps(x, Delayed(x, n))
         /\ Delayed(x, n).due[0] = x.due[0] /\ Delayed(x, n).pendsv = x.pendsv
<1> DEFINE t == x.run
           u == MakeUnready(x, t)
           y == [osTaskAdd2TimerList(u, t, n) EXCEPT !.status[t] = @ \cup {"DELAY"}]
<1>1. Delayed(x, n) = y
  BY DEF Delayed
<1>2. /\ Ok(u) /\ Frame(x, u) /\ u.due = x.due /\ u.pendsv = x.pendsv
  BY MakeUnreadyOk, MakeUnreadyFacts DEF Ok, SameRest
<1>3. ASSUME ~u.fault
      PROVE  ~Has(u, t, "UNUSED") /\ ~Has(u, t, "READY") /\ ~Stopped(u, t)
  BY <1>3, LeftAlone
<1> HIDE DEF u
<1>4. Ok(y) /\ Keeps(u, y) /\ y.due[0] = u.due[0] /\ y.pendsv = u.pendsv
  BY <1>2, <1>3, TimerOnOk
<1> HIDE DEF y
<1> QED BY <1>1, <1>2, <1>4 DEF Frame, Gentle, Keeps, KeepsTcbs

(* A step that touches neither lists nor flags. *)
LEMMA OtherFields ==
  ASSUME NEW x, Ok(x), NEW y \in Kernel, SameLists(x, y),
         y.free = x.free, y.recycle = x.recycle, y.run = x.run, y.new = x.new,
         y.scheduled = x.scheduled, y.pendsv = x.pendsv, y.fault = x.fault,
         y.lock = x.lock
  PROVE  Ok(y) /\ Frame(x, y)
<1>1. ~y.fault => Sound(y)
  BY GoodShared DEF Ok, Sound, Has, SameLists
<1>2. \A t : /\ \A f : Has(y, t, f) <=> Has(x, t, f)
             /\ Stopped(y, t) <=> Stopped(x, t)
  BY DEF SameLists, Has, Stopped, Waits
<1>3. Calm(x, y)
  BY <1>2, CalmSame DEF Ok
<1>4. Patient(x, y)
  BY <1>2, PatientSame DEF SameLists
<1> QED BY <1>1, <1>2, <1>3, <1>4 DEF Ok, Frame, Gentle, Keeps, KeepsTcbs, SameLists, IdleQueued

LEMMA TimesliceOk ==
  ASSUME NEW x, Ok(x), x.scheduled, ~x.fault, TIMESLICE
  PROVE  LET y == osTimesliceCheck(x) IN Ok(y) /\ Frame(x, y) /\ y.due = x.due
<1> DEFINE left == IF x.slice.task # x.run THEN Tout - 1 ELSE x.slice.left - 1
           u == [x EXCEPT !.slice = [task |-> NoTask, left |-> 0]]
           v == [x EXCEPT !.slice = [task |-> x.run, left |-> left]]
<1>1. osTimesliceCheck(x) = IF left = 0 THEN YieldInTick(u) ELSE v
  BY DEF osTimesliceCheck
<1>2. left \in Int /\ x.run \in Thread
  BY TaskAssumption DEF Ok, Kernel
<1>3. Ok(v) /\ Frame(x, v) /\ v.due = x.due
  <2> HIDE DEF left
  <2>1. /\ v \in Kernel /\ SameLists(x, v)
        /\ v.free = x.free /\ v.recycle = x.recycle /\ v.run = x.run /\ v.new = x.new
        /\ v.scheduled = x.scheduled /\ v.pendsv = x.pendsv /\ v.fault = x.fault
        /\ v.lock = x.lock
    BY <1>2 DEF Ok, Kernel, SameLists
  <2> HIDE DEF v
  <2> QED BY <2>1, OtherFields DEF SameLists
<1> HIDE DEF v, left
<1>4. Ok(u) /\ Frame(x, u) /\ u.due = x.due /\ ~u.fault /\ u.scheduled
  <2> DEFINE none == [task |-> NoTask, left |-> 0]
  <2>0. none \in [task : Thread \cup {NoTask}, left : Int]
    OBVIOUS
  <2> HIDE DEF none
  <2>1. /\ u \in Kernel /\ SameLists(x, u)
        /\ u.free = x.free /\ u.recycle = x.recycle /\ u.run = x.run /\ u.new = x.new
        /\ u.scheduled = x.scheduled /\ u.pendsv = x.pendsv /\ u.fault = x.fault
        /\ u.lock = x.lock
    BY <2>0 DEF Ok, Kernel, SameLists, none
  <2> HIDE DEF u
  <2> QED BY <2>1, OtherFields DEF SameLists
<1> HIDE DEF u
<1>5. Ok(YieldInTick(u)) /\ Frame(u, YieldInTick(u)) /\ YieldInTick(u).due = u.due
  <2>1. CASE ~CanYield(u)
    BY <1>4, <2>1, FrameReflexive DEF YieldInTick
  <2>2. CASE CanYield(u)
    <3> DEFINE r == Rotate(u)
    <3>1. u.run \in Task /\ ~Waits(u, u.run)
      BY <1>4, <2>2 DEF CanYield, Ok, Sound, Good, Flags, FlagsOf
    <3>2. Ok(r) /\ Frame(u, r) /\ r.due = u.due
      BY <1>4, <3>1, RotateOk
    <3>3. YieldInTick(u) = LOS_Schedule(r)
      BY <2>2 DEF YieldInTick
    <3> HIDE DEF r
    <3>4. r.scheduled
      BY <1>4, <3>2 DEF Frame, Gentle, Keeps, KeepsTcbs
    <3>5. Ok(LOS_Schedule(r)) /\ Frame(r, LOS_Schedule(r))
      BY <3>2, <3>4, ScheduleOk
    <3>6. LOS_Schedule(r).due = r.due
      BY <3>2 DEF LOS_Schedule, Ok, Kernel
    <3> QED BY <3>2, <3>3, <3>5, <3>6, FrameTransitive
  <2> QED BY <2>1, <2>2
<1> QED BY <1>1, <1>3, <1>4, <1>5, FrameTransitive

(* The tick moves every timer one tick nearer. *)
Shifted(x) ==
  [x EXCEPT !.due = [n \in 0 .. MaxTimeout |-> IF n < MaxTimeout THEN x.due[n + 1] ELSE <<>>]]

LEMMA ShiftedOk ==
  ASSUME NEW x, Ok(x), ~x.fault => x.due[0] = <<>>
  PROVE  /\ Ok(Shifted(x)) /\ Frame(x, Shifted(x))
         /\ Shifted(x).due[0] = x.due[1]
<1> DEFINE y == Shifted(x)
<1>1. /\ \A n \in 0 .. MaxTimeout : n < MaxTimeout => n + 1 \in 0 .. MaxTimeout
      /\ \A n \in 0 .. MaxTimeout : n > 0 => n - 1 \in 0 .. MaxTimeout /\ n - 1 < MaxTimeout
      /\ 0 \in 0 .. MaxTimeout /\ 0 < MaxTimeout
  BY TaskAssumption
<1>2. /\ y \in Kernel /\ SameRest(x, y)
      /\ y.status = x.status /\ y.prio = x.prio /\ y.ready = x.ready /\ y.wait = x.wait
      /\ y.fault = x.fault
      /\ \A n \in 0 .. MaxTimeout :
           y.due[n] = IF n < MaxTimeout THEN x.due[n + 1] ELSE <<>>
  <2>1. [n \in 0 .. MaxTimeout |-> IF n < MaxTimeout THEN x.due[n + 1] ELSE <<>>]
          \in [0 .. MaxTimeout -> Seq(Task)]
    BY <1>1, EmptyList, KernelType DEF Ok
  <2> QED BY <2>1 DEF Shifted, Ok, Kernel, SameRest
<1>3. y.due[0] = x.due[1]
  BY <1>1, <1>2
<1> HIDE DEF y
<1>0. \A u : /\ \A f : Has(y, u, f) <=> Has(x, u, f)
             /\ Stopped(y, u) <=> Stopped(x, u)
             /\ Waits(y, u) <=> Waits(x, u)
             /\ Clocked(y, u) <=> Clocked(x, u)
             /\ FlagsOf(y, u) <=> FlagsOf(x, u)
  BY <1>2, FlagsShared
<1>4. ASSUME ~x.fault PROVE Timers(y)
  <2>1. Timers(x)
    BY <1>4 DEF Ok, Sound, Good
  <2>2. \A u \in Task, n \in 0 .. MaxTimeout :
          Contains(y.due[n], u) => n < MaxTimeout /\ Contains(x.due[n + 1], u)
    BY <1>2, EmptyList
  <2>3. \A n \in 0 .. MaxTimeout : IsInjective(y.due[n])
    BY <1>1, <1>2, <2>1, EmptyList DEF Timers
  <2>4. ASSUME NEW u \in Task PROVE InTimer(y, u) <=> InTimer(x, u)
    <3>1. ASSUME NEW n \in 0 .. MaxTimeout, Contains(x.due[n], u)
          PROVE  InTimer(y, u)
      <4>1. n > 0
        BY <1>4, <3>1, EmptyList
      <4>2. n - 1 \in 0 .. MaxTimeout /\ n - 1 < MaxTimeout /\ n - 1 + 1 = n
        BY <1>1, <4>1
      <4>3. y.due[n - 1] = x.due[n]
        BY <1>2, <4>2
      <4> QED BY <3>1, <4>2, <4>3 DEF InTimer
    <3>2. ASSUME NEW n \in 0 .. MaxTimeout, Contains(y.due[n], u)
          PROVE  InTimer(x, u)
      BY <1>1, <2>2, <3>2 DEF InTimer
    <3> QED BY <3>1, <3>2 DEF InTimer
  <2>5. ASSUME NEW u \in Task, NEW m \in 0 .. MaxTimeout, NEW n \in 0 .. MaxTimeout,
               Contains(y.due[m], u), Contains(y.due[n], u)
        PROVE  m = n
    <3>1. /\ m + 1 \in 0 .. MaxTimeout /\ n + 1 \in 0 .. MaxTimeout
          /\ Contains(x.due[m + 1], u) /\ Contains(x.due[n + 1], u)
      BY <1>1, <2>2, <2>5
    <3>2. m + 1 = n + 1
      BY <2>1, <3>1 DEF Timers
    <3> QED BY <3>2
  <2> QED BY <1>0, <2>1, <2>3, <2>4, <2>5 DEF Timers
<1>5. ASSUME ~x.fault PROVE Sound(y)
  <2>1. Queues(y) /\ WaitLists(y) /\ Flags(y)
    BY <1>0, <1>2, <1>5 DEF Ok, Sound, Good, Queues, WaitLists, Flags
  <2> QED BY <1>0, <1>2, <1>4, <1>5, <2>1 DEF Ok, Sound, Good, SameRest
<1>6. Calm(x, y)
  BY <1>0, <1>2, CalmSame DEF Ok, SameRest
<1>7. Patient(x, y)
  BY <1>0, <1>2, PatientSame
<1> QED BY <1>0, <1>2, <1>3, <1>5, <1>6, <1>7
        DEF Ok, Frame, Gentle, Keeps, KeepsTcbs, IdleQueued, SameRest, y

(* osTaskScan serves the first task whose timer has expired. *)
LEMMA ExpiredOk ==
  ASSUME NEW x, Ok(x), ~x.fault, x.due[0] # <<>>
  PROVE  LET t == Head(x.due[0])
             y == Expired([x EXCEPT !.due[0] = Tail(@)], t)
         IN Ok(y) /\ Frame(x, y)
<1> DEFINE t == Head(x.due[0])
           u == [x EXCEPT !.due[0] = Tail(@)]
           v == IF Waits(x, t) THEN Unlink(u, t) ELSE u
           g == IF Has(x, t, "PEND") THEN {"PEND"}
                ELSE IF Has(x, t, "PEND_QUEUE") THEN {"PEND_QUEUE"} ELSE {"DELAY"}
           f == x.status[t] \ g
           z == [v EXCEPT !.status[t] = f]
<1>1. 0 \in 0 .. MaxTimeout /\ x.due[0] \in Seq(Task) /\ x \in Kernel /\ Sound(x) /\ Good(x)
  BY TaskAssumption, KernelType DEF Ok, Sound
<1>2. /\ t \in Task /\ Contains(x.due[0], t) /\ Tail(x.due[0]) \in Seq(Task)
      /\ IsInjective(Tail(x.due[0]))
      /\ \A w : Contains(Tail(x.due[0]), w) <=> Contains(x.due[0], w) /\ w # t
  BY <1>1, TailList DEF Good, Timers
<1> HIDE DEF t
<1>3. /\ u \in Kernel /\ SameRest(x, u)
      /\ u.status = x.status /\ u.prio = x.prio /\ u.ready = x.ready /\ u.wait = x.wait
      /\ u.due[0] = Tail(x.due[0]) /\ \A n \in 0 .. MaxTimeout : n # 0 => u.due[n] = x.due[n]
      /\ u.fault = x.fault
  BY <1>1, <1>2 DEF Kernel, SameRest
<1>4. /\ Clocked(x, t) /\ FlagsOf(x, t)
      /\ ~Has(x, t, "UNUSED") /\ ~Has(x, t, "READY") /\ t # Idle
  <2>1. Clocked(x, t) /\ FlagsOf(x, t)
    BY <1>1, <1>2 DEF Good, Timers, Flags, InTimer
  <2>2. Stopped(x, t)
    BY <2>1 DEF Clocked, Stopped
  <2> QED BY <1>1, <2>1, <2>2 DEF FlagsOf, Sound, Has, Stopped, Waits
<1>5. Expired(u, t) = IF Has(u, t, "SUSPEND") THEN z ELSE MakeReady(z, t)
  <2>1. /\ u.status[t] \cap {"PEND", "PEND_QUEUE"} # {} <=> Waits(x, t)
        /\ \A h : Has(u, t, h) <=> Has(x, t, h)
    BY <1>3 DEF Has, Waits
  <2>2. v.status = x.status
    BY <1>3, <1>2, UnlinkFacts
  <2> HIDE DEF u
  <2> QED BY <2>1, <2>2 DEF Expired, OutOfList, FlagCleared, Has
<1>6. \A w : Has(u, w, "SUSPEND") <=> Has(x, w, "SUSPEND")
  BY <1>3 DEF Has
<1> HIDE DEF u
<1>7. /\ v \in Kernel /\ SameRest(x, v)
      /\ v.status = x.status /\ v.prio = x.prio /\ v.due = u.due /\ ~v.fault
      /\ \A p \in Prio : /\ IsInjective(v.ready[p])
                         /\ \A w \in Task : Contains(v.ready[p], w) <=> Contains(x.ready[p], w) /\ w # t
      /\ \A o \in WaitObj : /\ IsInjective(v.wait[o])
                            /\ \A w \in Task : Contains(v.wait[o], w) <=> Contains(x.wait[o], w) /\ w # t
  <2>1. /\ \A p \in Prio : IsInjective(x.ready[p]) /\ ~Contains(x.ready[p], t)
        /\ \A o \in WaitObj : IsInjective(x.wait[o])
    BY <1>1, <1>2, <1>4 DEF Good, Queues, WaitLists
  <2>2. CASE Waits(x, t)
    <3>1. v = Unlink(u, t)
      BY <2>2
    <3>2. Linked(u, t)
      BY <1>1, <1>2, <1>3, <2>2 DEF Good, WaitLists, Linked
    <3>3. /\ v \in Kernel /\ SameRest(u, v)
          /\ v.status = u.status /\ v.prio = u.prio /\ v.due = u.due
          /\ v.fault = (u.fault \/ ~Linked(u, t))
          /\ \A p \in Prio : v.ready[p] = RemoveFirst(u.ready[p], t)
          /\ \A o \in WaitObj : v.wait[o] = RemoveFirst(u.wait[o], t)
      <4>1. u \in Kernel /\ t \in Task
        BY <1>2, <1>3
      <4>2. LET y == Unlink(u, t)
            IN /\ y \in Kernel /\ SameRest(u, y)
               /\ y.status = u.status /\ y.prio = u.prio /\ y.due = u.due
               /\ y.fault = (u.fault \/ ~Linked(u, t))
               /\ \A p \in Prio : y.ready[p] = RemoveFirst(u.ready[p], t)
               /\ \A o \in WaitObj : y.wait[o] = RemoveFirst(u.wait[o], t)
        BY ONLY <4>1, UnlinkFacts
      <4> HIDE DEF v
      <4> QED BY <3>1, <4>2
    <3> HIDE DEF v
    <3>4. /\ \A p \in Prio : /\ IsInjective(v.ready[p])
                             /\ \A w \in Task : Contains(v.ready[p], w) <=> Contains(x.ready[p], w) /\ w # t
          /\ \A o \in WaitObj : /\ IsInjective(v.wait[o])
                                /\ \A w \in Task : Contains(v.wait[o], w) <=> Contains(x.wait[o], w) /\ w # t
      BY <1>1, <1>3, <2>1, <3>3, KernelType, RemoveFirstList
    <3>5. ~v.fault
      BY <1>3, <3>2, <3>3
    <3>6. SameRest(x, v) /\ v.status = x.status /\ v.prio = x.prio /\ v.due = u.due
      BY <1>3, <3>3 DEF SameRest
    <3> QED BY <3>3, <3>4, <3>5, <3>6
  <2>3. CASE ~Waits(x, t)
    <3>1. \A o \in WaitObj : ~Contains(x.wait[o], t)
      BY <1>1, <1>2, <2>3 DEF Good, WaitLists
    <3>2. v = u
      BY <2>3
    <3> HIDE DEF v
    <3> QED BY <1>3, <2>1, <3>1, <3>2
  <2> QED BY <2>2, <2>3
<1> HIDE DEF v
<1>8. f \in SUBSET Flag
  BY <1>1, <1>2, KernelType
<1>9. /\ f \subseteq x.status[t]
      /\ \A h \in {"UNUSED", "READY", "SUSPEND", "TIMEOUT"} : h \in f <=> Has(x, t, h)
      /\ "DELAY" \notin f /\ "PEND" \notin f /\ "PEND_QUEUE" \notin f
      /\ \A h \in {"PEND", "PEND_QUEUE"} : Has(x, t, h) => "TIMEOUT" \in f
  BY <1>4 DEF Has, FlagsOf, Clocked, Waits
<1> HIDE DEF f
<1>10. /\ z \in Kernel /\ SameRest(v, z)
       /\ z.status[t] = f /\ \A w \in Task : w # t => z.status[w] = v.status[w]
       /\ z.prio = v.prio /\ z.ready = v.ready /\ z.wait = v.wait /\ z.due = v.due
       /\ z.fault = v.fault
  BY <1>2, <1>7, <1>8 DEF Kernel, SameRest
<1> HIDE DEF z
<1>11. /\ SameRest(x, z) /\ z.prio = x.prio /\ ~z.fault
       /\ \A w \in Task : w # t => z.status[w] = x.status[w]
  BY <1>7, <1>10 DEF SameRest
<1>12. /\ ~Stopped(z, t) /\ ~Has(z, t, "UNUSED") /\ ~Has(z, t, "READY")
       /\ \A h \in {"SUSPEND", "TIMEOUT"} : Has(z, t, h) <=> Has(x, t, h)
       /\ ~Has(z, t, "PEND") /\ ~Has(z, t, "PEND_QUEUE")
  BY <1>4, <1>9, <1>10 DEF Has, Stopped, Waits
<1>13. Good(z)
  <2>1. \A n \in 0 .. MaxTimeout :
          /\ IsInjective(z.due[n])
          /\ \A w \in Task : Contains(z.due[n], w) <=> Contains(x.due[n], w) /\ w # t
    <3>1. /\ z.due[0] = Tail(x.due[0])
          /\ \A n \in 0 .. MaxTimeout : n # 0 => z.due[n] = x.due[n]
      BY <1>3, <1>7, <1>10
    <3>2. \A n \in 0 .. MaxTimeout : Contains(x.due[n], t) => n = 0
      BY <1>1, <1>2 DEF Good, Timers
    <3> QED BY <1>1, <1>2, <3>1, <3>2 DEF Good, Timers
  <2>2. /\ \A p \in Prio :
             /\ IsInjective(z.ready[p])
             /\ \A w \in Task : Contains(z.ready[p], w) <=> Contains(x.ready[p], w) /\ w # t
        /\ \A o \in WaitObj :
             /\ IsInjective(z.wait[o])
             /\ \A w \in Task : Contains(z.wait[o], w) <=> Contains(x.wait[o], w) /\ w # t
    BY <1>7, <1>10
  <2> QED BY <1>1, <1>2, <1>10, <1>11, <1>12, <2>1, <2>2, LeavesGood
<1>14. /\ \A w \in Task : /\ Has(z, w, "UNUSED") <=> Has(x, w, "UNUSED")
                          /\ Stopped(z, w) => Stopped(x, w)
       /\ Has(z, Idle, "READY")
  <2>1. \A w \in Task : w # t => /\ Has(z, w, "UNUSED") <=> Has(x, w, "UNUSED")
                                 /\ Stopped(z, w) <=> Stopped(x, w)
    BY <1>11, FlagsShared
  <2>2. Has(z, Idle, "READY") <=> Has(x, Idle, "READY")
    BY <1>4, <1>11, TaskAssumption, FlagsShared
  <2> QED BY <1>1, <1>4, <1>12, <2>1, <2>2 DEF Sound
<1>15. Sound(z)
  BY <1>1, <1>11, <1>13, <1>14, KernelType DEF Sound, SameRest
<1>16. Ok(z)
  BY <1>10, <1>13, <1>14, <1>15, TaskAssumption, KernelType DEF Ok, Good, Queues, IdleQueued
<1>17. Patient(x, z)
  <2>1. ASSUME NEW w \in Task
        PROVE  /\ \A h \in {"PEND", "PEND_QUEUE"} :
                    /\ Has(z, w, h) => Has(x, w, h)
                    /\ Has(x, w, h) => Has(z, w, h) \/ Has(z, w, "TIMEOUT")
               /\ Has(z, w, "TIMEOUT") <=> Has(x, w, "TIMEOUT")
    <3>1. CASE w = t
      BY <1>9, <1>12, <3>1
    <3>2. CASE w # t
      BY <1>11, <3>2, FlagsShared
    <3> QED BY <3>1, <3>2
  <2>2. \A w \in Task, o \in WaitObj : Contains(z.wait[o], w) => Contains(x.wait[o], w)
    BY <1>7, <1>10
  <2> QED BY <2>1, <2>2 DEF Patient
<1>18. Frame(x, z)
  <2>1. Calm(x, z)
    BY <1>1, <1>11, <1>14, CalmSame DEF SameRest
  <2> QED BY <1>11, <1>14, <1>17, <2>1 DEF Frame, Gentle, Keeps, KeepsTcbs, SameRest
<1>19. CASE Has(u, t, "SUSPEND")
  BY <1>5, <1>16, <1>18, <1>19 DEF t, u
<1>20. CASE ~Has(u, t, "SUSPEND")
  <2>1. Startable(z, t)
    BY <1>6, <1>12, <1>20 DEF Startable
  <2>2. Ok(MakeReady(z, t)) /\ Frame(z, MakeReady(z, t))
    BY <1>2, <1>16, <2>1, MakeReadyOk
  <2>3. Expired(u, t) = MakeReady(z, t)
    BY <1>5, <1>20
  <2>4. Ok(Expired(u, t)) /\ Frame(x, Expired(u, t))
    BY <1>18, <2>2, <2>3, FrameTransitive
  <2> QED BY <2>4 DEF t, u
<1> QED BY <1>19, <1>20

(***************************************************************************)
(* Deletion.                                                               *)
(***************************************************************************)
LEMMA UntimedFacts ==
  ASSUME NEW x \in Kernel, NEW t \in Task
  PROVE  LET y == Untimed(x, t)
         IN /\ y \in Kernel /\ SameRest(x, y)
            /\ y.status = x.status /\ y.prio = x.prio
            /\ y.ready = x.ready /\ y.wait = x.wait
            /\ x.fault => y.fault
            /\ x.due[0] = <<>> => y.due[0] = <<>>
            /\ Timers(x) => \A n \in 0 .. MaxTimeout :
                 /\ IsInjective(y.due[n])
                 /\ \A u \in Task : Contains(y.due[n], u) <=> Contains(x.due[n], u) /\ u # t
<1> DEFINE y == osTimerListDelete(x, t)
<1>1. CASE x.status[t] \cap {"DELAY", "TIMEOUT"} = {}
  <2>1. Timers(x) => \A n \in 0 .. MaxTimeout : ~Contains(x.due[n], t)
    BY <1>1 DEF Timers, InTimer, Clocked, Has
  <2>2. Untimed(x, t) = x
    BY <1>1 DEF Untimed
  <2> QED BY <2>1, <2>2 DEF Timers, SameRest
<1>2. CASE x.status[t] \cap {"DELAY", "TIMEOUT"} # {}
  <2>1. Untimed(x, t) = y
    BY <1>2 DEF Untimed
  <2>2. \A n \in 0 .. MaxTimeout : RemoveFirst(x.due[n], t) \in Seq(Task)
    BY KernelType, RemoveFirstType
  <2>3. /\ y \in Kernel /\ SameRest(x, y)
        /\ y.status = x.status /\ y.prio = x.prio
        /\ y.ready = x.ready /\ y.wait = x.wait
        /\ x.fault => y.fault
        /\ \A n \in 0 .. MaxTimeout : y.due[n] = RemoveFirst(x.due[n], t)
    BY <2>2 DEF osTimerListDelete, Kernel, SameRest
  <2> HIDE DEF y
  <2>4. x.due[0] = <<>> => y.due[0] = <<>>
    <3>1. RemoveFirst(<<>>, t) = <<>>
      BY DEF RemoveFirst
    <3> QED BY <2>3, <3>1, TaskAssumption
  <2>5. Timers(x) => \A n \in 0 .. MaxTimeout :
                 /\ IsInjective(y.due[n])
                 /\ \A u \in Task : Contains(y.due[n], u) <=> Contains(x.due[n], u) /\ u # t
    BY <2>3, KernelType, RemoveFirstList DEF Timers
  <2> QED BY <2>1, <2>3, <2>4, <2>5
<1> QED BY <1>1, <1>2

LEMMA UnhookedOk ==
  ASSUME NEW x, Ok(x), NEW t \in Task \ {Idle}, ~x.fault
  PROVE  LET y == Unhooked(x, t)
         IN /\ y \in Kernel /\ IdleQueued(y) /\ SameRest(x, y)
            /\ y.prio = x.prio /\ y.due = x.due
            /\ y.status[t] = x.status[t] \ {"READY"}
            /\ \A u \in Task : u # t => y.status[u] = x.status[u]
            /\ \A p \in Prio :
                 /\ IsInjective(y.ready[p])
                 /\ \A u \in Task : Contains(y.ready[p], u) <=> Contains(x.ready[p], u) /\ u # t
            /\ \A o \in WaitObj :
                 /\ IsInjective(y.wait[o])
                 /\ \A u \in Task : Contains(y.wait[o], u) <=> Contains(x.wait[o], u) /\ u # t
<1> DEFINE y == Unhooked(x, t)
<1>1. x \in Kernel /\ IdleQueued(x) /\ Good(x)
  BY DEF Ok, Sound
<1>2. /\ \A p \in Prio : IsInjective(x.ready[p]) /\ (Contains(x.ready[p], t) => Has(x, t, "READY"))
      /\ \A o \in WaitObj : IsInjective(x.wait[o]) /\ (Contains(x.wait[o], t) => Waits(x, t))
  BY <1>1 DEF Good, Queues, WaitLists
<1>3. CASE Has(x, t, "READY") \/ Waits(x, t)
  <2>1. y = IF Has(x, t, "READY") THEN MakeUnready(x, t) ELSE Unlink(x, t)
    BY <1>3 DEF Unhooked, Waits, Has
  <2>2. /\ y \in Kernel /\ SameRest(x, y) /\ y.prio = x.prio /\ y.due = x.due
        /\ \A p \in Prio : y.ready[p] = RemoveFirst(x.ready[p], t)
        /\ \A o \in WaitObj : y.wait[o] = RemoveFirst(x.wait[o], t)
    <3>1. CASE Has(x, t, "READY")
      <4>1. y = MakeUnready(x, t)
        BY <2>1, <3>1
      <4> HIDE DEF y
      <4> QED BY <1>1, <4>1, MakeUnreadyFacts
    <3>2. CASE ~Has(x, t, "READY")
      <4>1. y = Unlink(x, t)
        BY <2>1, <3>2
      <4> HIDE DEF y
      <4> QED BY <1>1, <4>1, UnlinkFacts
    <3> QED BY <3>1, <3>2
  <2>3. IdleQueued(y)
    BY <1>1, <2>1, IdleStaysQueued
  <2>4. /\ y.status[t] = x.status[t] \ {"READY"}
        /\ \A u \in Task : u # t => y.status[u] = x.status[u]
    <3>1. CASE Has(x, t, "READY")
      <4>1. y.status = [x.status EXCEPT ![t] = @ \ {"READY"}]
        BY <1>1, <2>1, <3>1, MakeUnreadyFacts
      <4> QED BY <1>1, <4>1 DEF Kernel
    <3>2. CASE ~Has(x, t, "READY")
      <4>1. y.status = x.status
        BY <1>1, <2>1, <3>2, UnlinkFacts
      <4> QED BY <3>2, <4>1 DEF Has
    <3> QED BY <3>1, <3>2
  <2> HIDE DEF y
  <2>5. /\ \A p \in Prio :
                 /\ IsInjective(y.ready[p])
                 /\ \A u \in Task : Contains(y.ready[p], u) <=> Contains(x.ready[p], u) /\ u # t
        /\ \A o \in WaitObj :
                 /\ IsInjective(y.wait[o])
                 /\ \A u \in Task : Contains(y.wait[o], u) <=> Contains(x.wait[o], u) /\ u # t
    BY <1>1, <1>2, <2>2, KernelType, RemoveFirstList
  <2> QED BY <2>2, <2>3, <2>4, <2>5 DEF y
<1>4. CASE ~Has(x, t, "READY") /\ ~Waits(x, t)
  <2>1. y = x
    BY <1>4 DEF Unhooked, Waits, Has
  <2> QED BY <1>1, <1>2, <1>4, <2>1 DEF SameRest, Has
<1> QED BY <1>3, <1>4

(* t is in no queue, wait list or timer, whatever its flags still say. *)
Released(x, t) ==
  Good([x EXCEPT !.status[t] = {"UNUSED"}]) /\ Has(x, Idle, "READY")

(* y is x after the deletion of t. *)
Gone(x, y, t) ==
  /\ y \in Kernel /\ IdleQueued(y)
  /\ x.fault => y.fault
  /\ y.due[0] = <<>> \/ x.due[0] # <<>>
  /\ x.pendsv => y.pendsv
  /\ y.scheduled = x.scheduled
  /\ y.status[t] = {"UNUSED"}
  /\ \A u \in Task : u # t => y.status[u] = x.status[u]
  /\ \A u \in Task, o \in WaitObj : Contains(y.wait[o], u) => Contains(x.wait[o], u)
  /\ t = x.run => /\ y.run = Dummy
                  /\ y.recycle = Append(x.recycle, t) /\ y.free = x.free
  /\ t # x.run => /\ y.run = x.run /\ y.lock = x.lock
                  /\ y.recycle = x.recycle /\ y.free = <<t>> \o x.free
  /\ ~y.fault =>
       /\ Good(y) /\ Has(y, Idle, "READY")
       /\ ~Has(y, y.new, "UNUSED") /\ ~Stopped(y, y.new)

(* The other tasks keep their flags. *)
LEMMA GoneOthers ==
  ASSUME NEW x, NEW y, NEW t \in Task, Gone(x, y, t)
  PROVE  /\ \A u \in Task : u # t => (Has(y, u, "UNUSED") <=> Has(x, u, "UNUSED"))
         /\ \A u \in Task : Stopped(y, u) => u # t /\ Stopped(x, u)
<1>1. \A u \in Task : u # t => /\ Has(y, u, "UNUSED") <=> Has(x, u, "UNUSED")
                               /\ Stopped(y, u) <=> Stopped(x, u)
  BY FlagsShared DEF Gone
<1>2. ~Stopped(y, t)
  BY DEF Gone, Stopped, Waits, Has
<1> QED BY <1>1, <1>2
LEMMA BuriedGone ==
  ASSUME NEW x \in Kernel, IdleQueued(x), NEW t \in Task \ {Idle},
         ~x.fault => Released(x, t)
  PROVE  Gone(x, Buried(x, t), t)
<1> DEFINE top == LOS_PriqueueTop(x)
           w == [x EXCEPT !.status[t] = {"UNUSED"}]
           v == [x EXCEPT !.status[t] = {"UNUSED"}, !.fault = @ \/ Linked(x, t), !.new = top]
           y == IF t = x.run THEN [v EXCEPT !.recycle = Append(@, t), !.run = Dummy]
                ELSE [v EXCEPT !.free = <<t>> \o @]
<1>1. top \in Task
  BY TopFacts
<1>2. Buried(x, t) = y
  BY DEF Buried
<1>3. Linked(x, t) \in BOOLEAN
  BY DEF Linked
<1>4. \E p \in Prio : Contains(x.ready[p], top)
  BY TopFacts
<1>5. /\ w.status = [x.status EXCEPT ![t] = {"UNUSED"}]
      /\ w.prio = x.prio /\ w.ready = x.ready /\ w.wait = x.wait /\ w.due = x.due
  BY DEF Kernel
<1> HIDE DEF top, w
<1>6. /\ v \in Kernel /\ v.status = [x.status EXCEPT ![t] = {"UNUSED"}]
      /\ v.prio = x.prio /\ v.ready = x.ready /\ v.wait = x.wait /\ v.due = x.due
      /\ v.free = x.free /\ v.recycle = x.recycle /\ v.run = x.run /\ v.new = top
      /\ v.pendsv = x.pendsv /\ v.scheduled = x.scheduled /\ v.lock = x.lock
      /\ v.fault = (x.fault \/ Linked(x, t))
  BY <1>1, <1>3 DEF Kernel, Flag
<1> HIDE DEF v
<1>7. /\ Append(x.recycle, t) \in Seq(Task) /\ <<t>> \o x.free \in Seq(Task)
      /\ Dummy \in Thread
  BY KernelType, AppendList, PushList DEF Thread
<1>8. /\ y \in Kernel /\ y.status = [x.status EXCEPT ![t] = {"UNUSED"}]
      /\ y.prio = x.prio /\ y.ready = x.ready /\ y.wait = x.wait /\ y.due = x.due
      /\ y.new = top /\ y.pendsv = x.pendsv /\ y.scheduled = x.scheduled
      /\ y.lock = x.lock
      /\ y.fault = (x.fault \/ Linked(x, t))
      /\ t = x.run => /\ y.run = Dummy
                      /\ y.recycle = Append(x.recycle, t) /\ y.free = x.free
      /\ t # x.run => /\ y.run = x.run
                      /\ y.recycle = x.recycle /\ y.free = <<t>> \o x.free
  <2>1. CASE t = x.run
    BY <1>6, <1>7, <2>1 DEF Kernel
  <2>2. CASE t # x.run
    BY <1>6, <1>7, <2>2 DEF Kernel
  <2> QED BY <2>1, <2>2
<1> HIDE DEF y
<1>9. /\ y.status[t] = {"UNUSED"}
      /\ \A u \in Task : u # t => y.status[u] = x.status[u]
  BY <1>8 DEF Kernel
<1>10. IdleQueued(y)
  BY <1>8 DEF IdleQueued
<1>11. ASSUME ~y.fault
       PROVE  /\ Good(y) /\ Has(y, Idle, "READY")
              /\ ~Has(y, y.new, "UNUSED") /\ ~Stopped(y, y.new)
  <2>1. Good(w) /\ Has(x, Idle, "READY")
    BY <1>8, <1>11 DEF Released, w
  <2>2. Good(y)
    BY <1>5, <1>8, <2>1, GoodShared DEF SameLists
  <2>3. Has(y, top, "READY") /\ FlagsOf(y, top)
    BY <1>1, <1>4, <1>8, <2>2 DEF Good, Queues, Flags
  <2>4. Has(y, Idle, "READY")
    BY <1>9, <2>1, TaskAssumption DEF Has
  <2> QED BY <1>8, <2>2, <2>3, <2>4 DEF FlagsOf, Has
<1> QED BY <1>2, <1>8, <1>9, <1>10, <1>11 DEF Gone

(* LOS_TaskDelete. *)
LEMMA DeletedGone ==
  ASSUME NEW x, Ok(x), ~x.fault, NEW t \in Task \ {Idle}
  PROVE  Gone(x, Deleted(x, t), t)
<1> DEFINE u == Unhooked(x, t)
           v == Untimed(u, t)
           y == Buried(v, t)
           w == [v EXCEPT !.status[t] = {"UNUSED"}]
<1>0. x \in Kernel /\ Good(x) /\ Has(x, Idle, "READY")
  BY DEF Ok, Sound
<1>1. /\ u \in Kernel /\ IdleQueued(u) /\ SameRest(x, u)
      /\ u.prio = x.prio /\ u.due = x.due
      /\ u.status[t] = x.status[t] \ {"READY"}
      /\ \A s \in Task : s # t => u.status[s] = x.status[s]
      /\ \A p \in Prio :
           /\ IsInjective(u.ready[p])
           /\ \A s \in Task : Contains(u.ready[p], s) <=> Contains(x.ready[p], s) /\ s # t
      /\ \A o \in WaitObj :
           /\ IsInjective(u.wait[o])
           /\ \A s \in Task : Contains(u.wait[o], s) <=> Contains(x.wait[o], s) /\ s # t
  BY UnhookedOk
<1>2. Deleted(x, t) = y
  BY DEF Deleted
<1> HIDE DEF u
<1>3. /\ v \in Kernel /\ SameRest(u, v)
      /\ v.status = u.status /\ v.prio = u.prio
      /\ v.ready = u.ready /\ v.wait = u.wait
      /\ u.due[0] = <<>> => v.due[0] = <<>>
      /\ Timers(u) => \A n \in 0 .. MaxTimeout :
           /\ IsInjective(v.due[n])
           /\ \A s \in Task : Contains(v.due[n], s) <=> Contains(u.due[n], s) /\ s # t
  BY <1>1, UntimedFacts
<1> HIDE DEF v
<1>4. IdleQueued(v)
  BY <1>1, <1>3 DEF IdleQueued
<1>5. Timers(u)
  <2>1. \A s \in Task : Clocked(u, s) <=> Clocked(x, s)
    BY <1>1 DEF Clocked, Waits, Has
  <2> QED BY <1>0, <1>1, <2>1 DEF Good, Timers, InTimer
<1>6. Released(v, t)
  <2>1. /\ w \in Kernel /\ w.status = [v.status EXCEPT ![t] = {"UNUSED"}]
        /\ w.prio = v.prio /\ w.ready = v.ready /\ w.wait = v.wait /\ w.due = v.due
    BY <1>3 DEF Kernel, Flag
  <2>2. Good(w) <=> Good([v EXCEPT !.status[t] = {"UNUSED"}])
    OBVIOUS
  <2> HIDE DEF w
  <2>3. /\ w.status[t] = {"UNUSED"}
        /\ \A s \in Task : s # t => w.status[s] = x.status[s]
    <3>1. v.status \in [Task -> SUBSET Flag]
      BY <1>3 DEF Kernel
    <3> QED BY <1>1, <1>3, <2>1, <3>1
  <2>4. /\ ~Has(w, t, "READY") /\ ~Stopped(w, t)
        /\ Has(w, t, "UNUSED") => w.status[t] = {"UNUSED"}
    BY <2>3 DEF Has, Stopped, Waits
  <2>5. /\ w.prio = x.prio
        /\ \A p \in Prio :
             /\ IsInjective(w.ready[p])
             /\ \A s \in Task : Contains(w.ready[p], s) <=> Contains(x.ready[p], s) /\ s # t
        /\ \A o \in WaitObj :
             /\ IsInjective(w.wait[o])
             /\ \A s \in Task : Contains(w.wait[o], s) <=> Contains(x.wait[o], s) /\ s # t
        /\ \A n \in 0 .. MaxTimeout :
             /\ IsInjective(w.due[n])
             /\ \A s \in Task : Contains(w.due[n], s) <=> Contains(x.due[n], s) /\ s # t
    BY <1>1, <1>3, <1>5, <2>1
  <2>6. Good(w)
    BY <1>0, <2>1, <2>3, <2>4, <2>5, LeavesGood
  <2>7. Has(v, Idle, "READY")
    BY <1>0, <1>1, <1>3, TaskAssumption DEF Has
  <2> QED BY <2>2, <2>6, <2>7 DEF Released
<1>7. Gone(v, y, t)
  BY <1>3, <1>4, <1>6, BuriedGone
<1> HIDE DEF y
<1>8. /\ \A s \in Task : s # t => v.status[s] = x.status[s]
      /\ \A s \in Task, o \in WaitObj : Contains(v.wait[o], s) => Contains(x.wait[o], s)
      /\ v.free = x.free /\ v.recycle = x.recycle /\ v.run = x.run
      /\ v.scheduled = x.scheduled /\ v.lock = x.lock
      /\ v.pendsv = x.pendsv
      /\ x.due[0] = <<>> => v.due[0] = <<>>
  BY <1>1, <1>3 DEF SameRest
<1> QED BY <1>2, <1>7, <1>8 DEF Gone

(* osTaskEntry of a detached task: its timer is not running, because no task
   comes back from LOS_TaskDelay while it is delayed.                        *)
LEMMA SelfDeleteGone ==
  ASSUME NEW x, Ok(x), ~x.fault, NEW t \in Task \ {Idle}, ~Stopped(x, t)
  PROVE  Gone(x, osTaskSelfDelete(x, t), t)
<1> DEFINE u == Unhooked(x, t)
           y == Buried(u, t)
           w == [u EXCEPT !.status[t] = {"UNUSED"}]
<1>0. x \in Kernel /\ Good(x) /\ Has(x, Idle, "READY")
  BY DEF Ok, Sound
<1>1. /\ u \in Kernel /\ IdleQueued(u) /\ SameRest(x, u)
      /\ u.prio = x.prio /\ u.due = x.due
      /\ u.status[t] = x.status[t] \ {"READY"}
      /\ \A s \in Task : s # t => u.status[s] = x.status[s]
      /\ \A p \in Prio :
           /\ IsInjective(u.ready[p])
           /\ \A s \in Task : Contains(u.ready[p], s) <=> Contains(x.ready[p], s) /\ s # t
      /\ \A o \in WaitObj :
           /\ IsInjective(u.wait[o])
           /\ \A s \in Task : Contains(u.wait[o], s) <=> Contains(x.wait[o], s) /\ s # t
  BY UnhookedOk
<1>2. osTaskSelfDelete(x, t) = y
  BY DEF osTaskSelfDelete, Stopped, Waits, Has
<1> HIDE DEF u
<1>3. Released(u, t)
  <2>1. /\ w \in Kernel /\ w.status = [u.status EXCEPT ![t] = {"UNUSED"}]
        /\ w.prio = u.prio /\ w.ready = u.ready /\ w.wait = u.wait /\ w.due = u.due
    BY <1>1 DEF Kernel, Flag
  <2>2. Good(w) <=> Good([u EXCEPT !.status[t] = {"UNUSED"}])
    OBVIOUS
  <2> HIDE DEF w
  <2>3. /\ w.status[t] = {"UNUSED"}
        /\ \A s \in Task : s # t => w.status[s] = x.status[s]
    BY <1>1, <2>1 DEF Kernel
  <2>4. /\ ~Has(w, t, "READY") /\ ~Stopped(w, t)
        /\ Has(w, t, "UNUSED") => w.status[t] = {"UNUSED"}
    BY <2>3 DEF Has, Stopped, Waits
  <2>5. ~Clocked(x, t)
    BY DEF Clocked, Stopped
  <2>6. \A n \in 0 .. MaxTimeout :
          /\ IsInjective(w.due[n])
          /\ \A s \in Task : Contains(w.due[n], s) <=> Contains(x.due[n], s) /\ s # t
    BY <1>0, <1>1, <2>1, <2>5 DEF Good, Timers, InTimer
  <2>7. Good(w)
    <3>1. /\ w.prio = x.prio
          /\ \A p \in Prio :
               /\ IsInjective(w.ready[p])
               /\ \A s \in Task : Contains(w.ready[p], s) <=> Contains(x.ready[p], s) /\ s # t
          /\ \A o \in WaitObj :
               /\ IsInjective(w.wait[o])
               /\ \A s \in Task : Contains(w.wait[o], s) <=> Contains(x.wait[o], s) /\ s # t
      BY <1>1, <2>1
    <3> QED BY <1>0, <2>1, <2>3, <2>4, <2>6, <3>1, LeavesGood
  <2>8. Has(u, Idle, "READY")
    BY <1>0, <1>1, TaskAssumption DEF Has
  <2> QED BY <2>2, <2>7, <2>8 DEF Released
<1>4. Gone(u, y, t)
  BY <1>1, <1>3, BuriedGone
<1> HIDE DEF y
<1>5. /\ \A s \in Task : s # t => u.status[s] = x.status[s]
      /\ \A s \in Task, o \in WaitObj : Contains(u.wait[o], s) => Contains(x.wait[o], s)
      /\ u.free = x.free /\ u.recycle = x.recycle /\ u.run = x.run
      /\ u.scheduled = x.scheduled /\ u.lock = x.lock /\ u.pendsv = x.pendsv
  BY <1>1 DEF SameRest
<1> QED BY <1>1, <1>2, <1>4, <1>5 DEF Gone

(***************************************************************************)
(* Creation.                                                               *)
(***************************************************************************)
LEMMA FilledOk ==
  ASSUME NEW x, Ok(x), ~x.fault, NEW t \in Task, NEW p \in Prio, NEW d \in BOOLEAN,
         Has(x, t, "UNUSED"), ~Contains(x.free, t), ~Contains(x.recycle, t)
  PROVE  LET y == Filled(x, t, p, d)
         IN /\ Ok(y) /\ SameRest(x, y) /\ y.due = x.due /\ y.wait = x.wait /\ y.fault = x.fault
            /\ ~Has(y, t, "UNUSED") /\ ~Stopped(y, t)
            /\ \A u \in Task : u # t => y.status[u] = x.status[u]
<1> DEFINE f == {"SUSPEND"} \cup (IF d THEN {"DETACHED"} ELSE {})
           y == Filled(x, t, p, d)
<1>1. f \in SUBSET Flag
  BY DEF Flag
<1>2. /\ y \in Kernel /\ SameRest(x, y)
      /\ y.status = [x.status EXCEPT ![t] = f]
      /\ y.prio = [x.prio EXCEPT ![t] = p]
      /\ y.ready = x.ready /\ y.wait = x.wait /\ y.due = x.due /\ y.fault = x.fault
  <2> HIDE DEF f
  <2> QED BY <1>1 DEF Filled, Ok, Kernel, SameRest, f
<1> HIDE DEF y
<1>3. /\ y.status[t] = f
      /\ \A u \in Task : u # t => y.status[u] = x.status[u] /\ y.prio[u] = x.prio[u]
  <2> HIDE DEF f
  <2> QED BY <1>2 DEF Ok, Kernel
<1>4. /\ ~Has(y, t, "UNUSED") /\ ~Stopped(y, t) /\ ~Has(y, t, "READY")
      /\ ~Waits(y, t) /\ ~Clocked(y, t) /\ FlagsOf(y, t)
  BY <1>3 DEF Has, Stopped, Waits, Clocked, FlagsOf
<1>5. Good(x) /\ x.status[t] = {"UNUSED"}
  BY DEF Ok, Sound, Good, Flags, FlagsOf
<1>6. ~Has(x, t, "READY") /\ ~Waits(x, t) /\ ~Clocked(x, t)
  BY <1>5 DEF Has, Waits, Clocked
<1>7. \A u \in Task : u # t => /\ \A g : Has(y, u, g) <=> Has(x, u, g)
                               /\ Waits(y, u) <=> Waits(x, u)
                               /\ Clocked(y, u) <=> Clocked(x, u)
                               /\ FlagsOf(y, u) <=> FlagsOf(x, u)
  BY <1>3, FlagsShared
<1>8. Queues(y)
  BY <1>2, <1>3, <1>4, <1>5, <1>6, <1>7 DEF Good, Queues
<1>9. Timers(y) /\ WaitLists(y) /\ Flags(y)
  BY <1>2, <1>4, <1>5, <1>6, <1>7 DEF Good, Timers, WaitLists, Flags, InTimer
<1>10. Has(y, Idle, "READY")
  <2>1. Idle # t
    BY <1>6 DEF Ok, Sound
  <2> QED BY <1>7, <2>1, TaskAssumption DEF Ok, Sound
<1>11. \A u \in Task : Has(y, u, "UNUSED") <=> (Has(x, u, "UNUSED") /\ u # t)
  BY <1>4, <1>7
<1>12. Sound(y)
  BY <1>2, <1>8, <1>9, <1>10, <1>11, KernelType DEF Ok, Sound, Good, SameRest
<1> QED BY <1>2, <1>3, <1>4, <1>12 DEF Ok, IdleQueued, y

LEMMA StartedOk ==
  ASSUME NEW x, Ok(x), ~x.fault, NEW t \in Task, ~Has(x, t, "UNUSED"), ~Stopped(x, t)
  PROVE  /\ Ok(Started(x, t)) /\ Frame(x, Started(x, t))
         /\ Started(x, t).due = x.due
<1> DEFINE u == Unsuspended(x, t)
           y == MakeReady(u, t)
           top == LOS_PriqueueTop(y)
           z == [y EXCEPT !.new = top]
<1>1. /\ Ok(u) /\ Frame(x, u) /\ u.fault = x.fault
      /\ u.status[t] = x.status[t] \ {"SUSPEND"}
      /\ u.due = x.due
  <2>1. u.due = x.due
    BY DEF Unsuspended, Ok, Kernel
  <2> QED BY <2>1, UnsuspendedOk
<1>2. Started(x, t) = IF x.scheduled /\ x.lock = 0 /\ x.run # top THEN osSchedule(z) ELSE z
  BY DEF Started
<1> HIDE DEF u
<1>3. Ok(y) /\ Frame(u, y) /\ y.due = u.due
  <2>1. Startable(u, t)
    BY <1>1 DEF Has, Startable, Stopped, Waits
  <2> QED BY <1>1, <2>1, MakeReadyOk
<1> HIDE DEF y
<1>4. Ok(z) /\ Frame(y, z) /\ z.due = y.due
  BY <1>3, NewTopOk DEF Ok, Kernel
<1>5. ~z.fault => ~Stopped(z, z.new)
  <2>1. z.new = top /\ z.status = y.status /\ z.fault = y.fault
    BY <1>3, TopFacts DEF Ok, Kernel
  <2>2. ~y.fault => ~Stopped(y, top)
    BY <1>3, TopIsReady DEF Ok, Sound
  <2> HIDE DEF z, top
  <2> QED BY <2>1, <2>2, FlagsShared
<1> HIDE DEF z
<1>6. Frame(x, z) /\ z.scheduled = x.scheduled
  BY <1>1, <1>3, <1>4, FrameTransitive DEF Frame, Gentle, Keeps, KeepsTcbs
<1>7. x.scheduled => Ok(osSchedule(z)) /\ Frame(z, osSchedule(z))
  BY <1>4, <1>5, <1>6, PendOk
<1>8. osSchedule(z).due = z.due
  BY <1>4 DEF osSchedule, Ok, Kernel
<1> HIDE DEF top
<1>9. CASE x.scheduled /\ x.lock = 0 /\ x.run # top
  BY <1>1, <1>2, <1>3, <1>4, <1>6, <1>7, <1>8, <1>9, FrameTransitive
<1>10. CASE ~(x.scheduled /\ x.lock = 0 /\ x.run # top)
  <2>1. Started(x, t) = z
    BY <1>2, <1>10
  <2> QED BY <1>1, <1>3, <1>4, <1>6, <2>1
<1> QED BY <1>9, <1>10

(***************************************************************************)
(* Steps.                                                                  *)
(***************************************************************************)
LEMMA Start ==
  ASSUME IInv, ~k.fault
  PROVE  Ok(k) /\ Sound(k) /\ Tcbs(k, fresh) /\ Running /\ Creating /\ Delaying(k)
<1>1. k \in Kernel /\ Sound(k)
  BY DEF IInv, TypeOK
<1>2. Contains(k.ready[k.prio[Idle]], Idle) /\ k.prio[Idle] \in Prio
  BY <1>1, TaskAssumption, KernelType DEF Sound, Good, Queues
<1> QED BY <1>1, <1>2 DEF IInv, Ok, IdleQueued

(* A step that creates and deletes no task. *)
LEMMA FrameStep ==
  ASSUME IInv, ~k.fault, Ok(k'), KeepsTcbs(k, k'), fresh' = fresh,
         pc' \in [Thread -> Control], tick' \in {"off", "scan", "ready"}, cut' \in Seq(Task),
         tick' = tick \/ k.scheduled, pc'[Idle] = "user",
         k.scheduled => pc'[Dummy] \in {"none", "switch"},
         ~k.scheduled => pc'[Dummy] \in {"user", "alloc"},
         \A u \in Thread : pc'[u] = "alloc" <=> pc[u] = "alloc",
         ~k'.fault /\ tick' = "off" => k'.due[0] = <<>>,
         ~k'.fault => Delaying(k)'
  PROVE  IInv'
<1>1. TypeOK'
  BY DEF IInv, TypeOK, Ok
<1>2. ASSUME ~k'.fault
      PROVE  Sound(k') /\ Tcbs(k', fresh') /\ Running' /\ Creating' /\ Delaying(k)'
  <2>1. Sound(k')
    BY <1>2 DEF Ok
  <2>2. Tcbs(k', fresh')
    BY Start DEF Tcbs, KeepsTcbs
  <2>3. Running'
    BY <1>2, Start DEF Running, KeepsTcbs
  <2>4. Creating'
    BY Start DEF Creating, KeepsTcbs, Thread
  <2> QED BY <1>2, <2>1, <2>2, <2>3, <2>4
<1> QED BY <1>1, <1>2 DEF IInv

(* The same, when no thread moves or the moving one has not delayed itself. *)
LEMMA CalmStep ==
  ASSUME IInv, ~k.fault, Ok(k'), Gentle(k, k'), fresh' = fresh,
         tick' \in {"off", "scan", "ready"}, cut' \in Seq(Task),
         tick' = tick \/ k.scheduled,
         \/ pc' = pc
         \/ \E c \in Control \ {"alloc"} :
              /\ InTask(pc[k.run]) /\ pc[k.run] \notin {"sched", "pend", "alloc", "switch", "none"}
              /\ k.run # Idle /\ k.scheduled
              /\ pc' = [pc EXCEPT ![k.run] = c],
         ~k'.fault /\ tick' = "off" => k'.due[0] = <<>>
  PROVE  IInv'
<1>0. Running /\ Creating /\ Delaying(k) /\ pc \in [Thread -> Control] /\ k.run \in Thread
  BY Start DEF IInv, TypeOK, Ok, Kernel
<1>1. KeepsTcbs(k, k') /\ Calm(k, k') /\ k'.lock = k.lock
  BY DEF Gentle, Keeps
<1>2. ASSUME ~k'.fault, k'.run \in Task, Stopped(k', k'.run), ~k'.pendsv
      PROVE  k.run \in Task /\ pc[k.run] \in {"sched", "pend"} /\ k'.lock = 0 /\ k'.run = k.run
  BY <1>0, <1>1, <1>2 DEF Delaying, KeepsTcbs, Calm
<1>5. ASSUME ~k'.fault, k'.pendsv \/ k'.run = Dummy PROVE ~Stopped(k', k'.new)
  BY <1>0, <1>1, <1>5 DEF Delaying, KeepsTcbs, Calm
<1>6. ~k'.fault /\ ~k'.scheduled => \A t \in Task : ~Stopped(k', t)
  BY <1>0, <1>1 DEF Delaying, KeepsTcbs, Calm
<1>3. CASE pc' = pc
  <2>1. ~k'.fault => Delaying(k)'
    BY <1>2, <1>3, <1>5, <1>6 DEF Delaying
  <2> QED BY <1>0, <1>1, <1>3, <2>1, FrameStep DEF Running
<1>4. ASSUME NEW c \in Control \ {"alloc"},
             InTask(pc[k.run]), pc[k.run] \notin {"sched", "pend", "alloc", "switch", "none"},
             k.run # Idle, k.scheduled,
             pc' = [pc EXCEPT ![k.run] = c]
      PROVE  IInv'
  <2>1. pc' \in [Thread -> Control] /\ Idle \in Thread /\ Dummy \in Thread
    BY <1>0, <1>4, TaskAssumption DEF Thread
  <2>2. k.run # Dummy
    BY <1>0, <1>4 DEF Running
  <2>3. /\ pc'[Idle] = "user"
        /\ pc'[Dummy] \in {"none", "switch"}
        /\ \A u \in Thread : pc'[u] = "alloc" <=> pc[u] = "alloc"
    BY <1>0, <1>4, <2>1, <2>2 DEF Running
  <2>4. ~k'.fault => Delaying(k)'
    BY <1>2, <1>4, <1>5, <1>6 DEF Delaying
  <2> QED BY <1>1, <1>4, <2>1, <2>3, <2>4, FrameStep
<1> QED BY <1>3, <1>4

LEMMA TimersKept ==
  ASSUME NEW x \in Kernel, NEW t \in Task, NEW p \in Prio
  PROVE  /\ Suspended(x, t).due = x.due
         /\ Resumed(x, t).due = x.due
         /\ osTaskPriModify(x, t, p).due = x.due
         /\ LOS_Schedule(x).due = x.due
<1> DEFINE u == MakeUnready(x, t)
           v == Unsuspended(x, t)
           w == WithPrio(u, t, p)
           y == MakeReady(v, t)
           z == MakeReady(w, t)
<1>1. u \in Kernel /\ u.due = x.due
  BY MakeUnreadyFacts
<1>2. Suspended(x, t).due = x.due
  <2> HIDE DEF u
  <2>1. [u EXCEPT !.status[t] = @ \cup {"SUSPEND"}].due = u.due
    BY <1>1 DEF Kernel
  <2>2. [x EXCEPT !.status[t] = @ \cup {"SUSPEND"}].due = x.due
    BY DEF Kernel
  <2> QED BY <1>1, <2>1, <2>2 DEF Suspended, u
<1>3. Resumed(x, t).due = x.due
  <2>1. v \in Kernel /\ v.due = x.due
    BY DEF Unsuspended, Kernel
  <2> HIDE DEF v
  <2>2. y \in Kernel /\ y.due = v.due
    BY <2>1, MakeReadyFacts
  <2> HIDE DEF y
  <2>3. [y EXCEPT !.new = LOS_PriqueueTop(y)].due = y.due
    BY <2>2 DEF Kernel
  <2> QED BY <2>1, <2>2, <2>3 DEF Resumed, v, y
<1>4. osTaskPriModify(x, t, p).due = x.due
  <2> HIDE DEF u
  <2>1. w \in Kernel /\ w.due = u.due
    BY <1>1 DEF WithPrio, Kernel
  <2> HIDE DEF w
  <2>2. z.due = w.due
    BY <2>1, MakeReadyFacts
  <2>3. WithPrio(x, t, p).due = x.due
    BY DEF WithPrio, Kernel
  <2> QED BY <1>1, <2>1, <2>2, <2>3 DEF osTaskPriModify, u, w
<1>5. LOS_Schedule(x).due = x.due
  BY DEF LOS_Schedule, Kernel
<1> QED BY <1>2, <1>3, <1>4, <1>5

LEMMA CallStep ==
  ASSUME IInv, NEW op, NEW x, NEW r \in BOOLEAN, Call(op, x, r),
         Ok(x), Gentle(k, x), k.due[0] = <<>> => x.due[0] = <<>>, r => k.scheduled
  PROVE  IInv'
<1>0. /\ ~k.fault /\ Running /\ Idle \in Thread
      /\ fresh' = fresh /\ tick' = tick /\ cut' = cut
      /\ tick \in {"off", "scan", "ready"} /\ cut \in Seq(Task)
  BY Start, TaskAssumption DEF Call, UserCode, InTask, InIsr, IInv, TypeOK, Thread
<1>1. CASE UserCode /\ k' = x /\ IF r THEN Goto(k.run, "sched") ELSE UNCHANGED pc
  <2>1. InTask(pc[k.run]) /\ pc[k.run] = "user" /\ k.run # Idle
    BY <1>1 DEF UserCode, InTask
  <2>2. ~k'.fault /\ tick' = "off" => k'.due[0] = <<>>
    BY <1>0, <1>1 DEF Running
  <2>3. CASE r
    <3>1. pc' = [pc EXCEPT ![k.run] = "sched"] /\ k.scheduled
      BY <1>1, <2>3 DEF Goto
    <3> QED BY <1>0, <1>1, <2>1, <2>2, <3>1, CalmStep DEF Control
  <2>4. CASE ~r
    BY <1>0, <1>1, <2>2, <2>4, CalmStep
  <2> QED BY <2>3, <2>4
<1>2. CASE InIsr /\ k' = (IF r THEN LOS_Schedule(x) ELSE x) /\ UNCHANGED pc
  <2>1. x.scheduled
    BY <1>2 DEF InIsr, Gentle, Keeps, KeepsTcbs
  <2>2. Ok(k') /\ Gentle(k, k') /\ (k.due[0] = <<>> => k'.due[0] = <<>>)
    <3>1. Ok(LOS_Schedule(x)) /\ Gentle(x, LOS_Schedule(x))
      BY <2>1, ScheduleOk DEF Frame
    <3>2. LOS_Schedule(x).due = x.due
      <4>1. 0 \in Prio
        BY TaskAssumption DEF Prio
      <4> QED BY <4>1, TimersKept, TaskAssumption DEF Ok
    <3>3. Gentle(k, LOS_Schedule(x))
      BY <3>1, GentleTransitive
    <3> QED BY <1>2, <3>1, <3>2, <3>3
  <2>3. ~k'.fault /\ tick' = "off" => k'.due[0] = <<>>
    BY <1>0, <2>2 DEF Running
  <2> QED BY <1>0, <1>2, <2>2, <2>3, CalmStep
<1> QED BY <1>1, <1>2 DEF Call

LEMMA SuspendStep ==
  ASSUME IInv, NEW t \in Task, LOS_TaskSuspend(t)
  PROVE  IInv'
<1>1. /\ ~k.fault /\ t \in Task \ {Idle} /\ ~Has(k, t, "UNUSED") /\ k.scheduled
      /\ Call("suspend", Suspended(k, t), t = k.run)
  BY DEF LOS_TaskSuspend, Call, UserCode, InTask, InIsr
<1>2. Ok(k) /\ k \in Kernel
  BY <1>1, Start DEF Ok
<1>3. Suspended(k, t).due = k.due
  <2>1. \E p : p \in Prio
    BY TaskAssumption DEF Prio
  <2> QED BY <1>2, <2>1, TimersKept
<1> QED BY <1>1, <1>2, <1>3, SuspendedOk, CallStep DEF Frame

LEMMA ResumeStep ==
  ASSUME IInv, NEW t \in Task, LOS_TaskResume(t)
  PROVE  IInv'
<1> DEFINE r == k.scheduled /\ ~Blocked(Unsuspended(k, t), t)
<1>1. /\ ~k.fault /\ ~Has(k, t, "UNUSED")
      /\ Call("resume", Resumed(k, t), r)
  BY DEF LOS_TaskResume, Call, UserCode, InTask, InIsr
<1>2. Ok(k) /\ k \in Kernel /\ r \in BOOLEAN
  BY <1>1, Start, KernelType DEF Ok
<1>3. Resumed(k, t).due = k.due
  <2>1. \E p : p \in Prio
    BY TaskAssumption DEF Prio
  <2> QED BY <1>2, <2>1, TimersKept
<1> QED BY <1>1, <1>2, <1>3, ResumedOk, CallStep DEF Frame

LEMMA PriSetStep ==
  ASSUME IInv, NEW t \in Task, NEW p \in Prio, LOS_TaskPriSet(t, p)
  PROVE  IInv'
<1>1. /\ ~k.fault /\ t \in Task \ {Idle} /\ ~Has(k, t, "UNUSED") /\ k.scheduled
      /\ Call("priset", osTaskPriModify(k, t, p), Has(k, t, "READY"))
  BY DEF LOS_TaskPriSet, Call, UserCode, InTask, InIsr
<1>2. Ok(k) /\ k \in Kernel /\ Has(k, t, "READY") \in BOOLEAN
  BY <1>1, Start DEF Ok, Has
<1> QED BY <1>1, <1>2, PriModifyOk, TimersKept, CallStep DEF Frame

LEMMA DelayStep ==
  ASSUME IInv, NEW n \in 1 .. MaxTimeout, LOS_TaskDelay(n)
  PROVE  IInv'
<1>1. /\ ~k.fault /\ k.scheduled /\ k.lock = 0 /\ ~k.pendsv
      /\ tick = "off" /\ pc[k.run] = "user" /\ k.run # Idle
      /\ k' = Delayed(k, n) /\ pc' = [pc EXCEPT ![k.run] = "sched"]
      /\ fresh' = fresh /\ tick' = tick /\ cut' = cut
  BY DEF LOS_TaskDelay, UserCode, InTask, Goto
<1>2. /\ Ok(k) /\ Running /\ k.run \in Thread /\ Idle \in Thread /\ Dummy \in Thread
      /\ pc \in [Thread -> Control] /\ cut \in Seq(Task) /\ k.run # Dummy
      /\ Delaying(k)
  BY <1>1, Start, TaskAssumption DEF IInv, TypeOK, Running, Ok, Kernel, Thread
<1>3. k.run \in Task \ {Idle}
  BY <1>1, <1>2 DEF Thread
<1>4. Ok(k') /\ Keeps(k, k') /\ k'.due[0] = k.due[0] /\ k'.pendsv = k.pendsv
  <2>1. ~Waits(k, k.run)
    BY <1>1, <1>2, <1>3 DEF Delaying, Stopped
  <2> QED BY <1>1, <1>2, <1>3, <2>1, DelayedOk
<1>5. ~k'.pendsv /\ k'.run = k.run /\ k'.scheduled /\ k'.lock = 0
  BY <1>1, <1>4 DEF Keeps, KeepsTcbs
<1>6. /\ pc' \in [Thread -> Control] /\ pc'[Idle] = "user" /\ pc'[Dummy] = pc[Dummy]
      /\ pc'[k.run] = "sched"
      /\ \A u \in Thread : pc'[u] = "alloc" <=> pc[u] = "alloc"
  BY <1>1, <1>2 DEF Running, Control
<1>7. Delaying(k)'
  BY <1>2, <1>5, <1>6 DEF Delaying
<1>8. tick' \in {"off", "scan", "ready"} /\ k'.due[0] = <<>>
  BY <1>1, <1>2, <1>4 DEF Running
<1> QED BY <1>1, <1>2, <1>4, <1>6, <1>7, <1>8, FrameStep DEF Keeps, Running

LEMMA YieldStep ==
  ASSUME IInv, LOS_TaskYield
  PROVE  IInv'
<1>1. /\ ~k.fault /\ k.scheduled /\ InTask("user") /\ k.run # Idle
      /\ k.run \in Task
      /\ k' = Rotate(k) /\ pc' = [pc EXCEPT ![k.run] = "sched"]
      /\ fresh' = fresh /\ tick' = tick /\ cut' = cut
  BY DEF LOS_TaskYield, UserCode, InTask, Goto, CanYield
<1>2. InTask(pc[k.run]) /\ pc[k.run] = "user" /\ tick = "off"
  BY <1>1 DEF InTask
<1>3. Ok(k) /\ Running /\ cut \in Seq(Task) /\ ~Waits(k, k.run)
  BY <1>1, Start DEF IInv, TypeOK, InTask, Delaying, Stopped
<1>4. Ok(k') /\ Frame(k, k') /\ k'.due[0] = <<>>
  BY <1>1, <1>2, <1>3, RotateOk DEF Running
<1> QED BY <1>1, <1>2, <1>3, <1>4, CalmStep DEF Control, Frame

(* A step that only sets usTaskLock. *)
LEMMA LockStep ==
  ASSUME IInv, NEW n \in Nat, NEW c \in Control \ {"alloc"},
         InTask(pc[k.run]), pc[k.run] \notin {"sched", "pend", "alloc", "switch", "none"},
         k.run # Idle, k.scheduled,
         k' = [k EXCEPT !.lock = n], pc' = [pc EXCEPT ![k.run] = c],
         fresh' = fresh, tick' = tick, cut' = cut
  PROVE  IInv'
<1>1. /\ ~k.fault /\ ~k.pendsv /\ tick = "off"
      /\ Ok(k) /\ Running /\ Delaying(k) /\ cut \in Seq(Task)
      /\ pc \in [Thread -> Control] /\ Idle \in Thread /\ Dummy \in Thread
      /\ k.run \in Thread
  BY Start, TaskAssumption DEF InTask, IInv, TypeOK, Thread, Ok, Kernel
<1>2. /\ k' \in Kernel /\ SameLists(k, k')
      /\ k'.free = k.free /\ k'.recycle = k.recycle /\ k'.run = k.run /\ k'.new = k.new
      /\ k'.scheduled = k.scheduled /\ k'.pendsv = k.pendsv /\ k'.fault = k.fault
  BY <1>1 DEF Ok, Kernel, SameLists
<1>3. Ok(k')
  BY <1>1, <1>2, GoodShared DEF Ok, Sound, Has, SameLists, IdleQueued
<1>4. KeepsTcbs(k, k')
  BY <1>2 DEF KeepsTcbs, Has, SameLists
<1>5. k.run # Dummy /\ pc[k.run] # "sched"
  BY <1>1 DEF Running
<1>6. /\ pc' \in [Thread -> Control] /\ pc'[Idle] = "user" /\ pc'[Dummy] = pc[Dummy]
      /\ \A u \in Thread : pc'[u] = "alloc" <=> pc[u] = "alloc"
  BY <1>1, <1>5 DEF Running
<1>7. Delaying(k)'
  BY <1>1, <1>2, <1>5 DEF Delaying, Stopped, Waits, Has, SameLists
<1>8. k'.due[0] = <<>>
  BY <1>1, <1>2 DEF Running, SameLists
<1> QED BY <1>1, <1>3, <1>4, <1>6, <1>7, <1>8, FrameStep DEF Running

(* A step that deletes t, and perhaps asks for the switch away from it. *)
LEMMA GoneStep ==
  ASSUME IInv, ~k.fault, k.scheduled, NEW t \in Task \ {Idle}, ~Has(k, t, "UNUSED"),
         NEW x, Gone(k, x, t), k' = x \/ k' = osSchedule(x),
         fresh' = fresh, tick' = tick, cut' = cut,
         pc' \in [Thread -> Control], pc'[t] = "none", pc[t] # "alloc",
         pc'[Dummy] \in {"none", "switch"},
         \A u \in Thread \ {t, Dummy} : pc'[u] = pc[u]
  PROVE  IInv'
<1>0. /\ Ok(k) /\ Sound(k) /\ Tcbs(k, fresh) /\ Running /\ Creating /\ Delaying(k)
      /\ Idle \in Thread /\ Dummy \in Thread /\ t \in Thread /\ Dummy \notin Task
      /\ t # NoTask /\ Idle # Dummy
      /\ pc \in [Thread -> Control] /\ k \in Kernel
  BY Start, TaskAssumption DEF IInv, TypeOK, Thread
<1>1. /\ k' \in Kernel /\ SameLists(x, k')
      /\ k'.free = x.free /\ k'.recycle = x.recycle /\ k'.run = x.run /\ k'.new = x.new
      /\ k'.scheduled = x.scheduled /\ k'.fault = x.fault /\ k'.lock = x.lock
      /\ x.pendsv => k'.pendsv
  <2> DEFINE z == osSchedule(x)
  <2>1. /\ z \in Kernel /\ SameLists(x, z)
        /\ z.free = x.free /\ z.recycle = x.recycle /\ z.run = x.run /\ z.new = x.new
        /\ z.scheduled = x.scheduled /\ z.fault = x.fault /\ z.lock = x.lock
        /\ z.pendsv
    BY DEF osSchedule, Gone, Kernel, SameLists
  <2> HIDE DEF z
  <2>2. CASE k' = z
    BY <2>1, <2>2
  <2>3. CASE k' = x
    BY <2>3 DEF Gone, SameLists
  <2> QED BY <2>2, <2>3 DEF z
<1>2. TypeOK'
  BY <1>1 DEF IInv, TypeOK
<1>3. ASSUME ~k'.fault
      PROVE  Sound(k') /\ Tcbs(k', fresh') /\ Running' /\ Creating' /\ Delaying(k)'
  <2>1. Good(k')
    BY <1>1, <1>3, GoodShared DEF Gone
  <2>2. \A u \in Task : Has(k', u, "UNUSED") <=> (Has(k, u, "UNUSED") \/ u = t)
    <3>1. \A u \in Task : Has(k', u, "UNUSED") <=> Has(x, u, "UNUSED")
      BY <1>1 DEF Has, SameLists
    <3>2. Has(x, t, "UNUSED")
      BY DEF Gone, Has
    <3> QED BY <3>1, <3>2, GoneOthers
  <2>3. ~Contains(k.free, t) /\ ~Contains(k.recycle, t) /\ \A u \in Thread : fresh[u] # t
    BY <1>0 DEF Tcbs
  <2>4. /\ IsInjective(k'.free) /\ IsInjective(k'.recycle)
        /\ \A u \in Task : /\ Contains(k'.free, u) <=> (Contains(k.free, u) \/ (u = t /\ t # k.run))
                           /\ Contains(k'.recycle, u) <=> (Contains(k.recycle, u) \/ (u = t /\ t = k.run))
    <3>1. CASE t = k.run
      <4>1. k'.recycle = Append(k.recycle, t) /\ k'.free = k.free
        BY <1>1, <3>1 DEF Gone
      <4> QED BY <1>0, <2>3, <3>1, <4>1, KernelType, AppendList DEF Tcbs
    <3>2. CASE t # k.run
      <4>1. k'.recycle = k.recycle /\ k'.free = <<t>> \o k.free
        BY <1>1, <3>2 DEF Gone
      <4> QED BY <1>0, <2>3, <3>2, <4>1, KernelType, PushList DEF Tcbs
    <3> QED BY <3>1, <3>2
  <2>5. Tcbs(k', fresh')
    <3>1. \A u \in Task :
            /\ ~(Contains(k'.free, u) /\ Contains(k'.recycle, u))
            /\ Has(k', u, "UNUSED") <=>
                 Contains(k'.free, u) \/ Contains(k'.recycle, u) \/ \E v \in Thread : fresh[v] = u
      BY <1>0, <2>2, <2>3, <2>4 DEF Tcbs
    <3>2. \A u \in Thread : fresh[u] # NoTask => fresh[u] \in Task
      BY DEF IInv, TypeOK
    <3> QED BY <1>0, <2>3, <2>4, <3>1, <3>2 DEF Tcbs
  <2>6. Sound(k')
    <3>1. Has(k', Idle, "READY") /\ ~Has(k', k'.new, "UNUSED")
      BY <1>1, <1>3 DEF Gone, Has, SameLists
    <3>2. k'.run \in Task => ~Has(k', k'.run, "UNUSED")
      BY <1>0, <1>1, <2>2 DEF Gone, Sound
    <3> QED BY <1>0, <2>1, <2>2, <2>4, <3>1, <3>2 DEF Sound
  <2>7. Running'
    <3>1. k'.due = x.due /\ k'.scheduled = k.scheduled
      BY <1>1 DEF Gone, SameLists
    <3> QED BY <1>0, <3>1 DEF Running, Gone
  <2>8. Creating'
    BY <1>0, <2>2, <2>3 DEF Creating, Thread, Running
  <2>9. Delaying(k)'
    <3>0. \A u : Stopped(k', u) <=> Stopped(x, u)
      BY <1>1 DEF SameLists, Stopped, Waits, Has
    <3>1. ~Stopped(k', k'.new)
      BY <1>1, <1>3, <3>0 DEF Gone
    <3>2. ASSUME k'.run \in Task, Stopped(k', k'.run), ~k'.pendsv
          PROVE  pc'[k'.run] \in {"sched", "pend"} /\ k'.lock = 0
      <4>1. t # k.run
        BY <1>0, <1>1, <3>2 DEF Gone
      <4>2. /\ k'.run = k.run /\ k'.lock = k.lock /\ ~k.pendsv
            /\ Stopped(k, k.run)
        <5>1. k'.run = k.run /\ k'.lock = k.lock /\ ~k.pendsv
          BY <1>1, <3>2, <4>1 DEF Gone
        <5>2. k.run \in Task /\ Stopped(x, k.run)
          BY <3>0, <3>2, <5>1
        <5>3. \A u \in Task : Stopped(x, u) => Stopped(k, u)
          BY GoneOthers
        <5> QED BY <5>1, <5>2, <5>3
      <4>3. pc'[k.run] = pc[k.run]
        BY <1>0, <3>2, <4>1, <4>2 DEF Thread
      <4> QED BY <1>0, <3>2, <4>2, <4>3 DEF Delaying
    <3> QED BY <1>1, <3>1, <3>2 DEF Delaying, Gone
  <2> QED BY <2>5, <2>6, <2>7, <2>8, <2>9
<1> QED BY <1>2, <1>3 DEF IInv

LEMMA DeleteStep ==
  ASSUME IInv, NEW t \in Task, LOS_TaskDelete(t)
  PROVE  IInv'
<1>1. /\ ~k.fault /\ k.scheduled /\ t \in Task \ {Idle} /\ ~Has(k, t, "UNUSED")
      /\ pc[t] # "alloc"
      /\ fresh' = fresh /\ tick' = tick /\ cut' = cut
  BY DEF LOS_TaskDelete, UserCode, InTask, InIsr
<1>2. /\ Ok(k) /\ Running /\ pc \in [Thread -> Control]
      /\ Dummy \in Thread /\ t \in Thread /\ t # Dummy
  BY <1>1, Start, TaskAssumption DEF IInv, TypeOK, Thread
<1> DEFINE x == Deleted(k, t)
<1>3. Gone(k, x, t)
  BY <1>1, <1>2, DeletedGone
<1>4. k' = x \/ k' = osSchedule(x)
  BY DEF LOS_TaskDelete
<1> HIDE DEF x
<1>5. \/ pc' = [pc EXCEPT ![t] = "none", ![Dummy] = IF t = k.run THEN "switch" ELSE @]
      \/ pc' = [pc EXCEPT ![t] = "none"]
  BY DEF LOS_TaskDelete, Goto
<1>6. /\ pc' \in [Thread -> Control] /\ pc'[t] = "none"
      /\ pc'[Dummy] \in {"none", "switch"}
      /\ \A u \in Thread \ {t, Dummy} : pc'[u] = pc[u]
  <2>1. pc[Dummy] \in {"none", "switch"}
    BY <1>1, <1>2 DEF Running
  <2> QED BY <1>2, <1>5, <2>1 DEF Control
<1> QED BY <1>1, <1>3, <1>4, <1>6, GoneStep

LEMMA ReturnDetachedStep ==
  ASSUME IInv, ReturnDetached
  PROVE  IInv'
<1> DEFINE t == k.run
           x == Unlocked(k)
           y == osTaskSelfDelete(x, t)
<1>1. /\ ~k.fault /\ k.scheduled /\ t # Idle /\ ~k.pendsv /\ pc[t] = "user"
      /\ k' = y
      /\ pc' = [pc EXCEPT ![t] = "none", ![Dummy] = "switch"]
      /\ fresh' = fresh /\ tick' = tick /\ cut' = cut
  BY DEF ReturnDetached, UserCode, InTask
<1>2. /\ Ok(k) /\ Sound(k) /\ Running /\ Delaying(k) /\ pc \in [Thread -> Control]
      /\ Dummy \in Thread /\ Dummy \notin Task /\ t \in Thread
  BY <1>1, Start, TaskAssumption DEF IInv, TypeOK, Thread, Ok, Kernel
<1>3. t \in Task \ {Idle}
  BY <1>1, <1>2 DEF Running, Thread
<1>4. ~Has(k, t, "UNUSED") /\ ~Stopped(k, t)
  BY <1>1, <1>2, <1>3 DEF Sound, Delaying
<1>5. /\ x \in Kernel /\ SameLists(k, x)
      /\ x.free = k.free /\ x.recycle = k.recycle /\ x.run = k.run /\ x.new = k.new
      /\ x.scheduled = k.scheduled /\ x.pendsv = k.pendsv /\ x.fault = k.fault
  BY <1>2 DEF Unlocked, Ok, Kernel, SameLists
<1> HIDE DEF x
<1>6. Ok(x)
  BY <1>2, <1>5, GoodShared DEF Ok, Sound, Has, SameLists, IdleQueued
<1>7. Gone(x, y, t)
  <2>1. ~Stopped(x, t)
    BY <1>4, <1>5, FlagsShared DEF SameLists
  <2> QED BY <1>1, <1>3, <1>5, <1>6, <2>1, SelfDeleteGone
<1> HIDE DEF y
<1>8. Gone(k, y, t)
  BY <1>5, <1>7 DEF Gone, SameLists
<1>9. /\ pc' \in [Thread -> Control] /\ pc'[t] = "none" /\ pc'[Dummy] = "switch"
      /\ \A u \in Thread \ {t, Dummy} : pc'[u] = pc[u]
  BY <1>1, <1>2, <1>3 DEF Control
<1> QED BY <1>1, <1>3, <1>4, <1>8, <1>9, GoneStep

LEMMA TakeTcbStep ==
  ASSUME IInv, TakeTcb
  PROVE  IInv'
<1> DEFINE free == Reverse(k.recycle) \o k.free
           t == Head(free)
<1>0. /\ ~k.fault /\ ~k.pendsv /\ tick = "off" /\ pc[k.run] = "user" /\ k.run # Idle
      /\ pc' = [pc EXCEPT ![k.run] = "alloc"]
      /\ tick' = tick /\ cut' = cut
  BY DEF TakeTcb, UserCode, InTask, Goto
<1>1. /\ Ok(k) /\ k \in Kernel /\ Sound(k) /\ Tcbs(k, fresh)
      /\ Running /\ Creating /\ Delaying(k)
      /\ Idle \in Thread /\ Dummy \in Thread /\ Dummy \notin Task /\ NoTask \notin Task
      /\ pc \in [Thread -> Control] /\ fresh \in [Thread -> Task \cup {NoTask}]
      /\ k.run \in Thread /\ Idle \in Task
  BY <1>0, Start, TaskAssumption DEF IInv, TypeOK, Thread, Ok, Kernel
<1>2. /\ free \in Seq(Task) /\ IsInjective(free)
      /\ \A u \in Task : Contains(free, u) <=> Contains(k.free, u) \/ Contains(k.recycle, u)
  <2>1. \A u : Contains(k.recycle, u) => u \in Task
    BY <1>1 DEF Kernel, Contains
  <2>2. \A u : ~(Contains(k.recycle, u) /\ Contains(k.free, u))
    BY <1>1, <2>1 DEF Tcbs
  <2> QED BY <1>1, <2>2, KernelType, ReverseList DEF Tcbs
<1>3. LET x == Drained(k)
      IN x \in Kernel /\ x = [k EXCEPT !.free = free, !.recycle = <<>>] /\ x.free = free
  <2> HIDE DEF free
  <2> QED BY <1>1, <1>2, EmptyList DEF Drained, Kernel, free
<1>4. /\ free # <<>>
      /\ k' = [k EXCEPT !.free = Tail(free), !.recycle = <<>>]
      /\ fresh' = [fresh EXCEPT ![k.run] = t]
  <2> DEFINE x == Drained(k)
  <2>1. /\ x.free # <<>> /\ k' = [x EXCEPT !.free = Tail(@)]
        /\ fresh' = [fresh EXCEPT ![k.run] = Head(x.free)]
    BY DEF TakeTcb
  <2> HIDE DEF free
  <2>2. x = [k EXCEPT !.free = free, !.recycle = <<>>] /\ x.free = free
    BY <1>3
  <2>3. [x EXCEPT !.free = Tail(@)] = [k EXCEPT !.free = Tail(free), !.recycle = <<>>]
    BY <1>1, <2>2 DEF Kernel
  <2> QED BY <2>1, <2>2, <2>3
<1> HIDE DEF free
<1>5. /\ t \in Task /\ Contains(free, t) /\ Tail(free) \in Seq(Task)
      /\ IsInjective(Tail(free))
      /\ \A u : Contains(Tail(free), u) <=> Contains(free, u) /\ u # t
  BY <1>2, <1>4, TailList
<1> HIDE DEF t
<1>6. /\ k' \in Kernel /\ SameLists(k, k')
      /\ k'.free = Tail(free) /\ k'.recycle = <<>>
      /\ k'.run = k.run /\ k'.new = k.new /\ k'.lock = k.lock
      /\ k'.scheduled = k.scheduled /\ k'.pendsv = k.pendsv /\ k'.fault = k.fault
  BY <1>1, <1>4, <1>5, EmptyList DEF Kernel, SameLists
<1>7. /\ fresh' \in [Thread -> Task \cup {NoTask}] /\ fresh'[k.run] = t
      /\ \A u \in Thread : u # k.run => fresh'[u] = fresh[u]
      /\ pc' \in [Thread -> Control] /\ pc'[k.run] = "alloc"
      /\ \A u \in Thread : u # k.run => pc'[u] = pc[u]
  BY <1>0, <1>1, <1>4, <1>5 DEF Control
<1>8. fresh[k.run] = NoTask /\ Has(k, t, "UNUSED") /\ \A u \in Thread : fresh[u] # t
  BY <1>0, <1>1, <1>2, <1>5 DEF Creating, Tcbs
<1>9. Tcbs(k', fresh')
  <2>1. \A u \in Task : Has(k', u, "UNUSED") <=> Has(k, u, "UNUSED")
    BY <1>6 DEF Has, SameLists
  <2>2. \A u : ~Contains(k'.recycle, u) /\ IsInjective(k'.recycle)
    BY <1>6, EmptyList
  <2>3. ASSUME NEW u \in Task
        PROVE  Has(k', u, "UNUSED") <=>
                 Contains(k'.free, u) \/ Contains(k'.recycle, u) \/ \E v \in Thread : fresh'[v] = u
    <3>1. CASE u = t
      BY <1>1, <1>7, <1>8, <2>1, <3>1
    <3>2. CASE u # t
      <4>1. (\E v \in Thread : fresh'[v] = u) <=> (\E v \in Thread : fresh[v] = u)
        BY <1>1, <1>7, <1>8, <3>2
      <4> QED BY <1>1, <1>2, <1>5, <1>6, <2>1, <2>2, <3>2, <4>1 DEF Tcbs
    <3> QED BY <3>1, <3>2
  <2>4. ASSUME NEW u \in Thread, fresh'[u] # NoTask
        PROVE  /\ ~Contains(k'.free, fresh'[u]) /\ ~Contains(k'.recycle, fresh'[u])
               /\ \A v \in Thread : fresh'[v] = fresh'[u] => v = u
    <3>1. CASE u = k.run
      BY <1>5, <1>6, <1>7, <1>8, <2>2, <3>1
    <3>2. CASE u # k.run
      <4>1. fresh'[u] = fresh[u] /\ fresh[u] \in Task /\ fresh[u] # t
        BY <1>1, <1>7, <1>8, <2>4, <3>2
      <4> QED BY <1>1, <1>2, <1>5, <1>6, <1>7, <2>2, <2>4, <3>2, <4>1 DEF Tcbs
    <3> QED BY <3>1, <3>2
  <2> QED BY <1>5, <1>6, <2>2, <2>3, <2>4 DEF Tcbs
<1>10. Sound(k')
  <2>1. Good(k')
    BY <1>1, <1>6, GoodShared DEF Sound
  <2>2. \A u \in Task : ~Contains(k'.recycle, u)
    BY <1>6, EmptyList
  <2>3. \A u \in Task : Contains(k'.free, u) => Has(k', u, "UNUSED")
    BY <1>1, <1>2, <1>5, <1>6 DEF Tcbs, Has, SameLists
  <2> QED BY <1>1, <1>6, <2>1, <2>2, <2>3 DEF Sound, Has, SameLists
<1>11. Running'
  <2>1. pc'[Idle] = "user" /\ k'.due = k.due
    BY <1>0, <1>1, <1>6, <1>7 DEF Running, SameLists
  <2>2. k.scheduled => k.run # Dummy
    BY <1>0, <1>1 DEF Running
  <2> QED BY <1>0, <1>1, <1>6, <1>7, <2>1, <2>2 DEF Running
<1>12. Creating'
  <2>1. \A u \in Thread : fresh'[u] # NoTask <=> pc'[u] = "alloc"
    BY <1>1, <1>5, <1>7 DEF Creating
  <2>2. ASSUME NEW u \in Task, pc'[u] = "alloc" PROVE ~Has(k', u, "UNUSED")
    BY <1>1, <1>6, <1>7, <2>2 DEF Creating, Sound, Has, SameLists, Thread
  <2> QED BY <2>1, <2>2 DEF Creating
<1>13. Delaying(k)'
  BY <1>0, <1>1, <1>6 DEF Delaying, Stopped, Waits, Has, SameLists
<1>14. TypeOK'
  BY <1>0, <1>6, <1>7 DEF IInv, TypeOK
<1> QED BY <1>9, <1>10, <1>11, <1>12, <1>13, <1>14 DEF IInv

(* What a thread at "alloc" holds. *)
LEMMA AllocFacts ==
  ASSUME IInv, InTask("alloc")
  PROVE  /\ ~k.fault /\ ~k.pendsv /\ tick = "off" /\ pc[k.run] = "alloc"
         /\ Ok(k) /\ k \in Kernel /\ Sound(k) /\ Tcbs(k, fresh)
         /\ Running /\ Creating /\ Delaying(k)
         /\ fresh[k.run] \in Task /\ Has(k, fresh[k.run], "UNUSED")
         /\ ~Contains(k.free, fresh[k.run]) /\ ~Contains(k.recycle, fresh[k.run])
         /\ \A v \in Thread : v # k.run => fresh[v] # fresh[k.run]
         /\ k.run # Idle /\ (k.scheduled => k.run # Dummy)
         /\ k.run \in Thread /\ fresh[k.run] \in Thread /\ Idle \in Thread /\ Dummy \in Thread
         /\ k.run # fresh[k.run] /\ Dummy \notin Task /\ NoTask \notin Task
         /\ pc \in [Thread -> Control] /\ fresh \in [Thread -> Task \cup {NoTask}]
<1>1. /\ ~k.fault /\ ~k.pendsv /\ tick = "off" /\ pc[k.run] = "alloc"
  BY DEF InTask
<1>2. /\ Ok(k) /\ k \in Kernel /\ Sound(k) /\ Tcbs(k, fresh)
      /\ Running /\ Creating /\ Delaying(k)
      /\ k.run \in Thread /\ Idle \in Thread /\ Dummy \in Thread
      /\ Dummy \notin Task /\ NoTask \notin Task
      /\ pc \in [Thread -> Control] /\ fresh \in [Thread -> Task \cup {NoTask}]
  BY <1>1, Start, TaskAssumption DEF IInv, TypeOK, Thread, Ok, Kernel
<1>3. fresh[k.run] \in Task
  BY <1>1, <1>2 DEF Creating
<1>4. /\ Has(k, fresh[k.run], "UNUSED")
      /\ ~Contains(k.free, fresh[k.run]) /\ ~Contains(k.recycle, fresh[k.run])
      /\ \A v \in Thread : v # k.run => fresh[v] # fresh[k.run]
  BY <1>2, <1>3 DEF Tcbs
<1>5. k.run # Idle /\ (k.scheduled => k.run # Dummy)
  BY <1>1, <1>2 DEF Running
<1>6. k.run # fresh[k.run]
  BY <1>2, <1>3, <1>4 DEF Sound
<1> QED BY <1>1, <1>2, <1>3, <1>4, <1>5, <1>6 DEF Thread

LEMMA CreateFailsStep ==
  ASSUME IInv, CreateFails
  PROVE  IInv'
<1> DEFINE t == fresh[k.run]
<1>0. InTask("alloc")
  BY DEF CreateFails
<1>1. /\ ~k.fault /\ ~k.pendsv /\ tick = "off" /\ pc[k.run] = "alloc"
      /\ Ok(k) /\ k \in Kernel /\ Sound(k) /\ Tcbs(k, fresh)
      /\ Running /\ Creating /\ Delaying(k)
      /\ t \in Task /\ Has(k, t, "UNUSED")
      /\ ~Contains(k.free, t) /\ ~Contains(k.recycle, t)
      /\ \A v \in Thread : v # k.run => fresh[v] # t
      /\ k.run # Idle /\ (k.scheduled => k.run # Dummy)
      /\ k.run \in Thread /\ t \in Thread /\ Idle \in Thread /\ Dummy \in Thread
      /\ k.run # t /\ Dummy \notin Task /\ NoTask \notin Task
      /\ pc \in [Thread -> Control] /\ fresh \in [Thread -> Task \cup {NoTask}]
  BY <1>0, AllocFacts
<1>2. /\ k' = [k EXCEPT !.free = <<t>> \o @, !.fault = @ \/ Linked(k, t)]
      /\ fresh' = [fresh EXCEPT ![k.run] = NoTask]
      /\ pc' = [pc EXCEPT ![k.run] = "user"]
      /\ tick' = tick /\ cut' = cut
  BY DEF CreateFails, Goto
<1> HIDE DEF t
<1>3. /\ <<t>> \o k.free \in Seq(Task) /\ IsInjective(<<t>> \o k.free)
      /\ \A u : Contains(<<t>> \o k.free, u) <=> Contains(k.free, u) \/ u = t
  BY <1>1, KernelType, PushList DEF Tcbs
<1>4. /\ k' \in Kernel /\ SameLists(k, k')
      /\ k'.free = <<t>> \o k.free /\ k'.recycle = k.recycle
      /\ k'.run = k.run /\ k'.new = k.new /\ k'.lock = k.lock
      /\ k'.scheduled = k.scheduled /\ k'.pendsv = k.pendsv
  <2>1. Linked(k, t) \in BOOLEAN
    BY DEF Linked
  <2> QED BY <1>1, <1>2, <1>3, <2>1 DEF Kernel, SameLists
<1>5. /\ fresh' \in [Thread -> Task \cup {NoTask}] /\ fresh'[k.run] = NoTask
      /\ \A u \in Thread : u # k.run => fresh'[u] = fresh[u]
      /\ pc' \in [Thread -> Control] /\ pc'[k.run] = "user"
      /\ \A u \in Thread : u # k.run => pc'[u] = pc[u]
  BY <1>1, <1>2 DEF Control
<1>6. \A u \in Task : Has(k', u, "UNUSED") <=> Has(k, u, "UNUSED")
  BY <1>4 DEF Has, SameLists
<1>7. Tcbs(k', fresh')
  <2>1. ASSUME NEW u \in Task
        PROVE  /\ ~(Contains(k'.free, u) /\ Contains(k'.recycle, u))
               /\ Has(k', u, "UNUSED") <=>
                    Contains(k'.free, u) \/ Contains(k'.recycle, u) \/ \E v \in Thread : fresh'[v] = u
    <3>1. CASE u = t
      BY <1>1, <1>3, <1>4, <1>6, <3>1
    <3>2. CASE u # t
      <4>1. (\E v \in Thread : fresh'[v] = u) <=> (\E v \in Thread : fresh[v] = u)
        BY <1>1, <1>5, <3>2 DEF t
      <4> QED BY <1>1, <1>3, <1>4, <1>6, <3>2, <4>1 DEF Tcbs
    <3> QED BY <3>1, <3>2
  <2>2. ASSUME NEW u \in Thread, fresh'[u] # NoTask
        PROVE  /\ ~Contains(k'.free, fresh'[u]) /\ ~Contains(k'.recycle, fresh'[u])
               /\ \A v \in Thread : fresh'[v] = fresh'[u] => v = u
    <3>1. u # k.run /\ fresh'[u] = fresh[u] /\ fresh[u] # t
      BY <1>1, <1>5, <2>2
    <3> QED BY <1>1, <1>3, <1>4, <1>5, <2>2, <3>1 DEF Tcbs
  <2> QED BY <1>1, <1>3, <1>4, <2>1, <2>2 DEF Tcbs
<1>8. Sound(k')
  <2>1. Good(k')
    BY <1>1, <1>4, GoodShared DEF Sound
  <2> QED BY <1>1, <1>3, <1>4, <2>1 DEF Sound, Has, SameLists
<1>9. Running'
  <2>1. pc'[Idle] = "user" /\ k'.due = k.due
    BY <1>1, <1>4, <1>5 DEF Running, SameLists
  <2> QED BY <1>1, <1>2, <1>4, <1>5, <2>1 DEF Running
<1>10. Creating'
  BY <1>1, <1>5, <1>6 DEF Creating, Thread
<1>11. Delaying(k)'
  BY <1>1, <1>4 DEF Delaying, Stopped, Waits, Has, SameLists
<1>12. TypeOK'
  BY <1>2, <1>4, <1>5 DEF IInv, TypeOK
<1> QED BY <1>7, <1>8, <1>9, <1>10, <1>11, <1>12 DEF IInv

LEMMA CreateStep ==
  ASSUME IInv, NEW p \in Prio, NEW d \in BOOLEAN, NEW o \in BOOLEAN,
         LOS_TaskCreate(p, d, o)
  PROVE  IInv'
<1> DEFINE t == fresh[k.run]
           x == Filled(k, t, p, d)
<1>0. InTask("alloc")
  BY DEF LOS_TaskCreate
<1>1. /\ ~k.fault /\ ~k.pendsv /\ tick = "off" /\ pc[k.run] = "alloc"
      /\ Ok(k) /\ k \in Kernel /\ Sound(k) /\ Tcbs(k, fresh)
      /\ Running /\ Creating /\ Delaying(k)
      /\ t \in Task /\ Has(k, t, "UNUSED")
      /\ ~Contains(k.free, t) /\ ~Contains(k.recycle, t)
      /\ \A v \in Thread : v # k.run => fresh[v] # t
      /\ k.run # Idle /\ (k.scheduled => k.run # Dummy)
      /\ k.run \in Thread /\ t \in Thread /\ Idle \in Thread /\ Dummy \in Thread
      /\ k.run # t /\ Dummy \notin Task /\ NoTask \notin Task
      /\ pc \in [Thread -> Control] /\ fresh \in [Thread -> Task \cup {NoTask}]
  BY <1>0, AllocFacts
<1>2. /\ k' = IF o THEN x ELSE Started(x, t)
      /\ fresh' = [fresh EXCEPT ![k.run] = NoTask]
      /\ pc' = [pc EXCEPT ![k.run] = "user", ![t] = "user"]
      /\ tick' = tick /\ cut' = cut
  BY DEF LOS_TaskCreate
<1> HIDE DEF t
<1>3. /\ Ok(x) /\ SameRest(k, x) /\ x.due = k.due /\ ~x.fault
      /\ x.wait = k.wait
      /\ ~Has(x, t, "UNUSED") /\ ~Stopped(x, t)
      /\ \A u \in Task : u # t => x.status[u] = k.status[u]
  BY <1>1, FilledOk
<1> HIDE DEF x
<1>4. Ok(k') /\ Frame(x, k') /\ k'.due = k.due
  <2>1. CASE o
    BY <1>2, <1>3, <2>1, FrameReflexive
  <2>2. CASE ~o
    <3>1. Ok(Started(x, t)) /\ Frame(x, Started(x, t)) /\ Started(x, t).due = x.due
      BY <1>1, <1>3, StartedOk
    <3> QED BY <1>2, <1>3, <2>2, <3>1
  <2> QED BY <2>1, <2>2
<1>5. /\ fresh' \in [Thread -> Task \cup {NoTask}] /\ fresh'[k.run] = NoTask
      /\ \A u \in Thread : u # k.run => fresh'[u] = fresh[u]
      /\ pc' \in [Thread -> Control] /\ pc'[k.run] = "user" /\ pc'[t] = "user"
      /\ \A u \in Thread : u # k.run /\ u # t => pc'[u] = pc[u]
  BY <1>1, <1>2 DEF Control
<1>6. \A u \in Task : Has(k', u, "UNUSED") <=> (Has(k, u, "UNUSED") /\ u # t)
  <2>1. \A u \in Task : Has(k', u, "UNUSED") <=> Has(x, u, "UNUSED")
    BY <1>4 DEF Frame, Gentle, Keeps, KeepsTcbs
  <2> QED BY <1>3, <2>1 DEF Has
<1>7. /\ k'.free = k.free /\ k'.recycle = k.recycle /\ k'.run = k.run
      /\ k'.scheduled = k.scheduled
      /\ k.scheduled \/ k'.pendsv = k.pendsv
  BY <1>3, <1>4 DEF Frame, Gentle, Keeps, KeepsTcbs, SameRest
<1>8. Tcbs(k', fresh')
  <2>1. ASSUME NEW u \in Task
        PROVE  Has(k', u, "UNUSED") <=>
                 Contains(k'.free, u) \/ Contains(k'.recycle, u) \/ \E v \in Thread : fresh'[v] = u
    <3>1. CASE u = t
      BY <1>1, <1>5, <1>6, <1>7, <3>1
    <3>2. CASE u # t
      <4>1. (\E v \in Thread : fresh'[v] = u) <=> (\E v \in Thread : fresh[v] = u)
        BY <1>1, <1>5, <3>2 DEF t
      <4> QED BY <1>1, <1>6, <1>7, <3>2, <4>1 DEF Tcbs
    <3> QED BY <3>1, <3>2
  <2>2. ASSUME NEW u \in Thread, fresh'[u] # NoTask
        PROVE  /\ ~Contains(k'.free, fresh'[u]) /\ ~Contains(k'.recycle, fresh'[u])
               /\ \A v \in Thread : fresh'[v] = fresh'[u] => v = u
    BY <1>1, <1>5, <1>7, <2>2 DEF Tcbs
  <2> QED BY <1>1, <1>7, <2>1, <2>2 DEF Tcbs
<1>9. Running'
  <2>1. t # Idle
    BY <1>1 DEF Sound, Good, Flags, FlagsOf, Has
  <2>2. pc'[Idle] = "user" /\ t # Dummy
    BY <1>1, <1>5, <2>1 DEF Running
  <2> QED BY <1>1, <1>2, <1>4, <1>5, <1>7, <2>2 DEF Running
<1>10. Creating'
  <2>1. pc[t] # "alloc"
    BY <1>1 DEF Creating
  <2> QED BY <1>1, <1>5, <1>6, <2>1 DEF Creating, Thread
<1>11. ~k'.fault => Delaying(k)'
  <2>1. SUFFICES ASSUME ~k'.fault PROVE Delaying(k)'
    OBVIOUS
  <2>2. \A u \in Task : Stopped(k', u) => Stopped(k, u) /\ u # t
    <3>1. \A u \in Task : u # t => (Stopped(x, u) <=> Stopped(k, u))
      BY <1>3, FlagsShared
    <3> QED BY <1>3, <1>4, <2>1, <3>1 DEF Frame, Gentle, Calm
  <2>3. ~(k'.run \in Task /\ Stopped(k', k'.run))
    BY <1>1, <1>7, <2>2 DEF Delaying
  <2>4. ASSUME k'.pendsv \/ k'.run = Dummy, Stopped(k', k'.new) PROVE FALSE
    <3>1. Stopped(x, x.new) /\ x.new = k.new /\ x.pendsv = k.pendsv
      BY <1>3, <1>4, <2>1, <2>4 DEF Frame, Gentle, Calm, SameRest
    <3>2. k'.run = Dummy
      BY <1>1, <1>4, <2>1, <2>4, <3>1 DEF Frame, Gentle, Calm
    <3>3. k.new \in Task /\ Stopped(k, k.new)
      <4>1. k.new \in Task /\ k.new # t
        BY <1>1, <1>3, <3>1, KernelType
      <4> QED BY <1>3, <3>1, <4>1, FlagsShared
    <3> QED BY <1>1, <1>7, <3>2, <3>3 DEF Delaying
  <2>5. ~k'.scheduled => \A u \in Task : ~Stopped(k', u)
    BY <1>1, <1>7, <2>2 DEF Delaying
  <2> QED BY <2>3, <2>4, <2>5 DEF Delaying
<1>12. TypeOK'
  BY <1>2, <1>4, <1>5 DEF IInv, TypeOK, Ok
<1> QED BY <1>4, <1>8, <1>9, <1>10, <1>11, <1>12 DEF IInv, Ok

(***************************************************************************)
(* The scheduler and the exceptions.                                       *)
(***************************************************************************)

(* LOS_Schedule called by a thread that runs. *)
LEMMA ScheduleStep ==
  ASSUME IInv, NEW c \in Control \ {"alloc"},
         InTask(pc[k.run]), pc[k.run] \notin {"user", "alloc", "switch", "none"},
         k' = LOS_Schedule(k), pc' = [pc EXCEPT ![k.run] = c],
         fresh' = fresh, tick' = tick, cut' = cut
  PROVE  IInv'
<1>1. /\ ~k.fault /\ ~k.pendsv /\ tick = "off"
      /\ Ok(k) /\ Sound(k) /\ Running /\ Delaying(k) /\ cut \in Seq(Task)
      /\ pc \in [Thread -> Control] /\ Idle \in Thread /\ Dummy \in Thread
      /\ k.run \in Thread /\ k \in Kernel /\ Dummy \notin Task
  BY Start, TaskAssumption DEF InTask, IInv, TypeOK, Thread, Ok, Kernel
<1>2. k.scheduled /\ k.run # Dummy /\ k.run # Idle
  BY <1>1 DEF Running
<1>3. Ok(k') /\ Frame(k, k')
  BY <1>1, <1>2, ScheduleOk
<1> DEFINE top == LOS_PriqueueTop(k)
<1>4. /\ k'.new = top /\ k'.pendsv = (k.run # top /\ k.lock = 0)
      /\ k'.due = k.due /\ k'.status = k.status /\ k'.run = k.run /\ k'.lock = k.lock
      /\ k'.scheduled = k.scheduled
  BY <1>1 DEF LOS_Schedule, Kernel
<1>5. ~Stopped(k, top)
  BY <1>1, TopIsReady DEF Ok, Sound
<1> HIDE DEF top
<1>6. Delaying(k)'
  <2>0. \A u \in Task : Stopped(k', u) <=> Stopped(k, u)
    BY <1>4, FlagsShared
  <2>1. k.new \in Task /\ top \in Task /\ ~Stopped(k', k'.new)
    BY <1>1, <1>3, <1>4, <1>5, <2>0 DEF Ok, Kernel
  <2>2. ~(k'.run \in Task /\ Stopped(k', k'.run) /\ ~k'.pendsv)
    BY <1>1, <1>4, <1>5, <2>0 DEF Delaying
  <2> QED BY <1>2, <1>4, <2>1, <2>2 DEF Delaying
<1>7. /\ pc' \in [Thread -> Control] /\ pc'[Idle] = "user" /\ pc'[Dummy] = pc[Dummy]
      /\ \A u \in Thread : pc'[u] = "alloc" <=> pc[u] = "alloc"
  BY <1>1, <1>2 DEF Running
<1>8. k'.due[0] = <<>>
  BY <1>1, <1>4 DEF Running
<1> QED BY <1>1, <1>2, <1>3, <1>6, <1>7, <1>8, FrameStep DEF Running, Frame, Gentle, Keeps

LEMMA SwitchStep ==
  ASSUME IInv, SwitchFromDeleted
  PROVE  IInv'
<1>1. /\ ~k.fault /\ ~k.pendsv /\ tick = "off" /\ pc[Dummy] = "switch" /\ k.run = Dummy
      /\ k' = osSchedule(k) /\ pc' = [pc EXCEPT ![Dummy] = "none"]
      /\ fresh' = fresh /\ tick' = tick /\ cut' = cut
  BY DEF SwitchFromDeleted, InTask, Goto
<1>2. /\ Ok(k) /\ Running /\ Delaying(k) /\ cut \in Seq(Task)
      /\ pc \in [Thread -> Control] /\ Idle \in Thread /\ Dummy \in Thread
      /\ k \in Kernel /\ Dummy \notin Task /\ Idle \in Task
  BY <1>1, Start, TaskAssumption DEF IInv, TypeOK, Thread, Ok
<1>3. k.scheduled /\ ~Stopped(k, k.new) /\ k.new \in Task
  BY <1>1, <1>2 DEF Running, Delaying, Kernel
<1>4. Ok(k') /\ Frame(k, k')
  BY <1>1, <1>2, <1>3, PendOk
<1>5. /\ k'.due = k.due /\ k'.new = k.new /\ k'.status = k.status /\ k'.run = k.run
      /\ k'.scheduled = k.scheduled
  BY <1>1, <1>2 DEF osSchedule, Kernel
<1>6. Delaying(k)'
  <2>1. ~Stopped(k', k'.new)
    BY <1>3, <1>5, FlagsShared
  <2> QED BY <1>1, <1>2, <1>3, <1>5, <2>1 DEF Delaying
<1>7. /\ pc' \in [Thread -> Control] /\ pc'[Idle] = "user" /\ pc'[Dummy] = "none"
      /\ \A u \in Thread : pc'[u] = "alloc" <=> pc[u] = "alloc"
  BY <1>1, <1>2 DEF Running, Control
<1> QED
  BY <1>1, <1>2, <1>3, <1>4, <1>5, <1>6, <1>7, FrameStep DEF Running, Frame, Gentle, Keeps

(* The CPU goes to pstNewTask. *)
LEMMA DispatchStep ==
  ASSUME IInv, ~k.fault, ~Stopped(k, k.new), tick' = tick,
         k' = [k EXCEPT !.scheduled = TRUE, !.run = k.new, !.pendsv = FALSE],
         fresh' = fresh, cut' = cut,
         pc[Dummy] # "alloc",
         pc' = [pc EXCEPT ![Dummy] = "none"] \/ (pc' = pc /\ k.scheduled)
  PROVE  IInv'
<1>1. /\ Ok(k) /\ k \in Kernel /\ Sound(k) /\ Tcbs(k, fresh) /\ Running /\ Creating
      /\ pc \in [Thread -> Control] /\ Idle \in Thread /\ Dummy \in Thread
      /\ Dummy \notin Task /\ Idle \in Task
  BY Start, TaskAssumption DEF IInv, TypeOK, Thread, Ok
<1>2. /\ k' \in Kernel /\ SameLists(k, k')
      /\ k'.free = k.free /\ k'.recycle = k.recycle /\ k'.run = k.new /\ k'.new = k.new
      /\ k'.scheduled /\ ~k'.pendsv /\ k'.fault = k.fault
  BY <1>1 DEF Kernel, SameLists, Thread
<1>3. /\ pc' \in [Thread -> Control] /\ pc'[Idle] = "user"
      /\ pc'[Dummy] \in {"none", "switch"}
      /\ \A u \in Thread : pc'[u] = "alloc" <=> pc[u] = "alloc"
  BY <1>1 DEF Running, Control
<1>4. \A u \in Task : Has(k', u, "UNUSED") <=> Has(k, u, "UNUSED")
  BY <1>2 DEF Has, SameLists
<1>5. Sound(k')
  <2>1. Good(k')
    BY <1>1, <1>2, GoodShared DEF Sound
  <2> QED BY <1>1, <1>2, <2>1 DEF Sound, Has, SameLists
<1>6. Tcbs(k', fresh')
  BY <1>1, <1>2, <1>4 DEF Tcbs
<1>7. Running'
  BY <1>1, <1>2, <1>3 DEF Running, SameLists
<1>8. Creating'
  BY <1>1, <1>3, <1>4 DEF Creating, Thread
<1>9. Delaying(k)'
  <2>1. k.new \in Task
    BY <1>1 DEF Kernel
  <2>2. ~Stopped(k', k'.new) /\ k'.new # Dummy
    BY <1>1, <1>2, <2>1, FlagsShared DEF SameLists
  <2> QED BY <1>2, <2>1, <2>2 DEF Delaying
<1>10. TypeOK'
  BY <1>2, <1>3 DEF IInv, TypeOK
<1> QED BY <1>5, <1>6, <1>7, <1>8, <1>9, <1>10 DEF IInv

LEMMA StartToRunStep ==
  ASSUME IInv, LOS_StartToRun
  PROVE  IInv'
<1>1. /\ ~k.fault /\ ~k.scheduled /\ pc[k.run] = "user"
      /\ k' = [k EXCEPT !.scheduled = TRUE, !.run = k.new]
      /\ pc' = [pc EXCEPT ![Dummy] = "none"]
      /\ fresh' = fresh /\ tick' = tick /\ cut' = cut
  BY DEF LOS_StartToRun, UserCode, InTask, Goto
<1>2. Running /\ Delaying(k) /\ k \in Kernel
  BY <1>1, Start DEF Ok
<1>3. k.run = Dummy /\ ~k.pendsv /\ ~Stopped(k, k.new)
  BY <1>1, <1>2 DEF Running, Delaying
<1>4. [k EXCEPT !.scheduled = TRUE, !.run = k.new]
        = [k EXCEPT !.scheduled = TRUE, !.run = k.new, !.pendsv = FALSE]
  BY <1>2, <1>3 DEF Kernel
<1> QED BY <1>1, <1>3, <1>4, DispatchStep

LEMMA PendSVStep ==
  ASSUME IInv, PendSV_Handler
  PROVE  IInv'
<1>1. /\ ~k.fault /\ k.pendsv
      /\ k' = [k EXCEPT !.run = k.new, !.pendsv = FALSE]
      /\ pc' = IF k.run = Dummy THEN [pc EXCEPT ![Dummy] = "none"] ELSE pc
      /\ fresh' = fresh /\ tick' = tick /\ cut' = cut
  BY DEF PendSV_Handler
<1>2. Running /\ Delaying(k) /\ k \in Kernel
  BY <1>1, Start DEF Ok
<1>3. k.scheduled /\ ~Stopped(k, k.new) /\ pc[Dummy] # "alloc"
  BY <1>1, <1>2 DEF Running, Delaying
<1>4. [k EXCEPT !.run = k.new, !.pendsv = FALSE]
        = [k EXCEPT !.scheduled = TRUE, !.run = k.new, !.pendsv = FALSE]
  <2>1. k.scheduled = TRUE
    BY <1>2, <1>3 DEF Kernel
  <2> QED BY <1>2, <2>1 DEF Kernel
<1> QED BY <1>1, <1>3, <1>4, DispatchStep

LEMMA TickStep ==
  ASSUME IInv, osTickHandler
  PROVE  IInv'
<1> DEFINE x == IF TIMESLICE THEN osTimesliceCheck(k) ELSE k
<1>1. /\ ~k.fault /\ k.scheduled /\ tick = "off"
      /\ k' = Shifted(x)
      /\ tick' = IF k.due[1] = <<>> THEN "off" ELSE "scan"
      /\ pc' = pc /\ fresh' = fresh /\ cut' = cut
  BY DEF osTickHandler, InIsr, Shifted
<1>2. Ok(k) /\ Running /\ cut \in Seq(Task)
  BY <1>1, Start DEF IInv, TypeOK
<1>3. Ok(x) /\ Frame(k, x) /\ x.due = k.due
  <2>1. CASE TIMESLICE
    BY <1>1, <1>2, <2>1, TimesliceOk
  <2>2. CASE ~TIMESLICE
    BY <1>2, <2>2, FrameReflexive
  <2> QED BY <2>1, <2>2
<1> HIDE DEF x
<1>4. Ok(k') /\ Frame(x, k') /\ k'.due[0] = k.due[1]
  BY <1>1, <1>2, <1>3, ShiftedOk DEF Running
<1>5. Frame(k, k')
  BY <1>3, <1>4, FrameTransitive
<1> QED BY <1>1, <1>2, <1>4, <1>5, CalmStep DEF Frame

(* osTaskScan, into whose rounds no handler nests. *)
LEMMA ScanWhole ==
  ASSUME ~Nesting, osTaskScan
  PROVE  ScanRound
BY DEF osTaskScan, ScanReads, ScanUnlinks, ScanHalfReleases, ScanReleases, ScanLeaves, ScanFlags,
   ScanEnqueues, InRound

LEMMA ScanServes ==
  ASSUME osTaskScan
  PROVE  Serving /\ pc' = pc /\ fresh' = fresh /\ cut' = cut
BY DEF osTaskScan, ScanRound, ScanReads, ScanUnlinks, ScanHalfReleases, ScanReleases, ScanLeaves,
   ScanFlags, ScanEnqueues, InRound, Reaches

LEMMA ScanStep ==
  ASSUME IInv, osTaskScan
  PROVE  IInv'
<1> DEFINE t == Head(k.due[0])
<1>1. /\ ~k.fault /\ tick \in {"scan", "ready"} /\ k.due[0] # <<>>
      /\ k' = Expired([k EXCEPT !.due[0] = Tail(@)], t)
      /\ tick' \in {"scan", "ready"}
      /\ pc' = pc /\ fresh' = fresh /\ cut' = cut
  BY ScanWhole DEF IInv, ScanRound, Serving
<1>2. Ok(k) /\ cut \in Seq(Task) /\ k.scheduled
  BY <1>1, Start DEF IInv, TypeOK, Running
<1>3. Ok(k') /\ Frame(k, k')
  BY <1>1, <1>2, ExpiredOk
<1> QED BY <1>1, <1>2, <1>3, CalmStep DEF Frame

LEMMA ScanEndsStep ==
  ASSUME IInv, osTaskScanEnds
  PROVE  IInv'
<1>1. /\ ~k.fault /\ tick \in {"scan", "ready"} /\ k.due[0] = <<>>
      /\ k' = IF tick = "ready" THEN LOS_Schedule(k) ELSE k
      /\ tick' = "off"
      /\ pc' = pc /\ fresh' = fresh /\ cut' = cut
  BY DEF osTaskScanEnds, Serving
<1>2. Ok(k) /\ cut \in Seq(Task) /\ k \in Kernel /\ k.scheduled
  BY <1>1, Start DEF IInv, TypeOK, Running
<1>4. Ok(LOS_Schedule(k)) /\ Frame(k, LOS_Schedule(k)) /\ LOS_Schedule(k).due = k.due
  BY <1>2, ScheduleOk DEF LOS_Schedule, Kernel
<1>5. Ok(k') /\ Frame(k, k') /\ k'.due[0] = <<>>
  BY <1>1, <1>2, <1>4, FrameReflexive
<1> QED BY <1>1, <1>2, <1>5, CalmStep DEF Frame

(***************************************************************************)
(* The scheduler lock, and the end of a joinable task.                     *)
(***************************************************************************)
LEMMA LockCallsStep ==
  ASSUME IInv, LOS_TaskLock \/ LOS_TaskUnlock
  PROVE  IInv'
<1>1. /\ ~k.fault /\ k.scheduled /\ InTask("user") /\ k.run # Idle
      /\ InTask(pc[k.run]) /\ pc[k.run] = "user"
      /\ fresh' = fresh /\ tick' = tick /\ cut' = cut
  BY DEF LOS_TaskLock, LOS_TaskUnlock, UserCode, InTask
<1>2. pc \in [Thread -> Control] /\ k.run \in Thread /\ k.lock \in Nat
  BY DEF IInv, TypeOK, Kernel
<1>3. pc = [pc EXCEPT ![k.run] = "user"]
  BY <1>1, <1>2
<1>4. CASE LOS_TaskLock
  <2>1. k.lock + 1 \in Nat /\ k' = [k EXCEPT !.lock = k.lock + 1] /\ pc' = pc
    BY <1>2, <1>4 DEF LOS_TaskLock
  <2> QED BY <1>1, <1>3, <2>1, LockStep DEF Control
<1>5. CASE LOS_TaskUnlock
  <2>1. k.lock - 1 \in Nat /\ k' = [k EXCEPT !.lock = k.lock - 1]
    BY <1>2, <1>5 DEF LOS_TaskUnlock
  <2>2. pc' = [pc EXCEPT ![k.run] = "sched"] \/ pc' = pc
    BY <1>5 DEF LOS_TaskUnlock, Goto
  <2> QED BY <1>1, <1>3, <2>1, <2>2, LockStep DEF Control
<1> QED BY <1>4, <1>5

LEMMA ExitLockStep ==
  ASSUME IInv, ReturnJoinable \/ ExitLocks \/ ExitUnlocks
  PROVE  IInv'
<1>1. /\ pc[k.run] \in {"user", "return", "unlock"} /\ InTask(pc[k.run])
      /\ pc' \in {[pc EXCEPT ![k.run] = c] : c \in {"return", "exit", "leave"}}
      /\ fresh' = fresh /\ tick' = tick /\ cut' = cut
  BY DEF ReturnJoinable, ExitLocks, ExitUnlocks, UserCode, InTask, Goto
<1>2. /\ Running /\ pc \in [Thread -> Control] /\ k.run \in Thread /\ k.lock \in Nat
  BY <1>1, Start DEF InTask, IInv, TypeOK, Kernel
<1>3. k.scheduled /\ k.run # Idle
  <2>1. CASE ReturnJoinable
    BY <2>1 DEF ReturnJoinable, UserCode
  <2>2. CASE ExitLocks \/ ExitUnlocks
    BY <1>2, <2>2 DEF ExitLocks, ExitUnlocks, InTask, Running
  <2> QED BY <2>1, <2>2
<1>4. \E n \in Nat : k' = [k EXCEPT !.lock = n]
  <2>1. CASE ReturnJoinable
    BY <2>1 DEF ReturnJoinable, Unlocked
  <2>2. CASE ExitLocks
    BY <1>2, <2>2 DEF ExitLocks
  <2>3. CASE ExitUnlocks
    <3>1. (IF k.lock > 0 THEN k.lock - 1 ELSE k.lock) \in Nat
      BY <1>2
    <3> QED BY <2>3, <3>1 DEF ExitUnlocks
  <2> QED BY <2>1, <2>2, <2>3
<1> QED BY <1>1, <1>3, <1>4, LockStep DEF Control

LEMMA RescheduleStep ==
  ASSUME IInv, Reschedule \/ ExitSchedules
  PROVE  IInv'
<1>1. /\ pc[k.run] \in {"sched", "leave"} /\ InTask(pc[k.run])
      /\ k' = LOS_Schedule(k)
      /\ pc' \in {[pc EXCEPT ![k.run] = c] : c \in {"user", "exited"}}
      /\ fresh' = fresh /\ tick' = tick /\ cut' = cut
  BY DEF Reschedule, ExitSchedules, InTask, Goto
<1> QED BY <1>1, ScheduleStep DEF Control

LEMMA AroundType ==
  ASSUME NEW s \in Seq(Task), NEW t
  PROVE  /\ Around(s, t) \in Seq(Task)
         /\ SubSeq(s, 1, SelectInSeq(s, LAMBDA u : u = t) - 1) \in Seq(Task)
<1> DEFINE i == SelectInSeq(s, LAMBDA u : u = t)
           m == Max({1, i - 1})
           n == Min({i + 1, Len(s)})
<1>1. i \in 0 .. Len(s)
  <2> DEFINE I == {j \in 1 .. Len(s) : s[j] = t}
  <2>1. CASE I = {}
    BY <2>1 DEF SelectInSeq
  <2>2. CASE I # {}
    <3>1. I \in SUBSET Nat
      OBVIOUS
    <3>2. \E j \in I : \A l \in I : j <= l
      BY <2>2, <3>1, LeastNatural
    <3>3. Min(I) \in I
      BY <3>2 DEF Min
    <3>4. i = Min(I)
      BY <2>2 DEF SelectInSeq
    <3> QED BY <3>3, <3>4
  <2> QED BY <2>1, <2>2
<1> HIDE DEF i
<1>2. m \in {1, i - 1} /\ m >= 1
  <2>1. \E x \in {1, i - 1} : \A y \in {1, i - 1} : x >= y
    BY <1>1
  <2> QED BY <1>1, <2>1 DEF Max
<1>3. n \in {i + 1, Len(s)} /\ n <= Len(s)
  <2>1. \E x \in {i + 1, Len(s)} : \A y \in {i + 1, Len(s)} : x <= y
    BY <1>1
  <2> QED BY <1>1, <2>1 DEF Min
<1>4. m \in Int /\ n \in Int
  BY <1>1, <1>2, <1>3
<1>5. Around(s, t) = SubSeq(s, m, n)
  BY DEF Around, i
<1> HIDE DEF m, n
<1>6. \A j \in m .. n : s[j] \in Task
  BY <1>2, <1>3, <1>4
<1>7. SubSeq(s, 1, i - 1) \in Seq(Task)
  <2>1. 1 \in Int /\ i - 1 \in Int /\ \A j \in 1 .. i - 1 : s[j] \in Task
    BY <1>1
  <2> HIDE DEF i
  <2> QED BY <2>1, SubSeqProperties
<1> QED BY <1>4, <1>5, <1>6, <1>7, SubSeqProperties DEF i

LEMMA ExitReadsStep ==
  ASSUME IInv, ExitReadsLinks
  PROVE  IInv'
<1>1. /\ ~k.fault /\ tick = "off" /\ pc[k.run] = "exit" /\ InTask(pc[k.run])
      /\ k' = k /\ fresh' = fresh /\ tick' = tick
      /\ pc' \in {[pc EXCEPT ![k.run] = c] : c \in {"unlink", "unlock"}}
      /\ cut' = cut \/ cut' = Around(OwnQueue, k.run)
  BY DEF ExitReadsLinks, InTask, Goto
<1>2. Ok(k) /\ k \in Kernel /\ Running /\ cut \in Seq(Task)
  BY <1>1, Start DEF IInv, TypeOK
<1>3. k.scheduled /\ k.run # Idle /\ k.run # Dummy
  BY <1>1, <1>2 DEF Running
<1>4. cut' \in Seq(Task)
  <2>1. k.run \in Task
    BY <1>2, <1>3 DEF Kernel, Thread
  <2>2. OwnQueue \in Seq(Task)
    BY <1>2, <2>1, KernelType DEF OwnQueue
  <2> QED BY <1>1, <1>2, <2>2, AroundType
<1>5. Ok(k') /\ Frame(k, k') /\ k'.due[0] = <<>>
  BY <1>1, <1>2, FrameReflexive DEF Running
<1> QED BY <1>1, <1>2, <1>3, <1>4, <1>5, CalmStep DEF Frame, Control, IInv, TypeOK

LEMMA ExitUnlinksStep ==
  ASSUME IInv, ExitUnlinks
  PROVE  IInv'
<1> DEFINE t == k.run
           s == OwnQueue
           i == SelectInSeq(s, LAMBDA u : u = t)
           x == MakeUnready(k, t)
           y == [x EXCEPT !.fault = TRUE,
                          !.ready[k.prio[t]] = IF Last(cut) = t THEN SubSeq(s, 1, i - 1) ELSE @]
<1>1. /\ ~k.fault /\ tick = "off" /\ pc[t] = "unlink" /\ InTask(pc[t])
      /\ k' = IF Around(s, t) = cut THEN x ELSE y
      /\ fresh' = fresh /\ tick' = tick /\ cut' = <<>>
      /\ pc' = [pc EXCEPT ![t] = "unlock"]
  BY DEF ExitUnlinks, InTask, Goto
<1>2. /\ Ok(k) /\ k \in Kernel /\ Running /\ cut' \in Seq(Task)
      /\ pc \in [Thread -> Control] /\ t \in Thread /\ fresh \in [Thread -> Task \cup {NoTask}]
  BY <1>1, Start, EmptyList DEF IInv, TypeOK, Kernel
<1>3. k.scheduled /\ t # Idle /\ t # Dummy
  BY <1>1, <1>2 DEF Running
<1>4. t \in Task /\ k.prio[t] \in Prio /\ s \in Seq(Task)
  BY <1>2, <1>3, KernelType DEF Thread, OwnQueue
<1>5. Ok(x) /\ Frame(k, x) /\ x.due = k.due
  <2>1. ~Waits(k, t)
    BY <1>1, <1>4, Start DEF Delaying, Stopped, InTask
  <2> QED BY <1>2, <1>3, <1>4, <2>1, MakeUnreadyOk
<1>6. CASE Around(s, t) = cut
  <2>1. Ok(k') /\ Frame(k, k') /\ k'.due[0] = <<>>
    BY <1>1, <1>2, <1>5, <1>6 DEF Running
  <2> QED BY <1>1, <1>2, <1>3, <2>1, CalmStep DEF Frame, Control
<1>7. CASE Around(s, t) # cut
  <2>1. SubSeq(s, 1, i - 1) \in Seq(Task)
    BY <1>4, AroundType DEF SelectInSeq
  <2>2. k' \in Kernel /\ k'.fault
    <3> HIDE DEF x, s, i, t
    <3> QED BY <1>1, <1>4, <1>5, <1>7, <2>1 DEF Ok, Kernel
  <2> QED BY <1>1, <1>2, <2>2 DEF IInv, TypeOK, Control
<1> QED BY <1>6, <1>7

LEMMA ExitStep ==
  ASSUME IInv, osTaskExit
  PROVE  IInv'
<1>1. k' = [k EXCEPT !.fault = TRUE] /\ UNCHANGED <<pc, fresh, tick, cut>>
  BY DEF osTaskExit
<1>2. k' \in Kernel /\ k'.fault
  BY <1>1 DEF IInv, TypeOK, Kernel
<1> QED BY <1>1, <1>2 DEF IInv, TypeOK

(***************************************************************************)
(* The theorems.                                                           *)
(***************************************************************************)
LEMMA InitInv == ~Nesting /\ Init => IInv
<1> SUFFICES ASSUME ~Nesting, Init PROVE IInv
  OBVIOUS
<1>1. /\ k.status = [t \in Task |-> IF t = Idle THEN {"READY"} ELSE {"UNUSED"}]
      /\ k.prio = [t \in Task |-> IF t = Idle THEN LowestPrio ELSE 0]
      /\ k.ready = [p \in Prio |-> IF p = LowestPrio THEN <<Idle>> ELSE <<>>]
      /\ k.wait = [o \in WaitObj |-> <<>>]
      /\ k.free = FreeOrder /\ k.recycle = <<>>
      /\ k.due = [n \in 0 .. MaxTimeout |-> <<>>]
      /\ k.run = Dummy /\ k.new = Idle /\ ~k.pendsv /\ ~k.scheduled /\ ~k.fault
      /\ pc = [t \in Thread |-> IF t \in {Idle, Dummy} THEN "user" ELSE "none"]
      /\ fresh = [t \in Thread |-> NoTask]
      /\ tick = "off" /\ cut = <<>>
  BY DEF Init
<1>2. /\ LowestPrio \in Prio /\ 0 \in Prio /\ 0 \in 0 .. MaxTimeout
      /\ Idle \in Task /\ Dummy \notin Task /\ NoTask \notin Task
      /\ Idle \in Thread /\ Dummy \in Thread
  BY TaskAssumption DEF Prio, Thread
<1>3. /\ FreeOrder \in Seq(Task) /\ IsInjective(FreeOrder)
      /\ \A t \in Task : Contains(FreeOrder, t) <=> t # Idle
  <2>1. FreeOrder \in Seq(Task)
    BY FreeOrderAssumption
  <2>2. \A t \in Task \ {Idle} : Contains(FreeOrder, t)
    BY FreeOrderAssumption DEF Contains
  <2>3. ~Contains(FreeOrder, Idle)
    BY FreeOrderAssumption DEF Contains
  <2> QED BY <2>1, <2>2, <2>3, FreeOrderAssumption DEF IsInjective
<1>4. TypeOK
  <2>1. <<Idle>> \in Seq(Task) /\ <<>> \in Seq(Task)
    BY <1>2
  <2>2. k \in Kernel
    <3>1. [task |-> NoTask, left |-> 0] \in [task : Thread \cup {NoTask}, left : Int]
      OBVIOUS
    <3> QED BY <1>2, <1>3, <2>1, <3>1 DEF Init, Kernel, Flag
  <2> QED BY <1>1, <2>1, <2>2 DEF TypeOK, Control
<1>5. Good(k)
  <2>1. \A u : Contains(<<Idle>>, u) <=> u = Idle
    BY DEF Contains
  <2>2. IsInjective(<<Idle>>) /\ IsInjective(<<>>) /\ \A u : ~Contains(<<>>, u)
    BY EmptyList DEF IsInjective
  <2>3. Queues(k)
    BY <1>1, <1>2, <2>1, <2>2 DEF Queues, Has
  <2>4. \A t \in Task : ~Stopped(k, t) /\ ~Waits(k, t) /\ ~Clocked(k, t)
    BY <1>1 DEF Stopped, Waits, Clocked, Has
  <2>5. Timers(k)
    BY <1>1, <2>2, <2>4 DEF Timers, InTimer
  <2>6. WaitLists(k)
    BY <1>1, <2>2, <2>4 DEF WaitLists
  <2>7. Flags(k)
    BY <1>1, <2>4 DEF Flags, FlagsOf, Has, Stopped, Waits
  <2> QED BY <2>3, <2>5, <2>6, <2>7 DEF Good
<1>6. Sound(k)
  BY <1>1, <1>2, <1>3, <1>5, EmptyList DEF Sound, Has
<1>7. Tcbs(k, fresh)
  BY <1>1, <1>2, <1>3, EmptyList DEF Tcbs, Has
<1>8. Running /\ Creating /\ Delaying(k)
  BY <1>1, <1>2 DEF Running, Creating, Delaying, Stopped, Waits, Has, Thread
<1> QED BY <1>4, <1>6, <1>7, <1>8 DEF IInv

LEMMA NextInv == IInv /\ [Next]_vars => IInv'
<1> SUFFICES ASSUME IInv, [Next]_vars PROVE IInv'
  OBVIOUS
<1>1. CASE TaskApi
  BY <1>1, SuspendStep, ResumeStep, DeleteStep, PriSetStep, DelayStep, YieldStep,
     LockCallsStep, TakeTcbStep, ReturnDetachedStep, ExitLockStep DEF TaskApi
<1>2. CASE Continue
  <2>1. \A d \in Resved : d \in BOOLEAN
    BY DEF Resved
  <2> QED
    BY <1>2, <2>1, CreateFailsStep, CreateStep, RescheduleStep, SwitchStep, ExitLockStep,
       ExitReadsStep, ExitUnlinksStep, ExitStep DEF Continue
<1>3. CASE Exceptions
  BY <1>3, StartToRunStep, PendSVStep, TickStep, ScanStep, ScanEndsStep DEF Exceptions
<1>4. CASE UNCHANGED vars
  BY <1>4 DEF vars, IInv, TypeOK, Running, Creating, Delaying, Stopped, Waits, Has
<1> QED BY <1>1, <1>2, <1>3, <1>4 DEF Next

LEMMA Invariance == ASSUME ~Nesting PROVE Spec => []IInv
BY InitInv, NextInv, PTL DEF Spec

(* If no handler calls the kernel inside a round of osTaskScan, every variable keeps
   its type.                                                               *)
THEOREM TypeCorrect == ASSUME ~Nesting PROVE Spec => []TypeOK
<1>1. IInv => TypeOK
  BY DEF IInv
<1> QED BY <1>1, Invariance, PTL

(* As long as, in addition, no list operation has gone wrong, the ready queues hold
   exactly the READY tasks, at their priorities and once each: usTaskStatus and
   g_pstLosPriorityQueueList agree after every locked section.             *)
THEOREM ReadyCorrect == ASSUME ~Nesting PROVE Spec => [](NoFault => ReadyAgrees)
<1>1. IInv => (NoFault => ReadyAgrees)
  BY DEF IInv, NoFault, Sound, Good, Queues, ReadyAgrees
<1> QED BY <1>1, Invariance, PTL

(* ... exactly the delayed tasks have a timer, and only one ... *)
THEOREM TimersCorrect == ASSUME ~Nesting PROVE Spec => [](NoFault => TimerAgrees)
<1>1. IInv => (NoFault => TimerAgrees)
  BY DEF IInv, NoFault, Sound, Good, Timers, TimerAgrees, Clocked, Waits, Has
<1> QED BY <1>1, Invariance, PTL

(* ... no TCB is lost or handed out twice ... *)
THEOREM TcbsCorrect == ASSUME ~Nesting PROVE Spec => [](NoFault => TcbAgrees)
<1>1. IInv => (NoFault => TcbAgrees)
  BY DEF IInv, NoFault, Tcbs, TcbAgrees
<1> QED BY <1>1, Invariance, PTL

(* ... and no task is blocked and in a ready queue. *)
THEOREM BlockedCorrect == ASSUME ~Nesting PROVE Spec => [](NoFault => BlockedNotReady)
<1>1. IInv => (NoFault => BlockedNotReady)
  BY DEF IInv, NoFault, Sound, Good, Queues, Flags, FlagsOf, Stopped, Waits,
     BlockedNotReady, Blocked, Has
<1> QED BY <1>1, Invariance, PTL

(***************************************************************************)
(* A joinable task that leaves.  It locks the scheduler first, so that no  *)
(* handler can take the CPU from it before it has unlocked.                *)
(***************************************************************************)
Leaving == {"exit", "unlink", "unlock"}
LeavingInv ==
  \A t \in Thread : pc[t] \in Leaving => t = k.run /\ k.lock # 0 /\ ~k.pendsv

(* y has the CPU's owner and the lock count of x, and no switch is pending in either. *)
HasCpu(x) == {"run", "lock", "pendsv"} \subseteq DOMAIN x /\ x.pendsv = FALSE
SameCpu(x, y) == HasCpu(x) => HasCpu(y) /\ y.run = x.run /\ y.lock = x.lock

LEMMA SameCpuOps ==
  ASSUME NEW x, NEW t
  PROVE  /\ SameCpu(x, Unlink(x, t))
         /\ SameCpu(x, MakeReady(x, t))
         /\ SameCpu(x, MakeUnready(x, t))
         /\ SameCpu(x, Unsuspended(x, t))
         /\ SameCpu(x, osTimerListDelete(x, t))
         /\ \A p : SameCpu(x, WithPrio(x, t, p))
<1>1. SameCpu(x, Unlink(x, t))
  BY DEF Unlink, SameCpu, HasCpu
<1>2. \A y : SameCpu(y, [y EXCEPT !.status[t] = @ \ {"READY"}])
  BY DEF SameCpu, HasCpu
<1>3. SameCpu(x, MakeUnready(x, t))
  <2> DEFINE y == Unlink(x, t)
  <2>1. SameCpu(y, [y EXCEPT !.status[t] = @ \ {"READY"}])
    BY <1>2
  <2> QED BY <1>1, <2>1 DEF MakeUnready, SameCpu
<1>4. SameCpu(x, MakeReady(x, t))
  BY DEF MakeReady, SameCpu, HasCpu
<1>5. SameCpu(x, Unsuspended(x, t)) /\ SameCpu(x, osTimerListDelete(x, t))
  BY DEF Unsuspended, osTimerListDelete, SameCpu, HasCpu
<1>6. \A p : SameCpu(x, WithPrio(x, t, p))
  BY DEF WithPrio, SameCpu, HasCpu
<1> QED BY <1>1, <1>3, <1>4, <1>5, <1>6

LEMMA SameCpuCalls ==
  ASSUME NEW x, NEW t
  PROVE  /\ SameCpu(x, Suspended(x, t))
         /\ SameCpu(x, Resumed(x, t))
         /\ \A p : SameCpu(x, osTaskPriModify(x, t, p))
         /\ t # x.run => SameCpu(x, Deleted(x, t))
         /\ SameCpu(x, Expired(x, t))
<1>1. \A y, f : SameCpu(y, [y EXCEPT !.status[t] = f]) /\ SameCpu(y, [y EXCEPT !.new = f])
  BY DEF SameCpu, HasCpu
<1>2. SameCpu(x, Suspended(x, t))
  <2> DEFINE y == IF Has(x, t, "READY") THEN MakeUnready(x, t) ELSE x
             f == y.status[t] \cup {"SUSPEND"}
  <2>1. SameCpu(x, y)
    BY SameCpuOps DEF SameCpu
  <2>2. Suspended(x, t) = [y EXCEPT !.status[t] = f]
    BY DEF Suspended
  <2> HIDE DEF y, f
  <2>3. SameCpu(y, [y EXCEPT !.status[t] = f])
    BY <1>1
  <2> QED BY <2>1, <2>2, <2>3 DEF SameCpu
<1>3. SameCpu(x, Resumed(x, t))
  <2> DEFINE y == Unsuspended(x, t)
             z == MakeReady(y, t)
  <2>1. SameCpu(x, y) /\ SameCpu(y, z)
    BY SameCpuOps
  <2>2. Resumed(x, t) \in {y, z, [z EXCEPT !.new = LOS_PriqueueTop(z)]}
    BY DEF Resumed
  <2> HIDE DEF y, z
  <2>3. SameCpu(z, [z EXCEPT !.new = LOS_PriqueueTop(z)])
    BY <1>1
  <2> QED BY <2>1, <2>2, <2>3 DEF SameCpu
<1>4. ASSUME NEW p PROVE SameCpu(x, osTaskPriModify(x, t, p))
  <2> DEFINE y == MakeUnready(x, t)
             z == WithPrio(y, t, p)
  <2>1. SameCpu(x, y) /\ SameCpu(y, z) /\ SameCpu(z, MakeReady(z, t)) /\ SameCpu(x, WithPrio(x, t, p))
    BY SameCpuOps
  <2>2. osTaskPriModify(x, t, p) \in {MakeReady(z, t), WithPrio(x, t, p)}
    BY DEF osTaskPriModify
  <2> HIDE DEF y, z
  <2> QED BY <2>1, <2>2 DEF SameCpu
<1>5. ASSUME t # x.run PROVE SameCpu(x, Deleted(x, t))
  <2> DEFINE u == Unhooked(x, t)
             v == Untimed(u, t)
  <2>1. SameCpu(x, u)
    BY SameCpuOps DEF Unhooked, SameCpu
  <2>2. SameCpu(u, v)
    BY SameCpuOps DEF Untimed, SameCpu
  <2> HIDE DEF u, v
  <2>3. ASSUME t # v.run PROVE SameCpu(v, Buried(v, t))
    BY <2>3 DEF Buried, SameCpu, HasCpu
  <2>4. Deleted(x, t) = Buried(v, t)
    BY DEF Deleted, u, v
  <2> QED BY <1>5, <2>1, <2>2, <2>3, <2>4 DEF SameCpu
<1>6. SameCpu(x, Expired(x, t))
  <2> DEFINE y == IF x.status[t] \cap {"PEND", "PEND_QUEUE"} # {} THEN Unlink(x, t) ELSE x
             gone == IF Has(x, t, "PEND") THEN {"PEND"}
                     ELSE IF Has(x, t, "PEND_QUEUE") THEN {"PEND_QUEUE"} ELSE {"DELAY"}
             f == y.status[t] \ gone
             z == [y EXCEPT !.status[t] = f]
  <2>1. SameCpu(x, y)
    BY SameCpuOps DEF SameCpu
  <2>2. Expired(x, t) \in {z, MakeReady(z, t)}
    BY DEF Expired, OutOfList, FlagCleared, Has
  <2> HIDE DEF y, gone, f
  <2>3. SameCpu(y, z) /\ SameCpu(z, MakeReady(z, t))
    BY <1>1, SameCpuOps
  <2> HIDE DEF z
  <2> QED BY <2>1, <2>2, <2>3 DEF SameCpu
<1> QED BY <1>2, <1>3, <1>4, <1>5, <1>6

(* What can happen while a task leaves with the scheduler locked. *)
LEMMA LeavingStays ==
  ASSUME IInv, ~k.fault, [Next]_vars, pc[k.run] \in Leaving, k.lock # 0, ~k.pendsv
  PROVE  /\ k'.run = k.run /\ ~k'.pendsv
         /\ k'.lock = k.lock \/ pc' = [pc EXCEPT ![k.run] = "leave"]
         /\ \/ pc' = pc
            \/ \E c : pc' = [pc EXCEPT ![k.run] = c]
            \/ \E t \in Task : pc' = [pc EXCEPT ![t] = "none"]
<1> DEFINE Stay == k'.run = k.run /\ ~k'.pendsv /\ k'.lock = k.lock
           Go == \/ pc' = pc
                 \/ \E c : pc' = [pc EXCEPT ![k.run] = c]
                 \/ \E t \in Task : pc' = [pc EXCEPT ![t] = "none"]
<1>1. k \in Kernel /\ HasCpu(k)
  BY DEF IInv, TypeOK, Kernel, HasCpu
<1>2. \A c : InTask(c) => c \in Leaving
  BY DEF InTask
<1>3. ~UserCode
  BY DEF UserCode, InTask, Leaving
<1>4. ASSUME NEW x, HasCpu(x), x.lock # 0 PROVE SameCpu(x, LOS_Schedule(x))
  BY <1>4 DEF LOS_Schedule, SameCpu, HasCpu
<1>5. ASSUME NEW op, NEW x, NEW r, Call(op, x, r), SameCpu(k, x) PROVE Stay /\ Go
  <2>1. pc' = pc /\ k' \in {x, LOS_Schedule(x)}
    BY <1>3, <1>5 DEF Call
  <2>2. SameCpu(x, LOS_Schedule(x))
    BY <1>1, <1>4, <1>5 DEF SameCpu
  <2> QED BY <1>1, <1>5, <2>1, <2>2 DEF SameCpu, HasCpu
<1>6. CASE TaskApi
  <2>1. ASSUME NEW t \in Task, LOS_TaskSuspend(t) \/ LOS_TaskResume(t) PROVE Stay /\ Go
    <3>1. SameCpu(k, Suspended(k, t)) /\ SameCpu(k, Resumed(k, t))
      BY SameCpuCalls
    <3> HIDE DEF Stay, Go
    <3> QED BY <1>5, <2>1, <3>1 DEF LOS_TaskSuspend, LOS_TaskResume
  <2>2. ASSUME NEW t \in Task, NEW p \in Prio, LOS_TaskPriSet(t, p) PROVE Stay /\ Go
    <3>1. SameCpu(k, osTaskPriModify(k, t, p))
      BY SameCpuCalls
    <3> HIDE DEF Stay, Go
    <3> QED BY <1>5, <2>2, <3>1 DEF LOS_TaskPriSet
  <2>3. ASSUME NEW t \in Task, LOS_TaskDelete(t) PROVE Stay /\ Go
    <3>1. t # k.run /\ k' = Deleted(k, t) /\ pc' = [pc EXCEPT ![t] = "none"]
      BY <1>3, <2>3 DEF LOS_TaskDelete, Goto
    <3>2. SameCpu(k, Deleted(k, t))
      BY <3>1, SameCpuCalls
    <3> QED BY <1>1, <3>1, <3>2 DEF SameCpu, HasCpu
  <2> HIDE DEF Stay, Go
  <2>4. Stay /\ Go
    BY <1>3, <1>6, <2>1, <2>2, <2>3 DEF TaskApi, LOS_TaskDelay, LOS_TaskYield, LOS_TaskLock,
       LOS_TaskUnlock, UnlockUnchecked, TakeTcb, ReturnDetached, ReturnJoinable
  <2> QED BY <2>4 DEF Stay, Go
<1>7. CASE Continue
  <2>1. ExitReadsLinks \/ ExitUnlinks \/ ExitUnlocks
    BY <1>2, <1>7 DEF Continue, CreateFails, LOS_TaskCreate, Reschedule, SwitchFromDeleted,
       ExitLocks, ExitSchedules, osTaskExit, Leaving
  <2>2. CASE ExitReadsLinks
    BY <2>2 DEF ExitReadsLinks, Goto
  <2>3. CASE ExitUnlinks
    <3> DEFINE x == MakeUnready(k, k.run)
               i == SelectInSeq(OwnQueue, LAMBDA u : u = k.run)
    <3>1. \/ k' = x
          \/ \E s : k' = [x EXCEPT !.fault = TRUE, !.ready[k.prio[k.run]] = s]
      BY <2>3 DEF ExitUnlinks
    <3>2. SameCpu(k, x)
      BY SameCpuOps
    <3>3. pc' = [pc EXCEPT ![k.run] = "unlock"]
      BY <2>3 DEF ExitUnlinks, Goto
    <3> HIDE DEF x
    <3>4. SameCpu(x, k')
      BY <3>1 DEF SameCpu, HasCpu
    <3> QED BY <1>1, <3>2, <3>3, <3>4 DEF SameCpu, HasCpu
  <2>4. CASE ExitUnlocks
    BY <1>1, <2>4 DEF ExitUnlocks, Goto, HasCpu
  <2> QED BY <2>1, <2>2, <2>3, <2>4
<1>8. CASE Exceptions
  <2>1. CASE osTickHandler
    <3> DEFINE x == IF TIMESLICE THEN osTimesliceCheck(k) ELSE k
    <3>1. ASSUME NEW y, HasCpu(y), y.lock # 0 PROVE SameCpu(y, YieldInTick(y))
      <4>1. SameCpu(y, Rotate(y))
        <5> DEFINE u == Unlink(y, y.run)
        <5>1. SameCpu(y, u) /\ SameCpu(u, MakeReady(u, y.run))
          BY SameCpuOps
        <5>2. Rotate(y) = MakeReady(u, y.run)
          BY DEF Rotate
        <5> HIDE DEF u
        <5> QED BY <5>1, <5>2 DEF SameCpu
      <4>2. SameCpu(Rotate(y), LOS_Schedule(Rotate(y)))
        BY <1>4, <3>1, <4>1 DEF SameCpu
      <4> QED BY <4>1, <4>2 DEF YieldInTick, SameCpu
    <3>2. SameCpu(k, x)
      <4>1. \A s : SameCpu(k, [k EXCEPT !.slice = s])
        BY DEF SameCpu, HasCpu
      <4> DEFINE none == [task |-> NoTask, left |-> 0]
                 y == [k EXCEPT !.slice = none]
      <4>2. \/ x = k
            \/ \E s : x = [k EXCEPT !.slice = s]
            \/ x = YieldInTick(y)
        BY DEF osTimesliceCheck
      <4>3. SameCpu(k, y)
        BY <4>1
      <4> HIDE DEF y, x
      <4>4. SameCpu(y, YieldInTick(y))
        BY <1>1, <3>1, <4>3 DEF SameCpu
      <4> QED BY <4>1, <4>2, <4>3, <4>4 DEF SameCpu
    <3>3. \E d : k' = [x EXCEPT !.due = d]
      BY <2>1 DEF osTickHandler
    <3> HIDE DEF x
    <3>4. SameCpu(x, k')
      BY <3>3 DEF SameCpu, HasCpu
    <3>5. pc' = pc
      BY <2>1 DEF osTickHandler
    <3> QED BY <1>1, <3>2, <3>4, <3>5 DEF SameCpu, HasCpu
  <2>2. CASE osTaskScan
    <3> DEFINE s == Tail(k.due[0])
               y == [k EXCEPT !.due[0] = s]
               t == Head(k.due[0])
    <3>1. k' = Expired(y, t) /\ pc' = pc
      BY <2>2, ScanWhole DEF IInv, ScanRound
    <3>2. SameCpu(k, y)
      BY DEF SameCpu, HasCpu
    <3> HIDE DEF y
    <3>3. SameCpu(y, Expired(y, t))
      BY SameCpuCalls
    <3> QED BY <1>1, <3>1, <3>2, <3>3 DEF SameCpu, HasCpu
  <2>3. CASE osTaskScanEnds
    <3>1. pc' = pc /\ k' \in {k, LOS_Schedule(k)}
      BY <2>3 DEF osTaskScanEnds, Serving
    <3>2. SameCpu(k, LOS_Schedule(k))
      BY <1>1, <1>4
    <3> QED BY <1>1, <3>1, <3>2 DEF SameCpu, HasCpu
  <2> QED BY <1>3, <1>8, <2>1, <2>2, <2>3 DEF Exceptions, LOS_StartToRun, PendSV_Handler
<1>9. CASE UNCHANGED vars
  BY <1>9 DEF vars
<1> QED BY <1>6, <1>7, <1>8, <1>9 DEF Next

(* A task begins to leave only in ExitLocks. *)
LEMMA LeavingBegins ==
  ASSUME IInv, [Next]_vars, pc[k.run] \notin Leaving, ~ExitLocks
  PROVE  \A t \in Thread : pc'[t] \in Leaving => pc[t] \in Leaving
<1> DEFINE Plain == {"none", "user", "sched", "alloc", "switch", "return", "leave", "exited"}
           Set(u, c) == pc' = [pc EXCEPT ![u] = c]
           Stay == \/ pc' = pc
                   \/ \E u, c : c \in Plain /\ Set(u, c)
                   \/ \E u, v, c, d : {c, d} \subseteq Plain /\ pc' = [pc EXCEPT ![u] = c, ![v] = d]
                   \/ \E u, c : pc' = [pc EXCEPT ![u] = "none", ![Dummy] = IF c THEN "switch" ELSE @]
<1>1. pc \in [Thread -> Control]
  BY DEF IInv, TypeOK
<1>2. ASSUME NEW op, NEW x, NEW r, Call(op, x, r) PROVE pc' = pc \/ Set(k.run, "sched")
  BY <1>2 DEF Call, Goto
<1>3. CASE TaskApi
  <2>1. ASSUME \/ \E t \in Task : LOS_TaskSuspend(t) \/ LOS_TaskResume(t)
               \/ \E t \in Task, p \in Prio : LOS_TaskPriSet(t, p)
        PROVE  pc' = pc \/ Set(k.run, "sched")
    BY <1>2, <2>1 DEF LOS_TaskSuspend, LOS_TaskResume, LOS_TaskPriSet
  <2>2. ASSUME NEW t \in Task, LOS_TaskDelete(t)
        PROVE  \/ Set(t, "none")
               \/ \E c : pc' = [pc EXCEPT ![t] = "none", ![Dummy] = IF c THEN "switch" ELSE @]
    BY <2>2 DEF LOS_TaskDelete, Goto
  <2>3. ASSUME \/ \E n \in 1 .. MaxTimeout : LOS_TaskDelay(n)
               \/ LOS_TaskYield \/ LOS_TaskLock \/ LOS_TaskUnlock \/ TakeTcb \/ ReturnJoinable
        PROVE  pc' = pc \/ \E c \in Plain : Set(k.run, c)
    BY <2>3 DEF LOS_TaskDelay, LOS_TaskYield, LOS_TaskLock, LOS_TaskUnlock, TakeTcb,
       ReturnJoinable, Goto
  <2>4. ASSUME ReturnDetached PROVE pc' = [pc EXCEPT ![k.run] = "none", ![Dummy] = "switch"]
    BY <2>4 DEF ReturnDetached
  <2>5. Stay
    <3> HIDE DEF Set
    <3> QED BY <1>3, <2>1, <2>2, <2>3, <2>4 DEF TaskApi
  <2> QED BY <1>1, <2>5 DEF Leaving
<1>4. CASE Continue
  <2>1. ASSUME NEW p, NEW d, NEW o, LOS_TaskCreate(p, d, o)
        PROVE  pc' = [pc EXCEPT ![k.run] = "user", ![fresh[k.run]] = "user"]
    BY <2>1 DEF LOS_TaskCreate
  <2>2. ASSUME CreateFails \/ Reschedule \/ SwitchFromDeleted \/ ExitUnlocks \/ ExitSchedules
               \/ osTaskExit
        PROVE  pc' = pc \/ \E u : \E c \in Plain : Set(u, c)
    BY <2>2 DEF CreateFails, Reschedule, SwitchFromDeleted, ExitUnlocks, ExitSchedules,
       osTaskExit, Goto
  <2>3. ~ExitLocks /\ ~ExitReadsLinks /\ ~ExitUnlinks
    BY DEF ExitReadsLinks, ExitUnlinks, InTask, Leaving
  <2>4. Stay
    <3> HIDE DEF Set
    <3> QED BY <1>4, <2>1, <2>2, <2>3 DEF Continue
  <2> QED BY <1>1, <2>4 DEF Leaving
<1>5. CASE Exceptions
  <2>1. pc' = pc \/ Set(Dummy, "none")
    BY <1>5, ScanServes DEF Exceptions, LOS_StartToRun, PendSV_Handler, osTickHandler,
     osTaskScanEnds, Serving, Goto
  <2> QED BY <1>1, <2>1 DEF Leaving
<1>6. CASE UNCHANGED vars
  BY <1>6 DEF vars
<1> QED BY <1>3, <1>4, <1>5, <1>6 DEF Next

LEMMA AfterFault ==
  ASSUME k.fault, [Next]_vars
  PROVE  UNCHANGED vars
<1>1. (\A c : ~InTask(c)) /\ ~UserCode /\ ~InIsr
  BY DEF InTask, UserCode, InIsr
<1>2. \A op, x, r : ~Call(op, x, r)
  BY <1>1 DEF Call
<1>3. ~TaskApi
  BY <1>1, <1>2 DEF TaskApi, LOS_TaskSuspend, LOS_TaskResume, LOS_TaskPriSet, LOS_TaskDelete,
     LOS_TaskDelay, LOS_TaskYield, LOS_TaskLock, LOS_TaskUnlock, TakeTcb, ReturnDetached,
     ReturnJoinable
<1>4. ~Continue
  BY <1>1 DEF Continue, CreateFails, LOS_TaskCreate, Reschedule, SwitchFromDeleted, ExitLocks,
     ExitReadsLinks, ExitUnlinks, ExitUnlocks, ExitSchedules, osTaskExit
<1>5. ~Exceptions
  BY <1>1, ScanServes DEF Exceptions, LOS_StartToRun, PendSV_Handler, osTickHandler,
     osTaskScanEnds, Serving
<1> QED BY <1>3, <1>4, <1>5 DEF Next

LEMMA LeavingStep ==
  ASSUME IInv, LeavingInv, [Next]_vars
  PROVE  LeavingInv' /\ (pc[k.run] \in Leaving => k'.run = k.run)
<1>1. /\ k \in Kernel /\ k.run \in Thread /\ k.lock \in Nat
      /\ pc \in [Thread -> Control] /\ Task \subseteq Thread
  BY KernelType DEF IInv, TypeOK, Thread
<1>2. CASE UNCHANGED vars
  BY <1>2 DEF vars, LeavingInv
<1>3. CASE k.fault
  BY <1>2, <1>3, AfterFault
<1>4. CASE ~k.fault /\ pc[k.run] \in Leaving
  <2>1. k.lock # 0 /\ ~k.pendsv /\ \A t \in Thread : pc[t] \in Leaving => t = k.run
    BY <1>1, <1>4 DEF LeavingInv
  <2>2. /\ k'.run = k.run /\ ~k'.pendsv
        /\ k'.lock = k.lock \/ pc' = [pc EXCEPT ![k.run] = "leave"]
        /\ \/ pc' = pc
           \/ \E c : pc' = [pc EXCEPT ![k.run] = c]
           \/ \E t \in Task : pc' = [pc EXCEPT ![t] = "none"]
    BY <1>4, <2>1, LeavingStays
  <2>3. \A t \in Thread : pc'[t] \in Leaving => pc[t] \in Leaving \/ t = k.run
    BY <1>1, <2>2 DEF Leaving
  <2>4. pc'[k.run] \in Leaving => k'.lock = k.lock
    BY <1>1, <2>2 DEF Leaving
  <2> QED BY <2>1, <2>2, <2>3, <2>4 DEF LeavingInv
<1>5. CASE ~k.fault /\ pc[k.run] \notin Leaving
  <2>1. \A t \in Thread : pc[t] \notin Leaving
    BY <1>5 DEF LeavingInv
  <2>2. CASE ExitLocks
    <3>1. /\ pc' = [pc EXCEPT ![k.run] = "exit"] /\ k' = [k EXCEPT !.lock = @ + 1] /\ ~k.pendsv
      BY <2>2 DEF ExitLocks, Goto, InTask
    <3>2. k'.run = k.run /\ k'.lock = k.lock + 1 /\ ~k'.pendsv
      BY <1>1, <3>1 DEF Kernel
    <3>3. k'.lock # 0
      BY <1>1, <3>2
    <3>4. \A t \in Thread : pc'[t] \in Leaving => t = k.run
      BY <1>1, <2>1, <3>1
    <3> QED BY <1>5, <3>2, <3>3, <3>4 DEF LeavingInv
  <2>3. CASE ~ExitLocks
    BY <1>5, <2>1, <2>3, LeavingBegins DEF LeavingInv
  <2> QED BY <2>2, <2>3
<1> QED BY <1>3, <1>4, <1>5

(* The CPU is not taken from a joinable task between its LOS_TaskLock and its
   LOS_TaskUnlock, whatever interrupt handlers do before, between and after the
   rounds of osTaskScan: the links it repairs with interrupts on are not touched
   by another task.                                                        *)
THEOREM ExitKeepsCpu == ASSUME ~Nesting PROVE Spec => ExitNotPreempted
<1>1. Init => LeavingInv
  BY DEF Init, LeavingInv, Leaving
<1>2. IInv /\ LeavingInv /\ [Next]_vars => LeavingInv'
  BY LeavingStep
<1>3. Spec => []LeavingInv
  BY <1>1, <1>2, Invariance, PTL DEF Spec
<1>4. IInv /\ LeavingInv /\ [Next]_vars =>
        [pc[k.run] \in {"exit", "unlink", "unlock"} => k'.run = k.run]_vars
  BY LeavingStep DEF Leaving
<1> QED BY <1>3, <1>4, Invariance, PTL DEF Spec, ExitNotPreempted

(***************************************************************************)
(* Blocking.                                                               *)
(***************************************************************************)

(* y is x after the running task has left its ready queue for the wait list of
   o, with a timer if n is not Forever.                                    *)
Queued(x, y, o, n, flag) ==
  LET t == x.run
      u == MakeUnready(x, t)
  IN /\ y \in Kernel /\ SameRest(u, y)
     /\ y.prio = u.prio /\ y.ready = u.ready /\ y.fault = u.fault
     /\ \A p \in WaitObj : p # o => y.wait[p] = u.wait[p]
     /\ IsInjective(u.wait[o]) /\ ~Contains(u.wait[o], t) => IsInjective(y.wait[o])
     /\ \A w \in Task : Contains(y.wait[o], w) <=> Contains(u.wait[o], w) \/ w = t
     /\ \A m \in 0 .. MaxTimeout : y.due[m] = IF m = n THEN Append(u.due[m], t) ELSE u.due[m]
     /\ \A w \in Task : w # t => y.status[w] = u.status[w]
     /\ \A f \in Flag \ {"TIMEOUT"} : Has(y, t, f) <=> Has(u, t, f) \/ f = flag
     /\ Has(y, t, "TIMEOUT") <=> n # Forever

(* A task that is in no queue is put into a wait list and gets a timer. *)
LEMMA QueuedGood ==
  ASSUME NEW u \in Kernel, NEW y \in Kernel, NEW t \in Task, NEW o \in WaitObj,
         NEW n \in 1 .. Forever, NEW flag \in {"PEND", "PEND_QUEUE"}, ~TIMESLICE,
         Good(u), ~Has(u, t, "UNUSED"), ~Has(u, t, "READY"), ~Stopped(u, t),
         y.prio = u.prio, y.ready = u.ready,
         \A p \in WaitObj : p # o => y.wait[p] = u.wait[p],
         IsInjective(u.wait[o]) /\ ~Contains(u.wait[o], t) => IsInjective(y.wait[o]),
         \A w \in Task : Contains(y.wait[o], w) <=> Contains(u.wait[o], w) \/ w = t,
         \A m \in 0 .. MaxTimeout : y.due[m] = IF m = n THEN Append(u.due[m], t) ELSE u.due[m],
         \A w \in Task : w # t => y.status[w] = u.status[w],
         \A f \in Flag \ {"TIMEOUT"} : Has(y, t, f) <=> Has(u, t, f) \/ f = flag,
         Has(y, t, "TIMEOUT") <=> n # Forever
  PROVE  Good(y)
<1>0. n \in Int /\ (n # Forever <=> n \in 0 .. MaxTimeout)
  BY TaskAssumption DEF Forever
<1>1. FlagsOf(u, t)
  BY DEF Good, Flags
<1>2. /\ \A m \in 0 .. MaxTimeout : ~Contains(u.due[m], t) /\ IsInjective(u.due[m])
      /\ \A p \in WaitObj : ~Contains(u.wait[p], t) /\ IsInjective(u.wait[p])
  BY DEF Good, Timers, WaitLists, InTimer, Clocked, Stopped
<1> DEFINE D == {m \in 0 .. MaxTimeout : m = n}
           W == {o}
<1>3. /\ D \in SUBSET (0 .. MaxTimeout) /\ (D # {} <=> n # Forever) /\ (\A l, m \in D : l = m)
      /\ \A m : m \in D <=> m = n /\ m \in 0 .. MaxTimeout
      /\ W \in SUBSET WaitObj /\ W # {} /\ (\A p, q \in W : p = q) /\ \A p : p \in W <=> p = o
  BY <1>0
<1> HIDE DEF D, W
<1>4. \A m \in 0 .. MaxTimeout :
        /\ IsInjective(y.due[m])
        /\ \A w \in Task : Contains(y.due[m], w) <=> Contains(u.due[m], w) \/ (w = t /\ m \in D)
  <2>1. ASSUME NEW m \in 0 .. MaxTimeout, m = n
        PROVE  /\ IsInjective(y.due[m])
               /\ \A w \in Task : Contains(y.due[m], w) <=> Contains(u.due[m], w) \/ w = t
    <3>1. u.due[m] \in Seq(Task) /\ y.due[m] = Append(u.due[m], t)
      BY <2>1, KernelType
    <3> QED BY <1>2, <3>1, AppendList
  <2>2. ASSUME NEW m \in 0 .. MaxTimeout, m # n PROVE y.due[m] = u.due[m]
    BY <2>2
  <2> QED BY <1>2, <1>3, <2>1, <2>2
<1>5. \A p \in WaitObj :
        /\ IsInjective(y.wait[p])
        /\ \A w \in Task : Contains(y.wait[p], w) <=> Contains(u.wait[p], w) \/ (w = t /\ p \in W)
  BY <1>2, <1>3
<1>6. /\ ~Has(y, t, "READY") /\ ~Has(y, t, "UNUSED") /\ ~Has(y, t, "DELAY")
      /\ Waits(y, t) /\ ~(Has(y, t, "PEND") /\ Has(y, t, "PEND_QUEUE"))
  BY DEF Stopped, Waits, Flag
<1>7. FlagsOf(y, t) /\ (Clocked(y, t) <=> n # Forever)
  BY <1>6 DEF FlagsOf, Clocked
<1>8. /\ Waits(y, t) <=> W # {}
      /\ Clocked(y, t) <=> D # {}
  BY <1>3, <1>6, <1>7
<1> HIDE DEF Forever
<1> QED BY <1>3, <1>4, <1>5, <1>6, <1>7, <1>8, StopsGood

LEMMA QueuedOk ==
  ASSUME NEW x, NEW y, NEW o \in WaitObj, NEW n \in 1 .. Forever,
         NEW flag \in {"PEND", "PEND_QUEUE"},
         Ok(x), x.run \in Task \ {Idle}, ~x.fault, ~Waits(x, x.run), ~TIMESLICE,
         Queued(x, y, o, n, flag)
  PROVE  /\ Ok(y) /\ Keeps(x, y) /\ y.due[0] = x.due[0]
         /\ y.pendsv = x.pendsv /\ y.new = x.new
<1> DEFINE t == x.run
           u == MakeUnready(x, t)
<1>1. /\ Ok(u) /\ Frame(x, u) /\ u.due = x.due /\ u.pendsv = x.pendsv /\ u.new = x.new
      /\ u.run = t /\ u \in Kernel
  BY MakeUnreadyOk, MakeUnreadyFacts DEF Ok, SameRest
<1>2. ASSUME ~u.fault
      PROVE  ~Has(u, t, "UNUSED") /\ ~Has(u, t, "READY") /\ ~Stopped(u, t)
  BY <1>2, LeftAlone
<1>3. /\ y \in Kernel /\ SameRest(u, y)
      /\ y.prio = u.prio /\ y.ready = u.ready /\ y.fault = u.fault
      /\ \A p \in WaitObj : p # o => y.wait[p] = u.wait[p]
      /\ IsInjective(u.wait[o]) /\ ~Contains(u.wait[o], t) => IsInjective(y.wait[o])
      /\ \A w \in Task : Contains(y.wait[o], w) <=> Contains(u.wait[o], w) \/ w = t
      /\ \A m \in 0 .. MaxTimeout : y.due[m] = IF m = n THEN Append(u.due[m], t) ELSE u.due[m]
      /\ \A w \in Task : w # t => y.status[w] = u.status[w]
      /\ \A f \in Flag \ {"TIMEOUT"} : Has(y, t, f) <=> Has(u, t, f) \/ f = flag
      /\ Has(y, t, "TIMEOUT") <=> n # Forever
  BY DEF Queued
<1>4. 0 \in 0 .. MaxTimeout /\ n # 0 /\ (n # Forever <=> n \in 0 .. MaxTimeout) /\ n \in Int
  BY TaskAssumption DEF Forever
<1> HIDE DEF u, t
<1>5. t \in Task
  BY DEF t
<1>6. ~u.fault => Good(y)
  <2>1. ASSUME ~u.fault
        PROVE  /\ Good(u) /\ ~Has(u, t, "UNUSED") /\ ~Has(u, t, "READY") /\ ~Stopped(u, t)
    BY <1>1, <1>2, <2>1 DEF Ok, Sound
  <2> QED BY <1>1, <1>3, <1>5, <2>1, QueuedGood
<1>7. \A w \in Task : Has(y, w, "UNUSED") <=> Has(u, w, "UNUSED")
  BY <1>3 DEF Has, Flag
<1>8. ~u.fault => Has(y, Idle, "READY")
  <2>1. Idle # t /\ Idle \in Task
    BY TaskAssumption DEF t
  <2> QED BY <1>1, <1>3, <2>1 DEF Has, Ok, Sound
<1>9. ~y.fault => Sound(y)
  BY <1>1, <1>3, <1>6, <1>7, <1>8, KernelType DEF Ok, Sound, SameRest
<1>10. Ok(y)
  BY <1>1, <1>3, <1>9 DEF Ok, IdleQueued
<1>11. y.due[0] = x.due[0] /\ y.pendsv = x.pendsv /\ y.new = x.new
  BY <1>1, <1>3, <1>4 DEF SameRest
<1> QED BY <1>1, <1>3, <1>7, <1>10, <1>11 DEF Frame, Gentle, Keeps, KeepsTcbs, SameRest

LEMMA WaitOnQueued ==
  ASSUME NEW x \in Kernel, x.run \in Task, NEW o \in WaitObj, NEW n \in 1 .. Forever
  PROVE  Queued(x, WaitOn(x, o, n), o, n, "PEND")
<1> DEFINE t == x.run
           u == MakeUnready(x, t)
           s == Append(u.wait[o], t)
           f == IF n = Forever THEN (u.status[t] \cup {"PEND"}) \ {"TIMEOUT"}
                ELSE u.status[t] \cup {"PEND", "TIMEOUT"}
           d == [m \in 0 .. MaxTimeout |-> IF m = n THEN Append(u.due[m], t) ELSE u.due[m]]
           y == [u EXCEPT !.wait[o] = s, !.status[t] = f, !.due = d]
<1>1. u \in Kernel /\ SameRest(x, u)
  BY MakeUnreadyFacts
<1> HIDE DEF u
<1>2. t \in Task /\ n \in Int /\ (n # Forever => n \in 0 .. MaxTimeout)
      /\ \A m \in 0 .. MaxTimeout : m # Forever
  BY TaskAssumption DEF Forever
<1>3. /\ u.wait[o] \in Seq(Task) /\ s \in Seq(Task) /\ u.status[t] \in SUBSET Flag
      /\ \A m \in 0 .. MaxTimeout : u.due[m] \in Seq(Task) /\ Append(u.due[m], t) \in Seq(Task)
  BY <1>1, <1>2, KernelType
<1>4. f \in SUBSET Flag /\ d \in [0 .. MaxTimeout -> Seq(Task)]
  BY <1>3 DEF Flag
<1>5. WaitOn(x, o, n) = y
  <2> DEFINE z == [u EXCEPT !.wait[o] = Append(@, t)]
  <2>1. z = [u EXCEPT !.wait[o] = s] /\ u.status = z.status /\ u.due = z.due
    BY <1>1 DEF Kernel
  <2>2. CASE n = Forever
    <3>1. WaitOn(x, o, n) = [z EXCEPT !.status[t] = (@ \cup {"PEND"}) \ {"TIMEOUT"}]
      BY <1>1, <2>2 DEF WaitOn, u, SameRest
    <3>2. d = u.due
      BY <1>1, <1>2, <2>2 DEF Kernel
    <3>3. f = (u.status[t] \cup {"PEND"}) \ {"TIMEOUT"}
      BY <2>2
    <3> HIDE DEF d, f, s
    <3> QED BY <1>1, <2>1, <3>1, <3>2, <3>3 DEF Kernel
  <2>3. CASE n # Forever
    <3>1. WaitOn(x, o, n) = osTaskAdd2TimerList(
             [z EXCEPT !.status[t] = @ \cup {"PEND", "TIMEOUT"}], t, n)
      BY <1>1, <2>3 DEF WaitOn, u, SameRest
    <3>2. d = [u.due EXCEPT ![n] = Append(@, t)]
      BY <1>1, <1>2, <2>3 DEF Kernel
    <3>3. f = u.status[t] \cup {"PEND", "TIMEOUT"}
      BY <2>3
    <3>4. n \in 0 .. MaxTimeout
      BY <1>2, <2>3
    <3> HIDE DEF d, f, s
    <3> QED BY <1>1, <2>1, <3>1, <3>2, <3>3, <3>4 DEF Kernel, osTaskAdd2TimerList
  <2> QED BY <2>2, <2>3
<1> HIDE DEF s, d, f
<1>6. /\ y \in Kernel /\ SameRest(u, y)
      /\ y.prio = u.prio /\ y.ready = u.ready /\ y.fault = u.fault
      /\ y.wait = [u.wait EXCEPT ![o] = s] /\ y.status = [u.status EXCEPT ![t] = f] /\ y.due = d
  BY <1>1, <1>2, <1>3, <1>4 DEF Kernel, SameRest
<1> HIDE DEF y
<1>7. /\ y.wait[o] = s /\ \A p \in WaitObj : p # o => y.wait[p] = u.wait[p]
      /\ y.status[t] = f /\ \A w \in Task : w # t => y.status[w] = u.status[w]
      /\ \A m \in 0 .. MaxTimeout : y.due[m] = IF m = n THEN Append(u.due[m], t) ELSE u.due[m]
  BY <1>1, <1>2, <1>6 DEF Kernel, d
<1>8. /\ IsInjective(u.wait[o]) /\ ~Contains(u.wait[o], t) => IsInjective(y.wait[o])
      /\ \A w \in Task : Contains(y.wait[o], w) <=> Contains(u.wait[o], w) \/ w = t
  BY <1>2, <1>3, <1>7, AppendList DEF s
<1>9. /\ \A g \in Flag \ {"TIMEOUT"} : Has(y, t, g) <=> Has(u, t, g) \/ g = "PEND"
      /\ Has(y, t, "TIMEOUT") <=> n # Forever
  BY <1>7 DEF Has, f, Flag
<1> QED BY <1>5, <1>6, <1>7, <1>8, <1>9 DEF Queued, u, t

(***************************************************************************)
(* Waking.                                                                 *)
(***************************************************************************)

(* The flags of a task that Awake has woken. *)
AwakeFlags(S, flag) ==
  (S \ {flag, "TIMEOUT"}) \cup (IF "SUSPEND" \in S THEN {} ELSE {"READY"})

LEMMA AwakeOk ==
  ASSUME NEW x, NEW o \in WaitObj, NEW t \in Task, NEW flag \in {"PEND", "PEND_QUEUE"},
         Ok(x), ~x.fault, Contains(x.wait[o], t), Has(x, t, flag)
  PROVE  LET y == Awake(x, o, t, flag)
         IN /\ Ok(y) /\ Gentle(x, y) /\ t # Idle
            /\ ~y.fault /\ SameRest(x, y)
            /\ x.due[0] = <<>> => y.due[0] = <<>>
            /\ y.prio = x.prio
            /\ y.status[t] = AwakeFlags(x.status[t], flag)
            /\ \A u \in Task : u # t => y.status[u] = x.status[u]
            /\ \A p \in WaitObj, u \in Task :
                 Contains(y.wait[p], u) <=> Contains(x.wait[p], u) /\ u # t
<1> DEFINE y == [x EXCEPT !.wait[o] = RemoveFirst(@, t)]
           z == IF Has(x, t, "TIMEOUT") THEN osTimerListDelete(y, t) ELSE y
           f == x.status[t] \ {flag, "TIMEOUT"}
           w == [z EXCEPT !.status[t] = f]
           v == IF Has(x, t, "SUSPEND") THEN w ELSE MakeReady(w, t)
<1>1. /\ x \in Kernel /\ Sound(x) /\ Good(x) /\ 0 \in 0 .. MaxTimeout
      /\ FlagsOf(x, t) /\ Waits(x, t) /\ Idle \in Task
  BY TaskAssumption DEF Ok, Sound, Good, Flags, Waits
<1>2. /\ ~Has(x, t, "READY") /\ ~Has(x, t, "DELAY") /\ ~Has(x, t, "UNUSED") /\ t # Idle
      /\ \A g \in {"PEND", "PEND_QUEUE"} : Has(x, t, g) => g = flag
  <2>1. ~Has(x, t, "READY") /\ ~Has(x, t, "DELAY") /\ ~Has(x, t, "UNUSED")
    BY <1>1 DEF FlagsOf, Stopped, Waits, Has
  <2>2. t # Idle
    BY <1>1, <2>1 DEF Sound
  <2> QED BY <1>1, <2>1, <2>2 DEF FlagsOf
<1>3. /\ \A p \in WaitObj : p # o => ~Contains(x.wait[p], t)
      /\ \A p \in WaitObj : IsInjective(x.wait[p]) /\ x.wait[p] \in Seq(Task)
      /\ \A p \in Prio : ~Contains(x.ready[p], t) /\ IsInjective(x.ready[p])
      /\ \A n \in 0 .. MaxTimeout : IsInjective(x.due[n]) /\ x.due[n] \in Seq(Task)
      /\ InTimer(x, t) <=> Has(x, t, "TIMEOUT")
  <2>1. InTimer(x, t) <=> Has(x, t, "TIMEOUT")
    BY <1>1, <1>2 DEF Good, Timers, Clocked
  <2>2. \A p \in Prio : ~Contains(x.ready[p], t) /\ IsInjective(x.ready[p])
    BY <1>1, <1>2 DEF Good, Queues
  <2>3. \A p \in WaitObj : p # o => ~Contains(x.wait[p], t)
    BY <1>1 DEF Good, WaitLists
  <2>4. \A p \in WaitObj : IsInjective(x.wait[p]) /\ x.wait[p] \in Seq(Task)
    BY <1>1, KernelType DEF Good, WaitLists
  <2>5. \A n \in 0 .. MaxTimeout : IsInjective(x.due[n]) /\ x.due[n] \in Seq(Task)
    BY <1>1, KernelType DEF Good, Timers
  <2> QED BY <2>1, <2>2, <2>3, <2>4, <2>5
<1>4. /\ RemoveFirst(x.wait[o], t) \in Seq(Task) /\ IsInjective(RemoveFirst(x.wait[o], t))
      /\ \A u : Contains(RemoveFirst(x.wait[o], t), u) <=> Contains(x.wait[o], u) /\ u # t
  BY <1>3, RemoveFirstType, RemoveFirstList
<1>5. /\ y \in Kernel /\ SameRest(x, y)
      /\ y.status = x.status /\ y.prio = x.prio /\ y.ready = x.ready /\ y.due = x.due
      /\ y.fault = x.fault
      /\ y.wait = [x.wait EXCEPT ![o] = RemoveFirst(@, t)]
      /\ \A p \in WaitObj : y.wait[p] = IF p = o THEN RemoveFirst(x.wait[o], t) ELSE x.wait[p]
  BY <1>1, <1>4 DEF Kernel, SameRest
<1> HIDE DEF y
<1>6. \A n \in 0 .. MaxTimeout :
        /\ RemoveFirst(x.due[n], t) \in Seq(Task) /\ IsInjective(RemoveFirst(x.due[n], t))
        /\ \A u : Contains(RemoveFirst(x.due[n], t), u) <=> Contains(x.due[n], u) /\ u # t
  BY <1>3, RemoveFirstType, RemoveFirstList
<1>7. /\ z \in Kernel /\ SameRest(x, z)
      /\ z.status = x.status /\ z.prio = x.prio /\ z.ready = x.ready /\ z.wait = y.wait
      /\ ~z.fault
      /\ \A n \in 0 .. MaxTimeout :
           /\ IsInjective(z.due[n])
           /\ \A u \in Task : Contains(z.due[n], u) <=> Contains(x.due[n], u) /\ u # t
      /\ z.due[0] = x.due[0] \/ z.due[0] = RemoveFirst(x.due[0], t)
  <2>1. CASE Has(x, t, "TIMEOUT")
    <3>1. InTimer(y, t)
      BY <1>3, <1>5, <2>1 DEF InTimer
    <3>2. [n \in 0 .. MaxTimeout |-> RemoveFirst(y.due[n], t)] \in [0 .. MaxTimeout -> Seq(Task)]
      BY <1>5, <1>6
    <3>3. /\ z \in Kernel /\ SameRest(y, z)
          /\ z.status = y.status /\ z.prio = y.prio /\ z.ready = y.ready /\ z.wait = y.wait
          /\ z.fault = y.fault
          /\ \A n \in 0 .. MaxTimeout : z.due[n] = RemoveFirst(y.due[n], t)
      BY <1>5, <2>1, <3>1, <3>2 DEF osTimerListDelete, Kernel, SameRest
    <3> HIDE DEF z
    <3>4. \A n \in 0 .. MaxTimeout : z.due[n] = RemoveFirst(x.due[n], t)
      BY <1>5, <3>3
    <3> QED BY <1>1, <1>5, <1>6, <3>3, <3>4 DEF SameRest
  <2>2. CASE ~Has(x, t, "TIMEOUT")
    <3>1. z = y
      BY <2>2
    <3>2. \A n \in 0 .. MaxTimeout : ~Contains(x.due[n], t)
      BY <1>3, <2>2 DEF InTimer
    <3> HIDE DEF z
    <3> QED BY <1>3, <1>5, <3>1, <3>2
  <2> QED BY <2>1, <2>2
<1> HIDE DEF z
<1>8. f \in SUBSET Flag
  BY <1>1, KernelType
<1>9. /\ "UNUSED" \notin f /\ "READY" \notin f /\ "DELAY" \notin f
      /\ "PEND" \notin f /\ "PEND_QUEUE" \notin f /\ "TIMEOUT" \notin f
      /\ "SUSPEND" \in f <=> Has(x, t, "SUSPEND")
  BY <1>2 DEF Has
<1>10. AwakeFlags(x.status[t], flag) = IF Has(x, t, "SUSPEND") THEN f ELSE f \cup {"READY"}
  BY DEF AwakeFlags, Has
<1> HIDE DEF f
<1>11. /\ w \in Kernel /\ SameRest(x, w)
       /\ w.status = [x.status EXCEPT ![t] = f]
       /\ w.status[t] = f /\ \A u \in Task : u # t => w.status[u] = x.status[u]
       /\ w.prio = x.prio /\ w.ready = x.ready /\ w.wait = y.wait /\ w.due = z.due
       /\ ~w.fault
  BY <1>1, <1>7, <1>8 DEF Kernel, SameRest
<1>12. v = Awake(x, o, t, flag)
  <2>1. Awake(x, o, t, flag)
          = LET q == [z EXCEPT !.status[t] = @ \ {flag, "TIMEOUT"}]
            IN IF Has(x, t, "SUSPEND") THEN q ELSE MakeReady(q, t)
    BY DEF Awake, z, y
  <2>2. [z EXCEPT !.status[t] = @ \ {flag, "TIMEOUT"}] = w
    BY <1>7 DEF Kernel, f
  <2> QED BY <2>1, <2>2
<1> HIDE DEF w
<1>13. ~Stopped(w, t) /\ ~Has(w, t, "READY") /\ ~Has(w, t, "UNUSED")
       /\ (Has(w, t, "SUSPEND") <=> Has(x, t, "SUSPEND"))
  BY <1>9, <1>11 DEF Has, Stopped, Waits
<1>14. Good(w)
  <2>1. \A p \in Prio : /\ IsInjective(w.ready[p])
                        /\ \A u \in Task : Contains(w.ready[p], u) <=> Contains(x.ready[p], u) /\ u # t
    BY <1>3, <1>11
  <2>2. \A p \in WaitObj : /\ IsInjective(w.wait[p])
                           /\ \A u \in Task : Contains(w.wait[p], u) <=> Contains(x.wait[p], u) /\ u # t
    BY <1>3, <1>4, <1>5, <1>11
  <2>3. \A n \in 0 .. MaxTimeout :
          /\ IsInjective(w.due[n])
          /\ \A u \in Task : Contains(w.due[n], u) <=> Contains(x.due[n], u) /\ u # t
    BY <1>7, <1>11
  <2> QED BY <1>1, <1>11, <1>13, <2>1, <2>2, <2>3, LeavesGood
<1>15. /\ \A u \in Task : /\ Has(w, u, "UNUSED") <=> Has(x, u, "UNUSED")
                          /\ Stopped(w, u) => Stopped(x, u)
       /\ Has(w, Idle, "READY")
  <2>1. \A u \in Task : u # t => /\ Has(w, u, "UNUSED") <=> Has(x, u, "UNUSED")
                                 /\ Stopped(w, u) <=> Stopped(x, u)
    BY <1>11, FlagsShared
  <2>2. Has(w, Idle, "READY") <=> Has(x, Idle, "READY")
    BY <1>1, <1>2, <1>11, FlagsShared
  <2> QED BY <1>1, <1>2, <1>13, <2>1, <2>2 DEF Sound
<1>16. Sound(w)
  BY <1>1, <1>11, <1>14, <1>15, KernelType DEF Sound, SameRest
<1>17. Ok(w)
  BY <1>11, <1>14, <1>15, <1>16, TaskAssumption, KernelType DEF Ok, Good, Queues, IdleQueued
<1>18. Gentle(x, w)
  <2>1. Calm(x, w)
    BY <1>1, <1>11, <1>15, CalmSame DEF SameRest
  <2> QED BY <1>1, <1>11, <1>15, <2>1 DEF Ok, Gentle, Keeps, KeepsTcbs, SameRest
<1>19. /\ Ok(v) /\ Gentle(x, v) /\ ~v.fault /\ SameRest(x, v)
       /\ v.status = [x.status EXCEPT ![t] = AwakeFlags(@, flag)]
       /\ v.prio = x.prio /\ v.due = w.due /\ v.wait = y.wait
  <2>1. CASE Has(x, t, "SUSPEND")
    <3>1. v = w
      BY <2>1
    <3>2. AwakeFlags(x.status[t], flag) = f
      BY <1>10, <2>1
    <3> HIDE DEF v
    <3> QED BY <1>11, <1>17, <1>18, <3>1, <3>2
  <2>2. CASE ~Has(x, t, "SUSPEND")
    <3>1. v = MakeReady(w, t)
      BY <2>2
    <3> HIDE DEF v
    <3>2. Startable(w, t)
      BY <1>13, <2>2 DEF Startable
    <3>3. /\ Ok(v) /\ Frame(w, v)
          /\ v.status = [w.status EXCEPT ![t] = @ \cup {"READY"}]
          /\ v.prio = w.prio /\ v.due = w.due /\ v.wait = w.wait
      BY <1>11, <1>17, <3>1, <3>2, MakeReadyOk, MakeReadyFacts
    <3>4. v.status = [x.status EXCEPT ![t] = AwakeFlags(@, flag)]
      <4>1. AwakeFlags(x.status[t], flag) = f \cup {"READY"}
        BY <1>10, <2>2
      <4>2. w.status = [x.status EXCEPT ![t] = f] /\ x.status \in [Task -> SUBSET Flag]
        BY <1>1, <1>11 DEF Kernel
      <4> QED BY <3>3, <4>1, <4>2
    <3>5. Gentle(x, v)
      BY <1>18, <3>3, GentleTransitive DEF Frame
    <3>6. ~v.fault /\ SameRest(x, v)
      <4>1. ~Linked(w, t)
        BY <1>13, <1>16, LinkedIsReady DEF Stopped
      <4>2. v.fault = (w.fault \/ Linked(w, t)) /\ SameRest(w, v)
        BY <1>11, <3>1, MakeReadyFacts
      <4>3. ~v.fault
        BY <1>11, <4>1, <4>2
      <4> QED BY <1>11, <4>2, <4>3 DEF SameRest
    <3> QED BY <1>11, <3>3, <3>4, <3>5, <3>6
  <2> QED BY <2>1, <2>2
<1>20. x.due[0] = <<>> => v.due[0] = <<>>
  <2>1. RemoveFirst(<<>>, t) = <<>>
    BY DEF RemoveFirst
  <2> QED BY <1>7, <1>11, <1>19, <2>1
<1> HIDE DEF v
<1>21. \A p \in WaitObj, u \in Task : Contains(v.wait[p], u) <=> Contains(x.wait[p], u) /\ u # t
  <2>1. v.wait[o] = RemoveFirst(x.wait[o], t)
    BY <1>5, <1>19
  <2>2. \A p \in WaitObj : p # o => v.wait[p] = x.wait[p]
    BY <1>5, <1>19
  <2> QED BY <1>3, <1>4, <2>1, <2>2
<1>22. /\ v.status[t] = AwakeFlags(x.status[t], flag)
       /\ \A u \in Task : u # t => v.status[u] = x.status[u]
  <2>1. x.status \in [Task -> SUBSET Flag]
    BY <1>1 DEF Kernel
  <2> QED BY <1>19, <2>1
<1> QED BY <1>2, <1>5, <1>12, <1>19, <1>20, <1>21, <1>22

(***************************************************************************)
(* Steps.                                                                  *)
(***************************************************************************)

(* The same, of a task that does not wait in a queue, point by point. *)
LEMMA AwakeFacts ==
  ASSUME NEW x, NEW y, NEW o \in WaitObj, NEW t \in Task, y = Awake(x, o, t, "PEND"),
         Ok(x), ~x.fault, Contains(x.wait[o], t), Has(x, t, "PEND")
  PROVE  /\ Ok(y) /\ Gentle(x, y) /\ t # Idle
         /\ ~y.fault /\ SameRest(x, y)
         /\ x.due[0] = <<>> => y.due[0] = <<>>
         /\ y.status[t] = AwakeFlags(x.status[t], "PEND")
         /\ \A u \in Task : u # t => y.status[u] = x.status[u]
         /\ \A p \in WaitObj, u \in Task :
              Contains(y.wait[p], u) <=> Contains(x.wait[p], u) /\ u # t
<1>1. "PEND" \in {"PEND", "PEND_QUEUE"}
  OBVIOUS
<1> QED BY <1>1, AwakeOk

(* A list is empty unless it has a member. *)
LEMMA WaiterExists ==
  ASSUME NEW x \in Kernel, NEW o \in WaitObj
  PROVE  x.wait[o] # <<>> <=> \E t \in Task : Contains(x.wait[o], t)
<1>1. x.wait[o] \in Seq(Task)
  BY KernelType
<1>2. x.wait[o] # <<>> => Head(x.wait[o]) \in Task /\ Contains(x.wait[o], Head(x.wait[o]))
  BY <1>1, TailList
<1>3. \A t : Contains(x.wait[o], t) => x.wait[o] # <<>>
  BY EmptyList
<1> QED BY <1>2, <1>3

(* A thread that begins or ends a blocking call is a task other than Idle, and it
   does not wait.                                                          *)
LEMMA CallerFacts ==
  ASSUME IInv, InTask(pc[k.run]), pc[k.run] \in {"user", "woken"}, k.run # Idle, k.scheduled
  PROVE  /\ ~k.fault /\ ~k.pendsv /\ tick = "off" /\ k.due[0] = <<>>
         /\ Ok(k) /\ k \in Kernel /\ Sound(k) /\ k.run \in Task \ {Idle}
         /\ pc \in [Thread -> Control]
         /\ ~Stopped(k, k.run) /\ ~Waits(k, k.run)
<1>1. /\ ~k.fault /\ ~k.pendsv /\ tick = "off"
      /\ Ok(k) /\ k \in Kernel /\ Sound(k) /\ Running /\ Delaying(k)
      /\ pc \in [Thread -> Control] /\ k.run \in Thread
  BY Start DEF InTask, IInv, TypeOK, Ok, Kernel
<1>2. k.run # Dummy /\ k.due[0] = <<>>
  BY <1>1 DEF Running
<1>3. k.run \in Task \ {Idle}
  BY <1>1, <1>2 DEF Thread
<1>4. ~Stopped(k, k.run)
  BY <1>1, <1>3 DEF Delaying
<1> QED BY <1>1, <1>2, <1>3, <1>4 DEF Stopped

LEMMA QueuedFacts ==
  ASSUME NEW x, NEW y, NEW o \in WaitObj, NEW n \in 1 .. Forever,
         NEW flag \in {"PEND", "PEND_QUEUE"},
         Ok(x), x.run \in Task, ~x.fault, ~Waits(x, x.run), Queued(x, y, o, n, flag)
  PROVE  /\ y.prio = x.prio
         /\ \A p \in WaitObj, u \in Task :
              Contains(y.wait[p], u) <=> Contains(x.wait[p], u) \/ (u = x.run /\ p = o)
         /\ \A u \in Task : u # x.run => y.status[u] = x.status[u]
         /\ \A f \in Flag \ {"TIMEOUT", "READY"} :
              Has(y, x.run, f) <=> Has(x, x.run, f) \/ f = flag
         /\ Has(y, x.run, "TIMEOUT") <=> n # Forever
<1> DEFINE t == x.run
           u == MakeUnready(x, t)
<1>1. /\ u.status = [x.status EXCEPT ![t] = @ \ {"READY"}] /\ u.prio = x.prio
      /\ \A p \in WaitObj : u.wait[p] = RemoveFirst(x.wait[p], t)
  BY MakeUnreadyFacts DEF Ok
<1>2. /\ y.prio = u.prio
      /\ \A p \in WaitObj : p # o => y.wait[p] = u.wait[p]
      /\ \A w \in Task : Contains(y.wait[o], w) <=> Contains(u.wait[o], w) \/ w = t
      /\ \A w \in Task : w # t => y.status[w] = u.status[w]
      /\ \A f \in Flag \ {"TIMEOUT"} : Has(y, t, f) <=> Has(u, t, f) \/ f = flag
      /\ Has(y, t, "TIMEOUT") <=> n # Forever
  BY DEF Queued
<1> HIDE DEF u
<1>3. \A p \in WaitObj, w \in Task : Contains(u.wait[p], w) <=> Contains(x.wait[p], w)
  <2>1. ASSUME NEW p \in WaitObj, NEW w \in Task
        PROVE  Contains(u.wait[p], w) <=> Contains(x.wait[p], w)
    <3>1. x.wait[p] \in Seq(Task) /\ IsInjective(x.wait[p]) /\ ~Contains(x.wait[p], t)
      BY KernelType DEF Ok, Sound, Good, WaitLists
    <3> QED BY <1>1, <3>1, RemoveFirstList
  <2> QED BY <2>1
<1>4. u.status[t] = x.status[t] \ {"READY"} /\ \A w \in Task : w # t => u.status[w] = x.status[w]
  BY <1>1 DEF Ok, Kernel
<1>5. \A f \in Flag \ {"TIMEOUT", "READY"} : Has(u, t, f) <=> Has(x, t, f)
  BY <1>4 DEF Has
<1>6. \A p \in WaitObj, w \in Task :
        Contains(y.wait[p], w) <=> Contains(x.wait[p], w) \/ (w = t /\ p = o)
  BY <1>2, <1>3
<1> QED BY <1>1, <1>2, <1>4, <1>5, <1>6

(* The running task blocks, perhaps after x has been made of k (LOS_MuxPend). *)
LEMMA BlockStep ==
  ASSUME IInv, ~TIMESLICE, NEW o \in WaitObj, NEW n \in 1 .. Forever,
         NEW flag \in {"PEND", "PEND_QUEUE"},
         k.scheduled, UserCode, k.lock = 0,
         NEW x, Ok(x), Gentle(k, x), x.due = k.due, x.pendsv = k.pendsv,
         Queued(x, k', o, n, flag),
         pc' = [pc EXCEPT ![k.run] = "pend"], fresh' = fresh, tick' = tick, cut' = cut
  PROVE  IInv'
<1> DEFINE t == k.run
<1>1. /\ InTask(pc[t]) /\ pc[t] = "user" /\ t # Idle
      /\ ~k.fault /\ ~k.pendsv /\ tick = "off" /\ k.due[0] = <<>>
      /\ Ok(k) /\ k \in Kernel /\ t \in Task \ {Idle} /\ pc \in [Thread -> Control]
      /\ ~Stopped(k, t) /\ ~Waits(k, t) /\ cut \in Seq(Task)
      /\ fresh \in [Thread -> Task \cup {NoTask}]
  BY CallerFacts DEF UserCode, InTask, IInv, TypeOK
<1>2. /\ Running /\ Delaying(k) /\ Dummy \in Thread /\ Idle \in Thread /\ t \in Thread
      /\ Dummy \notin Task
  BY <1>1, Start, TaskAssumption DEF Thread
<1>3. x.run = t /\ k' \in Kernel /\ (x.fault => k'.fault)
  BY MakeUnreadyFacts, <1>1 DEF Gentle, Keeps, KeepsTcbs, Queued, Ok
<1>4. /\ pc' \in [Thread -> Control] /\ pc'[Idle] = "user" /\ pc'[Dummy] = pc[Dummy]
      /\ pc'[t] = "pend"
      /\ \A u \in Thread : pc'[u] = "alloc" <=> pc[u] = "alloc"
  BY <1>1, <1>2 DEF Running, Control
<1>5. CASE x.fault
  BY <1>1, <1>3, <1>4, <1>5 DEF IInv, TypeOK
<1>6. CASE ~x.fault
  <2>1. ~Waits(x, x.run) /\ x.run \in Task \ {Idle}
    BY <1>1, <1>3, <1>6 DEF Gentle, Calm, Stopped
  <2>2. /\ Ok(k') /\ Keeps(x, k') /\ k'.due[0] = x.due[0]
        /\ k'.pendsv = x.pendsv /\ k'.new = x.new
    BY <1>6, <2>1, QueuedOk
  <2>3. Keeps(k, k')
    BY <2>2 DEF Gentle, Keeps, KeepsTcbs
  <2>4. ~k'.pendsv /\ k'.run = t /\ k'.scheduled /\ k'.lock = 0 /\ k'.due[0] = <<>>
    BY <1>1, <2>2, <2>3 DEF Keeps, KeepsTcbs
  <2>5. Delaying(k)'
    BY <1>1, <1>2, <1>4, <2>4 DEF Delaying
  <2> QED BY <1>1, <1>2, <1>4, <2>2, <2>3, <2>4, <2>5, FrameStep DEF Keeps, Running
<1> QED BY <1>5, <1>6

LEMMA WaitSchedulesStep ==
  ASSUME IInv, WaitSchedules
  PROVE  IInv'
<1>1. /\ pc[k.run] = "pend" /\ InTask(pc[k.run])
      /\ k' = LOS_Schedule(k) /\ pc' = [pc EXCEPT ![k.run] = "woken"]
      /\ fresh' = fresh /\ tick' = tick /\ cut' = cut
  BY DEF WaitSchedules, InTask, Goto
<1> QED BY <1>1, ScheduleStep DEF Control

(* A thread goes on behind the LOS_Schedule of a blocking call. *)
LEMMA WokenStep ==
  ASSUME IInv, InTask("woken"), Ok(k'), Gentle(k, k'), k'.due[0] = k.due[0],
         NEW c \in {"user", "sched"},
         pc' = [pc EXCEPT ![k.run] = c], fresh' = fresh, tick' = tick, cut' = cut
  PROVE  IInv'
<1>1. /\ pc[k.run] = "woken" /\ InTask(pc[k.run]) /\ ~k.fault /\ tick = "off"
      /\ Running /\ cut \in Seq(Task)
  BY Start DEF InTask, IInv, TypeOK
<1>2. k.scheduled /\ k.run # Idle /\ k'.due[0] = <<>> /\ c \in Control \ {"alloc"}
  BY <1>1 DEF Running, Control
<1> QED BY <1>1, <1>2, CalmStep

(* It clears its TIMEOUT flag. *)
LEMMA ClearsTimeout ==
  ASSUME IInv, InTask("woken"), k' = [k EXCEPT !.status[k.run] = @ \ {"TIMEOUT"}]
  PROVE  /\ Ok(k') /\ Gentle(k, k') /\ k'.due = k.due /\ k'.wait = k.wait /\ k'.prio = k.prio
         /\ k.run \in Task
         /\ k'.status = [k.status EXCEPT ![k.run] = @ \ {"TIMEOUT"}]
<1>1. pc[k.run] = "woken" /\ InTask(pc[k.run]) /\ ~k.fault
  BY DEF InTask
<1>2. Running
  BY <1>1, Start
<1>3. k.run # Idle /\ k.scheduled
  BY <1>1, <1>2 DEF Running
<1>4. /\ Ok(k) /\ k \in Kernel /\ k.run \in Task \ {Idle} /\ ~Waits(k, k.run) /\ Sound(k)
  BY <1>1, <1>3, CallerFacts
<1> DEFINE f == k.status[k.run] \ {"TIMEOUT"}
<1>5. /\ f \in SUBSET Flag /\ k' = [k EXCEPT !.status[k.run] = f]
      /\ \A g \in {"READY", "DELAY", "UNUSED", "PEND", "PEND_QUEUE"} :
           g \in f <=> Has(k, k.run, g)
      /\ FlagsOf(k, k.run)
  BY <1>4, KernelType DEF Has, Sound, Good, Flags
<1>6. /\ "UNUSED" \in f => f = {"UNUSED"}
      /\ "READY" \in f => "SUSPEND" \notin f
  BY <1>5 DEF FlagsOf, Has
<1> HIDE DEF f
<1>7. Ok(k') /\ Gentle(k, k')
  BY <1>4, <1>5, <1>6, FlagsOk
<1> QED BY <1>4, <1>5, <1>7 DEF Kernel, f

(* Whoever waits is in one wait list, and does not run on. *)
LEMMA WaitsAgree ==
  ASSUME IInv, ~k.fault
  PROVE  WaitAgrees
<1>1. Sound(k) /\ Running /\ Delaying(k) /\ k.run \in Thread
  BY Start DEF Ok, Kernel
<1>2. WokenIsDone
  <2>1. SUFFICES ASSUME InTask("woken") PROVE ~Waits(k, k.run)
    BY DEF WokenIsDone, Waits, Has
  <2>2. k.run # Idle /\ k.scheduled /\ InTask(pc[k.run]) /\ pc[k.run] = "woken"
    BY <1>1, <2>1 DEF Running, InTask
  <2> QED BY <2>2, CallerFacts
<1>3. \A o \in WaitObj : IsInjective(k.wait[o])
  BY <1>1 DEF Sound, Good, WaitLists
<1>4. ASSUME NEW t \in Task, NEW in, in = {o \in WaitObj : Contains(k.wait[o], t)}
      PROVE  /\ Cardinality(in) <= 1
             /\ in # {} <=> k.status[t] \cap {"PEND", "PEND_QUEUE"} # {}
  <2>1. \A o, p \in in : o = p
    BY <1>1, <1>4 DEF Sound, Good, WaitLists
  <2>2. CASE in = {}
    <3>1. Cardinality(in) = 0
      BY <2>2, FS_EmptySet
    <3>2. ~Waits(k, t)
      BY <1>1, <1>4, <2>2 DEF Sound, Good, WaitLists
    <3> QED BY <2>2, <3>1, <3>2 DEF Waits, Has
  <2>3. CASE in # {}
    <3>1. PICK o \in in : TRUE
      BY <2>3
    <3>2. in = {o}
      BY <2>1, <3>1
    <3>3. Cardinality(in) = 1
      BY <3>2, FS_Singleton
    <3> QED BY <1>1, <1>4, <3>1, <3>3 DEF Sound, Good, WaitLists, Waits, Has
  <2> QED BY <2>2, <2>3
<1> QED BY <1>2, <1>3, <1>4 DEF WaitAgrees

(***************************************************************************)
(* A step of the task component alone: nobody begins to wait, and a thread *)
(* inside a blocking call stays there, with the flags that say why it may  *)
(* leave.                                                                  *)
(***************************************************************************)
Inside == {"pend", "woken"}

Endures ==
  \A t \in Task :
    /\ \A o \in WaitObj : Contains(k'.wait[o], t) => Contains(k.wait[o], t)
    /\ \A f \in {"PEND", "PEND_QUEUE"} : Has(k', t, f) => Has(k, t, f)
    /\ pc'[t] \in Inside =>
         /\ pc'[t] = pc[t]
         /\ \A f \in {"PEND", "PEND_QUEUE"} : Has(k, t, f) => Has(k', t, f) \/ Has(k', t, "TIMEOUT")
         /\ Has(k', t, "TIMEOUT") <=> Has(k, t, "TIMEOUT")

LEMMA PatientEndures ==
  ASSUME Patient(k, k'), ~k'.fault, \A t \in Task : pc'[t] \in Inside => pc'[t] = pc[t]
  PROVE  Endures
BY DEF Patient, Endures

(* The places the task component sends a thread to are not inside such a call. *)
LEMMA ElsewhereKept ==
  ASSUME IInv, [Next]_vars
  PROVE  \A t \in Task : pc'[t] \in Inside => pc'[t] = pc[t]
<1> DEFINE Kept == \A t \in Task : pc'[t] \in Inside => pc'[t] = pc[t]
<1>1. pc \in [Thread -> Control] /\ \A t \in Task : t \in Thread
  BY DEF IInv, TypeOK, Thread
<1>2. \A u, c : pc' = [pc EXCEPT ![u] = c] /\ c \notin Inside => Kept
  BY <1>1
<1>3. \A u, v, c, d : pc' = [pc EXCEPT ![u] = c, ![v] = d] /\ c \notin Inside
                      /\ (d \notin Inside \/ v \notin Task) => Kept
  BY <1>1
<1>4. pc' = pc => Kept
  OBVIOUS
<1>5. Dummy \notin Task
  BY TaskAssumption
<1>6. {"none", "user", "sched", "alloc", "switch", "return", "exit", "unlink", "unlock",
       "leave", "exited"} \cap Inside = {}
  BY DEF Inside
<1> SUFFICES Kept
  OBVIOUS
<1> HIDE DEF Kept, Inside
<1>7. CASE TaskApi
  <2>1. ASSUME NEW op, NEW x, NEW r, Call(op, x, r) PROVE Kept
    BY <1>2, <1>4, <1>6, <2>1 DEF Call, Goto
  <2>2. /\ \A t \in Task : LOS_TaskSuspend(t) \/ LOS_TaskResume(t) => Kept
        /\ \A t \in Task, p \in Prio : LOS_TaskPriSet(t, p) => Kept
    BY <2>1 DEF LOS_TaskSuspend, LOS_TaskResume, LOS_TaskPriSet
  <2>3. ASSUME NEW t \in Task, LOS_TaskDelete(t) PROVE Kept
    <3>1. \/ pc' = [pc EXCEPT ![t] = "none", ![Dummy] = IF t = k.run THEN "switch" ELSE @]
          \/ pc' = [pc EXCEPT ![t] = "none"]
      BY <2>3 DEF LOS_TaskDelete, Goto
    <3>2. pc' = [pc EXCEPT ![t] = "none", ![Dummy] = IF t = k.run THEN "switch" ELSE @] => Kept
      BY <1>3, <1>5, <1>6
    <3> QED BY <1>2, <1>6, <3>1, <3>2
  <2>4. ASSUME NEW n \in 1 .. MaxTimeout, LOS_TaskDelay(n) PROVE Kept
    BY <1>2, <1>6, <2>4 DEF LOS_TaskDelay, Goto
  <2>5. CASE LOS_TaskYield
    BY <1>2, <1>6, <2>5 DEF LOS_TaskYield, Goto
  <2>6. CASE LOS_TaskLock
    BY <1>4, <2>6 DEF LOS_TaskLock
  <2>7. CASE LOS_TaskUnlock
    BY <1>2, <1>4, <1>6, <2>7 DEF LOS_TaskUnlock, Goto
  <2>8. CASE TakeTcb
    BY <1>2, <1>6, <2>8 DEF TakeTcb, Goto
  <2>9. CASE ReturnDetached
    BY <1>3, <1>6, <2>9 DEF ReturnDetached
  <2>10. CASE ReturnJoinable
    BY <1>2, <1>6, <2>10 DEF ReturnJoinable, Goto
  <2> QED BY <1>7, <2>2, <2>3, <2>4, <2>5, <2>6, <2>7, <2>8, <2>9, <2>10 DEF TaskApi
<1>8. CASE Continue
  <2>1. ASSUME NEW p, NEW d, NEW o, LOS_TaskCreate(p, d, o) PROVE Kept
    <3>1. pc' = [pc EXCEPT ![k.run] = "user", ![fresh[k.run]] = "user"]
      BY <2>1 DEF LOS_TaskCreate
    <3> QED BY <1>3, <1>6, <3>1
  <2>2. CASE CreateFails \/ Reschedule \/ SwitchFromDeleted \/ ExitLocks \/ ExitUnlinks
             \/ ExitUnlocks \/ ExitSchedules
    BY <1>2, <1>6, <2>2 DEF CreateFails, Reschedule, SwitchFromDeleted, ExitLocks, ExitUnlinks,
       ExitUnlocks, ExitSchedules, Goto
  <2>3. CASE ExitReadsLinks
    BY <1>2, <1>6, <2>3 DEF ExitReadsLinks, Goto
  <2>4. CASE osTaskExit
    BY <1>4, <2>4 DEF osTaskExit
  <2> QED BY <1>8, <2>1, <2>2, <2>3, <2>4 DEF Continue
<1>9. CASE Exceptions
  BY <1>2, <1>4, <1>6, <1>9, ScanServes
     DEF Exceptions, LOS_StartToRun, PendSV_Handler, osTickHandler, osTaskScanEnds, Serving, Goto
<1>10. CASE UNCHANGED vars
  BY <1>4, <1>10 DEF vars
<1> QED BY <1>7, <1>8, <1>9, <1>10 DEF Next

(* A call that leaves the waiting tasks alone. *)
LEMMA CallPatient ==
  ASSUME IInv, NEW op, NEW x, NEW r, Call(op, x, r), Ok(x), Frame(k, x), ~k'.fault
  PROVE  Patient(k, k')
<1>1. CASE k' = x
  BY <1>1 DEF Frame
<1>2. CASE InIsr /\ k' = LOS_Schedule(x)
  <2>1. x.scheduled
    BY <1>2 DEF InIsr, Frame, Gentle, Keeps, KeepsTcbs
  <2> QED BY <1>2, <2>1, ScheduleOk, FrameTransitive DEF Frame
<1> QED BY <1>1, <1>2 DEF Call

LEMMA SameWaits ==
  ASSUME k'.status = k.status, k'.wait = k.wait
  PROVE  Patient(k, k')
<1>1. \A t, f : Has(k', t, f) <=> Has(k, t, f)
  BY DEF Has
<1> QED BY <1>1, PatientSame

LEMMA TaskApiPatient ==
  ASSUME IInv, ~k.fault, ~k'.fault, TaskApi,
         ~ReturnDetached, \A t \in Task : ~LOS_TaskDelete(t)
  PROVE  Patient(k, k')
<1>1. /\ Ok(k) /\ k \in Kernel /\ Sound(k) /\ Running /\ Delaying(k)
  BY Start DEF Ok
<1>2. ASSUME NEW t \in Task, LOS_TaskSuspend(t) PROVE Patient(k, k')
  <2>1. t \in Task \ {Idle} /\ ~Has(k, t, "UNUSED") /\ Call("suspend", Suspended(k, t), t = k.run)
    BY <1>2 DEF LOS_TaskSuspend
  <2> QED BY <1>1, <2>1, SuspendedOk, CallPatient
<1>3. ASSUME NEW t \in Task, LOS_TaskResume(t) PROVE Patient(k, k')
  <2>1. ~Has(k, t, "UNUSED")
        /\ Call("resume", Resumed(k, t), k.scheduled /\ ~Blocked(Unsuspended(k, t), t))
    BY <1>3 DEF LOS_TaskResume
  <2> QED BY <1>1, <2>1, ResumedOk, CallPatient
<1>4. ASSUME NEW t \in Task, NEW p \in Prio, LOS_TaskPriSet(t, p) PROVE Patient(k, k')
  <2>1. t \in Task \ {Idle} /\ ~Has(k, t, "UNUSED")
        /\ Call("priset", osTaskPriModify(k, t, p), Has(k, t, "READY"))
    BY <1>4 DEF LOS_TaskPriSet
  <2> QED BY <1>1, <2>1, PriModifyOk, CallPatient
<1>5. ASSUME NEW n \in 1 .. MaxTimeout, LOS_TaskDelay(n) PROVE Patient(k, k')
  <2> DEFINE t == k.run
             u == MakeUnready(k, t)
             d == [u.due EXCEPT ![n] = Append(@, t)]
             y == [u EXCEPT !.due = d]
  <2>1. t \in Task /\ k' = Delayed(k, n)
    <3>1. t # Dummy
      BY <1>1, <1>5 DEF LOS_TaskDelay, UserCode, InTask, Running
    <3> QED BY <1>1, <1>5, <3>1 DEF LOS_TaskDelay, Kernel, Thread
  <2>2. /\ u \in Kernel /\ u.status = [k.status EXCEPT ![t] = @ \ {"READY"}]
        /\ \A o \in WaitObj : u.wait[o] = RemoveFirst(k.wait[o], t)
    BY <1>1, <2>1, MakeUnreadyFacts
  <2> HIDE DEF u
  <2>3. k' = [y EXCEPT !.status[t] = @ \cup {"DELAY"}]
    <3>1. y = osTaskAdd2TimerList(u, t, n)
      BY <2>2 DEF osTaskAdd2TimerList, Kernel
    <3> HIDE DEF y
    <3> QED BY <2>1, <3>1 DEF Delayed, u
  <2> HIDE DEF d
  <2>4. /\ k'.wait = u.wait
        /\ k'.status = [u.status EXCEPT ![t] = @ \cup {"DELAY"}]
    BY <2>2, <2>3 DEF Kernel
  <2>5. \A w \in Task : \A f \in {"PEND", "PEND_QUEUE", "TIMEOUT"} : Has(k', w, f) <=> Has(k, w, f)
    <3>1. u.status \in [Task -> SUBSET Flag] /\ k.status \in [Task -> SUBSET Flag]
      BY <1>1, <2>2 DEF Kernel
    <3> QED BY <2>1, <2>2, <2>4, <3>1 DEF Has
  <2>6. ASSUME NEW w \in Task, NEW o \in WaitObj, Contains(k'.wait[o], w)
        PROVE  Contains(k.wait[o], w)
    <3>1. k.wait[o] \in Seq(Task) /\ k'.wait[o] = RemoveFirst(k.wait[o], t)
      BY <1>1, <2>2, <2>4, KernelType
    <3> HIDE DEF t
    <3> QED BY <2>6, <3>1, RemoveFirstMembers
  <2> QED BY <2>5, <2>6, PatientSame
<1>6. CASE LOS_TaskYield
  <2>1. k.run \in Task /\ k' = Rotate(k) /\ ~k.pendsv /\ pc[k.run] = "user"
    BY <1>6 DEF LOS_TaskYield, CanYield, UserCode, InTask
  <2>2. ~Waits(k, k.run)
    BY <1>1, <2>1 DEF Delaying, Stopped
  <2> QED BY <1>1, <2>1, <2>2, RotateOk DEF Frame
<1>7. CASE LOS_TaskLock \/ LOS_TaskUnlock \/ ReturnJoinable
  BY <1>1, <1>7, SameWaits DEF LOS_TaskLock, LOS_TaskUnlock, ReturnJoinable, Unlocked, Kernel
<1>8. CASE TakeTcb
  <2>1. k'.status = k.status /\ k'.wait = k.wait
    BY <1>1, <1>8 DEF TakeTcb, Drained, Kernel
  <2> QED BY <2>1, SameWaits
<1> QED BY <1>2, <1>3, <1>4, <1>5, <1>6, <1>7, <1>8 DEF TaskApi

LEMMA CreatePatient ==
  ASSUME IInv, ~k'.fault, NEW p \in Prio, NEW d \in BOOLEAN, NEW o \in BOOLEAN,
         LOS_TaskCreate(p, d, o)
  PROVE  Patient(k, k')
<1> DEFINE t == fresh[k.run]
           x == Filled(k, t, p, d)
<1>1. /\ Ok(k) /\ k \in Kernel /\ Sound(k) /\ t \in Task /\ Has(k, t, "UNUSED") /\ ~k.fault
      /\ ~Contains(k.free, t) /\ ~Contains(k.recycle, t)
  BY AllocFacts DEF LOS_TaskCreate
<1>2. k' = IF o THEN x ELSE Started(x, t)
  BY DEF LOS_TaskCreate
<1>3. x.status = [k.status EXCEPT ![t] = {"SUSPEND"} \cup (IF d THEN {"DETACHED"} ELSE {})]
  BY <1>1 DEF Filled, Kernel
<1> HIDE DEF t
<1>4. /\ Ok(x) /\ ~x.fault /\ x.wait = k.wait /\ ~Has(x, t, "UNUSED") /\ ~Stopped(x, t)
      /\ \A u \in Task : u # t => x.status[u] = k.status[u]
  BY <1>1, FilledOk
<1> HIDE DEF x
<1>5. Patient(k, x)
  <2>1. \A f \in {"PEND", "PEND_QUEUE", "TIMEOUT"} : ~Has(x, t, f) /\ ~Has(k, t, f)
    <3>1. k.status[t] = {"UNUSED"}
      BY <1>1 DEF Sound, Good, Flags, FlagsOf
    <3>2. x.status[t] = {"SUSPEND"} \cup (IF d THEN {"DETACHED"} ELSE {})
      BY <1>1, <1>3 DEF Kernel
    <3> QED BY <3>1, <3>2 DEF Has
  <2>2. \A u \in Task, f \in {"PEND", "PEND_QUEUE", "TIMEOUT"} : Has(x, u, f) <=> Has(k, u, f)
    BY <1>4, <2>1 DEF Has
  <2> QED BY <1>4, <2>2, PatientSame
<1>6. Patient(x, k')
  <2>1. CASE o
    BY <1>2, <2>1, FrameReflexive DEF Frame
  <2>2. CASE ~o
    BY <1>1, <1>2, <1>4, <2>2, StartedOk DEF Frame
  <2> QED BY <2>1, <2>2
<1> QED BY <1>4, <1>5, <1>6 DEF Patient

LEMMA ContinuePatient ==
  ASSUME IInv, ~k.fault, ~k'.fault, Continue
  PROVE  Patient(k, k')
<1>1. /\ Ok(k) /\ k \in Kernel /\ Running /\ Delaying(k)
  BY Start DEF Ok
<1>2. ASSUME NEW p \in Prio, NEW d \in Resved, NEW o \in BOOLEAN, LOS_TaskCreate(p, d, o)
      PROVE  Patient(k, k')
  <2>1. d \in BOOLEAN
    BY DEF Resved
  <2> QED BY <1>2, <2>1, CreatePatient
<1>3. CASE CreateFails \/ Reschedule \/ SwitchFromDeleted \/ ExitSchedules \/ osTaskExit
  <2>1. k'.status = k.status /\ k'.wait = k.wait
    BY <1>1, <1>3 DEF CreateFails, Reschedule, SwitchFromDeleted, ExitSchedules, osTaskExit,
       LOS_Schedule, osSchedule, Kernel
  <2> QED BY <2>1, SameWaits
<1>4. CASE ExitLocks \/ ExitReadsLinks \/ ExitUnlocks
  <2>1. k'.status = k.status /\ k'.wait = k.wait
    BY <1>1, <1>4 DEF ExitLocks, ExitReadsLinks, ExitUnlocks, Kernel
  <2> QED BY <2>1, SameWaits
<1>5. CASE ExitUnlinks
  <2>1. pc[k.run] = "unlink" /\ ~k.pendsv
    BY <1>5 DEF ExitUnlinks, InTask
  <2>2. k.run \in Task \ {Idle} /\ ~Waits(k, k.run)
    <3>1. k.run # Idle /\ k.run # Dummy /\ k.run \in Thread
      BY <1>1, <2>1 DEF Running, Kernel
    <3> QED BY <1>1, <2>1, <3>1 DEF Thread, Delaying, Stopped
  <2> DEFINE x == MakeUnready(k, k.run)
  <2>3. Ok(x) /\ Frame(k, x)
    BY <1>1, <2>2, MakeUnreadyOk
  <2>4. k' = x
    <3> HIDE DEF x
    <3>1. x \in Kernel
      BY <2>3 DEF Ok
    <3>2. \A z : ~[x EXCEPT !.fault = TRUE, !.ready[k.prio[k.run]] = z].fault => FALSE
      BY <3>1 DEF Kernel
    <3> QED BY <1>5, <3>2 DEF ExitUnlinks, x
  <2> QED BY <2>3, <2>4 DEF Frame
<1> QED BY <1>2, <1>3, <1>4, <1>5 DEF Continue

LEMMA ExceptionsPatient ==
  ASSUME IInv, ~k.fault, ~k'.fault, Exceptions
  PROVE  Patient(k, k')
<1>1. /\ Ok(k) /\ k \in Kernel /\ Running /\ Delaying(k)
  BY Start DEF Ok
<1>2. CASE LOS_StartToRun \/ PendSV_Handler
  <2>1. k'.status = k.status /\ k'.wait = k.wait
    BY <1>1, <1>2 DEF LOS_StartToRun, PendSV_Handler, Kernel
  <2> QED BY <2>1, SameWaits
<1>3. CASE osTickHandler
  <2> DEFINE x == IF TIMESLICE THEN osTimesliceCheck(k) ELSE k
  <2>1. k.scheduled /\ tick = "off" /\ k' = Shifted(x)
    BY <1>3 DEF osTickHandler, InIsr, Shifted
  <2>2. Ok(x) /\ Frame(k, x) /\ x.due = k.due
    <3>1. CASE TIMESLICE
      BY <1>1, <2>1, <3>1, TimesliceOk
    <3>2. CASE ~TIMESLICE
      BY <1>1, <3>2, FrameReflexive
    <3> QED BY <3>1, <3>2
  <2> HIDE DEF x
  <2>3. Frame(x, k')
    BY <1>1, <2>1, <2>2, ShiftedOk DEF Running
  <2> QED BY <2>2, <2>3, FrameTransitive DEF Frame
<1>4. CASE osTaskScan
  <2>1. k.due[0] # <<>> /\ k' = Expired([k EXCEPT !.due[0] = Tail(@)], Head(k.due[0]))
    BY <1>1, <1>4, ScanWhole DEF IInv, ScanRound
  <2> QED BY <1>1, <2>1, ExpiredOk DEF Frame
<1>5. CASE osTaskScanEnds
  <2>1. k'.status = k.status /\ k'.wait = k.wait
    BY <1>1, <1>5 DEF osTaskScanEnds, Serving, LOS_Schedule, Kernel
  <2> QED BY <2>1, SameWaits
<1> QED BY <1>2, <1>3, <1>4, <1>5 DEF Exceptions

(* A deleted task is in no call any more; the others do not notice. *)
LEMMA GoneEndures ==
  ASSUME NEW t \in Task, NEW x, Gone(k, x, t), k'.status = x.status, k'.wait = x.wait,
         pc'[t] = "none", \A u \in Task : pc'[u] \in Inside => pc'[u] = pc[u]
  PROVE  Endures
<1>1. \A u \in Task : u # t => \A f : Has(k', u, f) <=> Has(k, u, f)
  BY DEF Gone, Has
<1>2. \A f \in {"PEND", "PEND_QUEUE"} : ~Has(k', t, f)
  BY DEF Gone, Has
<1>3. \A u \in Task, o \in WaitObj : Contains(k'.wait[o], u) => Contains(k.wait[o], u)
  BY DEF Gone
<1> QED BY <1>1, <1>2, <1>3 DEF Endures, Inside

(* Nothing follows a fault. *)
LEMMA FaultStays ==
  ASSUME [Next]_vars, ~k'.fault
  PROVE  ~k.fault
<1>1. CASE TaskApi
  BY <1>1 DEF TaskApi, LOS_TaskSuspend, LOS_TaskResume, LOS_TaskPriSet, LOS_TaskDelete,
     LOS_TaskDelay, LOS_TaskYield, LOS_TaskLock, LOS_TaskUnlock, TakeTcb, ReturnDetached,
     ReturnJoinable, Call, UserCode, InTask, InIsr
<1>2. CASE Continue
  BY <1>2 DEF Continue, CreateFails, LOS_TaskCreate, Reschedule, SwitchFromDeleted,
     ExitLocks, ExitReadsLinks, ExitUnlinks, ExitUnlocks, ExitSchedules, osTaskExit, InTask
<1>3. CASE Exceptions
  BY <1>3, ScanServes DEF Exceptions, LOS_StartToRun, PendSV_Handler, osTickHandler,
     osTaskScanEnds, Serving, UserCode, InTask, InIsr
<1>4. CASE UNCHANGED vars
  BY <1>4 DEF vars
<1> QED BY <1>1, <1>2, <1>3, <1>4 DEF Next

LEMMA NextEndures ==
  ASSUME IInv, [Next]_vars, ~k'.fault
  PROVE  Endures
<1>1. \A t \in Task : pc'[t] \in Inside => pc'[t] = pc[t]
  BY ElsewhereKept
<1>2. CASE UNCHANGED vars
  BY <1>1, <1>2, SameWaits, PatientEndures DEF vars
<1>3. CASE Next
  <2>1. ~k.fault
    BY FaultStays
  <2>2. /\ Ok(k) /\ k \in Kernel /\ Running /\ Delaying(k) /\ Dummy \notin Task
        /\ pc \in [Thread -> Control] /\ \A u \in Task : u \in Thread
    BY <2>1, Start, TaskAssumption DEF Ok, IInv, TypeOK, Thread
  <2>3. ASSUME NEW t \in Task, LOS_TaskDelete(t) PROVE Endures
    <3> DEFINE x == Deleted(k, t)
    <3>1. t \in Task \ {Idle}
      BY <2>3 DEF LOS_TaskDelete
    <3>2. Gone(k, x, t)
      BY <2>1, <2>2, <3>1, DeletedGone
    <3>3. k' = x \/ k' = osSchedule(x)
      BY <2>3 DEF LOS_TaskDelete
    <3>4. \/ pc' = [pc EXCEPT ![t] = "none", ![Dummy] = IF t = k.run THEN "switch" ELSE @]
          \/ pc' = [pc EXCEPT ![t] = "none"]
      BY <2>3 DEF LOS_TaskDelete, Goto
    <3> HIDE DEF x
    <3>5. k'.status = x.status /\ k'.wait = x.wait
      BY <3>2, <3>3 DEF osSchedule, Gone, Kernel
    <3>6. pc'[t] = "none"
      BY <2>2, <3>4
    <3> QED BY <1>1, <3>2, <3>5, <3>6, GoneEndures
  <2>4. CASE ReturnDetached
    <3> DEFINE t == k.run
               x == Unlocked(k)
               y == osTaskSelfDelete(x, t)
    <3>1. /\ t # Idle /\ ~k.pendsv /\ pc[t] = "user" /\ k.scheduled /\ k' = y
          /\ pc' = [pc EXCEPT ![t] = "none", ![Dummy] = "switch"]
      BY <2>4 DEF ReturnDetached, UserCode, InTask
    <3>2. t \in Task \ {Idle}
      BY <2>2, <3>1 DEF Running, Kernel, Thread
    <3>3. /\ x \in Kernel /\ SameLists(k, x)
          /\ x.free = k.free /\ x.recycle = k.recycle /\ x.run = k.run /\ x.new = k.new
          /\ x.scheduled = k.scheduled /\ x.pendsv = k.pendsv /\ x.fault = k.fault
      BY <2>2 DEF Unlocked, Kernel, SameLists
    <3> HIDE DEF x
    <3>4. Ok(x)
      BY <2>2, <3>3, GoodShared DEF Ok, Sound, Has, SameLists, IdleQueued
    <3>5. ~Stopped(x, t)
      BY <2>2, <3>1, <3>2, <3>3, FlagsShared DEF Delaying, SameLists
    <3>6. Gone(x, y, t)
      BY <2>1, <3>2, <3>3, <3>4, <3>5, SelfDeleteGone
    <3> HIDE DEF y
    <3>7. Gone(k, y, t)
      BY <3>3, <3>6 DEF Gone, SameLists
    <3>8. pc'[t] = "none"
      BY <2>2, <3>1, <3>2
    <3> QED BY <1>1, <3>1, <3>2, <3>7, <3>8, GoneEndures
  <2>5. CASE ~ReturnDetached /\ \A t \in Task : ~LOS_TaskDelete(t)
    BY <1>1, <1>3, <2>1, <2>5, TaskApiPatient, ContinuePatient, ExceptionsPatient,
       PatientEndures DEF Next
  <2> QED BY <2>3, <2>4, <2>5
<1> QED BY <1>2, <1>3

(***************************************************************************)
(* LOS_PriqueueTop.                                                        *)
(***************************************************************************)
LEMMA TopIs ==
  ASSUME NEW x, NEW p \in Prio, x.ready[p] # <<>>, \A q \in Prio : q < p => x.ready[q] = <<>>
  PROVE  LOS_PriqueueTop(x) = Head(x.ready[p])
<1> DEFINE First(q) == x.ready[q] # <<>> /\ \A r \in Prio : r < q => x.ready[r] = <<>>
           c == CHOOSE q \in Prio : First(q)
<1>1. \A q \in Prio : q \in Int
  BY TaskAssumption DEF Prio
<1>2. First(p) /\ \A q \in Prio : First(q) => q = p
  BY <1>1
<1>3. c = p
  BY <1>2
<1>4. LOS_PriqueueTop(x) = Head(x.ready[c])
  BY DEF LOS_PriqueueTop
<1> QED BY <1>3, <1>4

LEMMA TopSame ==
  ASSUME NEW x, NEW y, y.ready = x.ready
  PROVE  LOS_PriqueueTop(y) = LOS_PriqueueTop(x)
BY DEF LOS_PriqueueTop

(* The highest queue that is not empty. *)
LEMMA TopQueue ==
  ASSUME NEW x \in Kernel, IdleQueued(x)
  PROVE  \E p \in Prio : x.ready[p] # <<>> /\ \A q \in Prio : q < p => x.ready[q] = <<>>
<1> DEFINE Q == {p \in Prio : x.ready[p] # <<>>}
<1>1. \A p \in Prio : p \in Nat
  BY TaskAssumption DEF Prio
<1>2. Q \in SUBSET Nat /\ Q # {}
  <2>1. PICK p \in Prio : Contains(x.ready[p], Idle)
    BY DEF IdleQueued
  <2>2. x.ready[p] # <<>>
    BY <2>1, EmptyList
  <2> QED BY <1>1, <2>2
<1>3. \E p \in Q : \A q \in Q : p <= q
  BY <1>2, LeastNatural
<1> QED BY <1>1, <1>3

(* A task that is not the first of the highest queue leaves: the first stays. *)
LEMMA TopStays ==
  ASSUME NEW x \in Kernel, NEW y, NEW t, IdleQueued(x), t # LOS_PriqueueTop(x),
         \A p \in Prio : y.ready[p] = RemoveFirst(x.ready[p], t)
  PROVE  LOS_PriqueueTop(y) = LOS_PriqueueTop(x)
<1>1. PICK p \in Prio : x.ready[p] # <<>> /\ \A q \in Prio : q < p => x.ready[q] = <<>>
  BY TopQueue
<1>2. LOS_PriqueueTop(x) = Head(x.ready[p])
  BY <1>1, TopIs
<1>3. y.ready[p] # <<>> /\ Head(y.ready[p]) = Head(x.ready[p])
  BY <1>1, <1>2, KernelType, RemoveFirstHead
<1>4. \A q \in Prio : q < p => y.ready[q] = <<>>
  <2>1. RemoveFirst(<<>>, t) = <<>>
    BY DEF RemoveFirst
  <2> QED BY <1>1, <2>1
<1> QED BY <1>2, <1>3, <1>4, TopIs

(***************************************************************************)
(* No operation of a section faults, and what it leaves of the queues.     *)
(***************************************************************************)
LEMMA ReadyLinked ==
  ASSUME NEW x, NEW t \in Task, x \in Kernel, Sound(x), Has(x, t, "READY")
  PROVE  Linked(x, t)
<1>1. x.prio[t] \in Prio /\ Contains(x.ready[x.prio[t]], t)
  BY KernelType DEF Sound, Good, Queues
<1> QED BY <1>1 DEF Linked

LEMMA NotLinked ==
  ASSUME NEW x, NEW t \in Task, Sound(x),
         ~Has(x, t, "UNUSED"), ~Has(x, t, "READY"), ~Waits(x, t)
  PROVE  ~Linked(x, t)
BY LinkedIsReady

LEMMA SuspendedSafe ==
  ASSUME NEW x, NEW t \in Task \ {Idle}, Ok(x), ~x.fault
  PROVE  LET y == Suspended(x, t)
         IN /\ ~y.fault /\ SameRest(x, y)
            /\ \A u \in Task : u # t => (Has(y, u, "READY") <=> Has(x, u, "READY"))
            /\ t # LOS_PriqueueTop(x) => LOS_PriqueueTop(y) = LOS_PriqueueTop(x)
<1> DEFINE z == IF Has(x, t, "READY") THEN MakeUnready(x, t) ELSE x
           y == [z EXCEPT !.status[t] = @ \cup {"SUSPEND"}]
<1>1. x \in Kernel /\ IdleQueued(x) /\ Sound(x)
  BY DEF Ok
<1>2. /\ z \in Kernel /\ SameRest(x, z) /\ ~z.fault
      /\ \A u \in Task : u # t => (Has(z, u, "READY") <=> Has(x, u, "READY"))
      /\ t # LOS_PriqueueTop(x) => LOS_PriqueueTop(z) = LOS_PriqueueTop(x)
  <2>1. CASE Has(x, t, "READY")
    <3>1. z = MakeUnready(x, t)
      BY <2>1
    <3> HIDE DEF z
    <3>2. Linked(x, t)
      BY <1>1, <2>1, ReadyLinked
    <3>3. /\ z \in Kernel /\ SameRest(x, z)
          /\ z.status = [x.status EXCEPT ![t] = @ \ {"READY"}]
          /\ z.fault = (x.fault \/ ~Linked(x, t))
          /\ \A p \in Prio : z.ready[p] = RemoveFirst(x.ready[p], t)
      BY <1>1, <3>1, MakeUnreadyFacts
    <3>4. ~z.fault
      BY <3>2, <3>3
    <3>5. x.status \in [Task -> SUBSET Flag]
      BY <1>1 DEF Kernel
    <3>6. t # LOS_PriqueueTop(x) => LOS_PriqueueTop(z) = LOS_PriqueueTop(x)
      BY <1>1, <3>3, TopStays
    <3> QED BY <3>3, <3>4, <3>5, <3>6 DEF Has
  <2>2. CASE ~Has(x, t, "READY")
    BY <1>1, <2>2 DEF SameRest
  <2> QED BY <2>1, <2>2
<1>3. Suspended(x, t) = y
  BY DEF Suspended
<1> HIDE DEF z
<1>4. /\ y.fault = z.fault /\ SameRest(z, y) /\ y.ready = z.ready
      /\ y.status = [z.status EXCEPT ![t] = @ \cup {"SUSPEND"}]
      /\ z.status \in [Task -> SUBSET Flag]
  BY <1>2 DEF Kernel, SameRest
<1> HIDE DEF y
<1>5. LOS_PriqueueTop(y) = LOS_PriqueueTop(z)
  BY <1>4, TopSame
<1>6. SameRest(x, y)
  BY <1>2, <1>4 DEF SameRest
<1>7. \A u \in Task : u # t => (Has(y, u, "READY") <=> Has(x, u, "READY"))
  BY <1>2, <1>4 DEF Has
<1> QED BY <1>2, <1>3, <1>4, <1>5, <1>6, <1>7

(* A task that is in no list becomes ready. *)
LEMMA MakeReadySafe ==
  ASSUME NEW x, NEW t \in Task, x \in Kernel, ~x.fault, ~Linked(x, t)
  PROVE  LET y == MakeReady(x, t)
         IN /\ ~y.fault /\ SameRest(x, y) /\ y \in Kernel
            /\ \A u \in Task : Has(y, u, "READY") <=> Has(x, u, "READY") \/ u = t
<1> DEFINE y == MakeReady(x, t)
<1>1. /\ y \in Kernel /\ SameRest(x, y)
      /\ y.status = [x.status EXCEPT ![t] = @ \cup {"READY"}]
      /\ y.fault = (x.fault \/ Linked(x, t))
  BY MakeReadyFacts
<1> HIDE DEF y
<1>2. ~y.fault
  BY <1>1
<1>3. x.status \in [Task -> SUBSET Flag]
  BY DEF Kernel
<1>4. \A u \in Task : Has(y, u, "READY") <=> Has(x, u, "READY") \/ u = t
  BY <1>1, <1>3 DEF Has
<1> QED BY <1>1, <1>2, <1>4 DEF y

LEMMA ResumedSafe ==
  ASSUME NEW x, NEW t \in Task, Ok(x), ~x.fault, ~Has(x, t, "UNUSED"), Has(x, t, "SUSPEND")
  PROVE  LET y == Resumed(x, t)
             b == Blocked(Unsuspended(x, t), t)
         IN /\ ~y.fault /\ y.run = x.run /\ y.lock = x.lock /\ y.pendsv = x.pendsv
            /\ \A u \in Task : Has(x, u, "READY") => Has(y, u, "READY")
            /\ b => y.new = x.new /\ LOS_PriqueueTop(y) = LOS_PriqueueTop(x)
            /\ ~x.scheduled /\ ~b => y.new = LOS_PriqueueTop(y)
<1> DEFINE b == Blocked(Unsuspended(x, t), t)
           y == Resumed(x, t)
           z == Unsuspended(x, t)
           w == MakeReady(z, t)
           v == [w EXCEPT !.new = LOS_PriqueueTop(w)]
<1>1. x \in Kernel /\ Sound(x) /\ ~Has(x, t, "READY")
  BY DEF Ok, Sound, Good, Flags, FlagsOf
<1>2. y = IF b THEN z ELSE IF x.scheduled THEN w ELSE v
  BY DEF Resumed
<1>3. /\ z \in Kernel /\ ~z.fault /\ SameRest(x, z) /\ z.ready = x.ready /\ z.wait = x.wait
      /\ z.status = [x.status EXCEPT ![t] = @ \ {"SUSPEND"}]
      /\ x.status \in [Task -> SUBSET Flag]
  BY <1>1 DEF Unsuspended, Kernel, SameRest
<1>4. b <=> Blocked(z, t)
  OBVIOUS
<1> HIDE DEF z, y, b
<1>5. \A u \in Task : Has(x, u, "READY") <=> Has(z, u, "READY")
  BY <1>3 DEF Has
<1>6. CASE b
  BY <1>2, <1>3, <1>5, <1>6, TopSame DEF SameRest, y, b
<1>7. CASE ~b
  <2>1. ~Waits(x, t)
    BY <1>3, <1>4, <1>7 DEF Blocked, Waits, Has
  <2>2. ~Linked(x, t)
    BY <1>1, <2>1, NotLinked
  <2>3. ~Linked(z, t)
    BY <1>3, <2>2 DEF Linked, SameRest
  <2>4. /\ ~w.fault /\ SameRest(z, w) /\ w \in Kernel
        /\ \A u \in Task : Has(w, u, "READY") <=> Has(z, u, "READY") \/ u = t
    BY <1>3, <2>3, MakeReadySafe
  <2> HIDE DEF w
  <2>5. /\ v.fault = w.fault /\ v.run = w.run /\ v.lock = w.lock /\ v.pendsv = w.pendsv
        /\ v.status = w.status /\ v.ready = w.ready /\ v.new = LOS_PriqueueTop(w)
    BY <2>4 DEF Kernel
  <2> HIDE DEF v
  <2>6. LOS_PriqueueTop(v) = LOS_PriqueueTop(w)
    BY <2>5, TopSame
  <2>7. y = w \/ y = v
    BY <1>2, <1>7
  <2>8. /\ ~y.fault /\ y.run = w.run /\ y.lock = w.lock /\ y.pendsv = w.pendsv
        /\ y.status = w.status
    BY <2>4, <2>5, <2>7
  <2>9. ~x.scheduled => y.new = LOS_PriqueueTop(y)
    BY <1>2, <1>7, <2>5, <2>6
  <2>10. \A u \in Task : Has(x, u, "READY") => Has(y, u, "READY")
    BY <1>5, <2>4, <2>8 DEF Has
  <2> QED BY <1>3, <1>7, <2>4, <2>8, <2>9, <2>10 DEF SameRest, y, b
<1> QED BY <1>6, <1>7 DEF y, b

LEMMA PriModifySafe ==
  ASSUME NEW x, NEW t \in Task \ {Idle}, NEW p \in Prio, Ok(x), ~x.fault, ~Has(x, t, "UNUSED")
  PROVE  LET y == osTaskPriModify(x, t, p)
         IN /\ ~y.fault /\ SameRest(x, y)
            /\ \A u \in Task : Has(y, u, "READY") <=> Has(x, u, "READY")
            /\ ~Has(x, t, "READY") => LOS_PriqueueTop(y) = LOS_PriqueueTop(x)
<1> DEFINE z == MakeUnready(x, t)
           w == WithPrio(z, t, p)
           v == MakeReady(w, t)
           y == osTaskPriModify(x, t, p)
<1>1. x \in Kernel /\ IdleQueued(x) /\ Sound(x)
  BY DEF Ok
<1>2. CASE Has(x, t, "READY")
  <2>1. y = v
    BY <1>2 DEF osTaskPriModify
  <2>2. Linked(x, t) /\ ~Waits(x, t)
    BY <1>1, <1>2, ReadyLinked DEF Sound, Good, Flags, FlagsOf, Stopped
  <2>3. /\ z \in Kernel /\ SameRest(x, z)
        /\ z.status = [x.status EXCEPT ![t] = @ \ {"READY"}]
        /\ z.fault = (x.fault \/ ~Linked(x, t))
    BY <1>1, MakeUnreadyFacts
  <2>4. Ok(z)
    BY <2>2, MakeUnreadyOk
  <2> HIDE DEF z
  <2>5. ~z.fault
    BY <2>2, <2>3
  <2>6. x.status \in [Task -> SUBSET Flag]
    BY <1>1 DEF Kernel
  <2>7. Sound(z) /\ ~Has(z, t, "UNUSED") /\ ~Has(z, t, "READY") /\ ~Waits(z, t)
    BY <2>2, <2>3, <2>4, <2>5, <2>6 DEF Ok, Has, Waits
  <2>8. ~Linked(z, t)
    BY <2>7, NotLinked
  <2>9. /\ w \in Kernel /\ ~w.fault /\ SameRest(z, w) /\ w.ready = z.ready /\ w.wait = z.wait
        /\ w.status = z.status
    BY <2>3, <2>5 DEF WithPrio, Kernel, SameRest
  <2> HIDE DEF w
  <2>10. ~Linked(w, t)
    BY <2>8, <2>9 DEF Linked, SameRest
  <2>11. /\ ~v.fault /\ SameRest(w, v)
         /\ \A u \in Task : Has(v, u, "READY") <=> Has(w, u, "READY") \/ u = t
    BY <2>9, <2>10, MakeReadySafe
  <2> HIDE DEF v
  <2>12. \A u \in Task : Has(v, u, "READY") <=> Has(x, u, "READY")
    BY <1>2, <2>3, <2>6, <2>9, <2>11 DEF Has
  <2>13. SameRest(x, v)
    BY <2>3, <2>9, <2>11 DEF SameRest
  <2> QED BY <1>2, <2>1, <2>11, <2>12, <2>13
<1>3. CASE ~Has(x, t, "READY")
  <2>1. y = WithPrio(x, t, p)
    BY <1>3 DEF osTaskPriModify
  <2> HIDE DEF y
  <2>2. SameRest(x, y) /\ y.status = x.status /\ y.ready = x.ready /\ ~y.fault
    BY <1>1, <2>1 DEF WithPrio, Kernel, SameRest
  <2> QED BY <2>2, TopSame DEF Has, y
<1> QED BY <1>2, <1>3

(* LOS_ListDelete leaves a used task in no list. *)
LEMMA UnlinkedFree ==
  ASSUME NEW x, NEW y, NEW t \in Task, Ok(x), ~x.fault, ~Has(x, t, "UNUSED"),
         \A p \in Prio : y.ready[p] = RemoveFirst(x.ready[p], t),
         \A o \in WaitObj : y.wait[o] = RemoveFirst(x.wait[o], t),
         y.free = x.free, y.recycle = x.recycle
  PROVE  ~Linked(y, t)
<1>1. x \in Kernel /\ Sound(x)
  BY DEF Ok
<1>2. \A p \in Prio : ~Contains(y.ready[p], t)
  <2>1. \A p \in Prio : IsInjective(x.ready[p]) /\ x.ready[p] \in Seq(Task)
    BY <1>1, KernelType DEF Sound, Good, Queues
  <2> QED BY <2>1, RemoveFirstList
<1>3. \A o \in WaitObj : ~Contains(y.wait[o], t)
  <2>1. \A o \in WaitObj : IsInjective(x.wait[o]) /\ x.wait[o] \in Seq(Task)
    BY <1>1, KernelType DEF Sound, Good, WaitLists
  <2> QED BY <2>1, RemoveFirstList
<1>4. ~Contains(y.free, t) /\ ~Contains(y.recycle, t)
  BY <1>1 DEF Sound
<1> QED BY <1>2, <1>3, <1>4 DEF Linked

LEMMA RotateSafe ==
  ASSUME NEW x, Ok(x), ~x.fault, x.run \in Task, Has(x, x.run, "READY")
  PROVE  LET y == Rotate(x)
         IN /\ ~y.fault /\ SameRest(x, y)
            /\ Has(y, x.run, "READY")
<1> DEFINE t == x.run
           z == Unlink(x, t)
           y == MakeReady(z, t)
<1>1. x \in Kernel /\ Sound(x) /\ Linked(x, t)
  BY ReadyLinked DEF Ok
<1>2. ~Has(x, t, "UNUSED")
  BY <1>1 DEF Sound
<1>3. Rotate(x) = y
  BY DEF Rotate
<1> HIDE DEF t
<1>4. t \in Task
  BY DEF t
<1>5. /\ z \in Kernel /\ SameRest(x, z) /\ z.fault = (x.fault \/ ~Linked(x, t))
      /\ \A p \in Prio : z.ready[p] = RemoveFirst(x.ready[p], t)
      /\ \A o \in WaitObj : z.wait[o] = RemoveFirst(x.wait[o], t)
  BY <1>1, <1>4, UnlinkFacts
<1> HIDE DEF z
<1>6. ~z.fault
  BY <1>1, <1>5
<1>7. ~Linked(z, t)
  BY <1>2, <1>4, <1>5, UnlinkedFree DEF SameRest
<1>8. /\ ~y.fault /\ SameRest(z, y)
      /\ \A u \in Task : Has(y, u, "READY") <=> Has(z, u, "READY") \/ u = t
  BY <1>4, <1>5, <1>6, <1>7, MakeReadySafe
<1> HIDE DEF y
<1>9. SameRest(x, y) /\ Has(y, t, "READY")
  BY <1>4, <1>5, <1>8 DEF SameRest
<1> QED BY <1>3, <1>8, <1>9 DEF t

LEMMA DelayedSafe ==
  ASSUME NEW x, NEW n \in 1 .. MaxTimeout, Ok(x), ~x.fault, x.run \in Task, Has(x, x.run, "READY")
  PROVE  ~Delayed(x, n).fault /\ SameRest(x, Delayed(x, n))
<1> DEFINE t == x.run
           z == MakeUnready(x, t)
           y == Delayed(x, n)
<1>1. x \in Kernel /\ Linked(x, t)
  BY ReadyLinked DEF Ok
<1>2. z \in Kernel /\ SameRest(x, z) /\ z.fault = (x.fault \/ ~Linked(x, t))
  BY <1>1, MakeUnreadyFacts
<1>3. ~z.fault
  BY <1>1, <1>2
<1>4. y = [[z EXCEPT !.due[n] = Append(@, t)] EXCEPT !.status[t] = @ \cup {"DELAY"}]
  BY DEF Delayed, osTaskAdd2TimerList
<1> HIDE DEF z, y, t
<1>5. y.fault = z.fault /\ SameRest(z, y)
  BY <1>2, <1>4 DEF Kernel, SameRest
<1>6. ~y.fault /\ SameRest(x, y)
  BY <1>2, <1>3, <1>5 DEF SameRest
<1> QED BY <1>6 DEF y

LEMMA StartedSafe ==
  ASSUME NEW x, NEW t \in Task, Ok(x), ~x.fault, ~Has(x, t, "UNUSED"), ~Stopped(x, t),
         Has(x, t, "SUSPEND")
  PROVE  LET y == Started(x, t)
         IN /\ ~y.fault /\ y.run = x.run /\ y.lock = x.lock /\ y.scheduled = x.scheduled
            /\ y.new = LOS_PriqueueTop(y)
            /\ y.pendsv <=> x.pendsv \/ (x.scheduled /\ x.lock = 0 /\ x.run # LOS_PriqueueTop(y))
            /\ \A u \in Task : Has(x, u, "READY") => Has(y, u, "READY")
<1> DEFINE z == Unsuspended(x, t)
           w == MakeReady(z, t)
           top == LOS_PriqueueTop(w)
           v == [w EXCEPT !.new = top]
           s == x.scheduled /\ x.lock = 0 /\ x.run # top
           y == IF s THEN osSchedule(v) ELSE v
<1>1. x \in Kernel /\ Sound(x) /\ ~Has(x, t, "READY")
  BY DEF Ok, Sound, Good, Flags, FlagsOf
<1>2. Started(x, t) = y
  BY DEF Started
<1>3. /\ z \in Kernel /\ ~z.fault /\ SameRest(x, z) /\ z.ready = x.ready /\ z.wait = x.wait
      /\ z.status = [x.status EXCEPT ![t] = @ \ {"SUSPEND"}]
      /\ x.status \in [Task -> SUBSET Flag]
  BY <1>1 DEF Unsuspended, Kernel, SameRest
<1>4. ~Linked(z, t)
  <2>1. ~Linked(x, t)
    BY <1>1, NotLinked DEF Stopped
  <2> QED BY <1>3, <2>1 DEF Linked, SameRest
<1> HIDE DEF z
<1>5. \A u \in Task : Has(x, u, "READY") <=> Has(z, u, "READY")
  BY <1>3 DEF Has
<1>6. /\ ~w.fault /\ SameRest(z, w) /\ w \in Kernel
      /\ \A u \in Task : Has(w, u, "READY") <=> Has(z, u, "READY") \/ u = t
  BY <1>3, <1>4, MakeReadySafe
<1> HIDE DEF w
<1>7. /\ v.fault = w.fault /\ v.run = w.run /\ v.lock = w.lock /\ v.scheduled = w.scheduled
      /\ v.pendsv = w.pendsv /\ v.status = w.status /\ v.ready = w.ready /\ v.new = top
  BY <1>6 DEF Kernel
<1>8. /\ osSchedule(v).fault = w.fault /\ osSchedule(v).run = w.run
      /\ osSchedule(v).lock = w.lock /\ osSchedule(v).scheduled = w.scheduled
      /\ osSchedule(v).pendsv = TRUE /\ osSchedule(v).status = w.status
      /\ osSchedule(v).ready = w.ready /\ osSchedule(v).new = top
  BY <1>6 DEF Kernel, osSchedule
<1> HIDE DEF v
<1>9. /\ y.fault = w.fault /\ y.run = w.run /\ y.lock = w.lock /\ y.scheduled = w.scheduled
      /\ y.status = w.status /\ y.ready = w.ready /\ y.new = top
  BY <1>7, <1>8
<1>10. y.pendsv <=> w.pendsv \/ s
  BY <1>7, <1>8
<1>11. w.pendsv \in BOOLEAN /\ w.pendsv = x.pendsv
  BY <1>3, <1>6, KernelType DEF SameRest
<1> HIDE DEF y
<1>12. LOS_PriqueueTop(y) = top
  BY <1>9, TopSame
<1>13. \A u \in Task : Has(x, u, "READY") => Has(y, u, "READY")
  BY <1>5, <1>6, <1>9 DEF Has
<1>14. y.run = x.run /\ y.lock = x.lock /\ y.scheduled = x.scheduled
  BY <1>3, <1>6, <1>9 DEF SameRest
<1> HIDE DEF top
<1>15. y.pendsv <=> x.pendsv \/ (x.scheduled /\ x.lock = 0 /\ x.run # LOS_PriqueueTop(y))
  BY <1>10, <1>11, <1>12
<1> QED BY <1>2, <1>6, <1>9, <1>12, <1>13, <1>14, <1>15

LEMMA ExpiredSafe ==
  ASSUME NEW x, Ok(x), ~x.fault, x.due[0] # <<>>
  PROVE  LET t == Head(x.due[0])
             y == Expired([x EXCEPT !.due[0] = Tail(@)], t)
         IN /\ ~y.fault /\ SameRest(x, y)
            /\ \A u \in Task : Has(x, u, "READY") => Has(y, u, "READY")
            /\ Has(x, t, "SUSPEND") => LOS_PriqueueTop(y) = LOS_PriqueueTop(x)
<1> DEFINE t == Head(x.due[0])
           a == [x EXCEPT !.due[0] = Tail(@)]
           u == Unlink(a, t)
           y == IF x.status[t] \cap {"PEND", "PEND_QUEUE"} # {} THEN u ELSE a
           gone == IF Has(x, t, "PEND") THEN {"PEND"}
                   ELSE IF Has(x, t, "PEND_QUEUE") THEN {"PEND_QUEUE"} ELSE {"DELAY"}
           z == [y EXCEPT !.status[t] = @ \ gone]
           w == MakeReady(z, t)
           e == Expired(a, t)
<1>1. x \in Kernel /\ IdleQueued(x) /\ Sound(x) /\ 0 \in 0 .. MaxTimeout
  BY TaskAssumption DEF Ok
<1>2. /\ t \in Task /\ Contains(x.due[0], t) /\ Tail(x.due[0]) \in Seq(Task)
  BY <1>1, KernelType, TailList
<1>3. Clocked(x, t)
  BY <1>1, <1>2 DEF Sound, Good, Timers, InTimer
<1>4. ~Has(x, t, "READY") /\ ~Has(x, t, "UNUSED") /\ t # LOS_PriqueueTop(x)
  <2>1. Stopped(x, t) /\ FlagsOf(x, t)
    BY <1>1, <1>2, <1>3 DEF Sound, Good, Flags, Clocked, Stopped
  <2>2. ~Has(x, t, "READY") /\ ~Has(x, t, "UNUSED")
    BY <2>1 DEF FlagsOf, Stopped, Waits, Has
  <2> QED BY <1>1, <2>2, TopIsReady DEF Sound
<1>5. /\ a \in Kernel /\ SameRest(x, a) /\ a.status = x.status /\ a.fault = x.fault
      /\ a.ready = x.ready /\ a.wait = x.wait /\ a.prio = x.prio
  BY <1>1, <1>2 DEF Kernel, SameRest
<1> HIDE DEF t, a
<1>6. e = IF Has(x, t, "SUSPEND") THEN z ELSE w
  BY <1>5 DEF Expired, OutOfList, FlagCleared, Has
<1>7. CASE Waits(x, t)
  <2>1. y = u
    BY <1>7 DEF Waits, Has
  <2>2. Linked(a, t)
    <3>1. PICK o \in WaitObj : Contains(x.wait[o], t)
      BY <1>1, <1>2, <1>7 DEF Sound, Good, WaitLists
    <3> QED BY <1>5, <3>1 DEF Linked
  <2>3. /\ u \in Kernel /\ SameRest(a, u) /\ u.status = a.status
        /\ u.fault = (a.fault \/ ~Linked(a, t))
        /\ \A p \in Prio : u.ready[p] = RemoveFirst(a.ready[p], t)
        /\ \A o \in WaitObj : u.wait[o] = RemoveFirst(a.wait[o], t)
    BY <1>2, <1>5, UnlinkFacts
  <2> HIDE DEF u
  <2>4. ~u.fault
    BY <1>5, <2>2, <2>3
  <2>5. ~Linked(u, t)
    BY <1>2, <1>4, <1>5, <2>3, UnlinkedFree DEF SameRest
  <2>6. LOS_PriqueueTop(u) = LOS_PriqueueTop(x)
    BY <1>1, <1>4, <1>5, <2>3, TopStays
  <2>7. gone \in SUBSET Flag
    BY DEF Flag
  <2> HIDE DEF y, gone
  <2>8. /\ z \in Kernel /\ SameRest(u, z) /\ z.fault = u.fault /\ z.ready = u.ready
        /\ z.wait = u.wait /\ z.status = [u.status EXCEPT ![t] = @ \ gone]
        /\ u.status \in [Task -> SUBSET Flag]
    BY <2>1, <2>3, <2>7 DEF Kernel, SameRest
  <2>9. /\ ~z.fault /\ SameRest(x, z) /\ LOS_PriqueueTop(z) = LOS_PriqueueTop(x)
        /\ ~Linked(z, t)
    BY <1>5, <2>3, <2>4, <2>5, <2>6, <2>8, TopSame DEF SameRest, Linked
  <2>10. \A v \in Task : Has(z, v, "READY") <=> Has(x, v, "READY")
    BY <1>4, <1>5, <2>3, <2>8 DEF Has
  <2> HIDE DEF z
  <2>11. /\ ~w.fault /\ SameRest(z, w)
         /\ \A v \in Task : Has(w, v, "READY") <=> Has(z, v, "READY") \/ v = t
    BY <1>2, <2>8, <2>9, MakeReadySafe
  <2> HIDE DEF w, e
  <2>12. SameRest(x, w)
    BY <2>9, <2>11 DEF SameRest
  <2> QED BY <1>6, <2>9, <2>10, <2>11, <2>12 DEF e, a, t
<1>8. CASE ~Waits(x, t)
  <2>1. y = a
    BY <1>8 DEF Waits, Has
  <2>2. ~Linked(a, t)
    <3>1. ~Linked(x, t)
      BY <1>1, <1>2, <1>4, <1>8, NotLinked
    <3> QED BY <1>5, <3>1 DEF Linked, SameRest
  <2>3. gone \in SUBSET Flag /\ "READY" \notin gone
    BY DEF Flag
  <2> HIDE DEF y, gone
  <2>4. /\ z \in Kernel /\ SameRest(a, z) /\ z.fault = a.fault /\ z.ready = a.ready
        /\ z.wait = a.wait /\ z.status = [a.status EXCEPT ![t] = @ \ gone]
        /\ a.status \in [Task -> SUBSET Flag]
    BY <1>5, <2>1, <2>3 DEF Kernel, SameRest
  <2> HIDE DEF z
  <2>5. /\ ~z.fault /\ SameRest(x, z) /\ LOS_PriqueueTop(z) = LOS_PriqueueTop(x)
        /\ ~Linked(z, t)
    <3>1. ~z.fault /\ SameRest(x, z)
      BY <1>5, <2>4 DEF SameRest
    <3>2. LOS_PriqueueTop(z) = LOS_PriqueueTop(x)
      BY <1>5, <2>4, TopSame
    <3>3. ~Linked(z, t)
      BY <2>2, <2>4 DEF SameRest, Linked
    <3> QED BY <3>1, <3>2, <3>3
  <2>6. \A v \in Task : Has(z, v, "READY") <=> Has(x, v, "READY")
    BY <1>4, <1>5, <2>3, <2>4 DEF Has
  <2>7. /\ ~w.fault /\ SameRest(z, w)
         /\ \A v \in Task : Has(w, v, "READY") <=> Has(z, v, "READY") \/ v = t
    BY <1>2, <2>4, <2>5, MakeReadySafe
  <2> HIDE DEF w, e
  <2>8. SameRest(x, w)
    BY <2>5, <2>7 DEF SameRest
  <2> QED BY <1>6, <2>5, <2>6, <2>7, <2>8 DEF e, a, t
<1> QED BY <1>7, <1>8

(* Deletion faults only if TIMEOUT is left of a wait that has ended: the timer it
   stands for is gone.                                                     *)
LEMMA DeletedSafe ==
  ASSUME NEW x, NEW t \in Task \ {Idle}, Ok(x), ~x.fault, ~Has(x, t, "UNUSED"),
         Has(x, t, "TIMEOUT") => Waits(x, t)
  PROVE  LET y == Deleted(x, t)
         IN /\ ~y.fault /\ y.lock = x.lock /\ y.pendsv = x.pendsv
            /\ y.new = LOS_PriqueueTop(y)
            /\ t # LOS_PriqueueTop(x) => LOS_PriqueueTop(y) = LOS_PriqueueTop(x)
<1> DEFINE u == Unhooked(x, t)
           v == Untimed(u, t)
           y == Buried(v, t)
<1>1. x \in Kernel /\ IdleQueued(x) /\ Sound(x)
  BY DEF Ok
<1>2. /\ u \in Kernel /\ IdleQueued(u) /\ SameRest(x, u) /\ u.due = x.due
      /\ u.status[t] = x.status[t] \ {"READY"}
      /\ \A p \in Prio, w \in Task : Contains(u.ready[p], w) <=> Contains(x.ready[p], w) /\ w # t
      /\ \A o \in WaitObj, w \in Task : Contains(u.wait[o], w) <=> Contains(x.wait[o], w) /\ w # t
  BY UnhookedOk
<1>3. ~u.fault /\ (t # LOS_PriqueueTop(x) => LOS_PriqueueTop(u) = LOS_PriqueueTop(x))
  <2>1. CASE Has(x, t, "READY")
    <3>1. u = MakeUnready(x, t) /\ Linked(x, t)
      BY <1>1, <2>1, ReadyLinked DEF Unhooked
    <3> HIDE DEF u
    <3>2. /\ u.fault = (x.fault \/ ~Linked(x, t))
          /\ \A p \in Prio : u.ready[p] = RemoveFirst(x.ready[p], t)
      BY <1>1, <3>1, MakeUnreadyFacts
    <3>3. ~u.fault
      BY <3>1, <3>2
    <3> QED BY <1>1, <3>2, <3>3, TopStays
  <2>2. CASE ~Has(x, t, "READY") /\ Waits(x, t)
    <3>1. u = Unlink(x, t)
      BY <2>2 DEF Unhooked, Waits, Has
    <3>2. Linked(x, t)
      <4>1. PICK o \in WaitObj : Contains(x.wait[o], t)
        BY <1>1, <2>2 DEF Sound, Good, WaitLists
      <4> QED BY <4>1 DEF Linked
    <3> HIDE DEF u
    <3>3. /\ u.fault = (x.fault \/ ~Linked(x, t))
          /\ \A p \in Prio : u.ready[p] = RemoveFirst(x.ready[p], t)
      BY <1>1, <3>1, UnlinkFacts
    <3>4. ~u.fault
      BY <3>2, <3>3
    <3> QED BY <1>1, <3>3, <3>4, TopStays
  <2>3. CASE ~Has(x, t, "READY") /\ ~Waits(x, t)
    <3>1. u = x
      BY <2>3 DEF Unhooked, Waits, Has
    <3> QED BY <3>1
  <2> QED BY <2>1, <2>2, <2>3
<1> HIDE DEF u
<1>4. /\ v \in Kernel /\ SameRest(u, v) /\ v.status = u.status
      /\ v.ready = u.ready /\ v.wait = u.wait
  BY <1>2, UntimedFacts
<1>5. ~v.fault
  <2>1. CASE u.status[t] \cap {"DELAY", "TIMEOUT"} # {}
    <3>1. Has(x, t, "DELAY") \/ Has(x, t, "TIMEOUT")
      BY <1>2, <2>1 DEF Has
    <3>2. InTimer(x, t)
      BY <1>1, <3>1 DEF Clocked, Sound, Good, Timers
    <3>3. InTimer(u, t)
      BY <1>2, <3>2 DEF InTimer
    <3>4. v.fault = (u.fault \/ ~InTimer(u, t))
      <4>1. v = osTimerListDelete(u, t)
        BY <2>1 DEF Untimed
      <4>2. osTimerListDelete(u, t).fault = (u.fault \/ ~InTimer(u, t))
        BY <1>2 DEF osTimerListDelete, Kernel
      <4> QED BY <4>1, <4>2
    <3> QED BY <1>3, <3>3, <3>4
  <2>2. CASE u.status[t] \cap {"DELAY", "TIMEOUT"} = {}
    <3>1. v = u
      BY <2>2 DEF Untimed
    <3> QED BY <1>3, <3>1
  <2> QED BY <2>1, <2>2
<1> HIDE DEF v
<1>6. ~Linked(v, t)
  <2>1. ~Contains(x.free, t) /\ ~Contains(x.recycle, t)
    BY <1>1 DEF Sound
  <2> QED BY <1>2, <1>4, <2>1 DEF Linked, SameRest
<1>7. LOS_PriqueueTop(v) = LOS_PriqueueTop(u) /\ LOS_PriqueueTop(v) \in Task
  <2>1. IdleQueued(v)
    BY <1>2, <1>4 DEF IdleQueued
  <2> QED BY <1>4, <2>1, TopSame, TopFacts
<1>8. /\ y.fault = (v.fault \/ Linked(v, t)) /\ y.lock = v.lock /\ y.pendsv = v.pendsv
      /\ y.ready = v.ready /\ y.new = LOS_PriqueueTop(v)
  BY <1>4 DEF Buried, Kernel
<1> HIDE DEF y
<1>9. ~y.fault
  BY <1>5, <1>6, <1>8
<1>10. LOS_PriqueueTop(y) = LOS_PriqueueTop(v)
  BY <1>8, TopSame
<1>11. Deleted(x, t) = y
  BY DEF Deleted, y, v, u
<1>12. y.lock = x.lock /\ y.pendsv = x.pendsv
  BY <1>2, <1>4, <1>8 DEF SameRest
<1> QED BY <1>3, <1>7, <1>8, <1>9, <1>10, <1>11, <1>12

(***************************************************************************)
(* The invariant.                                                          *)
(***************************************************************************)

(* Where the code goes wrong, and the applications it is wrong for: the time slice
   rotates a task that is about to block (run v_slice), a handler that nests in
   a round of osTaskScan meets the task with its timer unlinked but not yet ready
   (v_scan.cfg, v_scanpost.cfg), a joinable task that returns dequeues itself with
   interrupts on (v_exit.cfg), and a handler may suspend the task a pending switch
   leads to (v_suspend.cfg).                                               *)
Tame ==
  /\ ~TIMESLICE /\ ~Nesting
  /\ "return" \notin Api /\ "suspend" \notin IsrApi

(* LOS_MuxPost takes an inherited priority from its caller without LOS_Schedule if
   nobody waits for the mutex (v_muxpost.cfg): the most urgent task need not run. *)
Lax == "muxpost" \in Api

(* What LOS_Schedule leaves behind it.  moving: the running task is between a section
   and its LOS_Schedule, and may have left its queue.  late: the tick handler
   has readied tasks and will call LOS_Schedule, or nobody will.           *)
Settled(x, moving, late) ==
  /\ x.pendsv \/ x.run = Dummy => x.lock = 0 /\ Has(x, x.new, "READY")
  /\ ~late /\ (x.pendsv \/ x.run = Dummy) => x.new = LOS_PriqueueTop(x)
  /\ x.run \in Task =>
       /\ x.lock > 0 \/ (~x.pendsv /\ ~moving) => Has(x, x.run, "READY")
       /\ x.lock = 0 /\ ~x.pendsv /\ ~late /\ ~moving => x.run = LOS_PriqueueTop(x)

Moving  == pc[k.run] \in {"sched", "pend"}
Late    == Lax \/ tick = "ready"
Settles == Settled(k, Moving, Late)

(* No task is in the part of osTaskEntry behind the return of its entry function. *)
NoneReturns ==
  \A u \in Thread : pc[u] \notin {"return", "exit", "unlink", "unlock", "leave", "exited"}

(* Where LOS_Schedule has been called, nothing is left to be said of where from. *)
LEMMA ScheduleSettles ==
  ASSUME NEW x, NEW moving, NEW late, Ok(x), ~x.fault, x.pendsv => x.lock = 0,
         x.run = Dummy => x.lock = 0,
         x.run \in Task /\ x.lock > 0 => Has(x, x.run, "READY")
  PROVE  /\ ~LOS_Schedule(x).fault /\ LOS_Schedule(x).run = x.run
         /\ Settled(LOS_Schedule(x), moving, late)
<1> DEFINE top == LOS_PriqueueTop(x)
           y == LOS_Schedule(x)
<1>1. x \in Kernel /\ Has(x, top, "READY") /\ top \in Task
  BY TopIsReady, TopFacts DEF Ok, Sound
<1>2. y = [x EXCEPT !.new = top, !.pendsv = @ \/ (x.run # top /\ x.lock = 0)]
  BY DEF LOS_Schedule
<1> HIDE DEF y, top
<1>3. /\ y.status = x.status /\ y.ready = x.ready /\ y.run = x.run /\ y.lock = x.lock
      /\ y.new = top /\ y.fault = x.fault
      /\ y.pendsv = (x.pendsv \/ (x.run # top /\ x.lock = 0))
  BY <1>1, <1>2 DEF Kernel
<1>4. LOS_PriqueueTop(y) = top
  BY <1>3, TopSame DEF top
<1>5. \A t : Has(y, t, "READY") <=> Has(x, t, "READY")
  BY <1>3 DEF Has
<1>6. y.pendsv \/ y.run = Dummy => y.lock = 0 /\ Has(y, y.new, "READY")
  BY <1>1, <1>3, <1>5
<1>7. x.lock \in Nat
  BY <1>1, KernelType
<1>8. ASSUME y.run \in Task
      PROVE  /\ y.lock > 0 \/ (~y.pendsv /\ ~moving) => Has(y, y.run, "READY")
             /\ y.lock = 0 /\ ~y.pendsv /\ ~late /\ ~moving => y.run = LOS_PriqueueTop(y)
  <2>1. CASE y.lock > 0
    BY <1>3, <1>5, <1>8, <2>1
  <2>2. CASE y.lock = 0
    <3>1. ~y.pendsv => y.run = top
      BY <1>3, <2>2
    <3> QED BY <1>1, <1>3, <1>4, <1>5, <2>2, <3>1
  <2> QED BY <1>3, <1>7, <2>1, <2>2
<1> QED BY <1>3, <1>4, <1>6, <1>8 DEF Settled, y

(* What does not concern the scheduler. *)
LEMMA SettledSame ==
  ASSUME NEW x, NEW y, NEW m1, NEW m2, NEW l1, NEW l2, Settled(x, m1, l1),
         m1 => m2, l1 => l2,
         y.run = x.run, y.lock = x.lock, y.pendsv = x.pendsv, y.new = x.new,
         (x.pendsv \/ x.run = Dummy) /\ Has(x, x.new, "READY") => Has(y, x.new, "READY"),
         x.run \in Task /\ Has(x, x.run, "READY") => Has(y, x.run, "READY"),
         ~l2 /\ x.lock = 0 => LOS_PriqueueTop(y) = LOS_PriqueueTop(x)
  PROVE  Settled(y, m2, l2)
<1>1. y.run \in Task =>
        /\ y.lock > 0 \/ (~y.pendsv /\ ~m2) => Has(y, y.run, "READY")
        /\ y.lock = 0 /\ ~y.pendsv /\ ~l2 /\ ~m2 => y.run = LOS_PriqueueTop(y)
  BY DEF Settled
<1> QED BY <1>1 DEF Settled

(* What a thread that runs may rely on. *)
LEMMA RunFacts ==
  ASSUME IInv, Settles, InTask(pc[k.run]), pc[k.run] \notin {"sched", "pend"}
  PROVE  /\ ~k.fault /\ ~k.pendsv /\ tick = "off" /\ Ok(k) /\ k \in Kernel /\ Sound(k) /\ Running
         /\ pc \in [Thread -> Control] /\ k.run \in Thread
         /\ k.run \in Task => /\ Has(k, k.run, "READY")
                              /\ k.lock = 0 /\ ~Lax => k.run = LOS_PriqueueTop(k)
         /\ k.run = Dummy => /\ k.lock = 0 /\ Has(k, k.new, "READY")
                             /\ ~Lax => k.new = LOS_PriqueueTop(k)
         /\ ~k.scheduled => k.run = Dummy
         /\ k.scheduled /\ pc[k.run] \notin {"none", "switch"} => k.run \in Task
<1>1. ~k.fault /\ ~k.pendsv /\ tick = "off"
  BY DEF InTask
<1>2. Ok(k) /\ Sound(k) /\ Running
  BY <1>1, Start
<1>3. k \in Kernel /\ k.run \in Thread /\ pc \in [Thread -> Control]
  BY <1>2, KernelType DEF Ok, IInv, TypeOK
<1>4. ~Moving /\ (~Lax => ~Late)
  BY <1>1 DEF Moving, Late
<1>5. /\ k.run \in Task => /\ Has(k, k.run, "READY")
                           /\ k.lock = 0 /\ ~Lax => k.run = LOS_PriqueueTop(k)
      /\ k.run = Dummy => /\ k.lock = 0 /\ Has(k, k.new, "READY")
                          /\ ~Lax => k.new = LOS_PriqueueTop(k)
  BY <1>1, <1>4 DEF Settles, Settled
<1>6. /\ ~k.scheduled => k.run = Dummy
      /\ k.scheduled /\ pc[k.run] \notin {"none", "switch"} => k.run \in Task
  BY <1>2, <1>3 DEF Running, Thread
<1> QED BY <1>1, <1>2, <1>3, <1>5, <1>6

(***************************************************************************)
(* Steps.                                                                  *)
(***************************************************************************)
LEMMA CallSettles ==
  ASSUME NEW op, NEW x, NEW r \in BOOLEAN, IInv, Settles, Call(op, x, r), Ok(x), ~x.fault,
         x.run = k.run, x.lock = k.lock, x.pendsv = k.pendsv, r => k.scheduled,
         k.lock > 0 /\ k.run \in Task /\ Has(k, k.run, "READY") => Has(x, k.run, "READY"),
         ~r => \/ /\ x.new = k.new
                  /\ (k.pendsv \/ k.run = Dummy) /\ Has(k, k.new, "READY")
                       => Has(x, k.new, "READY")
                  /\ k.run \in Task /\ Has(k, k.run, "READY") => Has(x, k.run, "READY")
                  /\ k.lock = 0 /\ ~Lax => LOS_PriqueueTop(x) = LOS_PriqueueTop(k)
               \/ ~k.scheduled /\ x.new = LOS_PriqueueTop(x)
  PROVE  ~k'.fault /\ Settles'
<1> DEFINE c == pc'[k'.run] \in {"sched", "pend"}
           d == Lax \/ tick' = "ready"
<1>0. SUFFICES ~k'.fault /\ Settled(k', c, d)
  BY DEF Settles, Moving, Late
<1>1. /\ ~k.fault /\ tick' = tick /\ pc \in [Thread -> Control] /\ k.run \in Thread
      /\ Running /\ k.lock \in Nat
  <2>1. ~k.fault
    BY DEF Call, UserCode, InTask, InIsr
  <2> QED BY <2>1, Start, KernelType DEF Call, IInv, TypeOK, Ok
<1>2. CASE UserCode /\ k' = x /\ r /\ Goto(k.run, "sched")
  <2>1. InTask(pc[k.run]) /\ pc[k.run] = "user"
    BY <1>2 DEF UserCode, InTask
  <2>2. /\ ~k.pendsv /\ k.run \in Task /\ Has(k, k.run, "READY")
    BY <1>2, <2>1, RunFacts
  <2>3. c
    BY <1>1, <1>2 DEF Goto
  <2>4. Dummy \notin Task
    BY TaskAssumption
  <2> HIDE DEF c, d
  <2> QED BY <1>1, <1>2, <2>2, <2>3, <2>4 DEF Settled
<1>3. CASE k' = x /\ ~r /\ pc' = pc
  <2>1. (Moving => c) /\ (Late => d)
    BY <1>1, <1>3 DEF Moving, Late
  <2> HIDE DEF c, d
  <2>2. CASE ~k.scheduled /\ x.new = LOS_PriqueueTop(x)
    <3>1. k.run = Dummy /\ ~k.pendsv /\ Dummy \notin Task /\ k.lock = 0
      BY <1>1, <2>2, TaskAssumption DEF Running, Settles, Settled
    <3>2. Has(x, x.new, "READY")
      BY <2>2, TopIsReady DEF Ok, Sound
    <3> QED BY <1>3, <2>2, <3>1, <3>2 DEF Settled
  <2>3. CASE /\ x.new = k.new
             /\ (k.pendsv \/ k.run = Dummy) /\ Has(k, k.new, "READY") => Has(x, k.new, "READY")
             /\ k.run \in Task /\ Has(k, k.run, "READY") => Has(x, k.run, "READY")
             /\ k.lock = 0 /\ ~Lax => LOS_PriqueueTop(x) = LOS_PriqueueTop(k)
    <3>1. ~d => ~Lax
      BY <1>1, <2>1 DEF Late
    <3> QED BY <3>1, <1>3, <2>1, <2>3, SettledSame DEF Settles
  <2> QED BY <1>3, <2>2, <2>3
<1>4. CASE k' = LOS_Schedule(x) /\ r /\ pc' = pc
  <2>1. /\ x.pendsv => x.lock = 0
        /\ x.run = Dummy => x.lock = 0
        /\ x.run \in Task /\ x.lock > 0 => Has(x, x.run, "READY")
    BY DEF Settles, Settled
  <2> HIDE DEF c, d
  <2> QED BY <1>4, <2>1, ScheduleSettles
<1> QED BY <1>2, <1>3, <1>4 DEF Call

LEMMA SuspendSettles ==
  ASSUME Tame, IInv, Settles, NEW t \in Task, LOS_TaskSuspend(t)
  PROVE  ~k'.fault /\ Settles'
<1> DEFINE x == Suspended(k, t)
           r == t = k.run
<1>1. /\ UserCode /\ Call("suspend", x, r) /\ t \in Task \ {Idle} /\ ~Has(k, t, "UNUSED")
      /\ k.scheduled /\ (r => k.lock = 0)
  <2>1. k.lock \in Nat
    BY KernelType DEF IInv, TypeOK
  <2> QED BY <2>1 DEF LOS_TaskSuspend, Call, Tame
<1>2. /\ ~k.pendsv /\ ~k.fault /\ Ok(k) /\ k.run \in Task /\ k.run # Dummy
      /\ k.lock = 0 /\ ~Lax => k.run = LOS_PriqueueTop(k)
  <2>1. InTask(pc[k.run]) /\ pc[k.run] = "user"
    BY <1>1 DEF UserCode, InTask
  <2> QED BY <1>1, <2>1, RunFacts, TaskAssumption
<1>3. Ok(x)
  BY <1>1, <1>2, SuspendedOk
<1>4. /\ ~x.fault /\ SameRest(k, x)
      /\ \A u \in Task : u # t => (Has(x, u, "READY") <=> Has(k, u, "READY"))
      /\ t # LOS_PriqueueTop(k) => LOS_PriqueueTop(x) = LOS_PriqueueTop(k)
  BY <1>1, <1>2, SuspendedSafe
<1>5. x.run = k.run /\ x.lock = k.lock /\ x.pendsv = k.pendsv /\ x.new = k.new
  BY <1>4 DEF SameRest
<1>6. k.lock > 0 /\ k.run \in Task /\ Has(k, k.run, "READY") => Has(x, k.run, "READY")
  BY <1>1, <1>4
<1>7. ~r => /\ k.run \in Task /\ Has(k, k.run, "READY") => Has(x, k.run, "READY")
            /\ k.lock = 0 /\ ~Lax => LOS_PriqueueTop(x) = LOS_PriqueueTop(k)
  BY <1>2, <1>4
<1> HIDE DEF x, r
<1>8. r \in BOOLEAN
  BY DEF r
<1> QED BY <1>1, <1>2, <1>3, <1>4, <1>5, <1>6, <1>7, <1>8, CallSettles

LEMMA ResumeSettles ==
  ASSUME IInv, Settles, NEW t \in Task, LOS_TaskResume(t)
  PROVE  ~k'.fault /\ Settles'
<1> DEFINE x == Resumed(k, t)
           b == Blocked(Unsuspended(k, t), t)
           r == k.scheduled /\ ~b
<1>1. /\ ~k.fault /\ Call("resume", x, r) /\ ~Has(k, t, "UNUSED") /\ Has(k, t, "SUSPEND")
  BY DEF LOS_TaskResume, Call, UserCode, InTask, InIsr
<1>2. Ok(k) /\ k.new \in Task /\ k.scheduled \in BOOLEAN
  BY <1>1, Start, KernelType DEF Ok
<1>3. Ok(x)
  BY <1>1, <1>2, ResumedOk
<1>4. /\ ~x.fault /\ x.run = k.run /\ x.lock = k.lock /\ x.pendsv = k.pendsv
      /\ \A u \in Task : Has(k, u, "READY") => Has(x, u, "READY")
      /\ b => x.new = k.new /\ LOS_PriqueueTop(x) = LOS_PriqueueTop(k)
      /\ ~k.scheduled /\ ~b => x.new = LOS_PriqueueTop(x)
  BY <1>1, <1>2, ResumedSafe
<1> HIDE DEF x, b
<1>5. r \in BOOLEAN /\ (r => k.scheduled)
  BY <1>2 DEF r
<1>6. ~r => b \/ (~k.scheduled /\ ~b)
  BY DEF r
<1> HIDE DEF r
<1> QED BY <1>1, <1>2, <1>3, <1>4, <1>5, <1>6, CallSettles

LEMMA PriSetSettles ==
  ASSUME IInv, Settles, NEW t \in Task, NEW p \in Prio, LOS_TaskPriSet(t, p)
  PROVE  ~k'.fault /\ Settles'
<1> DEFINE x == osTaskPriModify(k, t, p)
           r == Has(k, t, "READY")
<1>1. /\ ~k.fault /\ k.scheduled /\ Call("priset", x, r) /\ ~Has(k, t, "UNUSED")
      /\ t \in Task \ {Idle}
  BY DEF LOS_TaskPriSet, Call, UserCode, InTask, InIsr
<1>2. Ok(k) /\ k.new \in Task
  BY <1>1, Start, KernelType DEF Ok
<1>3. Ok(x)
  BY <1>1, <1>2, PriModifyOk
<1>4. /\ ~x.fault /\ SameRest(k, x)
      /\ \A u \in Task : Has(x, u, "READY") <=> Has(k, u, "READY")
      /\ ~r => LOS_PriqueueTop(x) = LOS_PriqueueTop(k)
  BY <1>1, <1>2, PriModifySafe
<1>5. x.run = k.run /\ x.lock = k.lock /\ x.pendsv = k.pendsv /\ x.new = k.new
  BY <1>4 DEF SameRest
<1>6. r \in BOOLEAN
  BY DEF Has
<1> HIDE DEF x, r
<1> QED BY <1>1, <1>2, <1>3, <1>4, <1>5, <1>6, CallSettles

(* The sections that leave the running task between its queue and LOS_Schedule. *)
LEMMA MovingSettles ==
  ASSUME IInv, Settles, UserCode, k.scheduled, SameRest(k, k'), ~k'.fault,
         Goto(k.run, "sched") \/ Goto(k.run, "pend"), tick' = tick,
         k.lock > 0 => Has(k', k.run, "READY")
  PROVE  Settles'
<1>1. InTask(pc[k.run]) /\ pc[k.run] = "user"
  BY DEF UserCode, InTask
<1>2. /\ k.run \in Task /\ ~k.pendsv /\ pc \in [Thread -> Control] /\ k.run \in Thread
      /\ Dummy \notin Task
  BY <1>1, RunFacts, TaskAssumption
<1>3. k'.run = k.run /\ k'.pendsv = k.pendsv /\ k'.lock = k.lock
  BY DEF SameRest
<1>4. Moving'
  BY <1>2, <1>3 DEF Moving, Goto
<1> QED BY <1>2, <1>3, <1>4 DEF Settles, Settled

LEMMA DelaySettles ==
  ASSUME IInv, Settles, NEW n \in 1 .. MaxTimeout, LOS_TaskDelay(n)
  PROVE  ~k'.fault /\ Settles'
<1>1. /\ UserCode /\ k.scheduled /\ k.lock = 0 /\ k' = Delayed(k, n) /\ Goto(k.run, "sched")
      /\ tick' = tick
  BY DEF LOS_TaskDelay
<1>2. InTask(pc[k.run]) /\ pc[k.run] = "user"
  BY <1>1 DEF UserCode, InTask
<1>3. Ok(k) /\ ~k.fault /\ k.run \in Task /\ Has(k, k.run, "READY")
  BY <1>1, <1>2, RunFacts
<1>4. ~k'.fault /\ SameRest(k, k')
  BY <1>1, <1>3, DelayedSafe
<1> QED BY <1>1, <1>4, MovingSettles

LEMMA YieldSettles ==
  ASSUME IInv, Settles, LOS_TaskYield
  PROVE  ~k'.fault /\ Settles'
<1>1. /\ UserCode /\ k.scheduled /\ k' = Rotate(k) /\ Goto(k.run, "sched") /\ tick' = tick
  BY DEF LOS_TaskYield
<1>2. InTask(pc[k.run]) /\ pc[k.run] = "user"
  BY <1>1 DEF UserCode, InTask
<1>3. Ok(k) /\ ~k.fault /\ k.run \in Task /\ Has(k, k.run, "READY")
  BY <1>1, <1>2, RunFacts
<1>4. ~k'.fault /\ SameRest(k, k') /\ Has(k', k.run, "READY")
  BY <1>1, <1>3, RotateSafe
<1> QED BY <1>1, <1>4, MovingSettles

LEMMA LockSettles ==
  ASSUME IInv, Settles, LOS_TaskLock \/ LOS_TaskUnlock
  PROVE  ~k'.fault /\ Settles'
<1>1. /\ UserCode /\ k.scheduled /\ tick' = tick
      /\ \/ k' = [k EXCEPT !.lock = @ + 1] /\ pc' = pc
         \/ /\ k.lock > 0 /\ k' = [k EXCEPT !.lock = @ - 1]
            /\ IF k.lock = 1 THEN Goto(k.run, "sched") ELSE pc' = pc
  BY DEF LOS_TaskLock, LOS_TaskUnlock
<1>2. InTask(pc[k.run]) /\ pc[k.run] = "user"
  BY <1>1 DEF UserCode, InTask
<1>3. /\ ~k.fault /\ k.run \in Task /\ Has(k, k.run, "READY") /\ ~k.pendsv
      /\ k \in Kernel /\ pc \in [Thread -> Control] /\ k.run \in Thread
      /\ Dummy \notin Task
  BY <1>1, <1>2, RunFacts, TaskAssumption
<1>4. /\ k'.run = k.run /\ ~k'.pendsv /\ ~k'.fault /\ k'.status = k.status
      /\ k.lock \in Nat
  BY <1>1, <1>3 DEF Kernel
<1>5. k'.lock > 0 \/ Moving'
  <2>1. CASE k' = [k EXCEPT !.lock = @ + 1]
    BY <1>3, <1>4, <2>1 DEF Kernel
  <2>2. CASE k' = [k EXCEPT !.lock = @ - 1] /\ k.lock > 0 /\ k.lock # 1
    BY <1>3, <1>4, <2>2 DEF Kernel
  <2>3. CASE Goto(k.run, "sched")
    BY <1>3, <1>4, <2>3 DEF Moving, Goto
  <2> QED BY <1>1, <2>1, <2>2, <2>3
<1>6. Has(k', k'.run, "READY")
  BY <1>3, <1>4 DEF Has
<1>7. k'.run # Dummy
  BY <1>3, <1>4
<1>8. k'.lock \in Nat
  BY <1>1, <1>3, <1>4 DEF Kernel
<1> QED BY <1>4, <1>5, <1>6, <1>7, <1>8 DEF Settles, Settled

(* No task is left with TIMEOUT of a wait that has ended, where that matters. *)
TimeoutWaits == \A t \in Task : Has(k, t, "TIMEOUT") => Waits(k, t)

LEMMA DeleteSettles ==
  ASSUME IInv, Settles, TimeoutWaits, NEW t \in Task, LOS_TaskDelete(t)
  PROVE  ~k'.fault /\ Settles'
<1> DEFINE x == Deleted(k, t)
           c == pc'[k'.run] \in {"sched", "pend"}
           d == Lax \/ tick' = "ready"
<1>0. SUFFICES ~k'.fault /\ Settled(k', c, d)
  BY DEF Settles, Moving, Late
<1>1. /\ ~k.fault /\ k.scheduled /\ t \in Task \ {Idle} /\ ~Has(k, t, "UNUSED")
      /\ (t = k.run => ~(k.lock # 0)) /\ tick' = tick
  BY DEF LOS_TaskDelete, UserCode, InTask, InIsr
<1>2. /\ Ok(k) /\ k \in Kernel /\ Sound(k) /\ pc \in [Thread -> Control]
      /\ Dummy \in Thread /\ t \in Thread /\ k.run \in Thread /\ Dummy \notin Task
      /\ k.lock \in Nat /\ k.pendsv \in BOOLEAN
  BY <1>1, Start, KernelType, TaskAssumption DEF IInv, TypeOK, Thread, Ok
<1>3. /\ x \in Kernel /\ IdleQueued(x)
      /\ t = k.run => x.run = Dummy
      /\ t # k.run => x.run = k.run
      /\ \A u \in Task : u # t => x.status[u] = k.status[u]
      /\ ~x.fault => Good(x)
  <2>1. Gone(k, x, t)
    BY <1>1, <1>2, DeletedGone
  <2> HIDE DEF x
  <2> QED BY <2>1 DEF Gone
<1>4. /\ ~x.fault /\ x.lock = k.lock /\ x.pendsv = k.pendsv
      /\ x.new = LOS_PriqueueTop(x)
      /\ t # LOS_PriqueueTop(k) => LOS_PriqueueTop(x) = LOS_PriqueueTop(k)
  BY <1>1, <1>2, DeletedSafe DEF TimeoutWaits
<1>5. Has(x, x.new, "READY")
  BY <1>3, <1>4, TopIsReady
<1>6. CASE t = k.run
  <2>1. k' = x \/ k' = osSchedule(x)
    BY DEF LOS_TaskDelete
  <2> HIDE DEF x
  <2>2. /\ k'.run = Dummy /\ k'.lock = 0 /\ k'.new = x.new /\ k'.status = x.status
        /\ k'.ready = x.ready /\ k'.fault = x.fault
    BY <1>1, <1>2, <1>3, <1>4, <1>6, <2>1 DEF osSchedule, Kernel
  <2>3. LOS_PriqueueTop(k') = x.new
    BY <1>4, <2>2, TopSame
  <2>4. Has(k', k'.new, "READY")
    BY <1>5, <2>2 DEF Has
  <2> QED BY <1>2, <1>4, <2>2, <2>3, <2>4 DEF Settled
<1>7. CASE t # k.run
  <2>1. /\ k' = x /\ pc'[k.run] = pc[k.run]
    <3>1. /\ k' = x
          /\ \/ pc' = [pc EXCEPT ![t] = "none", ![Dummy] = IF t = k.run THEN "switch" ELSE @]
             \/ pc' = [pc EXCEPT ![t] = "none"]
      BY <1>7 DEF LOS_TaskDelete, Goto
    <3> QED BY <1>2, <1>7, <3>1
  <2> HIDE DEF x
  <2>2. (Moving <=> c) /\ (Late <=> d)
    BY <1>1, <1>3, <1>7, <2>1 DEF Moving, Late
  <2> HIDE DEF c, d
  <2>3. \A u \in Task : u # t => (Has(x, u, "READY") <=> Has(k, u, "READY"))
    BY <1>3 DEF Has
  <2>4. x.run \in Task =>
       /\ x.lock > 0 \/ (~x.pendsv /\ ~c) => Has(x, x.run, "READY")
       /\ x.lock = 0 /\ ~x.pendsv /\ ~d /\ ~c => x.run = LOS_PriqueueTop(x)
    BY <1>3, <1>4, <1>7, <2>2, <2>3 DEF Settles, Settled
  <2> QED BY <1>3, <1>4, <1>5, <1>7, <2>1, <2>4 DEF Settles, Settled
<1> QED BY <1>6, <1>7

LEMMA TakeTcbSettles ==
  ASSUME IInv, Settles, TakeTcb
  PROVE  ~k'.fault /\ Settles'
<1>1. InTask(pc[k.run]) /\ pc[k.run] = "user" /\ Goto(k.run, "alloc") /\ tick' = tick
  BY DEF TakeTcb, UserCode, InTask
<1>2. ~k.fault /\ k \in Kernel /\ pc \in [Thread -> Control] /\ k.run \in Thread
  BY <1>1, RunFacts
<1>3. /\ k'.run = k.run /\ k'.lock = k.lock /\ k'.pendsv = k.pendsv /\ k'.new = k.new
      /\ k'.status = k.status /\ k'.ready = k.ready /\ k'.fault = k.fault
  BY <1>2 DEF TakeTcb, Drained, Kernel
<1>4. ~Moving' /\ ~Moving /\ (Late' <=> Late)
  BY <1>1, <1>2, <1>3 DEF Moving, Late, Goto
<1>5. LOS_PriqueueTop(k') = LOS_PriqueueTop(k) /\ \A u : Has(k', u, "READY") <=> Has(k, u, "READY")
  BY <1>3, TopSame DEF Has
<1>6. Settled(k', Moving', Late')
  BY <1>3, <1>4, <1>5, SettledSame DEF Settles
<1> QED BY <1>2, <1>3, <1>6 DEF Settles

LEMMA CreateFailsSettles ==
  ASSUME IInv, Settles, CreateFails
  PROVE  ~k'.fault /\ Settles'
<1>1. /\ InTask(pc[k.run]) /\ pc[k.run] = "alloc" /\ InTask("alloc")
      /\ Goto(k.run, "user") /\ tick' = tick
  BY DEF CreateFails, InTask
<1>2. ~k.fault /\ k \in Kernel /\ Sound(k) /\ pc \in [Thread -> Control] /\ k.run \in Thread
  BY <1>1, RunFacts
<1> DEFINE t == fresh[k.run]
<1>3. t \in Task /\ Has(k, t, "UNUSED") /\ ~Contains(k.free, t) /\ ~Contains(k.recycle, t)
  BY <1>1, AllocFacts
<1>4. ~Linked(k, t)
  <2>1. FlagsOf(k, t)
    BY <1>2, <1>3 DEF Sound, Good, Flags
  <2>2. ~Has(k, t, "READY") /\ ~Waits(k, t)
    BY <1>3, <2>1 DEF FlagsOf, Has, Waits
  <2> QED BY <1>2, <1>3, <2>2 DEF Linked, Sound, Good, Queues, WaitLists
<1>5. k' = [k EXCEPT !.free = <<t>> \o @, !.fault = @ \/ Linked(k, t)]
  BY DEF CreateFails
<1> HIDE DEF t
<1>6. /\ k'.run = k.run /\ k'.lock = k.lock /\ k'.pendsv = k.pendsv /\ k'.new = k.new
      /\ k'.status = k.status /\ k'.ready = k.ready /\ k'.fault = (k.fault \/ Linked(k, t))
  BY <1>2, <1>5 DEF Kernel
<1>7. ~Moving' /\ ~Moving /\ (Late' <=> Late)
  BY <1>1, <1>2, <1>6 DEF Moving, Late, Goto
<1>8. LOS_PriqueueTop(k') = LOS_PriqueueTop(k) /\ \A u : Has(k', u, "READY") <=> Has(k, u, "READY")
  BY <1>6, TopSame DEF Has
<1>9. Settled(k', Moving', Late')
  BY <1>6, <1>7, <1>8, SettledSame DEF Settles
<1>10. ~k'.fault
  BY <1>2, <1>4, <1>6
<1> QED BY <1>9, <1>10 DEF Settles

LEMMA CreateSettles ==
  ASSUME IInv, Settles, NEW p \in Prio, NEW d \in BOOLEAN, NEW o \in BOOLEAN,
         LOS_TaskCreate(p, d, o)
  PROVE  ~k'.fault /\ Settles'
<1> DEFINE t == fresh[k.run]
           x == Filled(k, t, p, d)
<1>1. InTask(pc[k.run]) /\ pc[k.run] = "alloc" /\ InTask("alloc")
  BY DEF LOS_TaskCreate, InTask
<1>2. /\ ~k.fault /\ ~k.pendsv /\ tick = "off" /\ Ok(k) /\ k \in Kernel /\ Sound(k)
      /\ pc \in [Thread -> Control] /\ k.run \in Thread /\ Dummy \notin Task
      /\ k.run \in Task => Has(k, k.run, "READY")
      /\ k.run = Dummy => k.lock = 0
      /\ ~k.scheduled => k.run = Dummy
  BY <1>1, RunFacts, TaskAssumption
<1>3. /\ t \in Task /\ Has(k, t, "UNUSED") /\ ~Contains(k.free, t) /\ ~Contains(k.recycle, t)
      /\ k.run # t
  BY <1>1, AllocFacts
<1>4. /\ k' = IF o THEN x ELSE Started(x, t)
      /\ pc' = [pc EXCEPT ![k.run] = "user", ![t] = "user"]
      /\ tick' = tick
  BY DEF LOS_TaskCreate
<1>5. Has(x, t, "SUSPEND") /\ ~Has(x, t, "READY") /\ x.ready = k.ready
  <2>1. k.status \in [Task -> SUBSET Flag]
    BY <1>2 DEF Kernel
  <2>2. x.status[t] = {"SUSPEND"} \cup (IF d THEN {"DETACHED"} ELSE {}) /\ x.ready = k.ready
    BY <1>2, <1>3, <2>1 DEF Filled, Kernel
  <2> QED BY <2>2 DEF Has
<1>6. ~Has(k, t, "READY")
  BY <1>2, <1>3 DEF Sound, Good, Flags, FlagsOf, Has
<1> HIDE DEF t
<1>7. /\ Ok(x) /\ SameRest(k, x) /\ ~x.fault
      /\ ~Has(x, t, "UNUSED") /\ ~Stopped(x, t)
      /\ \A u \in Task : u # t => x.status[u] = k.status[u]
  BY <1>2, <1>3, FilledOk
<1> HIDE DEF x
<1>8. \A u \in Task : Has(x, u, "READY") <=> Has(k, u, "READY")
  BY <1>5, <1>6, <1>7 DEF Has
<1>9. LOS_PriqueueTop(x) = LOS_PriqueueTop(k)
  BY <1>5, TopSame
<1>10. x.run = k.run /\ x.lock = k.lock /\ x.pendsv = k.pendsv /\ x.new = k.new
       /\ x.scheduled = k.scheduled
  BY <1>7 DEF SameRest
<1>11. k'.run = k.run
  BY <1>4, <1>7, <1>10, StartedSafe, <1>3, <1>5
<1>12. ~Moving' /\ ~Moving /\ (Late <=> Late')
  BY <1>1, <1>2, <1>3, <1>4, <1>11 DEF Moving, Late
<1>13. CASE o
  <2>1. k' = x
    BY <1>4, <1>13
  <2>2. k.new \in Task
    BY <1>2, KernelType
  <2>3. Settled(x, Moving', Late')
    BY <1>8, <1>9, <1>10, <1>12, <2>2, SettledSame DEF Settles
  <2> QED BY <1>7, <2>1, <2>3 DEF Settles
<1>14. CASE ~o
  <2>1. k' = Started(x, t)
    BY <1>4, <1>14
  <2>2. /\ ~k'.fault /\ k'.run = x.run /\ k'.lock = x.lock
        /\ k'.new = LOS_PriqueueTop(k')
        /\ k'.pendsv <=> x.pendsv \/ (x.scheduled /\ x.lock = 0 /\ x.run # LOS_PriqueueTop(k'))
        /\ \A u \in Task : Has(x, u, "READY") => Has(k', u, "READY")
    BY <1>3, <1>5, <1>7, <2>1, StartedSafe
  <2>3. Has(k', k'.new, "READY")
    <3>1. Ok(k')
      BY <1>3, <1>7, <2>1, StartedOk
    <3> QED BY <2>2, <3>1, TopIsReady DEF Ok, Sound
  <2>4. k'.pendsv => k'.lock = 0
    BY <1>2, <1>10, <2>2
  <2>5. k'.run \in Task => /\ Has(k', k'.run, "READY")
                           /\ k'.lock = 0 /\ ~k'.pendsv => k'.run = LOS_PriqueueTop(k')
    BY <1>2, <1>8, <1>10, <2>2
  <2> QED BY <1>2, <1>10, <1>12, <2>2, <2>3, <2>4, <2>5 DEF Settles, Settled
<1> QED BY <1>13, <1>14

(* LOS_Schedule by a thread that runs. *)
LEMMA ReschedulesSettles ==
  ASSUME IInv, Settles, InTask(pc[k.run]), k' = LOS_Schedule(k)
  PROVE  ~k'.fault /\ Settles'
<1>1. ~k.fault /\ Ok(k)
  BY Start DEF InTask
<1>2. /\ k.pendsv => k.lock = 0
      /\ k.run = Dummy => k.lock = 0
      /\ k.run \in Task /\ k.lock > 0 => Has(k, k.run, "READY")
  BY DEF Settles, Settled
<1> QED BY <1>1, <1>2, ScheduleSettles DEF Settles

LEMMA SwitchSettles ==
  ASSUME IInv, Settles, SwitchFromDeleted
  PROVE  ~k'.fault /\ Settles'
<1>1. /\ InTask(pc[k.run]) /\ pc[k.run] = "switch" /\ k.run = Dummy
      /\ k' = osSchedule(k) /\ tick' = tick
  BY DEF SwitchFromDeleted, InTask
<1>2. /\ ~k.fault /\ Ok(k) /\ k \in Kernel /\ k.lock = 0 /\ Has(k, k.new, "READY")
      /\ ~Lax => k.new = LOS_PriqueueTop(k)
      /\ Sound(k) /\ Dummy \notin Task
  BY <1>1, RunFacts, TaskAssumption
<1>3. /\ k'.run = Dummy /\ k'.lock = k.lock /\ k'.new = k.new /\ k'.ready = k.ready
      /\ k'.status = k.status /\ k'.fault = k.fault
  BY <1>1, <1>2 DEF osSchedule, Kernel
<1>4. Has(k', k'.new, "READY") /\ (~Late' => LOS_PriqueueTop(k') = k'.new)
  BY <1>2, <1>3, TopSame DEF Has, Late
<1> QED BY <1>2, <1>3, <1>4 DEF Settles, Settled

(* The CPU goes to pstNewTask. *)
LEMMA DispatchSettles ==
  ASSUME IInv, Settles, ~k.fault, tick = "off", tick' = tick, k.pendsv \/ k.run = Dummy,
         k' = [k EXCEPT !.scheduled = TRUE, !.run = k.new, !.pendsv = FALSE]
  PROVE  ~k'.fault /\ Settles'
<1>1. Ok(k) /\ k \in Kernel /\ Sound(k) /\ k.new \in Task /\ Dummy \notin Task
  BY Start, KernelType, TaskAssumption DEF Ok
<1>2. /\ k'.run = k.new /\ k'.lock = k.lock /\ k'.pendsv = FALSE /\ k'.ready = k.ready
      /\ k'.status = k.status /\ k'.fault = k.fault
  BY <1>1 DEF Kernel
<1>3. k.lock = 0 /\ Has(k, k.new, "READY") /\ (~Lax => k.new = LOS_PriqueueTop(k))
  BY DEF Settles, Settled, Late
<1>4. Has(k', k'.run, "READY") /\ (~Late' => LOS_PriqueueTop(k') = k'.run)
  BY <1>2, <1>3, TopSame DEF Has, Late
<1> QED BY <1>1, <1>2, <1>3, <1>4 DEF Settles, Settled

LEMMA StartSettles ==
  ASSUME IInv, Settles, LOS_StartToRun
  PROVE  ~k'.fault /\ Settles'
<1>1. InTask(pc[k.run]) /\ pc[k.run] = "user" /\ ~k.scheduled /\ tick' = tick
  BY DEF LOS_StartToRun, UserCode, InTask
<1>2. ~k.fault /\ tick = "off" /\ k.run = Dummy /\ k \in Kernel /\ ~k.pendsv
  BY <1>1, RunFacts
<1>3. k' = [k EXCEPT !.scheduled = TRUE, !.run = k.new, !.pendsv = FALSE]
  BY <1>2 DEF LOS_StartToRun, Kernel
<1> QED BY <1>1, <1>2, <1>3, DispatchSettles

LEMMA PendSVSettles ==
  ASSUME IInv, Settles, PendSV_Handler
  PROVE  ~k'.fault /\ Settles'
<1>1. ~k.fault /\ tick = "off" /\ k.pendsv /\ tick' = tick
  BY DEF PendSV_Handler
<1>2. k \in Kernel /\ k.scheduled = TRUE
  BY <1>1, Start, KernelType DEF Ok, Running
<1>3. k' = [k EXCEPT !.scheduled = TRUE, !.run = k.new, !.pendsv = FALSE]
  BY <1>2 DEF PendSV_Handler, Kernel
<1> QED BY <1>1, <1>3, DispatchSettles

LEMMA TickSettles ==
  ASSUME Tame, IInv, Settles, osTickHandler
  PROVE  ~k'.fault /\ Settles'
<1>1. ~k.fault /\ pc' = pc /\ (Late <=> Late')
  BY DEF osTickHandler, InIsr, Late
<1>2. k \in Kernel
  BY DEF IInv, TypeOK
<1>3. /\ k'.run = k.run /\ k'.lock = k.lock /\ k'.pendsv = k.pendsv /\ k'.new = k.new
      /\ k'.status = k.status /\ k'.ready = k.ready /\ k'.fault = k.fault
  BY <1>2 DEF osTickHandler, Tame, Kernel
<1>4. LOS_PriqueueTop(k') = LOS_PriqueueTop(k) /\ \A u : Has(k', u, "READY") <=> Has(k, u, "READY")
  BY <1>3, TopSame DEF Has
<1>5. Moving' <=> Moving
  BY <1>1, <1>3 DEF Moving
<1>6. Settled(k', Moving', Late')
  BY <1>1, <1>3, <1>4, <1>5, SettledSame DEF Settles
<1> QED BY <1>1, <1>3, <1>6 DEF Settles

LEMMA ScanSettles ==
  ASSUME IInv, Settles, osTaskScan
  PROVE  ~k'.fault /\ Settles'
<1> DEFINE t == Head(k.due[0])
           x == Expired([k EXCEPT !.due[0] = Tail(@)], t)
<1>1. /\ ~k.fault /\ k.due[0] # <<>> /\ k' = x /\ pc' = pc
      /\ tick' = IF Has(k, t, "SUSPEND") THEN tick ELSE "ready"
  BY ScanWhole DEF IInv, ScanRound, Serving
<1>2. Ok(k) /\ k.new \in Task
  BY <1>1, Start, KernelType DEF Ok
<1>3. /\ ~x.fault /\ SameRest(k, x)
      /\ \A u \in Task : Has(k, u, "READY") => Has(x, u, "READY")
      /\ Has(k, t, "SUSPEND") => LOS_PriqueueTop(x) = LOS_PriqueueTop(k)
  BY <1>1, <1>2, ExpiredSafe
<1> HIDE DEF x, t
<1>4. k'.run = k.run /\ k'.lock = k.lock /\ k'.pendsv = k.pendsv /\ k'.new = k.new
  BY <1>1, <1>3 DEF SameRest
<1>5. (Moving => Moving') /\ (Late => Late') /\ (~Late' => Has(k, t, "SUSPEND"))
  BY <1>1, <1>4 DEF Moving, Late
<1>6. Settled(k', Moving', Late')
  BY <1>1, <1>2, <1>3, <1>4, <1>5, SettledSame DEF Settles
<1> QED BY <1>1, <1>3, <1>6 DEF Settles

LEMMA ScanEndsSettles ==
  ASSUME IInv, Settles, osTaskScanEnds
  PROVE  ~k'.fault /\ Settles'
<1>1. /\ ~k.fault /\ pc' = pc /\ k' = IF tick = "ready" THEN LOS_Schedule(k) ELSE k
      /\ Late' <=> Lax
  BY DEF osTaskScanEnds, Serving, Late
<1>2. Ok(k)
  BY <1>1, Start
<1>3. CASE tick = "ready"
  <2>1. /\ k.pendsv => k.lock = 0
        /\ k.run = Dummy => k.lock = 0
        /\ k.run \in Task /\ k.lock > 0 => Has(k, k.run, "READY")
    BY DEF Settles, Settled
  <2> QED BY <1>1, <1>2, <1>3, <2>1, ScheduleSettles DEF Settles
<1>4. CASE tick # "ready"
  <2>1. k' = k /\ (Moving' <=> Moving) /\ (Late' <=> Late)
    BY <1>1, <1>4 DEF Moving, Late
  <2>2. Settled(k', Moving', Late')
    BY <1>1, <1>4, <2>1, SettledSame DEF Settles
  <2> QED BY <1>1, <2>1, <2>2 DEF Settles
<1> QED BY <1>3, <1>4

LEMMA NoneReturnsStep ==
  ASSUME Tame, IInv, NoneReturns, [Next]_vars
  PROVE  NoneReturns'
<1> DEFINE Away  == {"none", "user", "sched", "alloc", "switch"}
           Exits == {"return", "exit", "unlink", "unlock", "leave", "exited"}
           Stays == NoneReturns'
<1>0. Away \cap Exits = {} /\ k.run \in Thread /\ pc \in [Thread -> Control]
  BY KernelType DEF IInv, TypeOK
<1>1. \A u, c : pc' = [pc EXCEPT ![u] = c] /\ c \in Away => Stays
  BY <1>0 DEF NoneReturns
<1>2. \A u, v, c, d : pc' = [pc EXCEPT ![u] = c, ![v] = d] /\ c \in Away /\ d \in Away \cup {pc[v]}
                      => Stays
  BY <1>0 DEF NoneReturns
<1>3. pc' = pc => Stays
  BY DEF NoneReturns
<1>4. /\ "none" \in Away /\ "user" \in Away /\ "sched" \in Away /\ "alloc" \in Away
      /\ "switch" \in Away
  OBVIOUS
<1>5. \A c \in Exits : ~InTask(c)
  BY <1>0 DEF NoneReturns, InTask
<1> SUFFICES Stays
  OBVIOUS
<1> HIDE DEF Stays, Away
<1>6. CASE TaskApi
  <2>1. ASSUME NEW op, NEW x, NEW r, Call(op, x, r) PROVE Stays
    BY <1>1, <1>3, <1>4, <2>1 DEF Call, Goto
  <2>2. /\ \A t \in Task : LOS_TaskSuspend(t) \/ LOS_TaskResume(t) => Stays
        /\ \A t \in Task, p \in Prio : LOS_TaskPriSet(t, p) => Stays
    BY <2>1 DEF LOS_TaskSuspend, LOS_TaskResume, LOS_TaskPriSet
  <2>3. ASSUME NEW t \in Task, LOS_TaskDelete(t) PROVE Stays
    <3>1. t \in Thread /\ t # Dummy
      BY TaskAssumption DEF Thread
    <3>2. \/ /\ t = k.run /\ pc' = [pc EXCEPT ![t] = "none", ![Dummy] = "switch"]
          \/ pc' = [pc EXCEPT ![t] = "none"]
      <4>1. pc' = [pc EXCEPT ![t] = "none", ![Dummy] = pc[Dummy]] => pc' = [pc EXCEPT ![t] = "none"]
        BY <1>0, <3>1
      <4> QED BY <2>3, <3>1, <4>1 DEF LOS_TaskDelete, Goto
    <3> QED BY <1>1, <1>2, <1>4, <3>2
  <2>4. ASSUME NEW n \in 1 .. MaxTimeout, LOS_TaskDelay(n) PROVE Stays
    BY <1>1, <1>4, <2>4 DEF LOS_TaskDelay, Goto
  <2>5. CASE LOS_TaskYield \/ LOS_TaskLock \/ LOS_TaskUnlock \/ TakeTcb
    BY <1>1, <1>3, <1>4, <2>5 DEF LOS_TaskYield, LOS_TaskLock, LOS_TaskUnlock, TakeTcb, Goto
  <2> QED BY <1>6, <2>2, <2>3, <2>4, <2>5 DEF TaskApi, ReturnDetached, ReturnJoinable, Tame
<1>7. CASE Continue
  <2>1. ASSUME NEW p, NEW d, NEW o, LOS_TaskCreate(p, d, o) PROVE Stays
    <3>1. pc' = [pc EXCEPT ![k.run] = "user", ![fresh[k.run]] = "user"]
      BY <2>1 DEF LOS_TaskCreate
    <3> QED BY <1>2, <1>4, <3>1
  <2>2. CASE CreateFails \/ Reschedule \/ SwitchFromDeleted
    BY <1>1, <1>4, <2>2 DEF CreateFails, Reschedule, SwitchFromDeleted, Goto
  <2> QED BY <1>5, <1>7, <2>1, <2>2 DEF Continue, ExitLocks, ExitReadsLinks, ExitUnlinks,
             ExitUnlocks, ExitSchedules, osTaskExit
<1>8. CASE Exceptions
  BY <1>1, <1>3, <1>4, <1>8, ScanServes
     DEF Exceptions, LOS_StartToRun, PendSV_Handler, osTickHandler, osTaskScanEnds, Serving, Goto
<1>9. CASE UNCHANGED vars
  BY <1>3, <1>9 DEF vars
<1> QED BY <1>6, <1>7, <1>8, <1>9 DEF Next

(* Every step of the task component. *)
LEMMA NextSettles ==
  ASSUME Tame, IInv, ~k.fault, Settles, NoneReturns, [Next]_vars,
         "delete" \in Api \cup IsrApi => TimeoutWaits
  PROVE  ~k'.fault /\ Settles' /\ NoneReturns'
<1>1. NoneReturns'
  BY NoneReturnsStep
<1> SUFFICES ~k'.fault /\ Settles'
  BY <1>1
<1>2. \A c \in {"return", "exit", "unlink", "unlock", "leave", "exited"} : ~InTask(c)
  <2>1. k.run \in Thread
    BY KernelType DEF IInv, TypeOK
  <2> QED BY <2>1 DEF NoneReturns, InTask
<1>3. CASE TaskApi
  <2>1. ASSUME NEW t \in Task, LOS_TaskDelete(t) PROVE ~k'.fault /\ Settles'
    <3>1. TimeoutWaits
      BY <2>1 DEF LOS_TaskDelete
    <3> QED BY <2>1, <3>1, DeleteSettles
  <2> QED BY <1>3, <2>1, SuspendSettles, ResumeSettles, PriSetSettles, DelaySettles, YieldSettles,
             LockSettles, TakeTcbSettles DEF TaskApi, ReturnDetached, ReturnJoinable, Tame
<1>4. CASE Continue
  <2>1. \A d \in Resved : d \in BOOLEAN
    BY DEF Resved
  <2>2. CASE Reschedule
    <3>1. InTask(pc[k.run]) /\ k' = LOS_Schedule(k)
      BY <2>2 DEF Reschedule, InTask
    <3> QED BY <3>1, ReschedulesSettles
  <2> QED BY <1>2, <1>4, <2>1, <2>2, CreateFailsSettles, CreateSettles, SwitchSettles
             DEF Continue, ExitLocks, ExitReadsLinks, ExitUnlinks, ExitUnlocks, ExitSchedules,
                 osTaskExit
<1>5. CASE Exceptions
  BY <1>5, StartSettles, PendSVSettles, TickSettles, ScanSettles, ScanEndsSettles DEF Exceptions
<1>6. CASE UNCHANGED vars
  BY <1>6 DEF vars, Settles, Moving, Late
<1> QED BY <1>3, <1>4, <1>5, <1>6 DEF Next

(* The CPU changes hands only by a switch, which the lock forbids and which leads to
   a ready task, or because the running task is deleted.                   *)
LEMMA RunChanges ==
  ASSUME Tame, IInv, ~k.fault, Settles, NoneReturns, [Next]_vars, ~k'.fault
  PROVE  \/ k'.run = k.run
         \/ k.lock = 0 /\ k'.run = Dummy
         \/ k.lock = 0 /\ k'.run = k.new /\ Has(k, k.new, "READY")
<1> DEFINE Same == k'.run = k.run
<1>1. Ok(k) /\ k \in Kernel /\ Sound(k) /\ Running /\ k.run \in Thread
  BY Start, KernelType DEF Ok
<1>2. \A c \in {"return", "exit", "unlink", "unlock", "leave", "exited"} : ~InTask(c)
  BY <1>1 DEF NoneReturns, InTask
<1>3. ASSUME NEW x \in Kernel PROVE LOS_Schedule(x).run = x.run
  BY <1>3 DEF LOS_Schedule, Kernel
<1>4. ASSUME NEW op, NEW x, NEW r, Call(op, x, r), Ok(x), Frame(k, x) PROVE Same
  <2>1. x.run = k.run /\ x \in Kernel
    BY <1>4 DEF Frame, Gentle, Keeps, KeepsTcbs, Ok
  <2> QED BY <1>3, <1>4, <2>1 DEF Call
<1>5. ASSUME NEW t \in Task, LOS_TaskSuspend(t) PROVE Same
  <2>1. /\ t \in Task \ {Idle} /\ ~Has(k, t, "UNUSED")
        /\ Call("suspend", Suspended(k, t), t = k.run)
    BY <1>5 DEF LOS_TaskSuspend
  <2> HIDE DEF Same
  <2> QED BY <1>1, <1>4, <2>1, SuspendedOk
<1>6. ASSUME NEW t \in Task, LOS_TaskResume(t) PROVE Same
  <2>1. /\ ~Has(k, t, "UNUSED")
        /\ Call("resume", Resumed(k, t), k.scheduled /\ ~Blocked(Unsuspended(k, t), t))
    BY <1>6 DEF LOS_TaskResume
  <2> HIDE DEF Same
  <2> QED BY <1>1, <1>4, <2>1, ResumedOk
<1>7. ASSUME NEW t \in Task, NEW p \in Prio, LOS_TaskPriSet(t, p) PROVE Same
  <2>1. /\ t \in Task \ {Idle} /\ ~Has(k, t, "UNUSED")
        /\ Call("priset", osTaskPriModify(k, t, p), Has(k, t, "READY"))
    BY <1>7 DEF LOS_TaskPriSet
  <2> HIDE DEF Same
  <2> QED BY <1>1, <1>4, <2>1, PriModifyOk
<1>8. ASSUME NEW n \in 1 .. MaxTimeout, LOS_TaskDelay(n) PROVE Same
  <2>1. /\ InTask(pc[k.run]) /\ pc[k.run] = "user" /\ k.scheduled /\ k' = Delayed(k, n)
    BY <1>8 DEF LOS_TaskDelay, UserCode, InTask
  <2>2. SameRest(k, Delayed(k, n))
    BY <1>1, <2>1, RunFacts, DelayedSafe
  <2> QED BY <2>1, <2>2 DEF SameRest
<1>9. CASE LOS_TaskYield
  <2>1. /\ InTask(pc[k.run]) /\ pc[k.run] = "user" /\ k.scheduled /\ k' = Rotate(k)
    BY <1>9 DEF LOS_TaskYield, UserCode, InTask
  <2>2. SameRest(k, Rotate(k))
    BY <1>1, <2>1, RunFacts, RotateSafe
  <2> QED BY <2>1, <2>2 DEF SameRest
<1>10. CASE LOS_TaskLock \/ LOS_TaskUnlock \/ TakeTcb \/ CreateFails \/ SwitchFromDeleted
  BY <1>1, <1>10 DEF LOS_TaskLock, LOS_TaskUnlock, TakeTcb, Drained, CreateFails,
     SwitchFromDeleted, osSchedule, Kernel
<1>11. ASSUME NEW t \in Task, LOS_TaskDelete(t) PROVE Same \/ (k.lock = 0 /\ k'.run = Dummy)
  <2> DEFINE x == Deleted(k, t)
  <2>1. /\ t \in Task \ {Idle} /\ (t = k.run => k.lock = 0)
        /\ k' = x \/ k' = osSchedule(x)
    <3>1. k.lock \in Nat
      BY <1>1, KernelType
    <3> QED BY <1>11, <3>1 DEF LOS_TaskDelete
  <2>2. Gone(k, x, t)
    BY <1>1, <2>1, DeletedGone
  <2> HIDE DEF x
  <2>3. k'.run = x.run
    BY <2>1, <2>2 DEF Gone, osSchedule, Kernel
  <2> QED BY <2>1, <2>2, <2>3 DEF Gone
<1>12. ASSUME NEW p \in Prio, NEW d \in BOOLEAN, NEW o \in BOOLEAN, LOS_TaskCreate(p, d, o)
       PROVE  Same
  <2> DEFINE t == fresh[k.run]
             x == Filled(k, t, p, d)
  <2>1. InTask("alloc") /\ k' = IF o THEN x ELSE Started(x, t)
    BY <1>12 DEF LOS_TaskCreate
  <2>2. t \in Task /\ Has(k, t, "UNUSED") /\ ~Contains(k.free, t) /\ ~Contains(k.recycle, t)
    BY <2>1, AllocFacts
  <2> HIDE DEF t
  <2>3. Ok(x) /\ SameRest(k, x) /\ ~x.fault /\ ~Has(x, t, "UNUSED") /\ ~Stopped(x, t)
    BY <1>1, <2>2, FilledOk
  <2> HIDE DEF x
  <2>4. Started(x, t).run = x.run
    BY <2>2, <2>3, StartedOk DEF Frame, Gentle, Keeps, KeepsTcbs
  <2> QED BY <2>1, <2>3, <2>4 DEF SameRest
<1>13. CASE Reschedule
  BY <1>1, <1>3, <1>13 DEF Reschedule
<1>14. CASE LOS_StartToRun
  <2>1. InTask(pc[k.run]) /\ pc[k.run] = "user" /\ ~k.scheduled /\ k'.run = k.new
    BY <1>1, <1>14 DEF LOS_StartToRun, UserCode, InTask, Kernel
  <2>2. k.lock = 0 /\ Has(k, k.new, "READY")
    BY <2>1, RunFacts
  <2> QED BY <1>1, <2>1, <2>2
<1>15. CASE PendSV_Handler
  BY <1>1, <1>15 DEF PendSV_Handler, Kernel, Settles, Settled
<1>16. CASE osTickHandler
  BY <1>1, <1>16 DEF osTickHandler, Tame, Kernel
<1>17. CASE osTaskScan
  <2> DEFINE x == Expired([k EXCEPT !.due[0] = Tail(@)], Head(k.due[0]))
  <2>1. k' = x /\ k.due[0] # <<>>
    BY <1>1, <1>17, ScanWhole DEF IInv, ScanRound
  <2>2. SameRest(k, x)
    BY <1>1, <2>1, ExpiredSafe
  <2> HIDE DEF x
  <2> QED BY <2>1, <2>2 DEF SameRest
<1>18. CASE osTaskScanEnds
  BY <1>1, <1>3, <1>18 DEF osTaskScanEnds, Serving
<1>19. CASE UNCHANGED vars
  BY <1>19 DEF vars
<1> HIDE DEF Same
<1>20. \A d \in Resved : d \in BOOLEAN
  BY DEF Resved
<1>21. CASE TaskApi
  BY <1>5, <1>6, <1>7, <1>8, <1>9, <1>10, <1>11, <1>21
     DEF TaskApi, ReturnDetached, ReturnJoinable, Tame, Same
<1>22. CASE Continue
  BY <1>2, <1>10, <1>12, <1>13, <1>20, <1>22
     DEF Continue, ExitLocks, ExitReadsLinks, ExitUnlinks, ExitUnlocks, ExitSchedules, osTaskExit,
         Same
<1>23. CASE Exceptions
  BY <1>14, <1>15, <1>16, <1>17, <1>18, <1>23 DEF Exceptions, Same
<1> QED BY <1>19, <1>21, <1>22, <1>23 DEF Next, Same

(* The task component alone never sets TIMEOUT. *)
NoTimeouts == \A t \in Task : ~Has(k, t, "TIMEOUT")

LEMMA NoTimeoutsStep ==
  ASSUME Tame, IInv, NoTimeouts, [Next]_vars, ~k.fault, ~k'.fault
  PROVE  NoTimeouts'
<1>1. Ok(k) /\ k \in Kernel
  BY Start DEF Ok
<1>2. ASSUME NEW t \in Task, LOS_TaskDelete(t) PROVE NoTimeouts'
  <2> DEFINE x == Deleted(k, t)
  <2>1. t \in Task \ {Idle} /\ (k' = x \/ k' = osSchedule(x))
    BY <1>2 DEF LOS_TaskDelete
  <2>2. Gone(k, x, t)
    BY <1>1, <2>1, DeletedGone
  <2> HIDE DEF x
  <2>3. k'.status = x.status
    BY <2>1, <2>2 DEF Gone, osSchedule, Kernel
  <2> QED BY <2>2, <2>3 DEF Gone, NoTimeouts, Has
<1>3. CASE UNCHANGED vars
  BY <1>3 DEF vars, NoTimeouts, Has
<1>4. CASE Next /\ \A t \in Task : ~LOS_TaskDelete(t)
  <2>1. ~ReturnDetached
    BY DEF ReturnDetached, Tame
  <2>2. Patient(k, k')
    BY <1>4, <2>1, TaskApiPatient, ContinuePatient, ExceptionsPatient DEF Next
  <2> QED BY <2>2 DEF Patient, NoTimeouts
<1> QED BY <1>2, <1>3, <1>4

(* ReadyAgrees and the like hold of a task that has a timer or waits; Settles says
   who runs; the rest excludes the code that Tame excludes.                *)
SchedInv == IInv /\ ~k.fault /\ Settles /\ NoneReturns /\ NoTimeouts

LEMMA InitSettles == Init => ~k.fault /\ Settles /\ NoneReturns /\ NoTimeouts
<1> SUFFICES ASSUME Init PROVE ~k.fault /\ Settles /\ NoneReturns /\ NoTimeouts
  OBVIOUS
<1>1. /\ k.fault = FALSE /\ k.run = Dummy /\ k.new = Idle /\ k.pendsv = FALSE /\ k.lock = 0
      /\ k.ready = [p \in Prio |-> IF p = LowestPrio THEN <<Idle>> ELSE <<>>]
      /\ k.status = [t \in Task |-> IF t = Idle THEN {"READY"} ELSE {"UNUSED"}]
      /\ Dummy \notin Task /\ LowestPrio \in Prio
  BY TaskAssumption DEF Init, Prio
<1>2. LOS_PriqueueTop(k) = Idle
  <2>1. k.ready[LowestPrio] = <<Idle>> /\ \A q \in Prio : q < LowestPrio => k.ready[q] = <<>>
    BY <1>1, TaskAssumption DEF Prio
  <2>2. <<Idle>> # <<>> /\ Head(<<Idle>>) = Idle
    OBVIOUS
  <2> QED BY <1>1, <2>1, <2>2, TopIs
<1>3. Settles
  <2>1. Idle \in Task /\ Has(k, Idle, "READY")
    BY <1>1, TaskAssumption DEF Has
  <2> QED BY <1>1, <1>2, <2>1 DEF Settles, Settled
<1>4. NoneReturns
  BY DEF Init, NoneReturns
<1>5. NoTimeouts
  BY <1>1 DEF NoTimeouts, Has
<1> QED BY <1>1, <1>3, <1>4, <1>5

LEMMA SettledHighest ==
  ASSUME IInv, Settles, ~Lax
  PROVE  HighestRuns
<1> SUFFICES ASSUME k.scheduled, InTask("user"), k.lock = 0 PROVE k.run = LOS_PriqueueTop(k)
  BY DEF HighestRuns
<1>1. InTask(pc[k.run]) /\ pc[k.run] = "user"
  BY DEF InTask
<1> QED BY <1>1, RunFacts

LEMMA SchedNext ==
  ASSUME Tame, SchedInv, [Next]_vars
  PROVE  SchedInv'
<1>1. TimeoutWaits
  BY DEF SchedInv, NoTimeouts, TimeoutWaits
<1>2. ~k'.fault /\ Settles' /\ NoneReturns'
  BY <1>1, NextSettles DEF SchedInv
<1>3. IInv'
  BY NextInv DEF SchedInv
<1>4. NoTimeouts'
  BY <1>2, NoTimeoutsStep DEF SchedInv
<1> QED BY <1>2, <1>3, <1>4 DEF SchedInv

LEMMA SchedInvariance ==
  ASSUME Tame
  PROVE  Spec => []SchedInv
<1>1. Init => SchedInv
  BY InitInv, InitSettles DEF SchedInv, Tame
<1>2. SchedInv /\ [Next]_vars => SchedInv'
  BY SchedNext
<1> QED BY <1>1, <1>2, PTL DEF Spec

(***************************************************************************)
(* Calls that wait.  The TIMEOUT flag outlives the wait until the thread   *)
(* runs: a task that is deleted in between is looked for in the calendar,  *)
(* where it is not any more (v_semdelete.cfg).                             *)
(***************************************************************************)
Steady == Tame /\ "delete" \notin Api \cup IsrApi

(* A running thread goes to a place that is not in the exit of a task. *)
LEMMA GoesElsewhere ==
  ASSUME pc \in [Thread -> Control], NoneReturns,
         NEW c \in {"user", "sched", "pend", "woken"},
         pc' = pc \/ pc' = [pc EXCEPT ![k.run] = c]
  PROVE  NoneReturns'
BY DEF NoneReturns

LEMMA WaitOnSafe ==
  ASSUME NEW x, NEW o \in WaitObj, NEW n \in 1 .. Forever,
         Ok(x), ~x.fault, x.run \in Task, Has(x, x.run, "READY")
  PROVE  ~WaitOn(x, o, n).fault /\ SameRest(x, WaitOn(x, o, n))
<1> DEFINE u == MakeUnready(x, x.run)
           y == WaitOn(x, o, n)
<1>1. x \in Kernel /\ Linked(x, x.run)
  BY ReadyLinked DEF Ok
<1>2. SameRest(x, u) /\ u.fault = (x.fault \/ ~Linked(x, x.run))
  BY <1>1, MakeUnreadyFacts
<1>3. ~u.fault
  BY <1>1, <1>2
<1>4. SameRest(u, y) /\ y.fault = u.fault
  BY <1>1, WaitOnQueued DEF Queued
<1> HIDE DEF u, y
<1>5. ~y.fault /\ SameRest(x, y)
  BY <1>2, <1>3, <1>4 DEF SameRest
<1> QED BY <1>5 DEF y

(* The caller begins to wait, after a section that has turned k into x. *)
LEMMA WaitSettles ==
  ASSUME IInv, Settles, UserCode, k.scheduled, k.lock = 0,
         NEW x, Ok(x), ~x.fault, SameRest(k, x), Has(k, k.run, "READY") => Has(x, k.run, "READY"),
         NEW o \in WaitObj, NEW n \in 1 .. Forever, k' = WaitOn(x, o, n),
         Goto(k.run, "pend"), tick' = tick
  PROVE  ~k'.fault /\ Settles'
<1>1. InTask(pc[k.run]) /\ pc[k.run] = "user"
  BY DEF UserCode, InTask
<1>2. k.run \in Task /\ Has(k, k.run, "READY") /\ x.run = k.run
  BY <1>1, RunFacts DEF SameRest
<1>3. ~k'.fault /\ SameRest(x, k')
  BY <1>2, WaitOnSafe
<1>4. SameRest(k, k')
  BY <1>3 DEF SameRest
<1> QED BY <1>3, <1>4, MovingSettles

(* A call wakes the waiter t (AwakeOk), after a section that has turned k into x. *)
LEMMA AwakeSettles ==
  ASSUME NEW op, NEW x, NEW y, NEW t \in Task, NEW flag \in {"PEND", "PEND_QUEUE"},
         IInv, Settles, SameRest(k, x), k.scheduled,
         Has(k, k.run, "READY") => Has(x, k.run, "READY"),
         Ok(y), ~y.fault, SameRest(x, y), y.status[t] = AwakeFlags(x.status[t], flag),
         \A u \in Task : u # t => y.status[u] = x.status[u],
         Call(op, y, TRUE)
  PROVE  ~k'.fault /\ Settles'
<1>1. y.run = k.run /\ y.lock = k.lock /\ y.pendsv = k.pendsv
  BY DEF SameRest
<1>2. \A u \in Task : Has(x, u, "READY") => Has(y, u, "READY")
  <2>1. flag # "READY"
    OBVIOUS
  <2>2. Has(x, t, "READY") => Has(y, t, "READY")
    BY <2>1 DEF Has, AwakeFlags
  <2> QED BY <2>2 DEF Has
<1> QED BY <1>1, <1>2, CallSettles

(* A thread whose wait is over clears its TIMEOUT flag. *)
LEMMA ReturnSettles ==
  ASSUME IInv, Settles, InTask("woken"), tick' = tick,
         k' = [k EXCEPT !.status[k.run] = @ \ {"TIMEOUT"}]
  PROVE  ~k'.fault /\ Settles'
<1>1. /\ ~k.fault /\ pc[k.run] = "woken" /\ k \in Kernel
      /\ k.run \in Task /\ k'.status = [k.status EXCEPT ![k.run] = @ \ {"TIMEOUT"}]
  BY ClearsTimeout DEF InTask, IInv, TypeOK
<1>2. /\ k'.run = k.run /\ k'.lock = k.lock /\ k'.pendsv = k.pendsv /\ k'.new = k.new
      /\ k'.ready = k.ready /\ k'.fault = k.fault
  BY <1>1 DEF Kernel
<1>3. \A t \in Task : Has(k, t, "READY") <=> Has(k', t, "READY")
  BY <1>1 DEF Has, Kernel
<1>4. k.new \in Task /\ LOS_PriqueueTop(k') = LOS_PriqueueTop(k)
  BY <1>1, <1>2, TopSame DEF Kernel
<1>5. ~Moving /\ (Late => Late')
  BY <1>1 DEF Moving, Late
<1>6. Settled(k', Moving', Late')
  <2> HIDE DEF Moving, Late
  <2>1. Settled(k, Moving, Late) /\ (Moving => Moving') /\ (Late => Late')
    BY <1>5 DEF Settles
  <2>2. /\ (k.pendsv \/ k.run = Dummy) /\ Has(k, k.new, "READY") => Has(k', k.new, "READY")
        /\ k.run \in Task /\ Has(k, k.run, "READY") => Has(k', k.run, "READY")
        /\ ~Late' /\ k.lock = 0 => LOS_PriqueueTop(k') = LOS_PriqueueTop(k)
    BY <1>1, <1>3, <1>4
  <2>3. k'.run = k.run /\ k'.lock = k.lock /\ k'.pendsv = k.pendsv /\ k'.new = k.new
    BY <1>2
  <2> QED BY <2>1, <2>2, <2>3 DEF Settled
<1> QED BY <1>1, <1>2, <1>6 DEF Settles

(***************************************************************************)
(* A step of the task component, where no task is deleted: no TCB that is  *)
(* used becomes unused, and a thread inside a blocking call stays there.   *)
(***************************************************************************)
UsedStays == \A t \in Task : Has(k', t, "UNUSED") => Has(k, t, "UNUSED")

LEMMA CallUsedStays ==
  ASSUME NEW op, NEW x, NEW r, Call(op, x, r), x \in Kernel,
         \A t \in Task : Has(x, t, "UNUSED") => Has(k, t, "UNUSED")
  PROVE  UsedStays
<1>1. k'.status = x.status
  <2>1. LOS_Schedule(x).status = x.status
    BY DEF LOS_Schedule, Kernel
  <2> QED BY <2>1 DEF Call
<1> QED BY <1>1 DEF UsedStays, Has

LEMMA TaskApiUsedStays ==
  ASSUME Steady, IInv, ~k.fault, ~k'.fault, TaskApi
  PROVE  UsedStays
<1>1. /\ Ok(k) /\ k \in Kernel /\ Sound(k) /\ Running /\ Delaying(k)
  BY Start DEF Ok
<1>2. ASSUME NEW op, NEW x, NEW r, Call(op, x, r), Ok(x), Frame(k, x) PROVE UsedStays
  BY <1>2, CallUsedStays DEF Ok, Frame, Gentle, Keeps, KeepsTcbs
<1>3. ASSUME NEW t \in Task, LOS_TaskSuspend(t) PROVE UsedStays
  <2>1. t \in Task \ {Idle} /\ ~Has(k, t, "UNUSED") /\ Call("suspend", Suspended(k, t), t = k.run)
    BY <1>3 DEF LOS_TaskSuspend
  <2>2. Ok(Suspended(k, t)) /\ Frame(k, Suspended(k, t))
    BY <1>1, <2>1, SuspendedOk
  <2> QED BY <1>2, <2>1, <2>2
<1>4. ASSUME NEW t \in Task, LOS_TaskResume(t) PROVE UsedStays
  <2>1. ~Has(k, t, "UNUSED")
        /\ Call("resume", Resumed(k, t), k.scheduled /\ ~Blocked(Unsuspended(k, t), t))
    BY <1>4 DEF LOS_TaskResume
  <2>2. Ok(Resumed(k, t)) /\ Frame(k, Resumed(k, t))
    BY <1>1, <2>1, ResumedOk
  <2> QED BY <1>2, <2>1, <2>2
<1>5. ASSUME NEW t \in Task, NEW p \in Prio, LOS_TaskPriSet(t, p) PROVE UsedStays
  <2>1. t \in Task \ {Idle} /\ ~Has(k, t, "UNUSED")
        /\ Call("priset", osTaskPriModify(k, t, p), Has(k, t, "READY"))
    BY <1>5 DEF LOS_TaskPriSet
  <2>2. Ok(osTaskPriModify(k, t, p)) /\ Frame(k, osTaskPriModify(k, t, p))
    BY <1>1, <2>1, PriModifyOk
  <2> QED BY <1>2, <2>1, <2>2
<1>6. ASSUME NEW n \in 1 .. MaxTimeout, LOS_TaskDelay(n) PROVE UsedStays
  <2>1. k.run \in Task /\ k' = Delayed(k, n)
    <3>1. k.run # Dummy
      BY <1>1, <1>6 DEF LOS_TaskDelay, UserCode, InTask, Running
    <3> QED BY <1>1, <1>6, <3>1 DEF LOS_TaskDelay, Kernel, Thread
  <2> DEFINE u == MakeUnready(k, k.run)
             v == osTaskAdd2TimerList(u, k.run, n)
  <2>2. u \in Kernel /\ u.status = [k.status EXCEPT ![k.run] = @ \ {"READY"}]
    BY <1>1, <2>1, MakeUnreadyFacts
  <2>3. k' = [v EXCEPT !.status[k.run] = @ \cup {"DELAY"}]
    BY <2>1 DEF Delayed
  <2> HIDE DEF u
  <2>4. v = [u EXCEPT !.due[n] = Append(@, k.run)] /\ v.status = u.status
    BY <2>2 DEF osTaskAdd2TimerList, Kernel
  <2>5. k'.status = [u.status EXCEPT ![k.run] = @ \cup {"DELAY"}]
    BY <2>2, <2>3, <2>4 DEF Kernel
  <2>6. k.status \in [Task -> SUBSET Flag] /\ u.status \in [Task -> SUBSET Flag]
    BY <1>1, <2>2 DEF Kernel
  <2> QED BY <2>1, <2>2, <2>5, <2>6 DEF UsedStays, Has
<1>7. CASE LOS_TaskYield
  <2>1. k.run \in Task /\ k' = Rotate(k) /\ ~k.pendsv /\ pc[k.run] = "user"
    BY <1>7 DEF LOS_TaskYield, CanYield, UserCode, InTask
  <2>2. ~Waits(k, k.run)
    BY <1>1, <2>1 DEF Delaying, Stopped
  <2>3. Frame(k, k')
    BY <1>1, <2>1, <2>2, RotateOk
  <2> QED BY <2>3 DEF Frame, Gentle, Keeps, KeepsTcbs, UsedStays
<1>8. CASE LOS_TaskLock \/ LOS_TaskUnlock \/ TakeTcb
  <2>1. k'.status = k.status
    BY <1>1, <1>8 DEF LOS_TaskLock, LOS_TaskUnlock, Unlocked, TakeTcb, Drained, Kernel
  <2> QED BY <2>1 DEF UsedStays, Has
<1>9. \A t \in Task : ~LOS_TaskDelete(t)
  BY DEF LOS_TaskDelete, Steady
<1> QED BY <1>3, <1>4, <1>5, <1>6, <1>7, <1>8, <1>9
           DEF TaskApi, ReturnDetached, ReturnJoinable, Steady, Tame

LEMMA ContinueUsedStays ==
  ASSUME IInv, NoneReturns, Continue
  PROVE  UsedStays
<1>1. k \in Kernel /\ k.run \in Thread
  BY KernelType DEF IInv, TypeOK
<1>2. ASSUME NEW p \in Prio, NEW d \in Resved, NEW o \in BOOLEAN, LOS_TaskCreate(p, d, o)
      PROVE  UsedStays
  <2> DEFINE t == fresh[k.run]
             x == Filled(k, t, p, d)
  <2>1. /\ Ok(k) /\ ~k.fault /\ t \in Task /\ Has(k, t, "UNUSED") /\ d \in BOOLEAN
        /\ ~Contains(k.free, t) /\ ~Contains(k.recycle, t)
    BY <1>2, AllocFacts DEF LOS_TaskCreate, Resved
  <2>2. k' = x \/ k' = Started(x, t)
    BY <1>2 DEF LOS_TaskCreate
  <2> HIDE DEF t
  <2>3. /\ Ok(x) /\ x.fault = k.fault /\ ~Has(x, t, "UNUSED") /\ ~Stopped(x, t)
        /\ \A u \in Task : u # t => x.status[u] = k.status[u]
    BY <2>1, FilledOk
  <2> HIDE DEF x
  <2>4. \A u \in Task : Has(k', u, "UNUSED") <=> Has(x, u, "UNUSED")
    <3>1. Frame(x, Started(x, t))
      BY <2>1, <2>3, StartedOk
    <3> QED BY <2>2, <3>1 DEF Frame, Gentle, Keeps, KeepsTcbs
  <2> QED BY <2>3, <2>4 DEF UsedStays, Has
<1>3. CASE CreateFails \/ Reschedule \/ SwitchFromDeleted
  <2>1. k'.status = k.status
    BY <1>1, <1>3 DEF CreateFails, Reschedule, SwitchFromDeleted, LOS_Schedule, osSchedule, Kernel
  <2> QED BY <2>1 DEF UsedStays, Has
<1>4. \A c \in {"return", "exit", "unlink", "unlock", "leave", "exited"} : ~InTask(c)
  BY <1>1 DEF NoneReturns, InTask
<1> QED BY <1>2, <1>3, <1>4 DEF Continue, ExitLocks, ExitReadsLinks, ExitUnlinks, ExitUnlocks,
           ExitSchedules, osTaskExit

LEMMA ExceptionsUsedStays ==
  ASSUME ~TIMESLICE, IInv, ~k.fault, Exceptions
  PROVE  UsedStays
<1>1. /\ Ok(k) /\ k \in Kernel /\ Running
  BY Start DEF Ok
<1>2. CASE LOS_StartToRun \/ PendSV_Handler \/ osTaskScanEnds
  <2>1. k'.status = k.status
    BY <1>1, <1>2 DEF LOS_StartToRun, PendSV_Handler, osTaskScanEnds, LOS_Schedule, Kernel
  <2> QED BY <2>1 DEF UsedStays, Has
<1>3. CASE osTickHandler
  <2>1. k' = Shifted(k) /\ k.due[0] = <<>>
    BY <1>1, <1>3 DEF osTickHandler, Shifted, Running
  <2>2. Frame(k, k')
    BY <1>1, <2>1, ShiftedOk
  <2> QED BY <2>2 DEF Frame, Gentle, Keeps, KeepsTcbs, UsedStays
<1>4. CASE osTaskScan
  <2>1. k.due[0] # <<>> /\ k' = Expired([k EXCEPT !.due[0] = Tail(@)], Head(k.due[0]))
    BY <1>1, <1>4, ScanWhole DEF IInv, ScanRound
  <2>2. Frame(k, k')
    BY <1>1, <2>1, ExpiredOk
  <2> QED BY <2>2 DEF Frame, Gentle, Keeps, KeepsTcbs, UsedStays
<1> QED BY <1>2, <1>3, <1>4 DEF Exceptions

LEMMA NextUsedStays ==
  ASSUME Steady, IInv, ~k.fault, ~k'.fault, NoneReturns, [Next]_vars
  PROVE  UsedStays
<1>1. CASE UNCHANGED vars
  BY <1>1 DEF vars, UsedStays, Has
<1>2. CASE Next
  BY <1>2, TaskApiUsedStays, ContinueUsedStays, ExceptionsUsedStays DEF Next, Steady, Tame
<1> QED BY <1>1, <1>2

LEMMA InsideStays ==
  ASSUME Steady, IInv, NoneReturns, [Next]_vars,
         \A t \in Task : pc[t] \in Inside => ~Has(k, t, "UNUSED")
  PROVE  \A t \in Task : pc[t] \in Inside => pc'[t] = pc[t]
<1> DEFINE Stay == \A t \in Task : pc[t] \in Inside => pc'[t] = pc[t]
<1>1. /\ pc \in [Thread -> Control] /\ k.run \in Thread /\ \A t \in Task : t \in Thread
      /\ Dummy \notin Task
  BY KernelType, TaskAssumption DEF IInv, TypeOK, Thread
<1>2. \A u, c : pc' = [pc EXCEPT ![u] = c] /\ (pc[u] \notin Inside \/ u \notin Task) => Stay
  BY <1>1
<1>3. pc' = pc => Stay
  OBVIOUS
<1>4. /\ "user" \notin Inside /\ "sched" \notin Inside /\ "alloc" \notin Inside
      /\ "switch" \notin Inside
  BY DEF Inside
<1> SUFFICES Stay
  OBVIOUS
<1>5. CASE TaskApi
  <2>1. ASSUME NEW op, NEW x, NEW r, Call(op, x, r) PROVE Stay
    <3>1. pc' = pc \/ (pc[k.run] = "user" /\ pc' = [pc EXCEPT ![k.run] = "sched"])
      BY <2>1 DEF Call, Goto, UserCode, InTask
    <3> HIDE DEF Stay
    <3> QED BY <1>2, <1>3, <1>4, <3>1
  <2>2. /\ \A t \in Task : LOS_TaskSuspend(t) \/ LOS_TaskResume(t) => Stay
        /\ \A t \in Task, p \in Prio : LOS_TaskPriSet(t, p) => Stay
    <3> HIDE DEF Stay
    <3> QED BY <2>1 DEF LOS_TaskSuspend, LOS_TaskResume, LOS_TaskPriSet
  <2>3. ASSUME \/ \E n \in 1 .. MaxTimeout : LOS_TaskDelay(n)
               \/ LOS_TaskYield \/ LOS_TaskLock \/ LOS_TaskUnlock \/ TakeTcb
        PROVE  Stay
    <3>1. \/ pc' = pc
          \/ pc[k.run] = "user" /\ \E c : pc' = [pc EXCEPT ![k.run] = c]
      BY <2>3 DEF LOS_TaskDelay, LOS_TaskYield, LOS_TaskLock, LOS_TaskUnlock, TakeTcb, Goto,
         UserCode, InTask
    <3> HIDE DEF Stay
    <3> QED BY <1>2, <1>3, <1>4, <3>1
  <2>4. \A t \in Task : ~LOS_TaskDelete(t)
    BY DEF LOS_TaskDelete, Steady
  <2> HIDE DEF Stay
  <2> QED BY <1>5, <2>2, <2>3, <2>4 DEF TaskApi, ReturnDetached, ReturnJoinable, Steady, Tame
<1>6. CASE Continue
  <2>1. ASSUME NEW p, NEW d, NEW o, LOS_TaskCreate(p, d, o) PROVE Stay
    <3>1. /\ pc' = [pc EXCEPT ![k.run] = "user", ![fresh[k.run]] = "user"]
          /\ pc[k.run] = "alloc" /\ fresh[k.run] \in Task /\ Has(k, fresh[k.run], "UNUSED")
      BY <2>1, AllocFacts DEF LOS_TaskCreate
    <3> QED BY <1>1, <1>4, <3>1
  <2>2. CASE CreateFails \/ Reschedule \/ SwitchFromDeleted
    <3>1. /\ pc[k.run] \in {"alloc", "sched"} /\ pc' = [pc EXCEPT ![k.run] = "user"]
          \/ pc' = [pc EXCEPT ![Dummy] = "none"]
      BY <2>2 DEF CreateFails, Reschedule, SwitchFromDeleted, Goto, InTask
    <3> HIDE DEF Stay
    <3> QED BY <1>1, <1>2, <1>4, <3>1
  <2>3. \A c \in {"return", "exit", "unlink", "unlock", "leave", "exited"} : ~InTask(c)
    BY <1>1 DEF NoneReturns, InTask
  <2> HIDE DEF Stay
  <2> QED BY <1>6, <2>1, <2>2, <2>3 DEF Continue, ExitLocks, ExitReadsLinks, ExitUnlinks,
             ExitUnlocks, ExitSchedules, osTaskExit
<1>7. CASE Exceptions
  <2>1. pc' = pc \/ pc' = [pc EXCEPT ![Dummy] = "none"]
    BY <1>7, ScanServes DEF Exceptions, LOS_StartToRun, PendSV_Handler, osTickHandler,
     osTaskScanEnds, Serving, Goto
  <2> HIDE DEF Stay
  <2> QED BY <1>1, <1>2, <1>3, <2>1
<1>8. CASE UNCHANGED vars
  BY <1>3, <1>8 DEF vars
<1> QED BY <1>5, <1>6, <1>7, <1>8 DEF Next

(***************************************************************************)
(* The theorems.                                                           *)
(***************************************************************************)

(* No list operation of the kernel meets a node that is in no list or in two: the
   premise NoFault of the other theorems holds.                            *)
THEOREM NeverFaults ==
  ASSUME Tame
  PROVE  Spec => []NoFault
<1>1. SchedInv => NoFault
  BY DEF SchedInv, NoFault
<1> QED BY <1>1, SchedInvariance, PTL

(* PendSV_Handler, which takes pstNewTask as it was when the switch was requested,
   finds a ready task there.                                               *)
THEOREM SwitchesToReady ==
  ASSUME Tame
  PROVE  Spec => []SwitchTargetReady
<1>1. SchedInv => SwitchTargetReady
  BY DEF SchedInv, Settles, Settled, SwitchTargetReady
<1> QED BY <1>1, SchedInvariance, PTL

(* A task that runs its own code with the scheduler unlocked and no switch pending is
   the first of the highest ready queue: no LOS_Schedule has been forgotten. *)
THEOREM MostUrgentRuns ==
  ASSUME Tame, ~Lax
  PROVE  Spec => []HighestRuns
<1>1. SchedInv => HighestRuns
  BY SettledHighest DEF SchedInv
<1> QED BY <1>1, SchedInvariance, PTL

(* While a task holds the scheduler lock no other task gets the CPU, whatever
   handlers ready, delete or resume.                                       *)
THEOREM LockKeepsCpu ==
  ASSUME Tame
  PROVE  Spec => LockHolds
<1>1. ASSUME SchedInv, [Next]_vars, SchedInv', k.lock > 0 PROVE k'.run = k.run
  <2>1. k.lock # 0
    BY <1>1, KernelType DEF SchedInv, IInv, TypeOK
  <2> QED BY <1>1, <2>1, RunChanges DEF SchedInv
<1>2. SchedInv /\ SchedInv' /\ [Next]_vars => [k.lock > 0 /\ k'.lock > 0 => k'.run = k.run]_vars
  BY <1>1
<1> QED BY <1>2, SchedInvariance, PTL DEF Spec, LockHolds

(* A suspended task does not get the CPU, whether it was ready, blocked or delayed
   when it was suspended.                                                  *)
THEOREM SuspendedStaysAway ==
  ASSUME Tame
  PROVE  Spec => SuspendedNotScheduled
<1>1. ASSUME SchedInv, [Next]_vars, SchedInv', NEW t \in Task, Has(k, t, "SUSPEND"), k'.run = t
      PROVE  k.run = t
  <2>1. Dummy \notin Task /\ Sound(k)
    BY <1>1, TaskAssumption DEF SchedInv, IInv
  <2>2. ~Has(k, t, "READY")
    BY <1>1, <2>1 DEF Sound, Good, Flags, FlagsOf
  <2> QED BY <1>1, <2>1, <2>2, RunChanges DEF SchedInv
<1>2. SchedInv /\ SchedInv' /\ [Next]_vars =>
        [\A t \in Task : Has(k, t, "SUSPEND") /\ k'.run = t => k.run = t]_vars
  BY <1>1
<1> QED BY <1>2, SchedInvariance, PTL DEF Spec, SuspendedNotScheduled
=============================================================================
