--------------------------- MODULE LosQueueProofs ---------------------------
(***************************************************************************)
(* Theorems about message queues and mail, for every number of queues,     *)
(* blocks and tasks and every length of a queue, of applications that are  *)
(* Placid.                                                                 *)
(***************************************************************************)
EXTENDS LosQueue, LosTaskProofs

(* The scheduler lock is left alone: osQueueMailAlloc waits without a test of it
   (los_queue.c:521), and a task that waits under the lock faults the kernel. *)
Placid == Steady /\ "lock" \notin Api

(***************************************************************************)
(* osQueuePend and osQueueWakeUp.                                          *)
(***************************************************************************)

(* o's list with the running task in it. *)
Placed(x, o) ==
  LET i == SelectInSeq(x.wait[o], LAMBDA t : x.prio[x.run] < x.prio[t])
  IN IF i = 0 THEN Append(x.wait[o], x.run) ELSE InsertAt(x.wait[o], i, x.run)

LEMMA PlacedAt ==
  ASSUME NEW x \in Kernel, x.run \in Task, NEW o \in WaitObj
  PROVE  \E i \in 0 .. Len(x.wait[o]) :
           /\ Placed(x, o) = IF i = 0 THEN Append(x.wait[o], x.run)
                             ELSE InsertAt(x.wait[o], i, x.run)
           /\ i = 0 => \A j \in 1 .. Len(x.wait[o]) : ~(x.prio[x.run] < x.prio[x.wait[o][j]])
           /\ i # 0 => /\ x.prio[x.run] < x.prio[x.wait[o][i]]
                       /\ \A j \in 1 .. i - 1 : ~(x.prio[x.run] < x.prio[x.wait[o][j]])
<1> DEFINE s == x.wait[o]
           P == {t \in Task : x.prio[x.run] < x.prio[t]}
           T == {j \in 1 .. Len(s) : s[j] \in P}
           i == IF T # {} THEN Min(T) ELSE 0
<1>1. s \in Seq(Task) /\ \A j \in 1 .. Len(s) : s[j] \in Task
  BY KernelType
<1>2. {j \in 1 .. Len(s) : x.prio[x.run] < x.prio[s[j]]} = T
  BY <1>1
<1>3. Placed(x, o) = IF i = 0 THEN Append(s, x.run) ELSE InsertAt(s, i, x.run)
  BY <1>2 DEF Placed, SelectInSeq
<1>4. /\ i \in 0 .. Len(s)
      /\ i = 0 => \A j \in 1 .. Len(s) : s[j] \notin P
      /\ i # 0 => s[i] \in P /\ \A j \in 1 .. i - 1 : s[j] \notin P
  <2>1. T \in SUBSET Nat /\ Len(s) \in Nat
    BY <1>1
  <2>2. CASE T = {}
    <3>1. i = 0
      BY <2>2
    <3>2. \A j \in 1 .. Len(s) : s[j] \notin P
      <4> HIDE DEF P
      <4> QED BY <2>2
    <3> HIDE DEF i, P, T
    <3> QED BY <2>1, <3>1, <3>2
  <2>3. CASE T # {}
    <3>1. i = Min(T)
      BY <2>3
    <3>2. i \in T /\ \A n \in T : i <= n
      <4> HIDE DEF T, i
      <4> QED BY <2>1, <2>3, <3>1, MinFacts
    <3>3. \A j \in 1 .. i - 1 : j \in 1 .. Len(s) /\ j \notin T
      <4>1. T \subseteq 1 .. Len(s)
        OBVIOUS
      <4> HIDE DEF T, i
      <4> QED BY <2>1, <3>2, <4>1
    <3> HIDE DEF i
    <3> QED BY <2>1, <3>2, <3>3
  <2> QED BY <2>2, <2>3
<1> HIDE DEF i, T
<1>5. \A j \in 1 .. i - 1 : s[j] \in Task
  BY <1>1, <1>4
<1> QED BY <1>1, <1>3, <1>4, <1>5

LEMMA PlacedList ==
  ASSUME NEW x \in Kernel, x.run \in Task, NEW o \in WaitObj
  PROVE  /\ Placed(x, o) \in Seq(Task)
         /\ IsInjective(x.wait[o]) /\ ~Contains(x.wait[o], x.run) => IsInjective(Placed(x, o))
         /\ \A u : Contains(Placed(x, o), u) <=> Contains(x.wait[o], u) \/ u = x.run
<1> DEFINE s == x.wait[o]
<1>1. s \in Seq(Task)
  BY KernelType
<1>2. PICK i \in 0 .. Len(s) :
        Placed(x, o) = IF i = 0 THEN Append(s, x.run) ELSE InsertAt(s, i, x.run)
  BY PlacedAt
<1> HIDE DEF s
<1>3. CASE i = 0
  BY <1>1, <1>2, <1>3, AppendList DEF s
<1>4. CASE i # 0
  <2>1. i \in 1 .. Len(s)
    BY <1>2, <1>4
  <2> QED BY <1>1, <1>2, <1>4, <2>1, InsertList DEF s
<1> QED BY <1>3, <1>4

LEMMA PendQueued ==
  ASSUME NEW x \in Kernel, x.run \in Task, NEW o \in WaitObj, NEW n \in 1 .. Forever,
         ~Has(x, x.run, "TIMEOUT"), ~Contains(x.wait[o], x.run)
  PROVE  /\ Queued(x, osQueuePend(x, o, n), o, n, "PEND_QUEUE")
         /\ osQueuePend(x, o, n).wait[o] = Placed(x, o)
<1> DEFINE t == x.run
           u == MakeUnready(x, t)
           s == Placed(x, o)
           f == IF n = Forever THEN u.status[t] \cup {"PEND_QUEUE"}
                ELSE u.status[t] \cup {"PEND_QUEUE", "TIMEOUT"}
           d == [m \in 0 .. MaxTimeout |-> IF m = n THEN Append(u.due[m], t) ELSE u.due[m]]
           y == [u EXCEPT !.wait[o] = s, !.status[t] = f, !.due = d]
<1>1. /\ u \in Kernel /\ SameRest(x, u) /\ u.wait[o] = x.wait[o]
      /\ u.status = [x.status EXCEPT ![t] = @ \ {"READY"}]
  <2>1. /\ u \in Kernel /\ SameRest(x, u) /\ u.wait[o] = RemoveFirst(x.wait[o], t)
        /\ u.status = [x.status EXCEPT ![t] = @ \ {"READY"}]
    BY MakeUnreadyFacts
  <2>2. x.wait[o] \in Seq(Task)
    BY KernelType
  <2> QED BY <2>1, <2>2, RemoveFirstAbsent
<1> HIDE DEF u
<1>2. t \in Task /\ n \in Int /\ (n # Forever => n \in 0 .. MaxTimeout)
      /\ \A m \in 0 .. MaxTimeout : m # Forever
  BY TaskAssumption DEF Forever
<1>3. /\ s \in Seq(Task) /\ u.status[t] \in SUBSET Flag
      /\ \A m \in 0 .. MaxTimeout : u.due[m] \in Seq(Task) /\ Append(u.due[m], t) \in Seq(Task)
  BY <1>1, <1>2, KernelType, PlacedList
<1>4. f \in SUBSET Flag /\ d \in [0 .. MaxTimeout -> Seq(Task)]
  BY <1>3 DEF Flag
<1>5. osQueuePend(x, o, n) = y
  <2> DEFINE z == [u EXCEPT !.wait[o] = s, !.status[t] = @ \cup {"PEND_QUEUE"}]
  <2>1. osQueuePend(x, o, n) =
          IF n = Forever THEN z
          ELSE osTaskAdd2TimerList([z EXCEPT !.status[t] = @ \cup {"TIMEOUT"}], t, n)
    BY <1>1 DEF osQueuePend, Placed, u
  <2> HIDE DEF s
  <2>2. CASE n = Forever
    <3>1. d = u.due
      BY <1>1, <1>2, <2>2 DEF Kernel
    <3>2. f = u.status[t] \cup {"PEND_QUEUE"}
      BY <2>2
    <3> HIDE DEF d, f
    <3> QED BY <1>1, <2>1, <2>2, <3>1, <3>2 DEF Kernel
  <2>3. CASE n # Forever
    <3>1. d = [u.due EXCEPT ![n] = Append(@, t)]
      BY <1>1, <1>2, <2>3 DEF Kernel
    <3>2. f = (u.status[t] \cup {"PEND_QUEUE"}) \cup {"TIMEOUT"}
      BY <2>3
    <3>3. n \in 0 .. MaxTimeout
      BY <1>2, <2>3
    <3> HIDE DEF d, f
    <3>4. [z EXCEPT !.status[t] = @ \cup {"TIMEOUT"}] = [u EXCEPT !.wait[o] = s, !.status[t] = f]
      BY <1>1, <1>2, <3>2, ZenonT(60) DEF Kernel
    <3> DEFINE v == [u EXCEPT !.wait[o] = s, !.status[t] = f]
    <3>5. osQueuePend(x, o, n) = [v EXCEPT !.due[n] = Append(@, t)]
      BY <2>1, <2>3, <3>4 DEF osTaskAdd2TimerList
    <3> HIDE DEF z
    <3> QED BY <1>1, <3>1, <3>3, <3>5 DEF Kernel
  <2> QED BY <2>2, <2>3
<1> HIDE DEF s, d, f
<1>6. /\ y \in Kernel /\ SameRest(u, y)
      /\ y.prio = u.prio /\ y.ready = u.ready /\ y.fault = u.fault
      /\ y.wait = [u.wait EXCEPT ![o] = s] /\ y.status = [u.status EXCEPT ![t] = f] /\ y.due = d
  BY <1>1, <1>2, <1>3, <1>4 DEF Kernel, SameRest
<1> HIDE DEF y
<1>7. /\ y.wait[o] = s /\ \A p \in WaitObj : p # o => y.wait[p] = u.wait[p]
      /\ y.status[t] = f /\ \A w \in Task : w # t => y.status[w] = u.status[w]
      /\ \A m \in 0 .. MaxTimeout : y.due[m] = IF m = n THEN Append(u.due[m], t) ELSE u.due[m]
  BY <1>1, <1>2, <1>6 DEF Kernel, d
<1>8. /\ IsInjective(u.wait[o]) /\ ~Contains(u.wait[o], t) => IsInjective(y.wait[o])
      /\ \A w \in Task : Contains(y.wait[o], w) <=> Contains(u.wait[o], w) \/ w = t
  BY <1>1, <1>2, <1>7, PlacedList DEF s
<1>9. /\ \A g \in Flag \ {"TIMEOUT"} : Has(y, t, g) <=> Has(u, t, g) \/ g = "PEND_QUEUE"
      /\ Has(y, t, "TIMEOUT") <=> n # Forever
  <2>1. "TIMEOUT" \notin u.status[t]
    BY <1>1, <1>2 DEF Has, Kernel
  <2> QED BY <1>7, <2>1 DEF Has, f, Flag
<1> QED BY <1>5, <1>6, <1>7, <1>8, <1>9 DEF Queued, u, t, s

(***************************************************************************)
(* Steps of the task component.                                            *)
(***************************************************************************)

(* No flag of a wait is set or cleared, save by a timer, where no task is deleted
   and none returns.                                                       *)
LEMMA SteadyPatient ==
  ASSUME Steady, IInv, ~k'.fault, [Next]_vars
  PROVE  Patient(k, k')
<1>1. ~k.fault
  BY FaultStays
<1>2. CASE TaskApi
  BY <1>1, <1>2, TaskApiPatient DEF Steady, Tame, ReturnDetached, LOS_TaskDelete
<1>3. CASE Continue
  BY <1>1, <1>3, ContinuePatient
<1>4. CASE Exceptions
  BY <1>1, <1>4, ExceptionsPatient
<1>5. CASE UNCHANGED vars
  BY <1>5, SameWaits DEF vars
<1> QED BY <1>2, <1>3, <1>4, <1>5 DEF Next

LEMMA LockStays ==
  ASSUME Placid, IInv, ~k.fault, ~k'.fault, Settles, NoneReturns, [Next]_vars
  PROVE  k'.lock = k.lock
<1> DEFINE Same == k'.lock = k.lock
<1>1. Ok(k) /\ k \in Kernel /\ Sound(k) /\ Running /\ k.run \in Thread
  BY Start, KernelType DEF Ok
<1>2. \A c \in {"return", "exit", "unlink", "unlock", "leave", "exited"} : ~InTask(c)
  BY <1>1 DEF NoneReturns, InTask
<1>3. ASSUME NEW x \in Kernel PROVE LOS_Schedule(x).lock = x.lock
  BY <1>3 DEF LOS_Schedule, Kernel
<1>4. ASSUME NEW op, NEW x, NEW r, Call(op, x, r), Ok(x), Frame(k, x) PROVE Same
  <2>1. x.lock = k.lock /\ x \in Kernel
    BY <1>4 DEF Frame, Gentle, Keeps, Ok
  <2> QED BY <1>3, <1>4, <2>1 DEF Call
<1>5. ASSUME NEW t \in Task, LOS_TaskSuspend(t) PROVE Same
  <2>1. /\ t \in Task \ {Idle} /\ ~Has(k, t, "UNUSED")
        /\ Call("suspend", Suspended(k, t), t = k.run)
    BY <1>5 DEF LOS_TaskSuspend
  <2> HIDE DEF Same
  <2> QED BY <1>1, <1>4, <2>1, SuspendedOk
<1>6. ASSUME NEW t \in Task, LOS_TaskResume(t) PROVE Same
  <2>1. /\ ~Has(k, t, "UNUSED")
        /\ Call("resume", Resumed(k, t), k.scheduled /\ ~Blocked(Unsuspended(k, t), t))
    BY <1>6 DEF LOS_TaskResume
  <2> HIDE DEF Same
  <2> QED BY <1>1, <1>4, <2>1, ResumedOk
<1>7. ASSUME NEW t \in Task, NEW p \in Prio, LOS_TaskPriSet(t, p) PROVE Same
  <2>1. /\ t \in Task \ {Idle} /\ ~Has(k, t, "UNUSED")
        /\ Call("priset", osTaskPriModify(k, t, p), Has(k, t, "READY"))
    BY <1>7 DEF LOS_TaskPriSet
  <2> HIDE DEF Same
  <2> QED BY <1>1, <1>4, <2>1, PriModifyOk
<1>8. ASSUME NEW n \in 1 .. MaxTimeout, LOS_TaskDelay(n) PROVE Same
  <2>1. /\ InTask(pc[k.run]) /\ pc[k.run] = "user" /\ k.scheduled /\ k' = Delayed(k, n)
    BY <1>8 DEF LOS_TaskDelay, UserCode, InTask
  <2>2. SameRest(k, Delayed(k, n))
    BY <1>1, <2>1, RunFacts, DelayedSafe
  <2> QED BY <2>1, <2>2 DEF SameRest
<1>9. CASE LOS_TaskYield
  <2>1. /\ InTask(pc[k.run]) /\ pc[k.run] = "user" /\ k.scheduled /\ k' = Rotate(k)
    BY <1>9 DEF LOS_TaskYield, UserCode, InTask
  <2>2. SameRest(k, Rotate(k))
    BY <1>1, <2>1, RunFacts, RotateSafe
  <2> QED BY <2>1, <2>2 DEF SameRest
<1>10. CASE TakeTcb \/ CreateFails \/ SwitchFromDeleted
  BY <1>1, <1>10 DEF TakeTcb, Drained, CreateFails, SwitchFromDeleted, osSchedule, Kernel
<1>11. /\ ~LOS_TaskLock /\ ~LOS_TaskUnlock /\ ~ReturnDetached /\ ~ReturnJoinable
       /\ \A t \in Task : ~LOS_TaskDelete(t)
  BY DEF LOS_TaskLock, LOS_TaskUnlock, ReturnDetached, ReturnJoinable, LOS_TaskDelete,
     Placid, Steady, Tame
<1>12. ASSUME NEW p \in Prio, NEW d \in BOOLEAN, NEW o \in BOOLEAN, LOS_TaskCreate(p, d, o)
       PROVE  Same
  <2> DEFINE t == fresh[k.run]
             x == Filled(k, t, p, d)
  <2>1. InTask("alloc") /\ k' = IF o THEN x ELSE Started(x, t)
    BY <1>12 DEF LOS_TaskCreate
  <2>2. t \in Task /\ Has(k, t, "UNUSED") /\ ~Contains(k.free, t) /\ ~Contains(k.recycle, t)
    BY <2>1, AllocFacts
  <2> HIDE DEF t
  <2>3. Ok(x) /\ SameRest(k, x) /\ ~x.fault /\ ~Has(x, t, "UNUSED") /\ ~Stopped(x, t)
    BY <1>1, <2>2, FilledOk
  <2> HIDE DEF x
  <2>4. Started(x, t).lock = x.lock
    BY <2>2, <2>3, StartedOk DEF Frame, Gentle, Keeps
  <2> QED BY <2>1, <2>3, <2>4 DEF SameRest
<1>13. CASE Reschedule
  BY <1>1, <1>3, <1>13 DEF Reschedule
<1>14. CASE LOS_StartToRun \/ PendSV_Handler
  BY <1>1, <1>14 DEF LOS_StartToRun, PendSV_Handler, Kernel
<1>15. CASE osTickHandler
  BY <1>1, <1>15 DEF osTickHandler, Placid, Steady, Tame, Kernel
<1>16. CASE osTaskScan
  <2> DEFINE x == Expired([k EXCEPT !.due[0] = Tail(@)], Head(k.due[0]))
  <2>1. k' = x /\ k.due[0] # <<>>
    BY <1>1, <1>16, ScanWhole DEF IInv, ScanRound
  <2>2. SameRest(k, x)
    BY <1>1, <2>1, ExpiredSafe
  <2> HIDE DEF x
  <2> QED BY <2>1, <2>2 DEF SameRest
<1>17. CASE osTaskScanEnds
  BY <1>1, <1>3, <1>17 DEF osTaskScanEnds
<1>18. CASE UNCHANGED vars
  BY <1>18 DEF vars
<1> HIDE DEF Same
<1>19. \A d \in Resved : d \in BOOLEAN
  BY DEF Resved
<1>20. CASE TaskApi
  BY <1>5, <1>6, <1>7, <1>8, <1>9, <1>10, <1>11, <1>20 DEF TaskApi, Same
<1>21. CASE Continue
  BY <1>2, <1>10, <1>12, <1>13, <1>19, <1>21
     DEF Continue, ExitLocks, ExitReadsLinks, ExitUnlinks, ExitUnlocks, ExitSchedules, osTaskExit,
         Same
<1>22. CASE Exceptions
  BY <1>14, <1>15, <1>16, <1>17, <1>22 DEF Exceptions, Same
<1> QED BY <1>18, <1>20, <1>21, <1>22 DEF Next, Same

(***************************************************************************)
(* Who waits, who has been chosen, and who has timed out.                  *)
(***************************************************************************)
Requests == [obj : WaitObj \cup {NoTask}, msg : Block \cup {NoTask}]

(* A thread is in the list that the call it is inside has put it into, or in none;
   it has a flag of a wait, or of a timeout, inside such a call only.      *)
Asking ==
  /\ asked \in [Thread -> Requests]
  /\ \A t \in Task : ~Has(k, t, "PEND") /\ (Has(k, t, "TIMEOUT") => pc[t] \in Inside)
  /\ \A t \in Task : pc[t] \in Inside => asked[t].obj \in WaitObj /\ ~Has(k, t, "UNUSED")
  /\ \A t \in Thread : pc[t] \notin Inside => asked[t].obj = NoTask
  /\ \A t \in Task, o \in WaitObj : Contains(k.wait[o], t) => asked[t].obj = o

Calling == IInv /\ ~k.fault /\ Settles /\ NoneReturns /\ k.lock = 0 /\ Asking

LEMMA ChosenIs ==
  ASSUME NEW o, NEW t \in Task
  PROVE  /\ t \in Chosen(o) <=>
              asked[t].obj = o /\ ~Has(k, t, "PEND_QUEUE") /\ ~Has(k, t, "TIMEOUT")
         /\ t \in Chosen(o)' <=>
              asked'[t].obj = o' /\ ~Has(k', t, "PEND_QUEUE") /\ ~Has(k', t, "TIMEOUT")
BY DEF Chosen, Has

(* What a step does to the chosen tasks: d, chosen for r, has run; a has been
   chosen for o.  NoTask stands for nobody.                                *)
Turns(r, d, o, a) ==
  /\ r \in WaitObj => d \in Chosen(r)
  /\ o \in WaitObj => a \in Task /\ a \notin Chosen(o) /\ o # r
  /\ \A p \in WaitObj :
       Chosen(p)' = IF p = r THEN Chosen(p) \ {d}
                    ELSE IF p = o THEN Chosen(p) \cup {a} ELSE Chosen(p)
NoTurn == Turns(NoTask, NoTask, NoTask, NoTask)

(* A list gets a member only in a step that puts the caller into o's. *)
Fills(o) == \A p \in WaitObj : k'.wait[p] # <<>> => p = o \/ k.wait[p] # <<>>

LEMMA NobodyTurns ==
  ASSUME \A t \in Task, p \in WaitObj : t \in Chosen(p)' <=> t \in Chosen(p)
  PROVE  NoTurn
<1>1. \A p : Chosen(p) \subseteq Task /\ Chosen(p)' \subseteq Task
  BY DEF Chosen
<1>2. \A p \in WaitObj : Chosen(p)' = Chosen(p)
  BY <1>1
<1> QED BY <1>2, QueueAssumption DEF NoTurn, Turns

LEMMA CallingFacts ==
  ASSUME Calling
  PROVE  /\ IInv /\ ~k.fault /\ Settles /\ NoneReturns /\ k.lock = 0 /\ Asking
         /\ Ok(k) /\ Sound(k) /\ Delaying(k) /\ Running /\ k \in Kernel
         /\ pc \in [Thread -> Control] /\ asked \in [Thread -> Requests]
         /\ k.run \in Thread /\ \A t \in Task : t \in Thread
BY Start, KernelType DEF Calling, Ok, IInv, TypeOK, Asking, Thread

LEMMA TaskCalling ==
  ASSUME Placid, Calling, [Next]_vars, asked' = asked
  PROVE  Calling' /\ NoTurn /\ Fills(NoTask)
<1>1. /\ IInv /\ ~k.fault /\ Settles /\ NoneReturns /\ k.lock = 0 /\ Asking /\ k \in Kernel
      /\ pc \in [Thread -> Control]
  BY CallingFacts
<1>2. ~k'.fault /\ Settles' /\ NoneReturns'
  BY <1>1, NextSettles DEF Placid, Steady
<1>3. IInv' /\ k' \in Kernel
  BY <1>1, NextInv DEF IInv, TypeOK
<1>4. k'.lock = 0
  BY <1>1, <1>2, LockStays
<1>5. Endures /\ Patient(k, k')
  BY <1>1, <1>2, NextEndures, SteadyPatient DEF Placid
<1>6. \A t \in Task : Has(k', t, "UNUSED") => Has(k, t, "UNUSED")
  BY <1>1, <1>2, NextUsedStays DEF UsedStays, Placid
<1>7. \A t \in Task : pc[t] \in Inside <=> pc'[t] \in Inside
  <2>1. \A t \in Task : pc[t] \in Inside => pc'[t] = pc[t]
    BY <1>1, InsideStays DEF Asking, Placid
  <2> QED BY <1>5, <2>1 DEF Endures
<1>8. /\ \A t \in Task : /\ Has(k', t, "PEND") => Has(k, t, "PEND")
                         /\ Has(k', t, "TIMEOUT") <=> Has(k, t, "TIMEOUT")
                         /\ Has(k', t, "PEND_QUEUE") => Has(k, t, "PEND_QUEUE")
                         /\ Has(k, t, "PEND_QUEUE") => Has(k', t, "PEND_QUEUE") \/ Has(k', t, "TIMEOUT")
      /\ \A t \in Task, o \in WaitObj : Contains(k'.wait[o], t) => Contains(k.wait[o], t)
  BY <1>2, <1>5 DEF Patient
<1>9. Asking'
  <2>1. \A t \in Thread : pc'[t] \notin Inside => asked[t].obj = NoTask
    <3>1. \A t \in Task : pc'[t] \notin Inside => asked[t].obj = NoTask
      BY <1>1, <1>7 DEF Asking, Thread
    <3>2. asked[Dummy].obj = NoTask
      <4>1. pc[Dummy] \notin Inside
        BY <1>1, Start DEF Running, Inside
      <4> QED BY <1>1, <4>1 DEF Asking, Thread
    <3> QED BY <3>1, <3>2 DEF Thread
  <2> QED BY <1>1, <1>6, <1>7, <1>8, <2>1 DEF Asking
<1>10. NoTurn
  BY <1>8, ChosenIs, NobodyTurns
<1>11. Fills(NoTask)
  BY <1>1, <1>3, <1>8, WaiterExists DEF Fills
<1> QED BY <1>1, <1>2, <1>3, <1>4, <1>9, <1>10, <1>11 DEF Calling

(***************************************************************************)
(* Steps of the calls.                                                     *)
(***************************************************************************)
LEMMA ScheduleCalling ==
  ASSUME Calling, WaitSchedules, asked' = asked
  PROVE  Calling' /\ NoTurn /\ Fills(NoTask)
<1>1. /\ InTask("pend") /\ InTask(pc[k.run]) /\ pc[k.run] = "pend" /\ k' = LOS_Schedule(k)
      /\ pc' = [pc EXCEPT ![k.run] = "woken"]
  BY DEF WaitSchedules, InTask, Goto
<1>2. /\ IInv /\ ~k.fault /\ Settles /\ NoneReturns /\ k.lock = 0 /\ Asking /\ k \in Kernel
      /\ pc \in [Thread -> Control] /\ k.run \in Thread
  BY CallingFacts
<1>3. IInv'
  BY <1>2, WaitSchedulesStep
<1>4. ~k'.fault /\ Settles'
  BY <1>1, <1>2, ReschedulesSettles
<1>5. NoneReturns'
  BY <1>1, <1>2, GoesElsewhere
<1>6. k'.status = k.status /\ k'.wait = k.wait /\ k'.lock = k.lock
  BY <1>1, <1>2 DEF LOS_Schedule, Kernel
<1>7. \A t \in Thread : pc'[t] \in Inside <=> pc[t] \in Inside
  BY <1>1, <1>2 DEF Inside
<1>8. Asking'
  BY <1>2, <1>6, <1>7 DEF Asking, Has, Thread
<1>9. NoTurn
  <2>1. \A t \in Task, p \in WaitObj : t \in Chosen(p)' <=> t \in Chosen(p)
    BY <1>6, ChosenIs DEF Has
  <2> QED BY <2>1, NobodyTurns
<1>10. Fills(NoTask)
  BY <1>6 DEF Fills
<1> QED BY <1>2, <1>3, <1>4, <1>5, <1>6, <1>8, <1>9, <1>10 DEF Calling

(* osQueuePend faults no more than osTaskWait does. *)
LEMMA PendSafe ==
  ASSUME NEW x, NEW y, NEW o \in WaitObj, NEW n \in 1 .. Forever,
         Ok(x), ~x.fault, x.run \in Task, Has(x, x.run, "READY"),
         Queued(x, y, o, n, "PEND_QUEUE")
  PROVE  ~y.fault /\ SameRest(x, y)
<1> DEFINE u == MakeUnready(x, x.run)
<1>1. x \in Kernel /\ Linked(x, x.run)
  BY ReadyLinked DEF Ok
<1>2. SameRest(x, u) /\ u.fault = (x.fault \/ ~Linked(x, x.run))
  BY <1>1, MakeUnreadyFacts
<1>3. SameRest(u, y) /\ y.fault = u.fault
  BY DEF Queued
<1> HIDE DEF u
<1> QED BY <1>1, <1>2, <1>3 DEF SameRest

LEMMA PendQueuedFacts ==
  ASSUME NEW x, NEW y, NEW o \in WaitObj, NEW n \in 1 .. Forever,
         Ok(x), x.run \in Task, ~x.fault, ~Waits(x, x.run), Queued(x, y, o, n, "PEND_QUEUE")
  PROVE  /\ \A p \in WaitObj, u \in Task :
              Contains(y.wait[p], u) <=> Contains(x.wait[p], u) \/ (u = x.run /\ p = o)
         /\ \A u \in Task : u # x.run => y.status[u] = x.status[u]
         /\ \A f \in Flag \ {"TIMEOUT", "READY"} :
              Has(y, x.run, f) <=> Has(x, x.run, f) \/ f = "PEND_QUEUE"
<1>1. "PEND_QUEUE" \in {"PEND", "PEND_QUEUE"}
  OBVIOUS
<1> QED BY <1>1, QueuedFacts, ZenonT(60)

LEMMA BlockCalling ==
  ASSUME Placid, Calling, NEW op, NEW o \in WaitObj, NEW n \in 1 .. Forever,
         NEW msg \in Block \cup {NoTask}, Blocks(op, o, n, msg)
  PROVE  /\ Calling' /\ NoTurn /\ Fills(o) /\ k.run \in Task
         /\ asked' = [asked EXCEPT ![k.run] = [obj |-> o, msg |-> msg]]
<1> DEFINE t == k.run
<1>1. /\ k.scheduled /\ UserCode /\ k' = osQueuePend(k, o, n)
      /\ pc' = [pc EXCEPT ![t] = "pend"] /\ Goto(t, "pend")
      /\ asked' = [asked EXCEPT ![t] = [obj |-> o, msg |-> msg]]
      /\ fresh' = fresh /\ tick' = tick /\ cut' = cut
      /\ InTask(pc[t]) /\ pc[t] = "user" /\ t # Idle
  BY DEF Blocks, Goto, UserCode, InTask
<1>2. /\ IInv /\ ~k.fault /\ Settles /\ NoneReturns /\ k.lock = 0 /\ Asking /\ k \in Kernel
      /\ pc \in [Thread -> Control] /\ asked \in [Thread -> Requests] /\ Ok(k) /\ Sound(k)
  BY CallingFacts
<1>3. t \in Task \ {Idle} /\ ~Waits(k, t) /\ Has(k, t, "READY") /\ t \in Thread
  BY <1>1, <1>2, CallerFacts, RunFacts DEF Thread
<1>4. Queued(k, k', o, n, "PEND_QUEUE")
  <2>1. ~Has(k, t, "TIMEOUT")
    BY <1>1, <1>2, <1>3 DEF Asking, Inside
  <2>2. ~Contains(k.wait[o], t)
    BY <1>2, <1>3 DEF Sound, Good, WaitLists
  <2> QED BY <1>1, <1>2, <1>3, <2>1, <2>2, PendQueued
<1>5. IInv' /\ k' \in Kernel
  <2>1. Gentle(k, k) /\ "PEND_QUEUE" \in {"PEND", "PEND_QUEUE"} /\ ~TIMESLICE
    BY FrameReflexive DEF Frame, Placid, Steady, Tame
  <2>2. IInv'
    BY <1>1, <1>2, <1>4, <2>1, BlockStep
  <2> QED BY <2>2 DEF IInv, TypeOK
<1>6. ~k'.fault /\ SameRest(k, k')
  BY <1>2, <1>3, <1>4, PendSafe
<1>7. Settles'
  BY <1>1, <1>2, <1>6, MovingSettles
<1>8. NoneReturns' /\ k'.lock = 0
  BY <1>1, <1>2, <1>6, GoesElsewhere DEF SameRest
<1>9. /\ \A p \in WaitObj, u \in Task :
           Contains(k'.wait[p], u) <=> Contains(k.wait[p], u) \/ (u = t /\ p = o)
      /\ \A u \in Task : u # t => k'.status[u] = k.status[u]
      /\ \A f \in Flag \ {"TIMEOUT", "READY"} : Has(k', t, f) <=> Has(k, t, f) \/ f = "PEND_QUEUE"
  BY <1>2, <1>3, <1>4, PendQueuedFacts
<1>10. /\ pc'[t] = "pend" /\ asked'[t].obj = o /\ asked' \in [Thread -> Requests]
       /\ \A u \in Thread : u # t => pc'[u] = pc[u] /\ asked'[u] = asked[u]
  BY <1>1, <1>2, <1>3 DEF Requests
<1>11. /\ Has(k', t, "PEND_QUEUE") /\ ~Has(k', t, "PEND")
       /\ Has(k', t, "UNUSED") => Has(k, t, "UNUSED")
       /\ \A f : \A u \in Task : u # t => (Has(k', u, f) <=> Has(k, u, f))
  BY <1>2, <1>3, <1>9 DEF Asking, Flag, Has
<1>12. Asking'
  <2>1. ~Has(k, t, "UNUSED")
    BY <1>2, <1>3 DEF Sound
  <2>2. asked[t].obj = NoTask
    BY <1>1, <1>2, <1>3 DEF Asking, Inside
  <2>3. \A u \in Task : ~Has(k', u, "PEND") /\ (Has(k', u, "TIMEOUT") => pc'[u] \in Inside)
    BY <1>2, <1>3, <1>10, <1>11 DEF Asking, Inside, Thread
  <2>4. \A u \in Task : pc'[u] \in Inside => asked'[u].obj \in WaitObj /\ ~Has(k', u, "UNUSED")
    BY <1>2, <1>3, <1>10, <1>11, <2>1 DEF Asking, Thread
  <2>5. \A u \in Thread : pc'[u] \notin Inside => asked'[u].obj = NoTask
    BY <1>2, <1>3, <1>10 DEF Asking, Inside
  <2>6. \A u \in Task, p \in WaitObj : Contains(k'.wait[p], u) => asked'[u].obj = p
    BY <1>2, <1>3, <1>9, <1>10, <2>2, QueueAssumption DEF Asking, Thread
  <2> QED BY <1>10, <2>3, <2>4, <2>5, <2>6 DEF Asking
<1>13. NoTurn
  <2>1. ASSUME NEW u \in Task, NEW p \in WaitObj PROVE u \in Chosen(p)' <=> u \in Chosen(p)
    <3>1. CASE u = t
      <4>1. asked[t].obj = NoTask
        BY <1>1, <1>2, <1>3 DEF Asking, Inside
      <4> QED BY <1>3, <1>11, <3>1, <4>1, ChosenIs, QueueAssumption
    <3>2. CASE u # t
      BY <1>10, <1>11, <3>2, ChosenIs DEF Thread
    <3> QED BY <3>1, <3>2
  <2> QED BY <2>1, NobodyTurns
<1>14. Fills(o)
  BY <1>2, <1>5, <1>9, WaiterExists DEF Fills
<1> QED BY <1>1, <1>3, <1>5, <1>6, <1>7, <1>8, <1>12, <1>13, <1>14 DEF Calling

(* The first of a list is a task that waits in it. *)
LEMMA FirstWaits ==
  ASSUME Calling, NEW o \in WaitObj, k.wait[o] # <<>>
  PROVE  LET t == Head(k.wait[o])
         IN /\ t \in Task /\ Contains(k.wait[o], t) /\ Has(k, t, "PEND_QUEUE")
            /\ k.scheduled /\ asked[t].obj = o /\ t \notin Chosen(o)
<1> DEFINE t == Head(k.wait[o])
<1>1. Sound(k) /\ Delaying(k) /\ k \in Kernel /\ Asking
  BY CallingFacts
<1>2. t \in Task /\ Contains(k.wait[o], t)
  <2>1. k.wait[o] \in Seq(Task)
    BY <1>1, KernelType
  <2> QED BY <2>1, TailList
<1> HIDE DEF t
<1>3. Waits(k, t)
  BY <1>1, <1>2 DEF Sound, Good, WaitLists
<1>4. Has(k, t, "PEND_QUEUE") /\ k.scheduled
  BY <1>1, <1>2, <1>3 DEF Asking, Waits, Stopped, Delaying
<1>5. asked[t].obj = o /\ t \notin Chosen(o)
  BY <1>1, <1>2, <1>4, ChosenIs DEF Asking
<1> QED BY <1>2, <1>4, <1>5 DEF t

LEMMA WakeFacts ==
  ASSUME NEW x, NEW y, NEW o \in WaitObj, NEW t \in Task, y = Awake(x, o, t, "PEND_QUEUE"),
         Ok(x), ~x.fault, Contains(x.wait[o], t), Has(x, t, "PEND_QUEUE")
  PROVE  /\ Ok(y) /\ Gentle(x, y) /\ t # Idle
         /\ ~y.fault /\ SameRest(x, y)
         /\ x.due[0] = <<>> => y.due[0] = <<>>
         /\ y.status[t] = AwakeFlags(x.status[t], "PEND_QUEUE")
         /\ \A u \in Task : u # t => y.status[u] = x.status[u]
         /\ \A p \in WaitObj, u \in Task :
              Contains(y.wait[p], u) <=> Contains(x.wait[p], u) /\ u # t
<1>1. "PEND_QUEUE" \in {"PEND", "PEND_QUEUE"}
  OBVIOUS
<1> QED BY <1>1, AwakeOk

LEMMA WakenFacts ==
  ASSUME Calling, NEW o \in WaitObj, k.wait[o] # <<>>, NEW x, x = osQueueWakeUp(k, o)
  PROVE  LET t == Head(k.wait[o])
         IN /\ Ok(x) /\ Gentle(k, x) /\ ~x.fault /\ SameRest(k, x)
            /\ k.due[0] = <<>> => x.due[0] = <<>>
            /\ x.status[t] = AwakeFlags(k.status[t], "PEND_QUEUE")
            /\ \A u \in Task : u # t => x.status[u] = k.status[u]
            /\ \A p \in WaitObj, u \in Task :
                 Contains(x.wait[p], u) <=> Contains(k.wait[p], u) /\ u # t
<1> DEFINE t == Head(k.wait[o])
<1>1. Ok(k) /\ ~k.fault
  BY CallingFacts
<1>2. t \in Task /\ Contains(k.wait[o], t) /\ Has(k, t, "PEND_QUEUE")
  BY FirstWaits
<1>3. x = Awake(k, o, t, "PEND_QUEUE")
  BY DEF osQueueWakeUp
<1> HIDE DEF t
<1>4. /\ Ok(x) /\ Gentle(k, x) /\ ~x.fault /\ SameRest(k, x)
      /\ k.due[0] = <<>> => x.due[0] = <<>>
      /\ x.status[t] = AwakeFlags(k.status[t], "PEND_QUEUE")
      /\ \A u \in Task : u # t => x.status[u] = k.status[u]
      /\ \A p \in WaitObj, u \in Task :
           Contains(x.wait[p], u) <=> Contains(k.wait[p], u) /\ u # t
  BY <1>1, <1>2, <1>3, WakeFacts
<1> QED BY <1>4 DEF t

(* The flags and lists after a section that woke o's first waiter. *)
LEMMA WakenAsking ==
  ASSUME Calling, NEW o \in WaitObj, k.wait[o] # <<>>, NEW x, x = osQueueWakeUp(k, o),
         k' \in Kernel, k'.status = x.status, k'.wait = x.wait, asked' \in [Thread -> Requests],
         \A t \in Thread : IF pc'[t] \in Inside THEN pc[t] \in Inside /\ asked'[t] = asked[t]
                           ELSE asked'[t].obj = NoTask,
         \A t \in Task : pc'[t] \notin Inside => ~Has(k, t, "TIMEOUT") /\ ~Has(k, t, "PEND_QUEUE")
  PROVE  Asking' /\ Fills(NoTask)
<1> DEFINE t == Head(k.wait[o])
<1>1. /\ t \in Task /\ Has(k, t, "PEND_QUEUE") /\ Asking /\ k \in Kernel
      /\ \A u \in Task : u \in Thread
  BY FirstWaits, CallingFacts
<1>2. /\ k'.status[t] = AwakeFlags(k.status[t], "PEND_QUEUE")
      /\ \A u \in Task : u # t => k'.status[u] = k.status[u]
      /\ \A p \in WaitObj, u \in Task : Contains(k'.wait[p], u) <=> Contains(k.wait[p], u) /\ u # t
  BY WakenFacts
<1> HIDE DEF t
<1>3. /\ ~Has(k', t, "PEND") /\ ~Has(k', t, "TIMEOUT")
      /\ Has(k', t, "UNUSED") => Has(k, t, "UNUSED")
      /\ \A f : \A u \in Task : u # t => (Has(k', u, f) <=> Has(k, u, f))
  BY <1>1, <1>2 DEF AwakeFlags, Has, Asking
<1>4. \A u \in Task : Contains(k.wait[asked[u].obj], u) /\ asked[u].obj \in WaitObj => Has(k, u, "PEND_QUEUE")
  <2>1. Sound(k)
    BY CallingFacts
  <2> QED BY <1>1, <2>1 DEF Sound, Good, WaitLists, Waits, Asking
<1>5. \A u \in Task, p \in WaitObj : Contains(k'.wait[p], u) => asked'[u].obj = p
  <2> SUFFICES ASSUME NEW u \in Task, NEW p \in WaitObj, Contains(k'.wait[p], u)
               PROVE  asked'[u].obj = p
    OBVIOUS
  <2>1. asked[u].obj = p /\ Contains(k.wait[p], u)
    BY <1>1, <1>2 DEF Asking
  <2>2. Has(k, u, "PEND_QUEUE")
    BY <1>4, <2>1
  <2>3. pc'[u] \in Inside
    BY <2>2
  <2> QED BY <1>1, <2>1, <2>3
<1>6. \A u \in Task : /\ ~Has(k', u, "PEND")
                      /\ Has(k', u, "TIMEOUT") => pc'[u] \in Inside
                      /\ pc'[u] \in Inside => asked'[u].obj \in WaitObj /\ ~Has(k', u, "UNUSED")
  BY <1>1, <1>3 DEF Asking
<1>7. Asking'
  BY <1>5, <1>6 DEF Asking
<1>8. Fills(NoTask)
  BY <1>1, <1>2, WaiterExists DEF Fills
<1> QED BY <1>7, <1>8

LEMMA WakeCalling ==
  ASSUME Calling, NEW c, NEW op, NEW o \in WaitObj, k.wait[o] # <<>>,
         CallBy(c, op, osQueueWakeUp(k, o), TRUE), asked' = asked
  PROVE  Calling' /\ Turns(NoTask, NoTask, o, Head(k.wait[o])) /\ Fills(NoTask)
<1> DEFINE t == Head(k.wait[o])
           x == osQueueWakeUp(k, o)
<1>1. Call(op, x, TRUE)
  BY DEF CallBy, Call
<1>2. /\ t \in Task /\ Has(k, t, "PEND_QUEUE") /\ k.scheduled /\ asked[t].obj = o
      /\ t \notin Chosen(o) /\ Contains(k.wait[o], t)
  BY FirstWaits
<1>3. /\ IInv /\ ~k.fault /\ Settles /\ NoneReturns /\ k.lock = 0 /\ Asking /\ k \in Kernel
      /\ pc \in [Thread -> Control] /\ asked \in [Thread -> Requests] /\ Ok(k) /\ Sound(k)
      /\ \A u \in Task : u \in Thread
  BY CallingFacts
<1>4. /\ Ok(x) /\ Gentle(k, x) /\ ~x.fault /\ SameRest(k, x)
      /\ k.due[0] = <<>> => x.due[0] = <<>>
      /\ x.status[t] = AwakeFlags(k.status[t], "PEND_QUEUE")
      /\ \A u \in Task : u # t => x.status[u] = k.status[u]
  BY WakenFacts
<1>5. x = osQueueWakeUp(k, o)
  OBVIOUS
<1> HIDE DEF t, x
<1>6. IInv' /\ k' \in Kernel
  <2>1. IInv'
    BY <1>1, <1>2, <1>3, <1>4, CallStep
  <2> QED BY <2>1 DEF IInv, TypeOK
<1>7. ~k'.fault /\ Settles'
  <2>1. "PEND_QUEUE" \in {"PEND", "PEND_QUEUE"} /\ SameRest(k, k)
    BY DEF SameRest
  <2> QED BY <1>1, <1>2, <1>3, <1>4, <2>1, AwakeSettles
<1>8. k'.status = x.status /\ k'.wait = x.wait /\ k'.lock = k.lock
  <2>1. x \in Kernel /\ (k' = x \/ k' = LOS_Schedule(x)) /\ x.lock = k.lock
    BY <1>1, <1>4 DEF Call, Ok, SameRest
  <2>2. /\ LOS_Schedule(x).status = x.status /\ LOS_Schedule(x).wait = x.wait
        /\ LOS_Schedule(x).lock = x.lock
    BY <2>1 DEF LOS_Schedule, Kernel
  <2> QED BY <2>1, <2>2
<1>9. pc' = pc \/ (pc' = [pc EXCEPT ![k.run] = "sched"] /\ pc[k.run] = "user")
  BY <1>1 DEF Call, Goto, UserCode, InTask
<1>10. NoneReturns'
  BY <1>3, <1>9, GoesElsewhere
<1>11. \A u \in Thread : pc'[u] \in Inside <=> pc[u] \in Inside
  BY <1>3, <1>9 DEF Inside
<1>12. \A u \in Task : pc'[u] \notin Inside => ~Has(k, u, "TIMEOUT") /\ ~Has(k, u, "PEND_QUEUE")
  <2>1. ASSUME NEW u \in Task, Has(k, u, "PEND_QUEUE") PROVE pc[u] \in Inside
    <3>1. \E p \in WaitObj : Contains(k.wait[p], u)
      BY <1>3, <2>1 DEF Sound, Good, WaitLists, Waits
    <3> QED BY <1>3, <3>1, QueueAssumption DEF Asking
  <2> QED BY <1>3, <1>11, <2>1 DEF Asking
<1>13. Asking' /\ Fills(NoTask)
  <2>1. \A u \in Thread : IF pc'[u] \in Inside THEN pc[u] \in Inside /\ asked'[u] = asked[u]
                          ELSE asked'[u].obj = NoTask
    BY <1>3, <1>11 DEF Asking
  <2> QED BY <1>3, <1>5, <1>6, <1>8, <1>12, <2>1, WakenAsking
<1>14. Turns(NoTask, NoTask, o, t)
  <2>1. ~Has(k', t, "PEND_QUEUE") /\ ~Has(k', t, "TIMEOUT")
    BY <1>4, <1>8 DEF AwakeFlags, Has
  <2>2. \A f : \A u \in Task : u # t => (Has(k', u, f) <=> Has(k, u, f))
    BY <1>4, <1>8 DEF Has
  <2>3. \A p \in WaitObj, u \in Task : u \in Chosen(p)' <=> u \in Chosen(p) \/ (p = o /\ u = t)
    BY <1>2, <2>1, <2>2, ChosenIs
  <2>4. \A p : Chosen(p) \subseteq Task /\ Chosen(p)' \subseteq Task
    BY DEF Chosen
  <2>5. \A p \in WaitObj : Chosen(p)' = IF p = o THEN Chosen(p) \cup {t} ELSE Chosen(p)
    BY <1>2, <2>3, <2>4
  <2> QED BY <1>2, <2>5, QueueAssumption DEF Turns
<1> QED BY <1>3, <1>6, <1>7, <1>8, <1>10, <1>13, <1>14 DEF Calling, t

(* A thread that goes on behind its LOS_Schedule. *)
LEMMA WokenFacts ==
  ASSUME Calling, NEW r \in WaitObj, Wakes(r)
  PROVE  /\ InTask("woken") /\ pc[k.run] = "woken" /\ k.run \in Task \ {Idle} /\ k.run \in Thread
         /\ ~k.fault /\ ~k.pendsv /\ k.due[0] = <<>>
         /\ asked[k.run].obj = r /\ ~Has(k, k.run, "PEND_QUEUE")
         /\ asked' = [asked EXCEPT ![k.run] = NotAsked] /\ asked' \in [Thread -> Requests]
         /\ asked'[k.run].obj = NoTask
         /\ \A u \in Thread : u # k.run => asked'[u] = asked[u]
         /\ fresh' = fresh /\ tick' = tick /\ cut' = cut
<1>1. /\ InTask("woken") /\ pc[k.run] = "woken" /\ asked[k.run].obj = r
      /\ asked' = [asked EXCEPT ![k.run] = NotAsked] /\ InTask(pc[k.run])
      /\ fresh' = fresh /\ tick' = tick /\ cut' = cut /\ ~k.fault /\ ~k.pendsv /\ tick = "off"
  BY DEF Wakes, InTask
<1>2. /\ Running /\ Delaying(k) /\ k.run \in Thread /\ asked \in [Thread -> Requests]
      /\ Dummy \notin Task
  BY CallingFacts, TaskAssumption
<1>3. k.run \in Task \ {Idle}
  BY <1>1, <1>2 DEF Running, Thread
<1>4. ~Has(k, k.run, "PEND_QUEUE")
  BY <1>1, <1>2, <1>3 DEF Delaying, Stopped, Waits
<1>5. /\ asked' \in [Thread -> Requests] /\ asked'[k.run].obj = NoTask
      /\ \A u \in Thread : u # k.run => asked'[u] = asked[u]
  BY <1>1, <1>2 DEF Requests, NotAsked
<1> QED BY <1>1, <1>2, <1>3, <1>4, <1>5 DEF Running

LEMMA TimesOutCalling ==
  ASSUME Calling, NEW r \in WaitObj, TimesOut(r)
  PROVE  Calling' /\ NoTurn /\ Fills(NoTask)
<1> DEFINE t == k.run
<1>1. /\ Wakes(r) /\ Has(k, t, "TIMEOUT") /\ k' = [k EXCEPT !.status[t] = @ \ {"TIMEOUT"}]
      /\ pc' = [pc EXCEPT ![t] = "user"]
  BY DEF TimesOut, Goto
<1>2. /\ InTask("woken") /\ t \in Task /\ t \in Thread
      /\ asked[t].obj = r /\ asked' \in [Thread -> Requests] /\ asked'[t].obj = NoTask
      /\ \A u \in Thread : u # t => asked'[u] = asked[u]
      /\ fresh' = fresh /\ tick' = tick /\ cut' = cut
  BY <1>1, WokenFacts
<1>3. /\ IInv /\ Settles /\ NoneReturns /\ k.lock = 0 /\ Asking /\ k \in Kernel
      /\ pc \in [Thread -> Control] /\ \A u \in Task : u \in Thread
  BY CallingFacts
<1>4. /\ Ok(k') /\ Gentle(k, k') /\ k'.due = k.due /\ k'.wait = k.wait
      /\ k'.status = [k.status EXCEPT ![t] = @ \ {"TIMEOUT"}]
  BY <1>1, <1>2, <1>3, ClearsTimeout
<1>5. IInv'
  BY <1>1, <1>2, <1>3, <1>4, WokenStep
<1>6. ~k'.fault /\ Settles' /\ k'.lock = 0
  <2>1. k'.lock = k.lock
    BY <1>4 DEF Gentle, Keeps
  <2> QED BY <1>1, <1>2, <1>3, <2>1, ReturnSettles
<1>7. NoneReturns'
  BY <1>1, <1>3, GoesElsewhere
<1>8. /\ ~Has(k', t, "TIMEOUT") /\ ~Has(k', t, "PEND")
      /\ \A f : \A u \in Task : u # t => (Has(k', u, f) <=> Has(k, u, f))
      /\ pc'[t] = "user" /\ \A u \in Thread : u # t => pc'[u] = pc[u]
  BY <1>1, <1>2, <1>3, <1>4 DEF Has, Kernel, Asking
<1>9. ~Has(k, t, "PEND_QUEUE") /\ ~Has(k', t, "PEND_QUEUE")
  BY <1>1, <1>2, <1>3, <1>4, WokenFacts DEF Has, Kernel
<1>10. \A p \in WaitObj : ~Contains(k.wait[p], t)
  BY <1>2, <1>3, <1>9, CallingFacts DEF Sound, Good, WaitLists, Waits, Asking
<1>11. Asking'
  <2>1. \A u \in Task : ~Has(k', u, "PEND") /\ (Has(k', u, "TIMEOUT") => pc'[u] \in Inside)
    BY <1>3, <1>8 DEF Asking
  <2>2. \A u \in Task : pc'[u] \in Inside => asked'[u].obj \in WaitObj /\ ~Has(k', u, "UNUSED")
    BY <1>2, <1>3, <1>8 DEF Asking, Inside
  <2>3. \A u \in Thread : pc'[u] \notin Inside => asked'[u].obj = NoTask
    BY <1>2, <1>3, <1>8 DEF Asking
  <2>4. \A u \in Task, p \in WaitObj : Contains(k'.wait[p], u) => asked'[u].obj = p
    BY <1>2, <1>3, <1>4, <1>10 DEF Asking
  <2> QED BY <1>2, <2>1, <2>2, <2>3, <2>4 DEF Asking
<1>12. NoTurn
  <2>1. ASSUME NEW u \in Task, NEW p \in WaitObj PROVE u \in Chosen(p)' <=> u \in Chosen(p)
    <3>1. CASE u = t
      BY <1>1, <1>2, <3>1, ChosenIs, QueueAssumption
    <3>2. CASE u # t
      BY <1>2, <1>3, <1>8, <3>2, ChosenIs
    <3> QED BY <3>1, <3>2
  <2> QED BY <2>1, NobodyTurns
<1>13. Fills(NoTask)
  BY <1>4 DEF Fills
<1> QED BY <1>3, <1>5, <1>6, <1>7, <1>11, <1>12, <1>13 DEF Calling

LEMMA ReturnCalling ==
  ASSUME Calling, NEW r \in WaitObj, Wakes(r), ~Has(k, k.run, "TIMEOUT"),
         k' = k, Goto(k.run, "user")
  PROVE  Calling' /\ Turns(r, k.run, NoTask, NoTask) /\ Fills(NoTask)
<1> DEFINE t == k.run
<1>1. pc' = [pc EXCEPT ![t] = "user"]
  BY DEF Goto
<1>2. /\ InTask("woken") /\ pc[t] = "woken" /\ t \in Task /\ t \in Thread
      /\ asked[t].obj = r /\ asked' \in [Thread -> Requests] /\ asked'[t].obj = NoTask
      /\ \A u \in Thread : u # t => asked'[u] = asked[u]
      /\ fresh' = fresh /\ tick' = tick /\ cut' = cut /\ ~Has(k, t, "PEND_QUEUE")
  BY WokenFacts
<1>3. /\ IInv /\ ~k.fault /\ Settles /\ NoneReturns /\ k.lock = 0 /\ Asking /\ k \in Kernel
      /\ pc \in [Thread -> Control] /\ Ok(k) /\ \A u \in Task : u \in Thread
  BY CallingFacts
<1>4. IInv'
  <2>1. Gentle(k, k')
    BY FrameReflexive DEF Frame
  <2> QED BY <1>1, <1>2, <1>3, <2>1, WokenStep
<1>5. Settles'
  <2>1. ~Moving /\ (Late' <=> Late)
    BY <1>2 DEF Moving, Late
  <2> HIDE DEF Moving, Late
  <2> QED BY <1>3, <2>1 DEF Settles, Settled
<1>6. NoneReturns'
  BY <1>1, <1>3, GoesElsewhere
<1>7. pc'[t] = "user" /\ \A u \in Thread : u # t => pc'[u] = pc[u]
  BY <1>1, <1>2, <1>3
<1>8. \A p \in WaitObj : ~Contains(k.wait[p], t)
  BY <1>2, <1>3, CallingFacts DEF Sound, Good, WaitLists, Waits, Asking
<1>9. Asking'
  <2>1. \A u \in Task : ~Has(k, u, "PEND") /\ (Has(k, u, "TIMEOUT") => pc'[u] \in Inside)
    BY <1>3, <1>7 DEF Asking
  <2>2. \A u \in Task : pc'[u] \in Inside => asked'[u].obj \in WaitObj /\ ~Has(k, u, "UNUSED")
    BY <1>2, <1>3, <1>7 DEF Asking, Inside
  <2>3. \A u \in Thread : pc'[u] \notin Inside => asked'[u].obj = NoTask
    BY <1>2, <1>3, <1>7 DEF Asking
  <2>4. \A u \in Task, p \in WaitObj : Contains(k.wait[p], u) => asked'[u].obj = p
    BY <1>2, <1>3, <1>8 DEF Asking
  <2> QED BY <1>2, <2>1, <2>2, <2>3, <2>4 DEF Asking
<1>10. Turns(r, t, NoTask, NoTask)
  <2>1. t \in Chosen(r)
    BY <1>2, ChosenIs
  <2>2. ASSUME NEW u \in Task, NEW p \in WaitObj
        PROVE  u \in Chosen(p)' <=> u \in Chosen(p) /\ ~(p = r /\ u = t)
    <3>1. CASE u = t
      BY <1>2, <3>1, ChosenIs, QueueAssumption
    <3>2. CASE u # t
      BY <1>2, <1>3, <3>2, ChosenIs
    <3> QED BY <3>1, <3>2
  <2>3. \A p : Chosen(p) \subseteq Task /\ Chosen(p)' \subseteq Task
    BY DEF Chosen
  <2>4. \A p \in WaitObj : Chosen(p)' = IF p = r THEN Chosen(p) \ {t} ELSE Chosen(p)
    BY <2>2, <2>3
  <2> QED BY <2>1, <2>4, QueueAssumption DEF Turns
<1>11. Fills(NoTask)
  BY DEF Fills
<1> QED BY <1>3, <1>4, <1>5, <1>6, <1>9, <1>10, <1>11 DEF Calling

(* ... and wakes a task that waits for what its own wait has given up. *)
LEMMA ReturnWakes ==
  ASSUME Calling, NEW r \in WaitObj, NEW o \in WaitObj, r # o, k.wait[o] # <<>>,
         Wakes(r), ~Has(k, k.run, "TIMEOUT"), k' = osQueueWakeUp(k, o), Goto(k.run, "sched")
  PROVE  Calling' /\ Turns(r, k.run, o, Head(k.wait[o])) /\ Fills(NoTask)
<1> DEFINE t == k.run
           w == Head(k.wait[o])
<1>1. pc' = [pc EXCEPT ![t] = "sched"]
  BY DEF Goto
<1>2. /\ InTask("woken") /\ pc[t] = "woken" /\ t \in Task /\ t \in Thread
      /\ asked[t].obj = r /\ asked' \in [Thread -> Requests] /\ asked'[t].obj = NoTask
      /\ \A u \in Thread : u # t => asked'[u] = asked[u]
      /\ fresh' = fresh /\ tick' = tick /\ cut' = cut /\ ~Has(k, t, "PEND_QUEUE")
      /\ ~k.fault /\ ~k.pendsv /\ k.due[0] = <<>>
  BY WokenFacts
<1>3. /\ IInv /\ Settles /\ NoneReturns /\ k.lock = 0 /\ Asking /\ k \in Kernel /\ Sound(k)
      /\ pc \in [Thread -> Control] /\ \A u \in Task : u \in Thread
  BY CallingFacts
<1>4. /\ w \in Task /\ Has(k, w, "PEND_QUEUE") /\ asked[w].obj = o /\ w \notin Chosen(o)
      /\ Contains(k.wait[o], w)
  BY FirstWaits
<1>5. /\ Ok(k') /\ Gentle(k, k') /\ ~k'.fault /\ SameRest(k, k') /\ k'.due[0] = <<>>
      /\ k'.status[w] = AwakeFlags(k.status[w], "PEND_QUEUE")
      /\ \A u \in Task : u # w => k'.status[u] = k.status[u]
  BY <1>2, WakenFacts
<1> HIDE DEF w
<1>6. IInv' /\ k' \in Kernel
  <2>1. k'.due[0] = k.due[0]
    BY <1>2, <1>5
  <2>2. IInv'
    BY <1>1, <1>2, <1>3, <1>5, <2>1, WokenStep
  <2> QED BY <2>2 DEF IInv, TypeOK
<1>7. /\ pc'[t] = "sched" /\ \A u \in Thread : u # t => pc'[u] = pc[u]
      /\ k'.run = t /\ k'.lock = 0 /\ ~k'.pendsv /\ t # w
  BY <1>1, <1>2, <1>3, <1>4, <1>5 DEF SameRest
<1>8. Settles'
  <2>1. Moving'
    BY <1>7 DEF Moving
  <2>2. t # Dummy
    BY <1>2, TaskAssumption
  <2> HIDE DEF Moving, Late
  <2> QED BY <1>7, <2>1, <2>2 DEF Settles, Settled
<1>9. NoneReturns'
  BY <1>1, <1>3, GoesElsewhere
<1>10. Asking' /\ Fills(NoTask)
  <2>1. \A u \in Thread : IF pc'[u] \in Inside THEN pc[u] \in Inside /\ asked'[u] = asked[u]
                          ELSE asked'[u].obj = NoTask
    BY <1>2, <1>3, <1>7 DEF Asking, Inside
  <2>2. ASSUME NEW u \in Task, pc'[u] \notin Inside
        PROVE  ~Has(k, u, "TIMEOUT") /\ ~Has(k, u, "PEND_QUEUE")
    <3>1. CASE u = t
      BY <1>2, <3>1
    <3>2. CASE u # t
      <4>1. pc[u] \notin Inside /\ asked[u].obj = NoTask
        BY <1>3, <1>7, <2>2, <3>2 DEF Asking
      <4>2. ASSUME Has(k, u, "PEND_QUEUE") PROVE FALSE
        <5>1. \E p \in WaitObj : Contains(k.wait[p], u)
          BY <1>3, <4>2 DEF Sound, Good, WaitLists, Waits
        <5> QED BY <1>3, <4>1, <5>1, QueueAssumption DEF Asking
      <4> QED BY <1>3, <4>1, <4>2 DEF Asking
    <3> QED BY <3>1, <3>2
  <2> QED BY <1>2, <1>6, <2>1, <2>2, WakenAsking
<1>11. Turns(r, t, o, w)
  <2>1. t \in Chosen(r)
    BY <1>2, ChosenIs
  <2>2. ~Has(k', w, "PEND_QUEUE") /\ ~Has(k', w, "TIMEOUT")
    BY <1>5 DEF AwakeFlags, Has
  <2>3. \A f : \A u \in Task : u # w => (Has(k', u, f) <=> Has(k, u, f))
    BY <1>5 DEF Has
  <2>4. ASSUME NEW u \in Task, NEW p \in WaitObj
        PROVE  u \in Chosen(p)' <=> (u \in Chosen(p) /\ ~(p = r /\ u = t)) \/ (p = o /\ u = w)
    <3>1. CASE u = t
      BY <1>2, <1>7, <3>1, ChosenIs, QueueAssumption
    <3>2. CASE u = w
      BY <1>3, <1>4, <1>2, <1>7, <2>2, <3>2, ChosenIs
    <3>3. CASE u # t /\ u # w
      BY <1>2, <1>3, <2>3, <3>3, ChosenIs
    <3> QED BY <3>1, <3>2, <3>3
  <2>5. \A p : Chosen(p) \subseteq Task /\ Chosen(p)' \subseteq Task
    BY DEF Chosen
  <2>6. ASSUME NEW p \in WaitObj
        PROVE  Chosen(p)' = IF p = r THEN Chosen(p) \ {t}
                            ELSE IF p = o THEN Chosen(p) \cup {w} ELSE Chosen(p)
    <3>1. CASE p = r
      BY <2>4, <2>5, <3>1
    <3>2. CASE p = o
      <4>1. \A u \in Task : u \in Chosen(p)' <=> u \in Chosen(p) \/ u = w
        BY <1>4, <2>4, <3>2
      <4>2. w \in Task
        BY <1>4
      <4> HIDE DEF w, t
      <4> QED BY <1>4, <2>5, <3>2, <4>1, <4>2
    <3>3. CASE p # r /\ p # o
      <4>1. \A u \in Task : u \in Chosen(p)' <=> u \in Chosen(p)
        BY <2>4, <3>3
      <4> QED BY <2>5, <3>3, <4>1
    <3> QED BY <3>1, <3>2, <3>3
  <2> QED BY <1>4, <2>1, <2>6 DEF Turns
<1> QED BY <1>3, <1>5, <1>6, <1>7, <1>8, <1>9, <1>10, <1>11 DEF Calling, w

(***************************************************************************)
(* The queues and the memory box.                                          *)
(***************************************************************************)
LEMMA Objects ==
  /\ \A q \in Queue : <<q, "read">> \in WaitObj /\ <<q, "write">> \in WaitObj
  /\ Mem \in WaitObj
  /\ \A p, q \in Queue : /\ <<p, "read">> = <<q, "read">> <=> p = q
                         /\ <<p, "write">> = <<q, "write">> <=> p = q
                         /\ <<p, "read">> # <<q, "write">>
  /\ \A q \in Queue : <<q, "read">> # Mem /\ <<q, "write">> # Mem
BY QueueAssumption DEF Side, Mem

LEMMA TaskFinite == IsFiniteSet(Task)
<1> DEFINE S == 1 .. Len(FreeOrder)
           T == Task \ {Idle}
<1>1. IsFiniteSet(S)
  BY FreeOrderAssumption, FS_Interval
<1>2. FreeOrder \in [S -> T] /\ \A t \in T : \E i \in S : FreeOrder[i] = t
  BY FreeOrderAssumption
<1> HIDE DEF S
<1>3. FreeOrder \in Surjection(S, T)
  BY <1>2 DEF Surjection
<1>4. IsFiniteSet(T)
  BY <1>1, <1>3, FS_Surjection
<1>5. T \cup {Idle} = Task
  BY TaskAssumption
<1> HIDE DEF T
<1>6. IsFiniteSet(T \cup {Idle})
  BY <1>4, FS_AddElement
<1> QED BY <1>5, <1>6

(* How many tasks have been chosen for o and have not run yet. *)
N(o) == Cardinality(Chosen(o))

LEMMA ChosenFinite ==
  ASSUME NEW o
  PROVE  /\ IsFiniteSet(Chosen(o)) /\ IsFiniteSet(Chosen(o)')
         /\ N(o) \in Nat /\ N(o)' \in Nat
         /\ N(o) = 0 <=> Chosen(o) = {}
<1>1. Chosen(o) \in SUBSET Task /\ Chosen(o)' \in SUBSET Task
  BY DEF Chosen
<1>2. IsFiniteSet(Chosen(o)) /\ IsFiniteSet(Chosen(o)')
  BY <1>1, TaskFinite, FS_Subset
<1>3. N(o) \in Nat /\ N(o)' \in Nat
  BY <1>2, FS_CardinalityType DEF N
<1>4. N(o) = 0 <=> Chosen(o) = {}
  BY <1>2, FS_EmptySet DEF N
<1> QED BY <1>2, <1>3, <1>4

LEMMA Counts ==
  ASSUME NEW r, NEW d, NEW o, NEW a, Turns(r, d, o, a), NEW p \in WaitObj
  PROVE  /\ N(p) \in Nat /\ N(p)' \in Nat
         /\ p = r => N(p) > 0
         /\ N(p)' = IF p = r THEN N(p) - 1 ELSE IF p = o THEN N(p) + 1 ELSE N(p)
<1>1. IsFiniteSet(Chosen(p)) /\ N(p) \in Nat /\ N(p)' \in Nat
  BY ChosenFinite
<1>2. CASE p = r
  <2>1. d \in Chosen(p) /\ Chosen(p)' = Chosen(p) \ {d}
    BY <1>2 DEF Turns
  <2>2. N(p)' = N(p) - 1
    BY <1>1, <2>1, FS_RemoveElement DEF N
  <2> QED BY <1>1, <1>2, <2>2
<1>3. CASE p # r /\ p = o
  <2>1. a \notin Chosen(p) /\ Chosen(p)' = Chosen(p) \cup {a}
    BY <1>3 DEF Turns
  <2>2. N(p)' = N(p) + 1
    BY <1>1, <2>1, FS_AddElement DEF N
  <2> QED BY <1>1, <1>3, <2>2
<1>4. CASE p # r /\ p # o
  <2>1. Chosen(p)' = Chosen(p)
    BY <1>4 DEF Turns
  <2> QED BY <1>1, <1>4, <2>1 DEF N
<1> QED BY <1>2, <1>3, <1>4

(***************************************************************************)
(* The ring of a queue: n slots from h on hold messages.                   *)
(***************************************************************************)
InRing(i, h, n, len) == i < len /\ (IF h <= i THEN i - h < n ELSE i + len - h < n)
Wrap(i, n) == IF i < n THEN i ELSE i - n
Following(i, n) == IF i + 1 = n THEN 0 ELSE i + 1

LEMMA RingRead ==
  ASSUME NEW h \in Nat, NEW n \in Nat, NEW len \in Nat, h < len, 0 < n, n <= len
  PROVE  /\ InRing(h, h, n, len) /\ Following(h, len) \in Nat /\ Following(h, len) < len
         /\ Wrap(Following(h, len) + (n - 1), len) = Wrap(h + n, len)
         /\ \A i \in Nat : InRing(i, Following(h, len), n - 1, len) <=> InRing(i, h, n, len) /\ i # h
BY DEF InRing, Wrap, Following

LEMMA RingWrite ==
  ASSUME NEW h \in Nat, NEW n \in Nat, NEW len \in Nat, h < len, n < len
  PROVE  /\ Wrap(h + n, len) \in Nat /\ Wrap(h + n, len) < len
         /\ ~InRing(Wrap(h + n, len), h, n, len)
         /\ Wrap(h + (n + 1), len) = Following(Wrap(h + n, len), len)
         /\ \A i \in Nat :
              InRing(i, h, n + 1, len) <=> InRing(i, h, n, len) \/ i = Wrap(h + n, len)
BY DEF InRing, Wrap, Following

(* The slots of a ring that hold messages. *)
Holding(S, h, n, len) ==
  \A i \in 0 .. MaxLen - 1 : S[i] # NoTask <=> InRing(i, h, n, len)

(* T is S with m in slot t. *)
PutInto(T, S, t, m) == \A i \in 0 .. MaxLen - 1 : T[i] = IF i = t THEN m ELSE S[i]

LEMMA SlotTaken ==
  ASSUME NEW h \in Nat, NEW n \in Nat, NEW len \in Nat,
         NEW S \in [0 .. MaxLen - 1 -> Block \cup {NoTask}], NEW T,
         h < len, 0 < n, n <= len, len <= MaxLen, Holding(S, h, n, len),
         PutInto(T, S, h, NoTask)
  PROVE  Holding(T, Following(h, len), n - 1, len) /\ S[h] \in Block /\ h \in 0 .. MaxLen - 1
<1>1. MaxLen \in Nat
  BY QueueAssumption
<1>2. /\ InRing(h, h, n, len)
      /\ \A i \in Nat : InRing(i, Following(h, len), n - 1, len) <=> InRing(i, h, n, len) /\ i # h
  BY RingRead
<1>3. h \in 0 .. MaxLen - 1
  BY <1>1
<1>4. S[h] \in Block
  BY <1>2, <1>3 DEF Holding
<1>5. ASSUME NEW i \in 0 .. MaxLen - 1
      PROVE  T[i] # NoTask <=> InRing(i, Following(h, len), n - 1, len)
  <2>1. T[i] = IF i = h THEN NoTask ELSE S[i]
    BY DEF PutInto
  <2>2. InRing(i, Following(h, len), n - 1, len) <=> InRing(i, h, n, len) /\ i # h
    BY <1>1, <1>2
  <2> QED BY <2>1, <2>2 DEF Holding
<1> QED BY <1>3, <1>4, <1>5 DEF Holding

LEMMA SlotGiven ==
  ASSUME NEW h \in Nat, NEW n \in Nat, NEW len \in Nat, NEW t, NEW m \in Block,
         NEW S \in [0 .. MaxLen - 1 -> Block \cup {NoTask}], NEW T,
         h < len, n < len, len <= MaxLen, t = Wrap(h + n, len), Holding(S, h, n, len),
         PutInto(T, S, t, m)
  PROVE  Holding(T, h, n + 1, len) /\ S[t] = NoTask /\ t \in 0 .. MaxLen - 1
<1>1. MaxLen \in Nat /\ m # NoTask
  BY QueueAssumption
<1>2. /\ t \in Nat /\ t < len /\ ~InRing(t, h, n, len)
      /\ \A i \in Nat : InRing(i, h, n + 1, len) <=> InRing(i, h, n, len) \/ i = t
  BY RingWrite, ZenonT(60)
<1>3. t \in 0 .. MaxLen - 1
  BY <1>1, <1>2
<1>4. S[t] = NoTask
  BY <1>2, <1>3 DEF Holding
<1>5. ASSUME NEW i \in 0 .. MaxLen - 1
      PROVE  T[i] # NoTask <=> InRing(i, h, n + 1, len)
  <2>1. T[i] = IF i = t THEN m ELSE S[i]
    BY DEF PutInto
  <2>2. InRing(i, h, n + 1, len) <=> InRing(i, h, n, len) \/ i = t
    BY <1>1, <1>2
  <2> QED BY <1>1, <2>1, <2>2 DEF Holding
<1> QED BY <1>3, <1>4, <1>5 DEF Holding

QueueRecord ==
  [used : BOOLEAN, len : 1 .. MaxLen, head : 0 .. MaxLen - 1, tail : 0 .. MaxLen - 1,
   readable : 0 .. MaxLen, writable : 0 .. MaxLen,
   slot : [0 .. MaxLen - 1 -> Block \cup {NoTask}]]

Typed ==
  /\ queue \in [Queue -> QueueRecord]
  /\ box \in Seq(Block) /\ IsInjective(box)
  /\ puwMsg \in [Task -> Block \cup {NoTask}]
  /\ own \in [Client -> SUBSET Block]
  /\ lost \subseteq Block /\ got \in Block \cup {NoTask}

(* r messages are for readers that were woken, w slots for writers that were woken:
   neither counter shows them.                                             *)
Ring(Q, r, w) ==
  /\ Q.readable + r + Q.writable + w = Q.len
  /\ Q.head < Q.len /\ Q.tail = Wrap(Q.head + (Q.readable + r), Q.len)
  /\ Holding(Q.slot, Q.head, Q.readable + r, Q.len)

Rings ==
  \A q \in Queue :
    IF queue[q].used THEN Ring(queue[q], N(<<q, "read">>), N(<<q, "write">>))
    ELSE queue[q] = NoQueue /\ N(<<q, "read">>) = 0 /\ N(<<q, "write">>) = 0

LEMMA RecordFacts ==
  ASSUME Typed, NEW q \in Queue
  PROVE  /\ queue[q] \in QueueRecord
         /\ queue[q].used \in BOOLEAN /\ queue[q].len \in Nat /\ queue[q].head \in Nat
         /\ queue[q].tail \in Nat /\ queue[q].readable \in Nat /\ queue[q].writable \in Nat
         /\ queue[q].slot \in [0 .. MaxLen - 1 -> Block \cup {NoTask}]
         /\ queue[q].len > 0 /\ queue[q].len <= MaxLen /\ MaxLen \in Nat /\ MaxLen > 0
         /\ queue[q].head \in 0 .. MaxLen - 1 /\ queue[q].tail \in 0 .. MaxLen - 1
<1>1. queue[q] \in QueueRecord /\ MaxLen \in Nat \ {0}
  BY QueueAssumption DEF Typed
<1> QED BY <1>1 DEF QueueRecord

(* One message less in q: its slot is writable now, or given to a waiting writer. *)
MessageTaken(q, counted) ==
  /\ queue'[q].used = queue[q].used /\ queue'[q].len = queue[q].len
  /\ queue'[q].tail = queue[q].tail
  /\ queue'[q].head = Following(queue[q].head, queue[q].len)
  /\ queue'[q].readable = queue[q].readable - counted
  /\ queue'[q].writable = IF k.wait[<<q, "write">>] # <<>> THEN queue[q].writable
                          ELSE queue[q].writable + 1
  /\ PutInto(queue'[q].slot, queue[q].slot, queue[q].head, NoTask)
  /\ queue'[q].writable <= MaxLen /\ queue'[q].head \in 0 .. MaxLen - 1
       => queue' \in [Queue -> QueueRecord]
  /\ \A p \in Queue : p # q => queue'[p] = queue[p]

LEMMA ReceivedFacts ==
  ASSUME Typed, NEW c \in Client, NEW q \in Queue, NEW counted \in {0, 1},
         Received(c, q, counted), counted <= queue[q].readable
  PROVE  MessageTaken(q, counted)
<1> DEFINE Q == queue[q]
           h == Following(Q.head, Q.len)
           r == Q.readable - counted
           w == IF k.wait[<<q, "write">>] # <<>> THEN Q.writable ELSE Q.writable + 1
           s == [Q.slot EXCEPT ![Q.head] = NoTask]
<1>1. /\ queue \in [Queue -> QueueRecord] /\ Q \in QueueRecord /\ Q.readable \in Nat
      /\ Q.writable \in Nat /\ Q.slot \in [0 .. MaxLen - 1 -> Block \cup {NoTask}]
      /\ MaxLen \in Nat /\ Q.head \in 0 .. MaxLen - 1
  BY RecordFacts DEF Typed
<1>2. queue' = [queue EXCEPT ![q].readable = r, ![q].head = h, ![q].slot = s, ![q].writable = w]
  <2>1. After(q, Q.head) = h
    BY DEF After, Following
  <2> QED BY <1>1, <2>1 DEF Received, QueueRecord
<1>3. s \in [0 .. MaxLen - 1 -> Block \cup {NoTask}]
  BY <1>1
<1>4. r \in 0 .. MaxLen
  BY <1>1 DEF QueueRecord
<1>5. w \in Nat
  BY <1>1
<1> HIDE DEF h, r, w, s
<1> DEFINE Z == [Q EXCEPT !.readable = r, !.head = h, !.slot = s, !.writable = w]
<1>6. /\ queue'[q] = Z /\ \A p \in Queue : p # q => queue'[p] = queue[p]
      /\ queue' = [queue EXCEPT ![q] = queue'[q]]
  <2>1. queue' = [queue EXCEPT ![q] = Z]
    BY <1>1, <1>2
  <2> HIDE DEF Z
  <2> QED BY <1>1, <2>1
<1>7. /\ Z.used = Q.used /\ Z.len = Q.len /\ Z.tail = Q.tail
      /\ Z.readable = r /\ Z.head = h /\ Z.slot = s /\ Z.writable = w
  <2>1. Q \in QueueRecord
    BY <1>1
  <2> HIDE DEF Q
  <2> QED BY <2>1 DEF QueueRecord
<1>8. w <= MaxLen /\ h \in 0 .. MaxLen - 1 => Z \in QueueRecord
  <2>1. Q \in QueueRecord /\ MaxLen \in Nat
    BY <1>1
  <2> HIDE DEF Q
  <2>2. ASSUME w <= MaxLen, h \in 0 .. MaxLen - 1 PROVE Z \in QueueRecord
    <3>1. w \in 0 .. MaxLen
      BY <1>5, <2>1, <2>2
    <3> QED BY <1>3, <1>4, <2>1, <2>2, <3>1 DEF QueueRecord
  <2> QED BY <2>2
<1>9. w <= MaxLen /\ h \in 0 .. MaxLen - 1 => queue' \in [Queue -> QueueRecord]
  <2> HIDE DEF Z
  <2> QED BY <1>1, <1>6, <1>8
<1>10. PutInto(s, Q.slot, Q.head, NoTask)
  BY <1>1 DEF s, PutInto
<1> HIDE DEF Z
<1> QED BY <1>6, <1>7, <1>9, <1>10 DEF h, r, w, MessageTaken

(* One message more: it is readable, or for a reader that waited. *)
MessageGiven(q, m, counted) ==
  /\ queue'[q].used = queue[q].used /\ queue'[q].len = queue[q].len
  /\ queue'[q].head = queue[q].head
  /\ queue'[q].tail = Following(queue[q].tail, queue[q].len)
  /\ queue'[q].writable = queue[q].writable - counted
  /\ queue'[q].readable = IF k.wait[<<q, "read">>] # <<>> THEN queue[q].readable
                          ELSE queue[q].readable + 1
  /\ PutInto(queue'[q].slot, queue[q].slot, queue[q].tail, m)
  /\ queue'[q].readable <= MaxLen /\ queue'[q].tail \in 0 .. MaxLen - 1
       => queue' \in [Queue -> QueueRecord]
  /\ \A p \in Queue : p # q => queue'[p] = queue[p]

LEMMA SentFacts ==
  ASSUME Typed, NEW c \in Client, NEW q \in Queue, NEW m \in Block,
         NEW counted \in {0, 1}, Sent(c, q, m, counted), counted <= queue[q].writable
  PROVE  MessageGiven(q, m, counted)
<1> DEFINE Q == queue[q]
           h == Following(Q.tail, Q.len)
           r == Q.writable - counted
           w == IF k.wait[<<q, "read">>] # <<>> THEN Q.readable ELSE Q.readable + 1
           s == [Q.slot EXCEPT ![Q.tail] = m]
<1>1. /\ queue \in [Queue -> QueueRecord] /\ Q \in QueueRecord /\ Q.readable \in Nat
      /\ Q.writable \in Nat /\ Q.slot \in [0 .. MaxLen - 1 -> Block \cup {NoTask}]
      /\ MaxLen \in Nat /\ Q.tail \in 0 .. MaxLen - 1 /\ m \in Block
  BY RecordFacts DEF Typed
<1>2. queue' = [queue EXCEPT ![q].writable = r, ![q].tail = h, ![q].slot = s, ![q].readable = w]
  <2>1. After(q, Q.tail) = h
    BY DEF After, Following
  <2> QED BY <1>1, <2>1 DEF Sent, QueueRecord
<1>3. s \in [0 .. MaxLen - 1 -> Block \cup {NoTask}]
  BY <1>1
<1>4. r \in 0 .. MaxLen
  BY <1>1 DEF QueueRecord
<1>5. w \in Nat
  BY <1>1
<1> HIDE DEF h, r, w, s
<1> DEFINE Z == [Q EXCEPT !.writable = r, !.tail = h, !.slot = s, !.readable = w]
<1>6. /\ queue'[q] = Z /\ \A p \in Queue : p # q => queue'[p] = queue[p]
      /\ queue' = [queue EXCEPT ![q] = queue'[q]]
  <2>1. queue' = [queue EXCEPT ![q] = Z]
    BY <1>1, <1>2
  <2> HIDE DEF Z
  <2> QED BY <1>1, <2>1
<1>7. /\ Z.used = Q.used /\ Z.len = Q.len /\ Z.head = Q.head
      /\ Z.writable = r /\ Z.tail = h /\ Z.slot = s /\ Z.readable = w
  <2>1. Q \in QueueRecord
    BY <1>1
  <2> HIDE DEF Q
  <2> QED BY <2>1 DEF QueueRecord
<1>8. w <= MaxLen /\ h \in 0 .. MaxLen - 1 => Z \in QueueRecord
  <2>1. Q \in QueueRecord /\ MaxLen \in Nat
    BY <1>1
  <2> HIDE DEF Q
  <2>2. ASSUME w <= MaxLen, h \in 0 .. MaxLen - 1 PROVE Z \in QueueRecord
    <3>1. w \in 0 .. MaxLen
      BY <1>5, <2>1, <2>2
    <3> QED BY <1>3, <1>4, <2>1, <2>2, <3>1 DEF QueueRecord
  <2> QED BY <2>2
<1>9. w <= MaxLen /\ h \in 0 .. MaxLen - 1 => queue' \in [Queue -> QueueRecord]
  <2> HIDE DEF Z
  <2> QED BY <1>1, <1>6, <1>8
<1>10. PutInto(s, Q.slot, Q.tail, m)
  BY <1>1 DEF s, PutInto
<1> HIDE DEF Z
<1> QED BY <1>6, <1>7, <1>9, <1>10 DEF h, r, w, MessageGiven

(* Who has been chosen when a message is taken from q, and when one is put into it. *)
Taker(q, counted) == IF counted = 1 THEN NoTask ELSE <<q, "read">>
Giver(q, counted) == IF counted = 1 THEN NoTask ELSE <<q, "write">>
Woken(o) == IF k.wait[o] # <<>> THEN o ELSE NoTask

LEMMA TakingCounts ==
  ASSUME NEW q \in Queue, NEW counted \in {0, 1}, NEW d, NEW a,
         Turns(Taker(q, counted), d, Woken(<<q, "write">>), a)
  PROVE  /\ N(<<q, "read">>) \in Nat /\ N(<<q, "read">>)' \in Nat
         /\ N(<<q, "write">>) \in Nat /\ N(<<q, "write">>)' \in Nat
         /\ N(<<q, "read">>) = N(<<q, "read">>)' + (1 - counted)
         /\ N(<<q, "write">>)' = IF k.wait[<<q, "write">>] # <<>> THEN N(<<q, "write">>) + 1
                                 ELSE N(<<q, "write">>)
         /\ \A p \in Queue : p # q => /\ N(<<p, "read">>)' = N(<<p, "read">>)
                                      /\ N(<<p, "write">>)' = N(<<p, "write">>)
<1> DEFINE r == Taker(q, counted)
           o == Woken(<<q, "write">>)
<1>1. \A p \in WaitObj :
        /\ N(p) \in Nat /\ N(p)' \in Nat
        /\ N(p)' = IF p = r THEN N(p) - 1 ELSE IF p = o THEN N(p) + 1 ELSE N(p)
  <2> HIDE DEF r, o
  <2> QED BY Counts DEF r, o
<1>2. /\ r = IF counted = 1 THEN NoTask ELSE <<q, "read">>
      /\ o = IF k.wait[<<q, "write">>] # <<>> THEN <<q, "write">> ELSE NoTask
  BY DEF Taker, Woken
<1> HIDE DEF r, o
<1>3. \A p \in Queue : /\ <<p, "read">> \in WaitObj /\ <<p, "write">> \in WaitObj
                       /\ <<p, "read">> # NoTask /\ <<p, "write">> # NoTask
                       /\ <<p, "read">> # <<q, "write">> /\ <<p, "write">> # <<q, "read">>
                       /\ p # q => <<p, "read">> # <<q, "read">> /\ <<p, "write">> # <<q, "write">>
  BY Objects, QueueAssumption
<1>4. N(<<q, "read">>)' = IF counted = 1 THEN N(<<q, "read">>) ELSE N(<<q, "read">>) - 1
  BY <1>1, <1>2, <1>3
<1>5. N(<<q, "write">>)' = IF k.wait[<<q, "write">>] # <<>> THEN N(<<q, "write">>) + 1
                           ELSE N(<<q, "write">>)
  BY <1>1, <1>2, <1>3
<1>6. \A p \in Queue : p # q => /\ N(<<p, "read">>)' = N(<<p, "read">>)
                                /\ N(<<p, "write">>)' = N(<<p, "write">>)
  BY <1>1, <1>2, <1>3
<1> QED BY <1>1, <1>3, <1>4, <1>5, <1>6

LEMMA GivingCounts ==
  ASSUME NEW q \in Queue, NEW counted \in {0, 1}, NEW d, NEW a,
         Turns(Giver(q, counted), d, Woken(<<q, "read">>), a)
  PROVE  /\ N(<<q, "read">>) \in Nat /\ N(<<q, "read">>)' \in Nat
         /\ N(<<q, "write">>) \in Nat /\ N(<<q, "write">>)' \in Nat
         /\ N(<<q, "write">>) = N(<<q, "write">>)' + (1 - counted)
         /\ N(<<q, "read">>)' = IF k.wait[<<q, "read">>] # <<>> THEN N(<<q, "read">>) + 1
                                ELSE N(<<q, "read">>)
         /\ \A p \in Queue : p # q => /\ N(<<p, "read">>)' = N(<<p, "read">>)
                                      /\ N(<<p, "write">>)' = N(<<p, "write">>)
<1> DEFINE r == Giver(q, counted)
           o == Woken(<<q, "read">>)
<1>1. \A p \in WaitObj :
        /\ N(p) \in Nat /\ N(p)' \in Nat
        /\ N(p)' = IF p = r THEN N(p) - 1 ELSE IF p = o THEN N(p) + 1 ELSE N(p)
  <2> HIDE DEF r, o
  <2> QED BY Counts DEF r, o
<1>2. /\ r = IF counted = 1 THEN NoTask ELSE <<q, "write">>
      /\ o = IF k.wait[<<q, "read">>] # <<>> THEN <<q, "read">> ELSE NoTask
  BY DEF Giver, Woken
<1> HIDE DEF r, o
<1>3. \A p \in Queue : /\ <<p, "read">> \in WaitObj /\ <<p, "write">> \in WaitObj
                       /\ <<p, "read">> # NoTask /\ <<p, "write">> # NoTask
                       /\ <<p, "read">> # <<q, "write">> /\ <<p, "write">> # <<q, "read">>
                       /\ p # q => <<p, "read">> # <<q, "read">> /\ <<p, "write">> # <<q, "write">>
  BY Objects, QueueAssumption
<1>4. N(<<q, "write">>)' = IF counted = 1 THEN N(<<q, "write">>) ELSE N(<<q, "write">>) - 1
  BY <1>1, <1>2, <1>3
<1>5. N(<<q, "read">>)' = IF k.wait[<<q, "read">>] # <<>> THEN N(<<q, "read">>) + 1
                          ELSE N(<<q, "read">>)
  BY <1>1, <1>2, <1>3
<1>6. \A p \in Queue : p # q => /\ N(<<p, "read">>)' = N(<<p, "read">>)
                                /\ N(<<p, "write">>)' = N(<<p, "write">>)
  BY <1>1, <1>2, <1>3
<1> QED BY <1>1, <1>3, <1>4, <1>5, <1>6

LEMMA Sums ==
  ASSUME NEW counted \in {0, 1}, NEW e \in {0, 1}, NEW x \in Nat, NEW y \in Nat, NEW r \in Nat,
         NEW w \in Nat, NEW s \in Nat, NEW v \in Nat, NEW len \in Nat, NEW x2, NEW y2,
         counted <= x, x + r + y + w = len, r = s + (1 - counted),
         x2 = x - counted, y2 = y + (1 - e), v = w + e
  PROVE  /\ x + r \in Nat /\ 0 < x + r /\ x + r <= len /\ x2 + s = (x + r) - 1
         /\ y2 + v = y + w + 1 /\ x2 \in Nat /\ y2 \in Nat /\ y2 <= len
         /\ x2 + s + y2 + v = len /\ y + v \in Nat
<1>1. x2 \in Nat
  BY SMT
<1>2. y2 \in Nat /\ y2 + v = y + w + 1
  BY SMT
<1>3. x2 + s = (x + r) - 1 /\ 0 < x + r
  BY SMT
<1>4. x2 + s + y2 + v = len
  BY <1>1, <1>2, <1>3
<1> QED BY <1>1, <1>2, <1>3, <1>4

LEMMA TakingRings ==
  ASSUME Typed, Rings, NEW c \in Client, NEW q \in Queue, NEW counted \in {0, 1}, NEW d, NEW a,
         queue[q].used, counted <= queue[q].readable, Received(c, q, counted),
         Turns(Taker(q, counted), d, Woken(<<q, "write">>), a)
  PROVE  Rings' /\ queue' \in [Queue -> QueueRecord] /\ queue[q].slot[queue[q].head] \in Block
<1> DEFINE Q == queue[q]
           P == queue'[q]
           r == N(<<q, "read">>)
           w == N(<<q, "write">>)
           s == N(<<q, "read">>)'
           v == N(<<q, "write">>)'
           n == Q.readable + r
           h == Q.head
           l == Q.len
           S == Q.slot
           T == P.slot
           g == Following(h, l)
<1>1. /\ P.used = Q.used /\ P.len = l /\ P.tail = Q.tail
      /\ P.head = g /\ P.readable = Q.readable - counted
      /\ P.writable = IF k.wait[<<q, "write">>] # <<>> THEN Q.writable ELSE Q.writable + 1
      /\ PutInto(T, S, h, NoTask)
      /\ P.writable <= MaxLen /\ P.head \in 0 .. MaxLen - 1 => queue' \in [Queue -> QueueRecord]
      /\ \A p \in Queue : p # q => queue'[p] = queue[p]
  <2>1. /\ queue'[q].used = queue[q].used /\ queue'[q].len = queue[q].len
        /\ queue'[q].tail = queue[q].tail
        /\ queue'[q].head = Following(queue[q].head, queue[q].len)
        /\ queue'[q].readable = queue[q].readable - counted
        /\ queue'[q].writable = IF k.wait[<<q, "write">>] # <<>> THEN queue[q].writable
                                ELSE queue[q].writable + 1
        /\ PutInto(queue'[q].slot, queue[q].slot, queue[q].head, NoTask)
        /\ queue'[q].writable <= MaxLen /\ queue'[q].head \in 0 .. MaxLen - 1
             => queue' \in [Queue -> QueueRecord]
        /\ \A p \in Queue : p # q => queue'[p] = queue[p]
    <3> HIDE DEF Q, P, r, w, s, v, h, l, S, T, g
    <3>1. MessageTaken(q, counted)
      BY ReceivedFacts
    <3> QED BY <3>1 DEF MessageTaken
  <2> QED BY <2>1
<1>2. /\ r \in Nat /\ s \in Nat /\ w \in Nat /\ v \in Nat /\ r = s + (1 - counted)
      /\ v = IF k.wait[<<q, "write">>] # <<>> THEN w + 1 ELSE w
      /\ \A p \in Queue : p # q => /\ N(<<p, "read">>)' = N(<<p, "read">>)
                                   /\ N(<<p, "write">>)' = N(<<p, "write">>)
  BY TakingCounts
<1>3. /\ l \in Nat /\ h \in Nat /\ Q.readable \in Nat /\ Q.writable \in Nat
      /\ S \in [0 .. MaxLen - 1 -> Block \cup {NoTask}] /\ l <= MaxLen /\ MaxLen \in Nat
  BY RecordFacts
<1>4. /\ n + Q.writable + w = l /\ h < l /\ Q.tail = Wrap(h + n, l) /\ Holding(S, h, n, l)
      /\ counted <= Q.readable
  BY DEF Rings, Ring
<1>5. \A p \in Queue : p # q =>
        IF queue[p].used THEN Ring(queue[p], N(<<p, "read">>), N(<<p, "write">>))
        ELSE queue[p] = NoQueue /\ N(<<p, "read">>) = 0 /\ N(<<p, "write">>) = 0
  BY DEF Rings
<1> HIDE DEF Q, P, r, w, s, v, h, l, S, T, g
<1>6. /\ n \in Nat /\ 0 < n /\ n <= l /\ P.readable + s = n - 1
      /\ P.readable + s + P.writable + v = l /\ P.writable <= l /\ P.writable \in Nat
  <2> DEFINE x == Q.readable
             y == Q.writable
             x2 == P.readable
             y2 == P.writable
             e == IF k.wait[<<q, "write">>] # <<>> THEN 1 ELSE 0
  <2>1. /\ x \in Nat /\ y \in Nat /\ r \in Nat /\ w \in Nat /\ s \in Nat /\ v \in Nat /\ l \in Nat
        /\ counted <= x /\ x + r + y + w = l /\ r = s + (1 - counted) /\ x2 = x - counted
    BY <1>1, <1>2, <1>3, <1>4
  <2>2. e \in {0, 1} /\ y2 = y + (1 - e) /\ v = w + e
    <3> HIDE DEF y, y2
    <3>1. /\ y \in Nat /\ w \in Nat
          /\ y2 = IF k.wait[<<q, "write">>] # <<>> THEN y ELSE y + 1
          /\ v = IF k.wait[<<q, "write">>] # <<>> THEN w + 1 ELSE w
      BY <1>1, <1>2, <2>1 DEF y, y2
    <3> QED BY <3>1
  <2> HIDE DEF x, y, x2, y2, e
  <2>3. /\ x + r \in Nat /\ 0 < x + r /\ x + r <= l /\ x2 + s = (x + r) - 1
        /\ x2 + s + y2 + v = l /\ y2 <= l /\ y2 \in Nat
    BY <2>1, <2>2, Sums
  <2> QED BY <2>3 DEF x, x2, y2
<1> HIDE DEF n
<1>8. g \in Nat /\ g < l /\ Wrap(g + (n - 1), l) = Wrap(h + n, l)
  BY <1>3, <1>4, <1>6, RingRead DEF g
<1>9. Holding(T, g, n - 1, l) /\ S[h] \in Block
  BY <1>1, <1>3, <1>4, <1>6, SlotTaken DEF g
<1>10. Ring(P, s, v)
  <2>1. P.readable + s + P.writable + v = P.len
    BY <1>1, <1>6
  <2>2. P.head < P.len /\ P.tail = Wrap(P.head + (P.readable + s), P.len)
    BY <1>1, <1>4, <1>6, <1>8
  <2>3. Holding(P.slot, P.head, P.readable + s, P.len)
    BY <1>1, <1>6, <1>9 DEF T
  <2> QED BY <2>1, <2>2, <2>3 DEF Ring
<1>11. queue' \in [Queue -> QueueRecord]
  <2>1. P.writable <= MaxLen
    BY <1>3, <1>6
  <2>2. P.head \in 0 .. MaxLen - 1
    BY <1>1, <1>3, <1>8
  <2> QED BY <1>1, <2>1, <2>2
<1>12. Rings'
  <2>1. ASSUME NEW p \in Queue
        PROVE  IF queue'[p].used THEN Ring(queue'[p], N(<<p, "read">>)', N(<<p, "write">>)')
               ELSE queue'[p] = NoQueue /\ N(<<p, "read">>)' = 0 /\ N(<<p, "write">>)' = 0
    <3>1. CASE p = q
      BY <1>1, <1>10, <3>1 DEF P, Q, s, v
    <3>2. CASE p # q
      BY <1>1, <1>2, <1>5, <3>2
    <3> QED BY <3>1, <3>2
  <2> QED BY <2>1 DEF Rings, Ring, Holding, NoQueue
<1> QED BY <1>9, <1>11, <1>12 DEF S, h, Q

LEMMA GivingRings ==
  ASSUME Typed, Rings, NEW c \in Client, NEW q \in Queue, NEW m \in Block,
         NEW counted \in {0, 1}, NEW d, NEW a,
         queue[q].used, counted <= queue[q].writable, Sent(c, q, m, counted),
         Turns(Giver(q, counted), d, Woken(<<q, "read">>), a)
  PROVE  Rings' /\ queue' \in [Queue -> QueueRecord] /\ queue[q].slot[queue[q].tail] = NoTask
<1> DEFINE Q == queue[q]
           P == queue'[q]
           r == N(<<q, "write">>)
           w == N(<<q, "read">>)
           s == N(<<q, "write">>)'
           v == N(<<q, "read">>)'
           n == Q.readable + w
           h == Q.head
           t == Q.tail
           l == Q.len
           S == Q.slot
           T == P.slot
           g == Following(t, l)
<1>1. /\ P.used = Q.used /\ P.len = l /\ P.head = h
      /\ P.tail = g /\ P.writable = Q.writable - counted
      /\ P.readable = IF k.wait[<<q, "read">>] # <<>> THEN Q.readable ELSE Q.readable + 1
      /\ PutInto(T, S, t, m)
      /\ P.readable <= MaxLen /\ P.tail \in 0 .. MaxLen - 1 => queue' \in [Queue -> QueueRecord]
      /\ \A p \in Queue : p # q => queue'[p] = queue[p]
  <2>1. /\ queue'[q].used = queue[q].used /\ queue'[q].len = queue[q].len
        /\ queue'[q].head = queue[q].head
        /\ queue'[q].tail = Following(queue[q].tail, queue[q].len)
        /\ queue'[q].writable = queue[q].writable - counted
        /\ queue'[q].readable = IF k.wait[<<q, "read">>] # <<>> THEN queue[q].readable
                                ELSE queue[q].readable + 1
        /\ PutInto(queue'[q].slot, queue[q].slot, queue[q].tail, m)
        /\ queue'[q].readable <= MaxLen /\ queue'[q].tail \in 0 .. MaxLen - 1
             => queue' \in [Queue -> QueueRecord]
        /\ \A p \in Queue : p # q => queue'[p] = queue[p]
    <3> HIDE DEF Q, P, r, w, s, v, h, l, S, T, g, t
    <3>1. /\ Typed /\ c \in Client /\ q \in Queue /\ m \in Block /\ counted \in {0, 1}
          /\ Sent(c, q, m, counted) /\ counted <= queue[q].writable
      OBVIOUS
    <3>2. MessageGiven(q, m, counted)
      BY <3>1, SentFacts
    <3> QED BY <3>2 DEF MessageGiven
  <2> QED BY <2>1
<1>2. /\ r \in Nat /\ s \in Nat /\ w \in Nat /\ v \in Nat /\ r = s + (1 - counted)
      /\ v = IF k.wait[<<q, "read">>] # <<>> THEN w + 1 ELSE w
      /\ \A p \in Queue : p # q => /\ N(<<p, "read">>)' = N(<<p, "read">>)
                                   /\ N(<<p, "write">>)' = N(<<p, "write">>)
  BY GivingCounts
<1>3. /\ l \in Nat /\ h \in Nat /\ Q.readable \in Nat /\ Q.writable \in Nat
      /\ S \in [0 .. MaxLen - 1 -> Block \cup {NoTask}] /\ l <= MaxLen /\ MaxLen \in Nat
  BY RecordFacts
<1>4. /\ n + Q.writable + r = l /\ h < l /\ t = Wrap(h + n, l) /\ Holding(S, h, n, l)
      /\ counted <= Q.writable
  BY DEF Rings, Ring
<1>5. \A p \in Queue : p # q =>
        IF queue[p].used THEN Ring(queue[p], N(<<p, "read">>), N(<<p, "write">>))
        ELSE queue[p] = NoQueue /\ N(<<p, "read">>) = 0 /\ N(<<p, "write">>) = 0
  BY DEF Rings
<1> HIDE DEF Q, P, r, w, s, v, h, l, S, T, g, t
<1>6. /\ n \in Nat /\ n < l /\ P.readable + v = n + 1
      /\ P.readable + v + P.writable + s = l /\ P.readable <= l /\ P.readable \in Nat
  <2> DEFINE x == Q.writable
             y == Q.readable
             x2 == P.writable
             y2 == P.readable
             e == IF k.wait[<<q, "read">>] # <<>> THEN 1 ELSE 0
  <2>1. /\ x \in Nat /\ y \in Nat /\ r \in Nat /\ w \in Nat /\ s \in Nat /\ v \in Nat /\ l \in Nat
        /\ counted <= x /\ x + r + y + w = l /\ r = s + (1 - counted) /\ x2 = x - counted
    BY <1>1, <1>2, <1>3, <1>4
  <2>2. e \in {0, 1} /\ y2 = y + (1 - e) /\ v = w + e
    <3> HIDE DEF y, y2
    <3>1. /\ y \in Nat /\ w \in Nat
          /\ y2 = IF k.wait[<<q, "read">>] # <<>> THEN y ELSE y + 1
          /\ v = IF k.wait[<<q, "read">>] # <<>> THEN w + 1 ELSE w
      BY <1>1, <1>2, <2>1 DEF y, y2
    <3> QED BY <3>1
  <2> HIDE DEF x, y, x2, y2, e
  <2>3. /\ x + r \in Nat /\ 0 < x + r /\ y2 + v = y + w + 1
        /\ x2 + s + y2 + v = l /\ y2 <= l /\ y2 \in Nat /\ x2 \in Nat
    BY <2>1, <2>2, Sums
  <2>4. y + w \in Nat /\ y + w < l /\ y2 + v + x2 + s = l
    BY <2>1, <2>3
  <2> QED BY <2>3, <2>4 DEF x, y, x2, y2
<1> HIDE DEF n
<1>7. /\ t \in Nat /\ t < l /\ Wrap(h + (n + 1), l) = g
  BY <1>3, <1>4, <1>6, RingWrite DEF g
<1>8. Holding(T, h, n + 1, l) /\ S[t] = NoTask
  <2>1. /\ h \in Nat /\ n \in Nat /\ l \in Nat /\ m \in Block
        /\ S \in [0 .. MaxLen - 1 -> Block \cup {NoTask}]
        /\ h < l /\ n < l /\ l <= MaxLen /\ t = Wrap(h + n, l) /\ Holding(S, h, n, l)
        /\ PutInto(T, S, t, m)
    BY <1>1, <1>3, <1>4, <1>6
  <2> QED BY <2>1, SlotGiven, ZenonT(120)
<1>9. Ring(P, v, s)
  <2>1. P.readable + v + P.writable + s = P.len
    BY <1>1, <1>6
  <2>2. P.head < P.len /\ P.tail = Wrap(P.head + (P.readable + v), P.len)
    BY <1>1, <1>4, <1>6, <1>7
  <2>3. Holding(P.slot, P.head, P.readable + v, P.len)
    BY <1>1, <1>6, <1>8 DEF T
  <2> QED BY <2>1, <2>2, <2>3 DEF Ring
<1>10. queue' \in [Queue -> QueueRecord]
  <2>1. P.readable <= MaxLen
    BY <1>3, <1>6
  <2>2. P.tail \in 0 .. MaxLen - 1
    BY <1>1, <1>3, <1>7 DEF Following, g
  <2> QED BY <1>1, <2>1, <2>2
<1>11. Rings'
  <2>1. ASSUME NEW p \in Queue
        PROVE  IF queue'[p].used THEN Ring(queue'[p], N(<<p, "read">>)', N(<<p, "write">>)')
               ELSE queue'[p] = NoQueue /\ N(<<p, "read">>)' = 0 /\ N(<<p, "write">>)' = 0
    <3>1. CASE p = q
      BY <1>1, <1>9, <3>1 DEF P, Q, s, v
    <3>2. CASE p # q
      BY <1>1, <1>2, <1>5, <3>2
    <3> QED BY <3>1, <3>2
  <2> QED BY <2>1 DEF Rings, Ring, Holding, NoQueue
<1> QED BY <1>8, <1>10, <1>11 DEF S, t, Q

(***************************************************************************)
(* Where a block is: the box, a client, a TCB, a slot, or gone.            *)
(***************************************************************************)
Somewhere(kind, who, i) ==
  \/ kind \in {"lost", "box"}
  \/ kind = "own" /\ who \in Client
  \/ kind = "msg" /\ who \in Task
  \/ kind = "slot" /\ who \in Queue /\ i \in 0 .. MaxLen - 1

At(b, kind, who, i) ==
  /\ Somewhere(kind, who, i)
  /\ b \in lost <=> kind = "lost"
  /\ Contains(box, b) <=> kind = "box"
  /\ \A c \in Client : b \in own[c] <=> kind = "own" /\ c = who
  /\ \A t \in Task : puwMsg[t] = b <=> kind = "msg" /\ t = who
  /\ \A q \in Queue : \A j \in 0 .. MaxLen - 1 :
       queue[q].slot[j] = b <=> kind = "slot" /\ q = who /\ j = i

Mail == \A b \in Block : \E kind, who, i : At(b, kind, who, i)

LEMMA MailReceived ==
  ASSUME Typed, Mail, NEW c \in Client, NEW q \in Queue, NEW counted \in {0, 1},
         Received(c, q, counted), counted <= queue[q].readable,
         queue' \in [Queue -> QueueRecord], queue[q].slot[queue[q].head] \in Block
  PROVE  /\ Typed' /\ Mail' /\ box' = box /\ puwMsg' = puwMsg
         /\ \A u \in Client : own[u] \subseteq own'[u]
<1> DEFINE h == queue[q].head
           m == queue[q].slot[h]
<1>1. /\ own' = [own EXCEPT ![c] = @ \cup {m}] /\ got' = m
      /\ box' = box /\ puwMsg' = puwMsg /\ lost' = lost /\ m \in Block /\ m # NoTask
  BY QueueAssumption DEF Received
<1>2. /\ own \in [Client -> SUBSET Block] /\ h \in 0 .. MaxLen - 1
      /\ queue[q].slot \in [0 .. MaxLen - 1 -> Block \cup {NoTask}]
  BY RecordFacts DEF Typed
<1>3. /\ PutInto(queue'[q].slot, queue[q].slot, h, NoTask)
      /\ \A p \in Queue : p # q => queue'[p] = queue[p]
  <2> HIDE DEF m
  <2>1. MessageTaken(q, counted)
    BY ReceivedFacts
  <2> QED BY <2>1 DEF MessageTaken, m, h
<1> HIDE DEF m, h
<1>4. /\ \A u \in Client : own'[u] = IF u = c THEN own[u] \cup {m} ELSE own[u]
      /\ own' \in [Client -> SUBSET Block]
  BY <1>1, <1>2
<1>5. Typed'
  <2>1. box' = box /\ puwMsg' = puwMsg /\ lost' = lost /\ got' \in Block \cup {NoTask}
    BY <1>1
  <2>2. IsInjective(box) <=> IsInjective(box')
    BY <1>1
  <2> QED BY <1>4, <2>1, <2>2 DEF Typed, QueueRecord
<1>6. \A p \in Queue : \A j \in 0 .. MaxLen - 1 :
        queue'[p].slot[j] = IF p = q /\ j = h THEN NoTask ELSE queue[p].slot[j]
  BY <1>3 DEF PutInto
<1>7. ASSUME NEW b \in Block PROVE \E kind, who, i : At(b, kind, who, i)'
  <2>1. PICK kind, who, i : At(b, kind, who, i)
    BY DEF Mail
  <2>2. b # NoTask
    BY QueueAssumption
  <2>3. CASE b = m
    <3>1. kind = "slot" /\ who = q /\ i = h
      BY <1>2, <2>1, <2>3 DEF At, m
    <3>2. At(b, "own", c, 0)'
      <4>1. b \notin lost' /\ ~Contains(box', b)
        BY <1>1, <2>1, <3>1 DEF At
      <4>2. \A u \in Client : b \in own'[u] <=> u = c
        BY <1>4, <2>1, <2>3, <3>1 DEF At
      <4>3. \A t \in Task : puwMsg'[t] # b
        BY <1>1, <2>1, <3>1 DEF At
      <4>4. \A p \in Queue : \A j \in 0 .. MaxLen - 1 : queue'[p].slot[j] # b
        BY <1>6, <2>1, <2>2, <3>1 DEF At
      <4> QED BY <1>2, <4>1, <4>2, <4>3, <4>4 DEF At, Somewhere
    <3> QED BY <3>2
  <2>4. CASE b # m
    <3>1. b \in lost' <=> b \in lost
      BY <1>1
    <3>2. Contains(box', b) <=> Contains(box, b)
      BY <1>1
    <3>3. \A u \in Client : b \in own'[u] <=> b \in own[u]
      BY <1>4, <2>4
    <3>4. \A t \in Task : puwMsg'[t] = b <=> puwMsg[t] = b
      BY <1>1
    <3>5. \A p \in Queue : \A j \in 0 .. MaxLen - 1 : queue'[p].slot[j] = b <=> queue[p].slot[j] = b
      BY <1>6, <2>2, <2>4 DEF m
    <3>6. At(b, kind, who, i)'
      BY <2>1, <3>1, <3>2, <3>3, <3>4, <3>5 DEF At, Somewhere
    <3> QED BY <3>6
  <2> QED BY <2>3, <2>4
<1>8. Mail'
  BY <1>7 DEF Mail, Block
<1> QED BY <1>1, <1>4, <1>5, <1>8

LEMMA MailSent ==
  ASSUME Typed, Mail, NEW c \in Client, NEW q \in Queue, NEW m \in Block,
         NEW counted \in {0, 1}, m \in own[c], Sent(c, q, m, counted),
         counted <= queue[q].writable, queue' \in [Queue -> QueueRecord],
         queue[q].slot[queue[q].tail] = NoTask
  PROVE  /\ Typed' /\ Mail' /\ box' = box /\ puwMsg' = puwMsg
         /\ \A u \in Client : u # c => own'[u] = own[u]
<1> DEFINE h == queue[q].tail
<1>1. /\ own' = [own EXCEPT ![c] = @ \ {m}] /\ got' = got
      /\ box' = box /\ puwMsg' = puwMsg /\ lost' = lost /\ m # NoTask
  BY QueueAssumption DEF Sent
<1>2. /\ own \in [Client -> SUBSET Block] /\ h \in 0 .. MaxLen - 1
      /\ queue[q].slot \in [0 .. MaxLen - 1 -> Block \cup {NoTask}]
  BY RecordFacts DEF Typed
<1>3. /\ PutInto(queue'[q].slot, queue[q].slot, h, m)
      /\ \A p \in Queue : p # q => queue'[p] = queue[p]
  <2>1. /\ Typed /\ c \in Client /\ q \in Queue /\ m \in Block /\ counted \in {0, 1}
        /\ Sent(c, q, m, counted) /\ counted <= queue[q].writable
    OBVIOUS
  <2>2. MessageGiven(q, m, counted)
    BY <2>1, SentFacts
  <2> QED BY <2>2 DEF MessageGiven
<1>4. /\ \A u \in Client : own'[u] = IF u = c THEN own[u] \ {m} ELSE own[u]
      /\ own' \in [Client -> SUBSET Block]
  BY <1>1, <1>2
<1>5. queue[q].slot[h] = NoTask
  OBVIOUS
<1> HIDE DEF h
<1>6. Typed'
  <2>1. box' = box /\ puwMsg' = puwMsg /\ lost' = lost /\ got' = got
    BY <1>1
  <2>2. IsInjective(box) <=> IsInjective(box')
    BY <1>1
  <2> QED BY <1>4, <2>1, <2>2 DEF Typed, QueueRecord
<1>7. \A p \in Queue : \A j \in 0 .. MaxLen - 1 :
        queue'[p].slot[j] = IF p = q /\ j = h THEN m ELSE queue[p].slot[j]
  BY <1>3 DEF PutInto
<1>8. ASSUME NEW b \in Block PROVE \E kind, who, i : At(b, kind, who, i)'
  <2>1. PICK kind, who, i : At(b, kind, who, i)
    BY DEF Mail
  <2>2. b # NoTask
    BY QueueAssumption
  <2>3. CASE b = m
    <3>1. kind = "own" /\ who = c
      BY <2>1, <2>3 DEF At
    <3>2. ASSUME NEW x, x = h PROVE At(b, "slot", q, x)'
      <4>1. b \notin lost' /\ ~Contains(box', b)
        BY <1>1, <2>1, <3>1 DEF At
      <4>2. \A u \in Client : b \notin own'[u]
        BY <1>4, <2>1, <2>3, <3>1 DEF At
      <4>3. \A t \in Task : puwMsg'[t] # b
        BY <1>1, <2>1, <3>1 DEF At
      <4>4. \A p \in Queue : \A j \in 0 .. MaxLen - 1 : queue'[p].slot[j] = b <=> p = q /\ j = x
        BY <1>7, <2>1, <2>3, <3>1, <3>2 DEF At
      <4> QED BY <1>2, <3>2, <4>1, <4>2, <4>3, <4>4 DEF At, Somewhere
    <3> QED BY <3>2
  <2>4. CASE b # m
    <3>1. b \in lost' <=> b \in lost
      BY <1>1
    <3>2. Contains(box', b) <=> Contains(box, b)
      BY <1>1
    <3>3. \A u \in Client : b \in own'[u] <=> b \in own[u]
      BY <1>4, <2>4
    <3>4. \A t \in Task : puwMsg'[t] = b <=> puwMsg[t] = b
      BY <1>1
    <3>5. \A p \in Queue : \A j \in 0 .. MaxLen - 1 : queue'[p].slot[j] = b <=> queue[p].slot[j] = b
      BY <1>5, <1>7, <2>2, <2>4
    <3>6. At(b, kind, who, i)'
      BY <2>1, <3>1, <3>2, <3>3, <3>4, <3>5 DEF At, Somewhere
    <3> QED BY <3>6
  <2> QED BY <2>3, <2>4
<1>9. Mail'
  BY <1>8 DEF Mail, Block
<1> QED BY <1>1, <1>4, <1>6, <1>9

(* The block on top of the free list is handed out. *)
LEMMA MailPopped ==
  ASSUME Typed, Mail, NEW c \in Client, box # <<>>, box' = Tail(box),
         own' = [own EXCEPT ![c] = @ \cup {Head(box)}],
         queue' = queue, puwMsg' = puwMsg, lost' = lost, got' = got
  PROVE  Typed' /\ Mail' /\ \A u \in Client : own[u] \subseteq own'[u]
<1> DEFINE m == Head(box)
<1>1. own \in [Client -> SUBSET Block] /\ box \in Seq(Block) /\ IsInjective(box)
  BY DEF Typed
<1>2. /\ m \in Block /\ box' \in Seq(Block) /\ IsInjective(box') /\ Contains(box, m)
      /\ \A b : Contains(box', b) <=> Contains(box, b) /\ b # m
  BY <1>1, TailList
<1>3. own' = [own EXCEPT ![c] = @ \cup {m}]
  OBVIOUS
<1> HIDE DEF m
<1>4. /\ \A u \in Client : own'[u] = IF u = c THEN own[u] \cup {m} ELSE own[u]
      /\ own' \in [Client -> SUBSET Block]
  BY <1>1, <1>2, <1>3
<1>5. Typed'
  BY <1>2, <1>4 DEF Typed, QueueRecord
<1>6. ASSUME NEW b \in Block PROVE \E kind, who, i : At(b, kind, who, i)'
  <2>1. PICK kind, who, i : At(b, kind, who, i)
    BY DEF Mail
  <2>2. /\ b \in lost' <=> b \in lost
        /\ \A t \in Task : puwMsg'[t] = b <=> puwMsg[t] = b
        /\ \A p \in Queue : \A j \in 0 .. MaxLen - 1 : queue'[p].slot[j] = b <=> queue[p].slot[j] = b
    OBVIOUS
  <2>3. CASE b = m
    <3>1. kind = "box"
      BY <1>2, <2>1, <2>3 DEF At
    <3>2. \A u \in Client : b \in own'[u] <=> u = c
      BY <1>4, <2>1, <2>3, <3>1 DEF At
    <3>3. At(b, "own", c, 0)'
      BY <1>2, <2>1, <2>2, <2>3, <3>1, <3>2 DEF At, Somewhere
    <3> QED BY <3>3
  <2>4. CASE b # m
    <3>1. \A u \in Client : b \in own'[u] <=> b \in own[u]
      BY <1>4, <2>4
    <3>2. Contains(box', b) <=> Contains(box, b)
      BY <1>2, <2>4
    <3>3. At(b, kind, who, i)'
      BY <2>1, <2>2, <3>1, <3>2 DEF At, Somewhere
    <3> QED BY <3>3
  <2> QED BY <2>3, <2>4
<1>7. Mail'
  BY <1>6 DEF Mail, Block
<1> QED BY <1>4, <1>5, <1>7

(* A freed block goes back to the top of the free list ... *)
LEMMA MailPushed ==
  ASSUME Typed, Mail, NEW c \in Client, NEW m \in Block, m \in own[c],
         box' = <<m>> \o box, own' = [own EXCEPT ![c] = @ \ {m}],
         queue' = queue, puwMsg' = puwMsg, lost' = lost, got' = got
  PROVE  Typed' /\ Mail' /\ \A u \in Client : u # c => own'[u] = own[u]
<1>1. own \in [Client -> SUBSET Block] /\ box \in Seq(Block) /\ IsInjective(box)
  BY DEF Typed
<1>2. \E kind, who, i : At(m, kind, who, i)
  BY DEF Mail
<1>3. ~Contains(box, m)
  BY <1>2 DEF At
<1>4. /\ box' \in Seq(Block) /\ IsInjective(box')
      /\ \A b : Contains(box', b) <=> Contains(box, b) \/ b = m
  BY <1>1, <1>3, PushList
<1>5. /\ \A u \in Client : own'[u] = IF u = c THEN own[u] \ {m} ELSE own[u]
      /\ own' \in [Client -> SUBSET Block]
  BY <1>1
<1>6. Typed'
  BY <1>4, <1>5 DEF Typed, QueueRecord
<1>7. ASSUME NEW b \in Block PROVE \E kind, who, i : At(b, kind, who, i)'
  <2>1. PICK kind, who, i : At(b, kind, who, i)
    BY DEF Mail
  <2>2. /\ b \in lost' <=> b \in lost
        /\ \A t \in Task : puwMsg'[t] = b <=> puwMsg[t] = b
        /\ \A p \in Queue : \A j \in 0 .. MaxLen - 1 : queue'[p].slot[j] = b <=> queue[p].slot[j] = b
    OBVIOUS
  <2>3. CASE b = m
    <3>1. kind = "own" /\ who = c
      BY <2>1, <2>3 DEF At
    <3>2. \A u \in Client : b \notin own'[u]
      BY <1>5, <2>1, <2>3, <3>1 DEF At
    <3>3. At(b, "box", c, 0)'
      BY <1>4, <2>1, <2>2, <2>3, <3>1, <3>2 DEF At, Somewhere
    <3> QED BY <3>3
  <2>4. CASE b # m
    <3>1. \A u \in Client : b \in own'[u] <=> b \in own[u]
      BY <1>5, <2>4
    <3>2. Contains(box', b) <=> Contains(box, b)
      BY <1>4, <2>4
    <3>3. At(b, kind, who, i)'
      BY <2>1, <2>2, <3>1, <3>2 DEF At, Somewhere
    <3> QED BY <3>3
  <2> QED BY <2>3, <2>4
<1>8. Mail'
  BY <1>7 DEF Mail, Block
<1> QED BY <1>5, <1>6, <1>8

(* ... or is put into the TCB of a waiting task w, ... *)
LEMMA MailHanded ==
  ASSUME Typed, Mail, NEW c \in Client, NEW m \in Block, m \in own[c], NEW w \in Task,
         puwMsg[w] = NoTask, puwMsg' = [puwMsg EXCEPT ![w] = m],
         own' = [own EXCEPT ![c] = @ \ {m}],
         queue' = queue, box' = box, lost' = lost, got' = got
  PROVE  Typed' /\ Mail' /\ \A u \in Client : u # c => own'[u] = own[u]
<1>1. own \in [Client -> SUBSET Block] /\ puwMsg \in [Task -> Block \cup {NoTask}] /\ m # NoTask
  BY QueueAssumption DEF Typed
<1>2. /\ \A u \in Client : own'[u] = IF u = c THEN own[u] \ {m} ELSE own[u]
      /\ own' \in [Client -> SUBSET Block]
  BY <1>1
<1>3. /\ \A t \in Task : puwMsg'[t] = IF t = w THEN m ELSE puwMsg[t]
      /\ puwMsg' \in [Task -> Block \cup {NoTask}]
  BY <1>1
<1>4. Typed'
  <2>1. IsInjective(box) <=> IsInjective(box')
    OBVIOUS
  <2> QED BY <1>2, <1>3, <2>1 DEF Typed, QueueRecord
<1>5. ASSUME NEW b \in Block PROVE \E kind, who, i : At(b, kind, who, i)'
  <2>1. PICK kind, who, i : At(b, kind, who, i)
    BY DEF Mail
  <2>2. /\ b \in lost' <=> b \in lost
        /\ Contains(box', b) <=> Contains(box, b)
        /\ \A p \in Queue : \A j \in 0 .. MaxLen - 1 : queue'[p].slot[j] = b <=> queue[p].slot[j] = b
        /\ b # NoTask
    BY QueueAssumption
  <2>3. CASE b = m
    <3>1. kind = "own" /\ who = c
      BY <2>1, <2>3 DEF At
    <3>2. \A u \in Client : b \notin own'[u]
      BY <1>2, <2>1, <2>3, <3>1 DEF At
    <3>3. \A t \in Task : puwMsg'[t] = b <=> t = w
      BY <1>3, <2>1, <2>3, <3>1 DEF At
    <3>4. At(b, "msg", w, 0)'
      BY <2>1, <2>2, <3>1, <3>2, <3>3 DEF At, Somewhere
    <3> QED BY <3>4
  <2>4. CASE b # m
    <3>1. \A u \in Client : b \in own'[u] <=> b \in own[u]
      BY <1>2, <2>4
    <3>2. \A t \in Task : puwMsg'[t] = b <=> puwMsg[t] = b
      BY <1>3, <2>2, <2>4
    <3>3. At(b, kind, who, i)'
      BY <2>1, <2>2, <3>1, <3>2 DEF At, Somewhere
    <3> QED BY <3>3
  <2> QED BY <2>3, <2>4
<1>6. Mail'
  BY <1>5 DEF Mail, Block
<1> QED BY <1>2, <1>4, <1>6

(* ... which takes it when it runs. *)
LEMMA MailTaken ==
  ASSUME Typed, Mail, NEW w \in Task, puwMsg[w] # NoTask,
         own' = [own EXCEPT ![w] = @ \cup {puwMsg[w]}], puwMsg' = [puwMsg EXCEPT ![w] = NoTask],
         queue' = queue, box' = box, lost' = lost, got' = got
  PROVE  Typed' /\ Mail' /\ \A u \in Client : own[u] \subseteq own'[u]
<1> DEFINE m == puwMsg[w]
<1>1. /\ own \in [Client -> SUBSET Block] /\ puwMsg \in [Task -> Block \cup {NoTask}]
      /\ m \in Block /\ w \in Client /\ puwMsg[w] = m
      /\ own' = [own EXCEPT ![w] = @ \cup {m}]
  BY DEF Typed, Client, Thread
<1> HIDE DEF m
<1>2. /\ \A u \in Client : own'[u] = IF u = w THEN own[u] \cup {m} ELSE own[u]
      /\ own' \in [Client -> SUBSET Block]
  BY <1>1
<1>3. /\ \A t \in Task : puwMsg'[t] = IF t = w THEN NoTask ELSE puwMsg[t]
      /\ puwMsg' \in [Task -> Block \cup {NoTask}]
  BY <1>1
<1>4. Typed'
  <2>1. IsInjective(box) <=> IsInjective(box')
    OBVIOUS
  <2> QED BY <1>2, <1>3, <2>1 DEF Typed, QueueRecord
<1>5. ASSUME NEW b \in Block PROVE \E kind, who, i : At(b, kind, who, i)'
  <2>1. PICK kind, who, i : At(b, kind, who, i)
    BY DEF Mail
  <2>2. /\ b \in lost' <=> b \in lost
        /\ Contains(box', b) <=> Contains(box, b)
        /\ \A p \in Queue : \A j \in 0 .. MaxLen - 1 : queue'[p].slot[j] = b <=> queue[p].slot[j] = b
        /\ b # NoTask
    BY QueueAssumption
  <2>3. CASE b = m
    <3>1. kind = "msg" /\ who = w
      BY <1>1, <2>1, <2>3 DEF At
    <3>2. \A u \in Client : b \in own'[u] <=> u = w
      BY <1>2, <2>1, <2>3, <3>1 DEF At
    <3>3. \A t \in Task : puwMsg'[t] # b
      BY <1>3, <2>1, <2>2, <3>1 DEF At
    <3>4. At(b, "own", w, 0)'
      BY <1>1, <2>1, <2>2, <3>1, <3>2, <3>3 DEF At, Somewhere
    <3> QED BY <3>4
  <2>4. CASE b # m
    <3>1. \A u \in Client : b \in own'[u] <=> b \in own[u]
      BY <1>2, <2>4
    <3>2. \A t \in Task : puwMsg'[t] = b <=> puwMsg[t] = b
      BY <1>1, <1>3, <2>2, <2>4
    <3>3. At(b, kind, who, i)'
      BY <2>1, <2>2, <3>1, <3>2 DEF At, Somewhere
    <3> QED BY <3>3
  <2> QED BY <2>3, <2>4
<1>6. Mail'
  BY <1>5 DEF Mail, Block
<1> QED BY <1>2, <1>4, <1>6

NoSlots == [i \in 0 .. MaxLen - 1 |-> NoTask]

(* A queue that is deleted takes its messages with it. *)
LEMMA MailDeleted ==
  ASSUME Typed, Mail, NEW q \in Queue, queue' = [queue EXCEPT ![q] = NoQueue],
         lost' = lost \cup (Range(queue[q].slot) \ {NoTask}),
         box' = box, own' = own, puwMsg' = puwMsg, got' = got
  PROVE  Typed' /\ Mail' /\ queue'[q] = NoQueue /\ \A p \in Queue : p # q => queue'[p] = queue[p]
<1>1. /\ queue \in [Queue -> QueueRecord] /\ NoQueue \in QueueRecord
      /\ NoQueue.slot = NoSlots /\ \A i \in 0 .. MaxLen - 1 : NoSlots[i] = NoTask
  BY QueueAssumption DEF Typed, QueueRecord, NoQueue, NoSlots
<1>2. /\ queue' \in [Queue -> QueueRecord] /\ queue'[q] = NoQueue
      /\ \A p \in Queue : p # q => queue'[p] = queue[p]
  BY <1>1
<1>3. /\ queue[q].slot \in [0 .. MaxLen - 1 -> Block \cup {NoTask}]
      /\ \A b : b \in Range(queue[q].slot) <=> \E i \in 0 .. MaxLen - 1 : queue[q].slot[i] = b
  <2>1. queue[q].slot \in [0 .. MaxLen - 1 -> Block \cup {NoTask}]
    BY RecordFacts
  <2> QED BY <2>1 DEF Range
<1>4. Typed'
  <2>1. IsInjective(box) <=> IsInjective(box')
    OBVIOUS
  <2>2. lost' \subseteq Block
    BY <1>3 DEF Typed
  <2> QED BY <1>2, <2>1, <2>2 DEF Typed, QueueRecord
<1>5. ASSUME NEW b \in Block PROVE \E kind, who, i : At(b, kind, who, i)'
  <2>1. PICK kind, who, i : At(b, kind, who, i)
    BY DEF Mail
  <2>2. /\ Contains(box', b) <=> Contains(box, b)
        /\ \A c \in Client : b \in own'[c] <=> b \in own[c]
        /\ \A t \in Task : puwMsg'[t] = b <=> puwMsg[t] = b
        /\ b # NoTask
    BY QueueAssumption
  <2>3. \A j \in 0 .. MaxLen - 1 : queue'[q].slot[j] # b
    BY <1>1, <1>2, <2>2
  <2>4. CASE kind = "slot" /\ who = q /\ \E j \in 0 .. MaxLen - 1 : queue[q].slot[j] = b
    <3>1. b \in lost'
      BY <1>3, <2>2, <2>4
    <3>2. \A p \in Queue : \A j \in 0 .. MaxLen - 1 : queue'[p].slot[j] # b
      BY <1>2, <2>1, <2>3, <2>4 DEF At
    <3>3. At(b, "lost", q, 0)'
      BY <2>1, <2>2, <2>4, <3>1, <3>2 DEF At, Somewhere
    <3> QED BY <3>3
  <2>5. CASE ~(kind = "slot" /\ who = q /\ \E j \in 0 .. MaxLen - 1 : queue[q].slot[j] = b)
    <3>1. \A j \in 0 .. MaxLen - 1 : queue[q].slot[j] # b
      BY <2>1, <2>5 DEF At
    <3>2. b \in lost' <=> b \in lost
      BY <1>3, <3>1
    <3>3. \A p \in Queue : \A j \in 0 .. MaxLen - 1 : queue'[p].slot[j] = b <=> queue[p].slot[j] = b
      BY <1>2, <2>3, <3>1
    <3>4. At(b, kind, who, i)'
      BY <2>1, <2>2, <3>2, <3>3 DEF At, Somewhere
    <3> QED BY <3>4
  <2> QED BY <2>4, <2>5
<1>6. Mail'
  BY <1>5 DEF Mail, Block
<1> QED BY <1>2, <1>4, <1>6

LEMMA MailCreated ==
  ASSUME Typed, Mail, NEW q \in Queue, NEW n \in 1 .. MaxLen, queue[q] = NoQueue,
         queue' = [queue EXCEPT ![q] = [NoQueue EXCEPT !.used = TRUE, !.len = n, !.writable = n]],
         box' = box, own' = own, puwMsg' = puwMsg, lost' = lost, got' = got
  PROVE  /\ Typed' /\ Mail'
         /\ queue'[q] = [NoQueue EXCEPT !.used = TRUE, !.len = n, !.writable = n]
         /\ \A p \in Queue : p # q => queue'[p] = queue[p]
<1> DEFINE P == [NoQueue EXCEPT !.used = TRUE, !.len = n, !.writable = n]
<1>1. P \in QueueRecord /\ P.slot = NoQueue.slot
  <2>1. n \in 0 .. MaxLen /\ MaxLen \in Nat \ {0}
    BY QueueAssumption
  <2>2. NoQueue \in QueueRecord
    BY QueueAssumption DEF QueueRecord, NoQueue
  <2>3. P \in QueueRecord
    BY <2>1, <2>2 DEF QueueRecord
  <2>4. P.slot = NoQueue.slot
    BY <2>2 DEF QueueRecord
  <2> QED BY <2>3, <2>4
<1>2. queue \in [Queue -> QueueRecord] /\ queue' = [queue EXCEPT ![q] = P]
  BY DEF Typed
<1> HIDE DEF P
<1>3. /\ queue' \in [Queue -> QueueRecord] /\ queue'[q] = P
      /\ \A p \in Queue : p # q => queue'[p] = queue[p]
  BY <1>1, <1>2
<1>4. Typed'
  <2>1. IsInjective(box) <=> IsInjective(box')
    OBVIOUS
  <2> QED BY <1>3, <2>1 DEF Typed, QueueRecord
<1>5. ASSUME NEW b \in Block PROVE \E kind, who, i : At(b, kind, who, i)'
  <2>1. PICK kind, who, i : At(b, kind, who, i)
    BY DEF Mail
  <2>2. \A p \in Queue : \A j \in 0 .. MaxLen - 1 : queue'[p].slot[j] = b <=> queue[p].slot[j] = b
    BY <1>1, <1>3
  <2>3. At(b, kind, who, i)'
    BY <2>1, <2>2 DEF At, Somewhere
  <2> QED BY <2>3
<1>6. Mail'
  BY <1>5 DEF Mail, Block
<1> QED BY <1>3, <1>4, <1>6 DEF P

(***************************************************************************)
(* The invariant.                                                          *)
(***************************************************************************)

(* There is nothing that a member of o's list waits for. *)
Bare(o) ==
  /\ \A q \in Queue : o = <<q, "read">> => queue[q].used /\ queue[q].readable = 0
  /\ \A q \in Queue : o = <<q, "write">> => queue[q].used /\ queue[q].writable = 0
  /\ o = Mem => box = <<>>
Starved == \A o \in WaitObj : k.wait[o] # <<>> => Bare(o)

(* A TCB holds a block until the task it was chosen for has run. *)
Handed == \A t \in Task : puwMsg[t] # NoTask <=> t \in Chosen(Mem)

(* A task that waits for a slot owns what it is going to write. *)
Writing == \A t \in Task, q \in Queue : asked[t].obj = <<q, "write">> => asked[t].msg \in own[t]

QueueInv == Calling /\ Typed /\ Rings /\ Starved /\ Handed /\ Writing /\ Mail

LEMMA NoTurnCounts ==
  ASSUME NoTurn
  PROVE  /\ \A q \in Queue : /\ N(<<q, "read">>)' = N(<<q, "read">>)
                             /\ N(<<q, "write">>)' = N(<<q, "write">>)
         /\ Chosen(Mem)' = Chosen(Mem)
<1>1. NoTask \notin WaitObj
  BY QueueAssumption
<1>2. \A p \in WaitObj : N(p)' = N(p)
  BY <1>1, Counts DEF NoTurn
<1>3. Chosen(Mem)' = Chosen(Mem)
  BY <1>1, Objects DEF NoTurn, Turns
<1> QED BY <1>2, <1>3, Objects

(***************************************************************************)
(* The channel that a queue implements.                                    *)
(***************************************************************************)

LEMMA Modulus ==
  ASSUME NEW i \in Nat, NEW n \in Nat, n > 0, i < 2 * n
  PROVE  i % n = Wrap(i, n)
<1>1. CASE i < n
  BY <1>1 DEF Wrap
<1>2. CASE ~(i < n)
  <2>1. i = n + (i - n) /\ i - n \in Nat /\ i - n < n
    BY <1>2
  <2> QED BY <1>2, <2>1 DEF Wrap
<1> QED BY <1>1, <1>2

(* The n messages in ring S, oldest first. *)
Listed(S, h, n, len) == [i \in 1 .. n |-> S[Wrap(h + i - 1, len)]]
InOrder(M, S, h, n, len) == M = [i \in 1 .. n |-> S[(h + i - 1) % len]]

LEMMA ListedIs ==
  ASSUME NEW M, NEW S, NEW h \in Nat, NEW n \in Nat, NEW len \in Nat, h < len, n <= len,
         InOrder(M, S, h, n, len)
  PROVE  M = Listed(S, h, n, len)
<1>1. ASSUME NEW i \in 1 .. n PROVE (h + i - 1) % len = Wrap(h + i - 1, len)
  <2>1. h + i - 1 \in Nat /\ h + i - 1 < 2 * len /\ len > 0
    OBVIOUS
  <2> QED BY <2>1, Modulus
<1> QED BY <1>1 DEF Listed, InOrder

LEMMA ListedTaken ==
  ASSUME NEW S, NEW T, NEW h \in Nat, NEW n \in Nat, NEW len \in Nat,
         h < len, 0 < n, n <= len, len <= MaxLen, PutInto(T, S, h, NoTask)
  PROVE  LET s == Listed(S, h, n, len)
         IN /\ s # <<>> /\ Head(s) = S[h]
            /\ Listed(T, Following(h, len), n - 1, len) = Tail(s)
<1> DEFINE s == Listed(S, h, n, len)
           g == Following(h, len)
           r == Listed(T, g, n - 1, len)
<1> DEFINE W == {S[Wrap(h + i - 1, len)] : i \in 1 .. n}
<1>0. s \in Seq(W) /\ Len(s) = n
  <2>1. s \in [1 .. n -> W]
    BY DEF Listed
  <2> HIDE DEF s, W
  <2> QED BY <2>1
<1>1. /\ s # <<>> /\ Head(s) = s[1]
      /\ Tail(s) \in Seq(W) /\ Len(Tail(s)) = n - 1
      /\ \A i \in 1 .. n - 1 : Tail(s)[i] = s[i + 1]
  <2> HIDE DEF s, W
  <2>1. s # <<>>
    BY <1>0
  <2>2. Head(s) = s[1]
    BY <1>0, <2>1
  <2>3. Tail(s) \in Seq(W) /\ Len(Tail(s)) = n - 1
    BY <1>0, <2>1
  <2>4. \A i \in 1 .. n - 1 : Tail(s)[i] = s[i + 1]
    BY <1>0, <2>1
  <2> QED BY <2>1, <2>2, <2>3, <2>4
<1>2. \A i \in 1 .. n : s[i] = S[Wrap(h + i - 1, len)]
  BY DEF Listed
<1>3. Wrap(h + 1 - 1, len) = h
  BY DEF Wrap
<1>4. ASSUME NEW i \in 1 .. n - 1 PROVE T[Wrap(g + i - 1, len)] = s[i + 1]
  <2>1. /\ Wrap(g + i - 1, len) = Wrap(h + (i + 1) - 1, len)
        /\ Wrap(g + i - 1, len) \in 0 .. MaxLen - 1 /\ Wrap(g + i - 1, len) # h
    BY QueueAssumption DEF Wrap, Following
  <2>2. s[i + 1] = S[Wrap(h + (i + 1) - 1, len)]
    BY <1>2
  <2> QED BY <2>1, <2>2 DEF PutInto
<1>5. r = Tail(s)
  <2> DEFINE V == W \cup {T[Wrap(g + i - 1, len)] : i \in 1 .. n - 1}
  <2>1. r \in [1 .. n - 1 -> V] /\ \A i \in 1 .. n - 1 : r[i] = T[Wrap(g + i - 1, len)]
    BY DEF Listed
  <2>2. W \subseteq V
    OBVIOUS
  <2> HIDE DEF s, W, V, r, g
  <2>3. r \in Seq(V) /\ Len(r) = n - 1
    BY <2>1
  <2>4. Tail(s) \in Seq(V)
    BY <1>1, <2>2, SeqMonotonic
  <2> QED BY <1>1, <1>4, <2>1, <2>3, <2>4, SeqEqual
<1>6. Head(s) = S[h]
  BY <1>1, <1>2, <1>3
<1> QED BY <1>1, <1>5, <1>6

LEMMA ListedGiven ==
  ASSUME NEW S, NEW T, NEW m, NEW t, NEW h \in Nat, NEW n \in Nat, NEW len \in Nat,
         h < len, n < len, len <= MaxLen, t = Wrap(h + n, len), PutInto(T, S, t, m)
  PROVE  Listed(T, h, n + 1, len) = Append(Listed(S, h, n, len), m)
<1> DEFINE s == Listed(S, h, n, len)
<1>1. /\ Len(s) = n /\ \A i \in 1 .. n : s[i] = S[Wrap(h + i - 1, len)]
      /\ Append(s, m) = [i \in 1 .. n + 1 |-> IF i = n + 1 THEN m ELSE s[i]]
  BY DEF Listed
<1>2. ASSUME NEW i \in 1 .. n + 1 PROVE T[Wrap(h + i - 1, len)] = IF i = n + 1 THEN m ELSE s[i]
  <2>1. /\ Wrap(h + i - 1, len) \in 0 .. MaxLen - 1
        /\ Wrap(h + i - 1, len) = Wrap(h + n, len) <=> i = n + 1
    BY QueueAssumption DEF Wrap
  <2> QED BY <1>1, <2>1 DEF PutInto
<1> QED BY <1>1, <1>2 DEF Listed

(* The abstract state. *)
Chan == [q \in Queue |->
          [open |-> queue[q].used, cap |-> queue[q].len, buf |-> Messages(q)]]

LEMMA MessagesAre ==
  ASSUME NEW q \in Queue
  PROVE  /\ InOrder(Messages(q), queue[q].slot, queue[q].head,
                    queue[q].readable + N(<<q, "read">>), queue[q].len)
         /\ InOrder(Messages(q)', queue'[q].slot, queue'[q].head,
                    queue'[q].readable + N(<<q, "read">>)', queue'[q].len)
BY DEF Messages, N, InOrder

LEMMA MessagesSame ==
  ASSUME NEW q \in Queue, queue'[q] = queue[q], N(<<q, "read">>)' = N(<<q, "read">>)
  PROVE  Messages(q)' = Messages(q)
<1>1. InOrder(Messages(q)', queue[q].slot, queue[q].head,
              queue[q].readable + N(<<q, "read">>), queue[q].len)
  BY MessagesAre
<1> QED BY <1>1, MessagesAre DEF InOrder

LEMMA TakingGets ==
  ASSUME Typed, Rings, NEW c \in Client, NEW q \in Queue, NEW counted \in {0, 1}, NEW d, NEW a,
         queue[q].used, counted <= queue[q].readable, Received(c, q, counted),
         Turns(Taker(q, counted), d, Woken(<<q, "write">>), a)
  PROVE  C!Get(q)
<1> DEFINE S == queue[q].slot
           T == queue'[q].slot
           h == queue[q].head
           l == queue[q].len
           r == N(<<q, "read">>)
           s == N(<<q, "read">>)'
           n == queue[q].readable + r
<1>1. /\ queue'[q].used = queue[q].used /\ queue'[q].len = l
      /\ queue'[q].head = Following(h, l) /\ queue'[q].readable = queue[q].readable - counted
      /\ PutInto(T, S, h, NoTask)
      /\ \A p \in Queue : p # q => queue'[p] = queue[p]
  <2>1. MessageTaken(q, counted)
    BY ReceivedFacts
  <2> QED BY <2>1 DEF MessageTaken
<1>2. /\ r \in Nat /\ s \in Nat /\ r = s + (1 - counted) /\ N(<<q, "write">>) \in Nat
      /\ \A p \in Queue : p # q => N(<<p, "read">>)' = N(<<p, "read">>)
  BY TakingCounts
<1>3. /\ l \in Nat /\ h \in Nat /\ queue[q].readable \in Nat /\ queue[q].writable \in Nat
      /\ l <= MaxLen
  BY RecordFacts
<1>4. n + queue[q].writable + N(<<q, "write">>) = l /\ h < l /\ counted <= queue[q].readable
  BY DEF Rings, Ring
<1>5. n \in Nat /\ 0 < n /\ n <= l /\ queue'[q].readable + s = n - 1
  BY <1>1, <1>2, <1>3, <1>4
<1>6. /\ InOrder(Messages(q), S, h, n, l)
      /\ InOrder(Messages(q)', T, Following(h, l), n - 1, l)
  BY <1>1, <1>5, MessagesAre
<1>7. got' = S[h]
  BY DEF Received
<1> HIDE DEF S, T, h, l, r, s, n
<1>8. Messages(q) # <<>> /\ Head(Messages(q)) = S[h] /\ Messages(q)' = Tail(Messages(q))
  <2>1. Following(h, l) \in Nat /\ Following(h, l) < l /\ n - 1 \in Nat /\ n - 1 <= l
    BY <1>3, <1>4, <1>5 DEF Following
  <2>2. Messages(q) = Listed(S, h, n, l)
    BY <1>3, <1>4, <1>5, <1>6, ListedIs
  <2>3. Messages(q)' = Listed(T, Following(h, l), n - 1, l)
    BY <1>3, <1>6, <2>1, ListedIs
  <2>4. /\ Listed(S, h, n, l) # <<>> /\ Head(Listed(S, h, n, l)) = S[h]
        /\ Listed(T, Following(h, l), n - 1, l) = Tail(Listed(S, h, n, l))
    BY <1>1, <1>3, <1>4, <1>5, ListedTaken
  <2> QED BY <2>2, <2>3, <2>4
<1>9. \A p \in Queue : p # q => Messages(p)' = Messages(p)
  <2>1. ASSUME NEW p \in Queue, p # q PROVE Messages(p)' = Messages(p)
    BY <1>1, <1>2, <2>1, MessagesSame
  <2> QED BY <2>1
<1>10. Chan' = [Chan EXCEPT ![q].buf = Tail(@)]
  BY <1>1, <1>8, <1>9 DEF Chan, l
<1>11. Chan[q].open /\ Chan[q].buf = Messages(q)
  BY DEF Chan
<1> QED BY <1>7, <1>8, <1>10, <1>11 DEF C!Get, Chan

LEMMA GivingPuts ==
  ASSUME Typed, Rings, NEW c \in Client, NEW q \in Queue, NEW m \in Block,
         NEW counted \in {0, 1}, NEW d, NEW a,
         queue[q].used, counted <= queue[q].writable, Sent(c, q, m, counted),
         Turns(Giver(q, counted), d, Woken(<<q, "read">>), a)
  PROVE  C!Put(q, m)
<1> DEFINE S == queue[q].slot
           T == queue'[q].slot
           h == queue[q].head
           l == queue[q].len
           r == N(<<q, "read">>)
           s == N(<<q, "read">>)'
           w == N(<<q, "write">>)
           v == N(<<q, "write">>)'
           n == queue[q].readable + r
<1>1. /\ queue'[q].used = queue[q].used /\ queue'[q].len = l /\ queue'[q].head = h
      /\ queue'[q].readable = IF k.wait[<<q, "read">>] # <<>> THEN queue[q].readable
                              ELSE queue[q].readable + 1
      /\ PutInto(T, S, queue[q].tail, m)
      /\ \A p \in Queue : p # q => queue'[p] = queue[p]
  <2>1. /\ Typed /\ c \in Client /\ q \in Queue /\ m \in Block /\ counted \in {0, 1}
        /\ Sent(c, q, m, counted) /\ counted <= queue[q].writable
    OBVIOUS
  <2> HIDE DEF S, T, h, l, r, s, w, v, n
  <2>2. MessageGiven(q, m, counted)
    BY <2>1, SentFacts
  <2> QED BY <2>2 DEF MessageGiven, S, T, h, l
<1>2. /\ r \in Nat /\ s \in Nat /\ w \in Nat /\ v \in Nat /\ w = v + (1 - counted)
      /\ s = IF k.wait[<<q, "read">>] # <<>> THEN r + 1 ELSE r
      /\ \A p \in Queue : p # q => N(<<p, "read">>)' = N(<<p, "read">>)
  BY GivingCounts
<1>3. /\ l \in Nat /\ h \in Nat /\ queue[q].readable \in Nat /\ queue[q].writable \in Nat
      /\ l <= MaxLen
  BY RecordFacts
<1>4. /\ n + queue[q].writable + w = l /\ h < l /\ counted <= queue[q].writable
      /\ queue[q].tail = Wrap(h + n, l)
  BY DEF Rings, Ring
<1>5. n \in Nat /\ n < l /\ queue'[q].readable + s = n + 1
  <2>1. n \in Nat
    <3> DEFINE x == queue[q].readable
    <3>1. x \in Nat /\ r \in Nat /\ n = x + r
      BY <1>2, <1>3
    <3> HIDE DEF x, r, n
    <3> QED BY <3>1
  <2>2. queue'[q].readable + s = n + 1
    <3> DEFINE x == queue[q].readable
               y == queue'[q].readable
    <3>1. /\ x \in Nat /\ r \in Nat /\ n = x + r
          /\ y = IF k.wait[<<q, "read">>] # <<>> THEN x ELSE x + 1
          /\ s = IF k.wait[<<q, "read">>] # <<>> THEN r + 1 ELSE r
      BY <1>1, <1>2, <1>3
    <3> HIDE DEF x, y, r, s, n
    <3> QED BY <3>1 DEF y
  <2>3. queue[q].writable + w > 0
    BY <1>2, <1>3, <1>4
  <2>4. n < l
    <3> DEFINE y == queue[q].writable
    <3>1. n + y + w = l /\ y + w > 0 /\ y \in Nat /\ w \in Nat /\ n \in Nat /\ l \in Nat
      BY <1>2, <1>3, <1>4, <2>1, <2>3
    <3> HIDE DEF y, w, n, l
    <3> QED BY <3>1
  <2> QED BY <2>1, <2>2, <2>4
<1>6. InOrder(Messages(q), S, h, n, l) /\ InOrder(Messages(q)', T, h, n + 1, l)
  BY <1>1, <1>5, MessagesAre
<1>7. got' = got
  BY DEF Sent
<1> HIDE DEF S, T, h, l, r, s, w, v, n
<1>8. Messages(q)' = Append(Messages(q), m) /\ Len(Messages(q)) = n
  <2>1. n + 1 \in Nat /\ n + 1 <= l
    BY <1>3, <1>5
  <2>2. Messages(q) = Listed(S, h, n, l)
    BY <1>3, <1>4, <1>5, <1>6, ListedIs
  <2>3. Messages(q)' = Listed(T, h, n + 1, l)
    BY <1>3, <1>4, <1>6, <2>1, ListedIs
  <2>4. Listed(T, h, n + 1, l) = Append(Listed(S, h, n, l), m)
    <3>1. /\ h \in Nat /\ n \in Nat /\ l \in Nat /\ h < l /\ n < l /\ l <= MaxLen
          /\ queue[q].tail = Wrap(h + n, l) /\ PutInto(T, S, queue[q].tail, m)
      BY <1>1, <1>3, <1>4, <1>5
    <3> QED BY <3>1, ListedGiven
  <2>5. Len(Listed(S, h, n, l)) = n
    BY <1>5 DEF Listed
  <2> QED BY <2>2, <2>3, <2>4, <2>5
<1>9. \A p \in Queue : p # q => Messages(p)' = Messages(p)
  <2>1. ASSUME NEW p \in Queue, p # q PROVE Messages(p)' = Messages(p)
    BY <1>1, <1>2, <2>1, MessagesSame
  <2> QED BY <2>1
<1>10. Chan' = [Chan EXCEPT ![q].buf = Append(@, m)]
  BY <1>1, <1>8, <1>9 DEF Chan, l
<1>11. Chan[q].open /\ Len(Chan[q].buf) < Chan[q].cap
  BY <1>5, <1>8 DEF Chan, l
<1> QED BY <1>7, <1>10, <1>11 DEF C!Put, Chan

(* The messages stay when the queues and who has been chosen to read stay. *)
LEMMA ChanStays ==
  ASSUME queue' = queue, got' = got, \A q \in Queue : N(<<q, "read">>)' = N(<<q, "read">>)
  PROVE  UNCHANGED <<Chan, got>>
<1>1. ASSUME NEW q \in Queue PROVE Messages(q)' = Messages(q)
  BY MessagesSame
<1> QED BY <1>1 DEF Chan

(* A step of the queues is a step of the channel, or none. *)
Passes == [C!Next]_<<Chan, got>>

LEMMA NoneListed ==
  ASSUME NEW M, NEW S, NEW h, NEW len, InOrder(M, S, h, 0, len)
  PROVE  M = <<>>
BY DEF InOrder

(* A queue is created, or a deleted one is as it was. *)
LEMMA Reopened ==
  ASSUME NEW q \in Queue, N(<<q, "read">>)' = 0, queue'[q].readable = 0,
         \A p \in Queue : p # q => queue'[p] = queue[p] /\ N(<<p, "read">>)' = N(<<p, "read">>)
  PROVE  Chan' = [Chan EXCEPT ![q] = [open |-> queue'[q].used, cap |-> queue'[q].len,
                                      buf |-> <<>>]]
<1>1. Messages(q)' = <<>>
  <2>1. queue'[q].readable + N(<<q, "read">>)' = 0
    OBVIOUS
  <2>2. InOrder(Messages(q)', queue'[q].slot, queue'[q].head, 0, queue'[q].len)
    BY <2>1, MessagesAre
  <2> QED BY <2>2, NoneListed
<1>2. ASSUME NEW p \in Queue, p # q PROVE Messages(p)' = Messages(p)
  BY <1>2, MessagesSame
<1> QED BY <1>1, <1>2 DEF Chan

(* Nothing but the kernel, and what a thread waits for, has changed. *)
LEMMA KernelStep ==
  ASSUME QueueInv, Calling', NoTurn, NEW o, Fills(o), o \in WaitObj => Bare(o),
         queue' = queue, box' = box, puwMsg' = puwMsg, own' = own, lost' = lost, got' = got,
         \A t \in Task, q \in Queue :
           asked'[t].obj = <<q, "write">> => asked'[t] = asked[t] \/ asked'[t].msg \in own[t]
  PROVE  QueueInv' /\ Passes
<1>1. Typed' /\ Mail'
  <2>1. Typed /\ Mail
    BY DEF QueueInv
  <2>2. Typed'
    BY <2>1 DEF Typed, QueueRecord, Block
  <2>3. ASSUME NEW b \in Block, NEW kind, NEW who, NEW i, At(b, kind, who, i)
        PROVE  At(b, kind, who, i)'
    BY <2>3 DEF At, Somewhere
  <2>4. \A b \in Block : \E kind, who, i : At(b, kind, who, i)'
    BY <2>1, <2>3 DEF Mail
  <2>5. Mail'
    BY <2>4 DEF Mail, Block
  <2> QED BY <2>2, <2>5
<1>2. /\ \A q \in Queue : /\ N(<<q, "read">>)' = N(<<q, "read">>)
                          /\ N(<<q, "write">>)' = N(<<q, "write">>)
      /\ Chosen(Mem)' = Chosen(Mem)
  BY NoTurnCounts
<1>3. Rings'
  BY <1>2 DEF QueueInv, Rings, Ring, Holding, NoQueue
<1>4. Starved'
  BY DEF QueueInv, Starved, Bare, Fills, Mem
<1>5. Handed'
  BY <1>2 DEF QueueInv, Handed
<1>6. Writing'
  BY DEF QueueInv, Writing
<1>7. Passes
  BY <1>2, ChanStays DEF Passes
<1> QED BY <1>1, <1>3, <1>4, <1>5, <1>6, <1>7 DEF QueueInv

LEMMA TakeStep ==
  ASSUME QueueInv, Calling', NEW c \in Client, NEW q \in Queue, NEW counted \in {0, 1},
         NEW d, NEW a, queue[q].used, counted <= queue[q].readable, Received(c, q, counted),
         Turns(Taker(q, counted), d, Woken(<<q, "write">>), a), Fills(NoTask),
         \A t \in Task : asked'[t].obj # NoTask => asked'[t] = asked[t]
  PROVE  QueueInv' /\ Passes
<1>1. Typed /\ Rings /\ Mail /\ Starved /\ Handed /\ Writing
  BY DEF QueueInv
<1>2. Rings' /\ queue' \in [Queue -> QueueRecord] /\ queue[q].slot[queue[q].head] \in Block
  BY <1>1, TakingRings
<1>3. Typed' /\ Mail' /\ box' = box /\ puwMsg' = puwMsg /\ \A u \in Client : own[u] \subseteq own'[u]
  BY <1>1, <1>2, MailReceived
<1>4. /\ queue'[q].used = queue[q].used /\ queue'[q].readable = queue[q].readable - counted
      /\ queue'[q].writable = IF k.wait[<<q, "write">>] # <<>> THEN queue[q].writable
                              ELSE queue[q].writable + 1
      /\ \A p \in Queue : p # q => queue'[p] = queue[p]
      /\ queue[q].readable \in Nat
  <2>1. MessageTaken(q, counted) /\ queue[q].readable \in Nat
    BY <1>1, ReceivedFacts, RecordFacts
  <2> QED BY <2>1 DEF MessageTaken
<1>5. \A o \in WaitObj : k'.wait[o] # <<>> => k.wait[o] # <<>> /\ Bare(o)
  BY <1>1, QueueAssumption DEF Fills, Starved
<1>6. Starved'
  <2>1. ASSUME NEW o \in WaitObj, k.wait[o] # <<>>, Bare(o) PROVE Bare(o)'
    <3>1. ASSUME NEW p \in Queue, o = <<p, "read">>
          PROVE  queue'[p].used /\ queue'[p].readable = 0
      <4>1. queue[p].used /\ queue[p].readable = 0
        BY <2>1, <3>1 DEF Bare
      <4>2. p = q => counted = 0
        BY <4>1
      <4>3. p = q => queue'[p].readable = 0
        BY <1>4, <4>1, <4>2
      <4> QED BY <1>4, <4>1, <4>3
    <3>2. ASSUME NEW p \in Queue, o = <<p, "write">>
          PROVE  queue'[p].used /\ queue'[p].writable = 0
      <4>1. queue[p].used /\ queue[p].writable = 0
        BY <2>1, <3>2 DEF Bare
      <4> QED BY <1>4, <2>1, <3>2, <4>1
    <3>3. o = Mem => box' = <<>>
      BY <1>3, <2>1 DEF Bare
    <3> QED BY <3>1, <3>2, <3>3 DEF Bare, Mem
  <2> QED BY <1>5, <2>1 DEF Starved
<1>7. Handed'
  <2>1. Mem \in WaitObj /\ Mem # Taker(q, counted) /\ Mem # Woken(<<q, "write">>)
    BY Objects, QueueAssumption DEF Taker, Woken
  <2>2. Chosen(Mem)' = Chosen(Mem)
    BY <2>1 DEF Turns
  <2> QED BY <1>1, <1>3, <2>2 DEF Handed
<1>8. Writing'
  <2>1. ASSUME NEW t \in Task, NEW p \in Queue, asked'[t].obj = <<p, "write">>
        PROVE  asked'[t].msg \in own'[t]
    <3>1. asked'[t] = asked[t]
      <4>1. <<p, "write">> # NoTask
        BY Objects, QueueAssumption
      <4> QED BY <2>1, <4>1
    <3>2. t \in Client
      BY DEF Client, Thread
    <3> QED BY <1>1, <1>3, <2>1, <3>1, <3>2 DEF Writing
  <2> QED BY <2>1 DEF Writing
<1>9. Passes
  <2>1. C!Get(q)
    BY <1>1, TakingGets
  <2> QED BY <2>1 DEF Passes, C!Next
<1> QED BY <1>2, <1>3, <1>6, <1>7, <1>8, <1>9 DEF QueueInv

LEMMA GiveStep ==
  ASSUME QueueInv, Calling', NEW c \in Client, NEW q \in Queue, NEW m \in Block,
         NEW counted \in {0, 1}, NEW d, NEW a, queue[q].used, counted <= queue[q].writable,
         m \in own[c], Sent(c, q, m, counted),
         Turns(Giver(q, counted), d, Woken(<<q, "read">>), a), Fills(NoTask),
         \A t \in Task : asked'[t].obj # NoTask => asked'[t] = asked[t] /\ t # c
  PROVE  QueueInv' /\ Passes
<1>1. Typed /\ Rings /\ Mail /\ Starved /\ Handed /\ Writing
  BY DEF QueueInv
<1>2. Rings' /\ queue' \in [Queue -> QueueRecord] /\ queue[q].slot[queue[q].tail] = NoTask
  <2>1. /\ Typed /\ Rings /\ c \in Client /\ q \in Queue /\ m \in Block /\ counted \in {0, 1}
        /\ queue[q].used /\ counted <= queue[q].writable /\ Sent(c, q, m, counted)
        /\ Turns(Giver(q, counted), d, Woken(<<q, "read">>), a)
    BY <1>1
  <2> QED BY <2>1, GivingRings, ZenonT(60)
<1>3. Typed' /\ Mail' /\ box' = box /\ puwMsg' = puwMsg /\ \A u \in Client : u # c => own'[u] = own[u]
  <2>1. /\ Typed /\ Mail /\ c \in Client /\ q \in Queue /\ m \in Block /\ counted \in {0, 1}
        /\ m \in own[c] /\ Sent(c, q, m, counted) /\ counted <= queue[q].writable
        /\ queue' \in [Queue -> QueueRecord] /\ queue[q].slot[queue[q].tail] = NoTask
    BY <1>1, <1>2
  <2> QED BY <2>1, MailSent, ZenonT(60)
<1>4. /\ queue'[q].used = queue[q].used /\ queue'[q].writable = queue[q].writable - counted
      /\ queue'[q].readable = IF k.wait[<<q, "read">>] # <<>> THEN queue[q].readable
                              ELSE queue[q].readable + 1
      /\ \A p \in Queue : p # q => queue'[p] = queue[p]
      /\ queue[q].writable \in Nat
  <2>1. /\ Typed /\ c \in Client /\ q \in Queue /\ m \in Block /\ counted \in {0, 1}
        /\ Sent(c, q, m, counted) /\ counted <= queue[q].writable
    BY <1>1
  <2>2. queue[q].writable \in Nat
    BY <1>1, RecordFacts
  <2>3. MessageGiven(q, m, counted)
    BY <2>1, SentFacts
  <2> QED BY <2>2, <2>3 DEF MessageGiven
<1>5. \A o \in WaitObj : k'.wait[o] # <<>> => k.wait[o] # <<>> /\ Bare(o)
  BY <1>1, QueueAssumption DEF Fills, Starved
<1>6. Starved'
  <2>1. ASSUME NEW o \in WaitObj, k.wait[o] # <<>>, Bare(o) PROVE Bare(o)'
    <3>1. ASSUME NEW p \in Queue, o = <<p, "read">>
          PROVE  queue'[p].used /\ queue'[p].readable = 0
      <4>1. queue[p].used /\ queue[p].readable = 0
        BY <2>1, <3>1 DEF Bare
      <4> QED BY <1>4, <2>1, <3>1, <4>1
    <3>2. ASSUME NEW p \in Queue, o = <<p, "write">>
          PROVE  queue'[p].used /\ queue'[p].writable = 0
      <4>1. queue[p].used /\ queue[p].writable = 0
        BY <2>1, <3>2 DEF Bare
      <4>2. p = q => counted = 0
        BY <4>1
      <4>3. p = q => queue'[p].writable = 0
        BY <1>4, <4>1, <4>2
      <4> QED BY <1>4, <4>1, <4>3
    <3>3. o = Mem => box' = <<>>
      BY <1>3, <2>1 DEF Bare
    <3> QED BY <3>1, <3>2, <3>3 DEF Bare, Mem
  <2> QED BY <1>5, <2>1 DEF Starved
<1>7. Handed'
  <2>1. Mem \in WaitObj /\ Mem # Giver(q, counted) /\ Mem # Woken(<<q, "read">>)
    BY Objects, QueueAssumption DEF Giver, Woken
  <2>2. Chosen(Mem)' = Chosen(Mem)
    BY <2>1 DEF Turns
  <2> QED BY <1>1, <1>3, <2>2 DEF Handed
<1>8. Writing'
  <2>1. ASSUME NEW t \in Task, NEW p \in Queue, asked'[t].obj = <<p, "write">>
        PROVE  asked'[t].msg \in own'[t]
    <3>1. asked'[t] = asked[t] /\ t # c
      <4>1. <<p, "write">> # NoTask
        BY Objects, QueueAssumption
      <4> QED BY <2>1, <4>1
    <3>2. t \in Client
      BY DEF Client, Thread
    <3> QED BY <1>1, <1>3, <2>1, <3>1, <3>2 DEF Writing
  <2> QED BY <2>1 DEF Writing
<1>9. Passes
  <2>1. /\ Typed /\ Rings /\ c \in Client /\ q \in Queue /\ m \in Block /\ counted \in {0, 1}
        /\ queue[q].used /\ counted <= queue[q].writable /\ Sent(c, q, m, counted)
        /\ Turns(Giver(q, counted), d, Woken(<<q, "read">>), a)
    BY <1>1
  <2>2. C!Put(q, m)
    BY <2>1, GivingPuts, ZenonT(60)
  <2> QED BY <2>2 DEF Passes, C!Next
<1> QED BY <1>2, <1>3, <1>6, <1>7, <1>8, <1>9 DEF QueueInv

(***************************************************************************)
(* The steps.                                                              *)
(***************************************************************************)

(* A call that wakes o's first waiter if there is one. *)
LEMMA CallCalling ==
  ASSUME Placid, Calling, NEW c, NEW op, NEW o \in WaitObj, NEW x,
         x = IF k.wait[o] # <<>> THEN osQueueWakeUp(k, o) ELSE k,
         CallBy(c, op, x, k.wait[o] # <<>>), asked' = asked
  PROVE  /\ Calling' /\ Turns(NoTask, NoTask, Woken(o), Head(k.wait[o])) /\ Fills(NoTask)
         /\ \A t \in Task : asked'[t].obj # NoTask => asked'[t] = asked[t] /\ t # c
<1>1. \A t \in Task : asked'[t].obj # NoTask => asked'[t] = asked[t] /\ t # c
  <2>1. c = NoTask \/ (c = k.run /\ pc[c] = "user")
    BY DEF CallBy, UserCode, InTask
  <2>2. \A t \in Task : t \in Thread /\ t # NoTask
    BY TaskAssumption DEF Thread
  <2>3. \A t \in Thread : pc[t] \notin Inside => asked[t].obj = NoTask
    BY DEF Calling, Asking
  <2> QED BY <2>1, <2>2, <2>3 DEF Inside
<1>2. CASE k.wait[o] # <<>>
  <2>1. CallBy(c, op, osQueueWakeUp(k, o), TRUE) /\ Woken(o) = o
    BY <1>2 DEF CallBy, Woken
  <2>2. Calling' /\ Turns(NoTask, NoTask, o, Head(k.wait[o])) /\ Fills(NoTask)
    BY <1>2, <2>1, WakeCalling
  <2> QED BY <1>1, <2>1, <2>2
<1>3. CASE k.wait[o] = <<>>
  <2>1. UNCHANGED vars /\ Woken(o) = NoTask
    BY <1>3 DEF CallBy, Woken, vars
  <2>2. [Next]_vars
    BY <2>1
  <2>3. Calling' /\ NoTurn /\ Fills(NoTask)
    BY <2>2, TaskCalling
  <2>4. Turns(NoTask, NoTask, NoTask, Head(k.wait[o]))
    BY <2>3, QueueAssumption DEF NoTurn, Turns
  <2> QED BY <1>1, <2>1, <2>3, <2>4
<1> QED BY <1>2, <1>3

(* A thread whose wait for r has ended wakes o's first waiter if there is one. *)
LEMMA ReturnsCalling ==
  ASSUME Calling, NEW r \in WaitObj, NEW o \in WaitObj, r # o,
         Wakes(r), ~Has(k, k.run, "TIMEOUT"),
         k' = IF k.wait[o] # <<>> THEN osQueueWakeUp(k, o) ELSE k,
         Goto(k.run, IF k.wait[o] # <<>> THEN "sched" ELSE "user")
  PROVE  /\ Calling' /\ Turns(r, k.run, Woken(o), Head(k.wait[o])) /\ Fills(NoTask)
         /\ \A t \in Task : asked'[t].obj # NoTask => asked'[t] = asked[t] /\ t # k.run
         /\ k.run \in Task
<1>1. /\ k.run \in Task /\ asked'[k.run].obj = NoTask
      /\ \A t \in Task : t # k.run => asked'[t] = asked[t]
  BY WokenFacts DEF Thread
<1>2. CASE k.wait[o] # <<>>
  <2>1. k' = osQueueWakeUp(k, o) /\ Goto(k.run, "sched") /\ Woken(o) = o
    BY <1>2 DEF Woken
  <2>2. Calling' /\ Turns(r, k.run, o, Head(k.wait[o])) /\ Fills(NoTask)
    BY <1>2, <2>1, ReturnWakes
  <2> QED BY <1>1, <2>1, <2>2
<1>3. CASE k.wait[o] = <<>>
  <2>1. k' = k /\ Goto(k.run, "user") /\ Woken(o) = NoTask
    BY <1>3 DEF Woken
  <2>2. Calling' /\ Turns(r, k.run, NoTask, NoTask) /\ Fills(NoTask)
    BY <2>1, ReturnCalling
  <2>3. Turns(r, k.run, NoTask, Head(k.wait[o]))
    BY <2>2, QueueAssumption DEF Turns
  <2> QED BY <1>1, <2>1, <2>2, <2>3
<1> QED BY <1>2, <1>3

LEMMA ReadNowStep ==
  ASSUME Placid, QueueInv, NEW q \in Queue, NEW c \in Client, ReadNow(c, q)
  PROVE  QueueInv' /\ Passes
<1> DEFINE o == <<q, "write">>
<1>1. /\ queue[q].used /\ queue[q].readable > 0 /\ Received(c, q, 1) /\ asked' = asked
      /\ CallBy(c, "read", AfterRead(q), k.wait[o] # <<>>)
      /\ AfterRead(q) = IF k.wait[o] # <<>> THEN osQueueWakeUp(k, o) ELSE k
  BY DEF ReadNow, AfterRead
<1>2. /\ Calling' /\ Turns(NoTask, NoTask, Woken(o), Head(k.wait[o])) /\ Fills(NoTask)
      /\ \A t \in Task : asked'[t].obj # NoTask => asked'[t] = asked[t] /\ t # c
  <2>1. Calling /\ o \in WaitObj
    BY Objects DEF QueueInv
  <2> HIDE DEF o
  <2> QED BY <1>1, <2>1, CallCalling
<1>3. Taker(q, 1) = NoTask /\ 1 \in {0, 1} /\ 1 <= queue[q].readable
  BY <1>1, RecordFacts DEF Taker, QueueInv
<1> QED BY <1>1, <1>2, <1>3, TakeStep

LEMMA ReadReturnsStep ==
  ASSUME QueueInv, NEW q \in Queue, ReadReturns(q)
  PROVE  QueueInv' /\ Passes
<1> DEFINE o == <<q, "write">>
           r == <<q, "read">>
<1>1. /\ Wakes(r) /\ ~Has(k, k.run, "TIMEOUT") /\ Received(k.run, q, 0)
      /\ k' = IF k.wait[o] # <<>> THEN osQueueWakeUp(k, o) ELSE k
      /\ Goto(k.run, IF k.wait[o] # <<>> THEN "sched" ELSE "user")
  BY DEF ReadReturns, AfterRead
<1>2. /\ Calling' /\ Turns(r, k.run, Woken(o), Head(k.wait[o])) /\ Fills(NoTask)
      /\ \A t \in Task : asked'[t].obj # NoTask => asked'[t] = asked[t] /\ t # k.run
      /\ k.run \in Task
  <2>1. Calling /\ o \in WaitObj /\ r \in WaitObj /\ r # o
    BY Objects DEF QueueInv
  <2> HIDE DEF o, r
  <2> QED BY <1>1, <2>1, ReturnsCalling
<1>3. Taker(q, 0) = r /\ 0 \in {0, 1} /\ 0 <= queue[q].readable
  BY RecordFacts DEF Taker, QueueInv
<1>4. queue[q].used
  <2>1. N(r) # 0
    <3>1. r \in WaitObj
      BY Objects
    <3> HIDE DEF r, o
    <3>2. N(r) \in Nat /\ N(r) > 0
      BY <1>2, <3>1, Counts
    <3> QED BY <3>2
  <2>2. Rings
    BY DEF QueueInv
  <2> QED BY <2>1, <2>2 DEF Rings
<1>5. k.run \in Client
  BY <1>2 DEF Client, Thread
<1> QED BY <1>1, <1>2, <1>3, <1>4, <1>5, TakeStep

LEMMA WriteNowStep ==
  ASSUME Placid, QueueInv, NEW q \in Queue, NEW c \in Client, NEW m \in Block, WriteNow(c, q, m)
  PROVE  QueueInv' /\ Passes
<1> DEFINE o == <<q, "read">>
<1>1. /\ queue[q].used /\ queue[q].writable > 0 /\ m \in own[c]
      /\ Sent(c, q, m, 1) /\ asked' = asked
      /\ CallBy(c, "write", AfterWrite(q), k.wait[o] # <<>>)
      /\ AfterWrite(q) = IF k.wait[o] # <<>> THEN osQueueWakeUp(k, o) ELSE k
  BY DEF WriteNow, AfterWrite
<1>2. /\ Calling' /\ Turns(NoTask, NoTask, Woken(o), Head(k.wait[o])) /\ Fills(NoTask)
      /\ \A t \in Task : asked'[t].obj # NoTask => asked'[t] = asked[t] /\ t # c
  <2>1. Calling /\ o \in WaitObj
    BY Objects DEF QueueInv
  <2> HIDE DEF o
  <2> QED BY <1>1, <2>1, CallCalling
<1>3. Giver(q, 1) = NoTask /\ 1 \in {0, 1} /\ 1 <= queue[q].writable
  BY <1>1, RecordFacts DEF Giver, QueueInv
<1>4. Turns(Giver(q, 1), NoTask, Woken(o), Head(k.wait[o]))
  BY <1>2, <1>3
<1> QED BY <1>1, <1>2, <1>3, <1>4, GiveStep, ZenonT(60)

LEMMA WriteReturnsStep ==
  ASSUME QueueInv, NEW q \in Queue, WriteReturns(q)
  PROVE  QueueInv' /\ Passes
<1> DEFINE o == <<q, "read">>
           r == <<q, "write">>
           m == asked[k.run].msg
<1>1. /\ Wakes(r) /\ ~Has(k, k.run, "TIMEOUT") /\ Sent(k.run, q, m, 0)
      /\ k' = IF k.wait[o] # <<>> THEN osQueueWakeUp(k, o) ELSE k
      /\ Goto(k.run, IF k.wait[o] # <<>> THEN "sched" ELSE "user")
  BY DEF WriteReturns, AfterWrite
<1>2. /\ Calling' /\ Turns(r, k.run, Woken(o), Head(k.wait[o])) /\ Fills(NoTask)
      /\ \A t \in Task : asked'[t].obj # NoTask => asked'[t] = asked[t] /\ t # k.run
      /\ k.run \in Task
  <2>1. Calling /\ o \in WaitObj /\ r \in WaitObj /\ r # o
    BY Objects DEF QueueInv
  <2> HIDE DEF o, r
  <2> QED BY <1>1, <2>1, ReturnsCalling
<1>3. Giver(q, 0) = r /\ 0 \in {0, 1} /\ 0 <= queue[q].writable
  BY RecordFacts DEF Giver, QueueInv
<1>4. queue[q].used
  <2>1. N(r) # 0
    <3>1. r \in WaitObj
      BY Objects
    <3> HIDE DEF r, o
    <3>2. N(r) \in Nat /\ N(r) > 0
      BY <1>2, <3>1, Counts
    <3> QED BY <3>2
  <2>2. Rings
    BY DEF QueueInv
  <2> QED BY <2>1, <2>2 DEF Rings
<1>5. k.run \in Client /\ m \in own[k.run] /\ m \in Block
  <2>1. k.run \in Client /\ own \in [Client -> SUBSET Block]
    BY <1>2 DEF Client, Thread, QueueInv, Typed
  <2>2. asked[k.run].obj = <<q, "write">>
    BY <1>1 DEF Wakes
  <2>3. m \in own[k.run]
    BY <1>2, <2>2 DEF QueueInv, Writing
  <2> QED BY <2>1, <2>3
<1>6. Turns(Giver(q, 0), k.run, Woken(o), Head(k.wait[o]))
  BY <1>2, <1>3
<1> HIDE DEF m
<1> QED BY <1>1, <1>2, <1>3, <1>4, <1>5, <1>6, GiveStep, ZenonT(60)

(* A step that leaves the kernel alone. *)
LEMMA QuietCalling ==
  ASSUME Placid, QueueInv, UNCHANGED vars, asked' = asked
  PROVE  Calling' /\ NoTurn /\ Fills(NoTask)
<1>1. [Next]_vars /\ Calling
  BY DEF QueueInv
<1> QED BY <1>1, TaskCalling

LEMMA CreateQueueStep ==
  ASSUME Placid, QueueInv, NEW q \in Queue, NEW n \in 1 .. MaxLen, LOS_QueueCreate(q, n)
  PROVE  QueueInv' /\ Passes
<1> DEFINE P == [NoQueue EXCEPT !.used = TRUE, !.len = n, !.writable = n]
<1>1. /\ ~queue[q].used /\ UNCHANGED vars /\ queue' = [queue EXCEPT ![q] = P]
      /\ box' = box /\ puwMsg' = puwMsg /\ asked' = asked /\ own' = own /\ lost' = lost
      /\ got' = got /\ k' = k
  BY DEF LOS_QueueCreate, vars
<1>2. Calling' /\ NoTurn
  BY <1>1, QuietCalling
<1>3. Typed /\ Rings /\ Mail /\ Starved /\ Handed /\ Writing
  BY DEF QueueInv
<1>4. queue[q] = NoQueue /\ N(<<q, "read">>) = 0 /\ N(<<q, "write">>) = 0
  BY <1>1, <1>3 DEF Rings
<1>5. Typed' /\ Mail' /\ queue'[q] = P /\ \A p \in Queue : p # q => queue'[p] = queue[p]
  BY <1>1, <1>3, <1>4, MailCreated
<1>6. /\ \A p \in Queue : /\ N(<<p, "read">>)' = N(<<p, "read">>)
                          /\ N(<<p, "write">>)' = N(<<p, "write">>)
      /\ Chosen(Mem)' = Chosen(Mem)
  BY <1>2, NoTurnCounts
<1>7. Ring(P, 0, 0) /\ P.used
  <2>1. /\ P.used = TRUE /\ P.len = n /\ P.writable = n /\ P.readable = 0 /\ P.head = 0
        /\ P.tail = 0 /\ P.slot = [i \in 0 .. MaxLen - 1 |-> NoTask]
    BY DEF NoQueue
  <2> HIDE DEF P
  <2>2. n \in Nat /\ n > 0
    BY QueueAssumption
  <2>3. Wrap(0 + (0 + 0), n) = 0 /\ \A i \in 0 .. MaxLen - 1 : ~InRing(i, 0, 0 + 0, n)
    BY <2>2 DEF Wrap, InRing
  <2>4. Holding(P.slot, P.head, P.readable + 0, P.len)
    BY <2>1, <2>3 DEF Holding
  <2>5. P.readable + 0 + P.writable + 0 = P.len /\ P.head < P.len
    BY <2>1, <2>2
  <2>6. P.tail = Wrap(P.head + (P.readable + 0), P.len)
    BY <2>1, <2>3
  <2> QED BY <2>1, <2>4, <2>5, <2>6 DEF Ring
<1> HIDE DEF P
<1>8. Rings'
  <2>1. ASSUME NEW p \in Queue
        PROVE  IF queue'[p].used THEN Ring(queue'[p], N(<<p, "read">>)', N(<<p, "write">>)')
               ELSE queue'[p] = NoQueue /\ N(<<p, "read">>)' = 0 /\ N(<<p, "write">>)' = 0
    <3>1. CASE p = q
      BY <1>4, <1>5, <1>6, <1>7, <3>1
    <3>2. CASE p # q
      BY <1>3, <1>5, <1>6, <3>2 DEF Rings
    <3> QED BY <3>1, <3>2
  <2> QED BY <2>1 DEF Rings, Ring, Holding, NoQueue
<1>9. Starved'
  <2>1. ASSUME NEW o \in WaitObj, k.wait[o] # <<>> PROVE Bare(o)'
    <3>1. Bare(o)
      BY <1>3, <2>1 DEF Starved
    <3>2. o # <<q, "read">> /\ o # <<q, "write">>
      BY <1>1, <3>1 DEF Bare
    <3> QED BY <1>1, <1>5, <3>1, <3>2 DEF Bare, Mem
  <2> QED BY <1>1, <2>1 DEF Starved
<1>10. Handed'
  BY <1>1, <1>3, <1>6 DEF Handed
<1>11. Writing'
  BY <1>1, <1>3 DEF Writing
<1>12. Passes
  <2>1. Chan' = [Chan EXCEPT ![q] = [open |-> TRUE, cap |-> n, buf |-> <<>>]]
    <3>1. queue'[q].used = TRUE /\ queue'[q].len = n /\ queue'[q].readable = 0
      BY <1>5 DEF P, NoQueue
    <3>2. N(<<q, "read">>)' = 0
      BY <1>4, <1>6
    <3> QED BY <1>5, <1>6, <3>1, <3>2, Reopened
  <2>2. C!Open(q, n)
    BY <1>1, <2>1 DEF C!Open, Chan
  <2> QED BY <2>2 DEF Passes, C!Next
<1> QED BY <1>2, <1>5, <1>8, <1>9, <1>10, <1>11, <1>12 DEF QueueInv

LEMMA DeleteQueueStep ==
  ASSUME Placid, QueueInv, NEW q \in Queue, LOS_QueueDelete(q)
  PROVE  QueueInv' /\ Passes
<1>1. /\ queue[q].used /\ UNCHANGED vars /\ queue' = [queue EXCEPT ![q] = NoQueue]
      /\ lost' = lost \cup (Range(queue[q].slot) \ {NoTask})
      /\ k.wait[<<q, "read">>] = <<>> /\ k.wait[<<q, "write">>] = <<>>
      /\ queue[q].writable + queue[q].readable = queue[q].len
      /\ box' = box /\ puwMsg' = puwMsg /\ asked' = asked /\ own' = own
      /\ got' = got /\ k' = k
  BY DEF LOS_QueueDelete, Side, vars
<1>2. Calling' /\ NoTurn
  BY <1>1, QuietCalling
<1>3. Typed /\ Rings /\ Mail /\ Starved /\ Handed /\ Writing
  BY DEF QueueInv
<1>4. N(<<q, "read">>) = 0 /\ N(<<q, "write">>) = 0
  <2> DEFINE r == N(<<q, "read">>)
             w == N(<<q, "write">>)
             x == queue[q].readable
             y == queue[q].writable
  <2>1. x + r + y + w = queue[q].len /\ y + x = queue[q].len
    BY <1>1, <1>3 DEF Rings, Ring
  <2>2. x \in Nat /\ y \in Nat /\ r \in Nat /\ w \in Nat
    BY <1>3, RecordFacts, ChosenFinite
  <2> HIDE DEF x, y, r, w
  <2>3. r = 0 /\ w = 0
    BY <2>1, <2>2
  <2> QED BY <2>3 DEF r, w
<1>5. Typed' /\ Mail' /\ queue'[q] = NoQueue /\ \A p \in Queue : p # q => queue'[p] = queue[p]
  BY <1>1, <1>3, MailDeleted
<1>6. /\ \A p \in Queue : /\ N(<<p, "read">>)' = N(<<p, "read">>)
                          /\ N(<<p, "write">>)' = N(<<p, "write">>)
      /\ Chosen(Mem)' = Chosen(Mem)
  BY <1>2, NoTurnCounts
<1>7. Rings'
  <2>1. ASSUME NEW p \in Queue
        PROVE  IF queue'[p].used THEN Ring(queue'[p], N(<<p, "read">>)', N(<<p, "write">>)')
               ELSE queue'[p] = NoQueue /\ N(<<p, "read">>)' = 0 /\ N(<<p, "write">>)' = 0
    <3>1. CASE p = q
      <4>1. ~NoQueue.used
        BY DEF NoQueue
      <4> QED BY <1>4, <1>5, <1>6, <3>1, <4>1
    <3>2. CASE p # q
      BY <1>3, <1>5, <1>6, <3>2 DEF Rings
    <3> QED BY <3>1, <3>2
  <2> QED BY <2>1 DEF Rings, Ring, Holding, NoQueue
<1>8. Starved'
  <2>1. ASSUME NEW o \in WaitObj, k.wait[o] # <<>> PROVE Bare(o)'
    <3>1. Bare(o)
      BY <1>3, <2>1 DEF Starved
    <3>2. o # <<q, "read">> /\ o # <<q, "write">>
      BY <1>1, <2>1
    <3> QED BY <1>1, <1>5, <3>1, <3>2 DEF Bare, Mem
  <2> QED BY <1>1, <2>1 DEF Starved
<1>9. Handed'
  BY <1>1, <1>3, <1>6 DEF Handed
<1>10. Writing'
  BY <1>1, <1>3 DEF Writing
<1>11. Passes
  <2>1. Chan' = [Chan EXCEPT ![q] = [open |-> FALSE, cap |-> 1, buf |-> <<>>]]
    <3>1. queue'[q].used = FALSE /\ queue'[q].len = 1 /\ queue'[q].readable = 0
      BY <1>5 DEF NoQueue
    <3>2. N(<<q, "read">>)' = 0
      BY <1>4, <1>6
    <3> QED BY <1>5, <1>6, <3>1, <3>2, Reopened
  <2>2. C!Close(q)
    BY <1>1, <2>1 DEF C!Close, Chan
  <2> QED BY <2>2 DEF Passes, C!Next
<1> QED BY <1>2, <1>5, <1>7, <1>8, <1>9, <1>10, <1>11 DEF QueueInv

(* A step that leaves the queues alone. *)
LEMMA BoxStep ==
  ASSUME QueueInv, Calling', Typed', Mail', Handed', queue' = queue, got' = got,
         NEW r \in {NoTask, Mem}, NEW d, NEW o \in {NoTask, Mem}, NEW a, Turns(r, d, o, a),
         Fills(NoTask), k'.wait[Mem] # <<>> => box' = <<>>,
         \A t \in Task : asked'[t].obj # NoTask => asked'[t] = asked[t] /\ own[t] \subseteq own'[t]
  PROVE  QueueInv' /\ Passes
<1>1. Typed /\ Rings /\ Mail /\ Starved /\ Handed /\ Writing
  BY DEF QueueInv
<1>2. \A q \in Queue : /\ N(<<q, "read">>)' = N(<<q, "read">>)
                       /\ N(<<q, "write">>)' = N(<<q, "write">>)
  <2>1. \A p \in WaitObj : p # r /\ p # o => N(p)' = N(p)
    BY Counts
  <2>2. ASSUME NEW p \in WaitObj, p # Mem PROVE p # r /\ p # o
    BY <2>2, QueueAssumption
  <2>3. \A q \in Queue : /\ <<q, "read">> \in WaitObj /\ <<q, "read">> # Mem
                         /\ <<q, "write">> \in WaitObj /\ <<q, "write">> # Mem
    BY Objects
  <2> QED BY <2>1, <2>2, <2>3
<1>3. Rings'
  BY <1>1, <1>2 DEF Rings, Ring, Holding, NoQueue
<1>4. Starved'
  <2>1. ASSUME NEW p \in WaitObj, k'.wait[p] # <<>> PROVE Bare(p)'
    <3>1. k.wait[p] # <<>>
      BY <2>1, QueueAssumption DEF Fills
    <3>2. Bare(p)
      BY <1>1, <3>1 DEF Starved
    <3>3. p = Mem => box' = <<>>
      BY <2>1
    <3> QED BY <3>2, <3>3 DEF Bare, Mem
  <2> QED BY <2>1 DEF Starved
<1>5. Writing'
  <2>1. ASSUME NEW t \in Task, NEW p \in Queue, asked'[t].obj = <<p, "write">>
        PROVE  asked'[t].msg \in own'[t]
    <3>1. asked'[t] = asked[t] /\ own[t] \subseteq own'[t]
      <4>1. <<p, "write">> # NoTask
        BY Objects, QueueAssumption
      <4> QED BY <2>1, <4>1
    <3> QED BY <1>1, <2>1, <3>1 DEF Writing
  <2> QED BY <2>1 DEF Writing
<1>6. Passes
  BY <1>2, ChanStays DEF Passes
<1> QED BY <1>3, <1>4, <1>5, <1>6 DEF QueueInv

LEMMA MailAllocNowStep ==
  ASSUME Placid, QueueInv, NEW c \in Client, MailAllocNow(c)
  PROVE  QueueInv' /\ Passes
<1>1. /\ box # <<>> /\ CallBy(c, "mailalloc", k, FALSE) /\ box' = Tail(box)
      /\ own' = [own EXCEPT ![c] = @ \cup {Head(box)}]
      /\ queue' = queue /\ puwMsg' = puwMsg /\ asked' = asked /\ lost' = lost /\ got' = got
  BY DEF MailAllocNow
<1>2. UNCHANGED vars
  BY <1>1 DEF CallBy, vars
<1>3. Calling' /\ NoTurn /\ Fills(NoTask) /\ k' = k
  BY <1>1, <1>2, QuietCalling DEF vars
<1>4. Typed' /\ Mail' /\ \A u \in Client : own[u] \subseteq own'[u]
  BY <1>1, MailPopped DEF QueueInv
<1>5. k'.wait[Mem] # <<>> => box' = <<>>
  BY <1>1, <1>3, Objects DEF QueueInv, Starved, Bare
<1>6. Handed'
  BY <1>1, <1>3, NoTurnCounts DEF QueueInv, Handed
<1>7. \A t \in Task : asked'[t].obj # NoTask => asked'[t] = asked[t] /\ own[t] \subseteq own'[t]
  BY <1>1, <1>4 DEF Client, Thread
<1>8. Turns(NoTask, NoTask, NoTask, NoTask) /\ NoTask \in {NoTask, Mem}
  BY <1>3 DEF NoTurn
<1> QED BY <1>1, <1>3, <1>4, <1>5, <1>6, <1>7, <1>8, BoxStep

LEMMA MailAllocReturnsStep ==
  ASSUME QueueInv, MailAllocReturns
  PROVE  QueueInv' /\ Passes
<1>1. /\ Wakes(Mem) /\ ~Has(k, k.run, "TIMEOUT") /\ k' = k /\ Goto(k.run, "user")
      /\ own' = [own EXCEPT ![k.run] = @ \cup {puwMsg[k.run]}]
      /\ puwMsg' = [puwMsg EXCEPT ![k.run] = NoTask]
      /\ queue' = queue /\ box' = box /\ lost' = lost /\ got' = got
  BY DEF MailAllocReturns, Wakes
<1>2. Mem \in WaitObj /\ Calling
  BY Objects DEF QueueInv
<1>3. Calling' /\ Turns(Mem, k.run, NoTask, NoTask) /\ Fills(NoTask)
  BY <1>1, <1>2, ReturnCalling
<1>4. /\ k.run \in Task /\ asked'[k.run].obj = NoTask
      /\ \A t \in Task : t # k.run => asked'[t] = asked[t]
  BY <1>1, <1>2, WokenFacts DEF Thread
<1>5. k.run \in Chosen(Mem) /\ Chosen(Mem)' = Chosen(Mem) \ {k.run}
  BY <1>2, <1>3 DEF Turns
<1>6. puwMsg[k.run] # NoTask
  BY <1>4, <1>5 DEF QueueInv, Handed
<1>7. Typed' /\ Mail' /\ \A u \in Client : own[u] \subseteq own'[u]
  BY <1>1, <1>4, <1>6, MailTaken DEF QueueInv
<1>8. Handed'
  BY <1>1, <1>4, <1>5 DEF QueueInv, Handed, Typed
<1>9. k'.wait[Mem] # <<>> => box' = <<>>
  BY <1>1, <1>2 DEF QueueInv, Starved, Bare
<1>10. \A t \in Task : asked'[t].obj # NoTask => asked'[t] = asked[t] /\ own[t] \subseteq own'[t]
  BY <1>4, <1>7 DEF Client, Thread
<1> QED BY <1>1, <1>3, <1>7, <1>8, <1>9, <1>10, BoxStep

LEMMA MailFreeStep ==
  ASSUME Placid, QueueInv, NEW c \in Client, NEW b \in Block, osQueueMailFree(c, b)
  PROVE  QueueInv' /\ Passes
<1> DEFINE x == IF k.wait[Mem] # <<>> THEN osQueueWakeUp(k, Mem) ELSE k
           w == Head(k.wait[Mem])
<1>1. /\ b \in own[c] /\ CallBy(c, "mailfree", x, k.wait[Mem] # <<>>)
      /\ box' = IF k.wait[Mem] # <<>> THEN box ELSE <<b>> \o box
      /\ puwMsg' = IF k.wait[Mem] # <<>> THEN [puwMsg EXCEPT ![w] = b] ELSE puwMsg
      /\ own' = [own EXCEPT ![c] = @ \ {b}]
      /\ queue' = queue /\ asked' = asked /\ lost' = lost /\ got' = got
  BY DEF osQueueMailFree
<1>2. Mem \in WaitObj /\ Calling /\ Typed /\ Mail /\ Handed
  BY Objects DEF QueueInv
<1>3. /\ Calling' /\ Turns(NoTask, NoTask, Woken(Mem), w) /\ Fills(NoTask)
      /\ \A t \in Task : asked'[t].obj # NoTask => asked'[t] = asked[t] /\ t # c
  BY <1>1, <1>2, CallCalling
<1>4. NoTask \notin WaitObj /\ Woken(Mem) \in {NoTask, Mem}
  BY QueueAssumption DEF Woken
<1>5. CASE k.wait[Mem] # <<>>
  <2>1. w \in Task /\ w \notin Chosen(Mem)
    BY <1>2, <1>5, FirstWaits
  <2> HIDE DEF w, x
  <2>2. puwMsg[w] = NoTask
    BY <1>2, <2>1 DEF Handed
  <2>3. Typed' /\ Mail' /\ \A u \in Client : u # c => own'[u] = own[u]
    <3>1. /\ Typed /\ Mail /\ c \in Client /\ b \in Block /\ b \in own[c] /\ w \in Task
          /\ puwMsg[w] = NoTask /\ puwMsg' = [puwMsg EXCEPT ![w] = b]
          /\ own' = [own EXCEPT ![c] = @ \ {b}]
          /\ queue' = queue /\ box' = box /\ lost' = lost /\ got' = got
      BY <1>1, <1>2, <1>5, <2>1, <2>2
    <3> QED BY <3>1, MailHanded, ZenonT(60)
  <2>4. Chosen(Mem)' = Chosen(Mem) \cup {w}
    BY <1>2, <1>3, <1>4, <1>5 DEF Turns, Woken
  <2>5. Handed'
    <3>1. b # NoTask
      BY QueueAssumption
    <3> QED BY <1>1, <1>2, <1>5, <2>1, <2>4, <3>1 DEF Handed, Typed
  <2>6. k'.wait[Mem] # <<>> => box' = <<>>
    BY <1>1, <1>2, <1>5 DEF QueueInv, Starved, Bare
  <2>7. \A t \in Task : asked'[t].obj # NoTask => asked'[t] = asked[t] /\ own[t] \subseteq own'[t]
    BY <1>3, <2>3 DEF Client, Thread
  <2>8. NoTask \in {NoTask, Mem}
    OBVIOUS
  <2> QED BY <1>1, <1>3, <1>4, <2>3, <2>5, <2>6, <2>7, <2>8, BoxStep
<1>6. CASE k.wait[Mem] = <<>>
  <2> HIDE DEF w, x
  <2>1. Typed' /\ Mail' /\ \A u \in Client : u # c => own'[u] = own[u]
    BY <1>1, <1>2, <1>6, MailPushed
  <2>2. Chosen(Mem)' = Chosen(Mem)
    BY <1>2, <1>3, <1>4, <1>6 DEF Turns, Woken
  <2>3. Handed'
    BY <1>1, <1>2, <1>6, <2>2 DEF Handed
  <2>4. k'.wait[Mem] # <<>> => box' = <<>>
    BY <1>2, <1>3, <1>4, <1>6 DEF Fills
  <2>5. \A t \in Task : asked'[t].obj # NoTask => asked'[t] = asked[t] /\ own[t] \subseteq own'[t]
    BY <1>3, <2>1 DEF Client, Thread
  <2>6. NoTask \in {NoTask, Mem}
    OBVIOUS
  <2> QED BY <1>1, <1>3, <1>4, <2>1, <2>3, <2>4, <2>5, <2>6, BoxStep
<1> QED BY <1>5, <1>6

(* A task that is put into o's list, where there is nothing for it. *)
LEMMA BlocksStep ==
  ASSUME Placid, QueueInv, NEW op, NEW o \in WaitObj, NEW n \in 1 .. Forever,
         NEW msg \in Block \cup {NoTask}, Blocks(op, o, n, msg), Bare(o),
         (\E q \in Queue : o = <<q, "write">>) => msg \in own[k.run]
  PROVE  QueueInv' /\ Passes
<1>1. /\ Calling' /\ NoTurn /\ Fills(o) /\ k.run \in Task
      /\ asked' = [asked EXCEPT ![k.run] = [obj |-> o, msg |-> msg]]
  BY BlockCalling DEF QueueInv
<1>2. /\ queue' = queue /\ box' = box /\ puwMsg' = puwMsg /\ own' = own /\ lost' = lost
      /\ got' = got
  BY DEF Blocks
<1>3. asked \in [Thread -> Requests] /\ \A t \in Task : t \in Thread
  BY CallingFacts DEF QueueInv
<1>4. /\ asked'[k.run].obj = o /\ asked'[k.run].msg = msg
      /\ \A t \in Task : t # k.run => asked'[t] = asked[t]
  BY <1>1, <1>3
<1>5. \A t \in Task, q \in Queue :
        asked'[t].obj = <<q, "write">> => asked'[t] = asked[t] \/ asked'[t].msg \in own[t]
  BY <1>4
<1> QED BY <1>1, <1>2, <1>5, KernelStep

LEMMA ReadBlocksStep ==
  ASSUME Placid, QueueInv, NEW q \in Queue, NEW n \in 1 .. Forever, ReadBlocks(q, n)
  PROVE  QueueInv' /\ Passes
<1> DEFINE o == <<q, "read">>
<1>1. queue[q].used /\ queue[q].readable = 0 /\ Blocks("read", o, n, NoTask)
  BY DEF ReadBlocks
<1>2. o \in WaitObj /\ Bare(o) /\ \A p \in Queue : o # <<p, "write">>
  BY <1>1, Objects DEF Bare
<1>3. NoTask \in Block \cup {NoTask}
  OBVIOUS
<1> HIDE DEF o
<1> QED BY <1>1, <1>2, <1>3, BlocksStep

LEMMA WriteBlocksStep ==
  ASSUME Placid, QueueInv, NEW q \in Queue, NEW m \in Block, NEW n \in 1 .. Forever,
         WriteBlocks(q, m, n)
  PROVE  QueueInv' /\ Passes
<1> DEFINE o == <<q, "write">>
<1>1. /\ queue[q].used /\ queue[q].writable = 0 /\ m \in own[k.run]
      /\ Blocks("write", o, n, m)
  BY DEF WriteBlocks
<1>2. o \in WaitObj /\ Bare(o)
  BY <1>1, Objects DEF Bare
<1>3. m \in Block \cup {NoTask}
  OBVIOUS
<1> HIDE DEF o
<1> QED BY <1>1, <1>2, <1>3, BlocksStep

LEMMA MailAllocBlocksStep ==
  ASSUME Placid, QueueInv, NEW n \in 1 .. Forever, MailAllocBlocks(n)
  PROVE  QueueInv' /\ Passes
<1>1. box = <<>> /\ Blocks("mailalloc", Mem, n, NoTask)
  BY DEF MailAllocBlocks
<1>2. Mem \in WaitObj /\ Bare(Mem) /\ \A p \in Queue : Mem # <<p, "write">>
  BY <1>1, Objects DEF Bare
<1>3. NoTask \in Block \cup {NoTask}
  OBVIOUS
<1> QED BY <1>1, <1>2, <1>3, BlocksStep

LEMMA TimesOutStep ==
  ASSUME QueueInv, NEW o \in WaitObj, TimesOut(o)
  PROVE  QueueInv' /\ Passes
<1>1. /\ Wakes(o) /\ queue' = queue /\ box' = box /\ puwMsg' = puwMsg /\ own' = own
      /\ lost' = lost /\ got' = got
  BY DEF TimesOut, Wakes
<1>2. Calling' /\ NoTurn /\ Fills(NoTask)
  BY TimesOutCalling DEF QueueInv
<1>3. NoTask \notin WaitObj
  BY QueueAssumption
<1>4. \A t \in Task, q \in Queue :
        asked'[t].obj = <<q, "write">> => asked'[t] = asked[t] \/ asked'[t].msg \in own[t]
  <2>1. /\ asked'[k.run].obj = NoTask /\ k.run \in Task
        /\ \A t \in Task : t # k.run => asked'[t] = asked[t]
    BY <1>1, WokenFacts DEF QueueInv, Thread
  <2>2. \A q \in Queue : <<q, "write">> # NoTask
    BY <1>3, Objects
  <2> QED BY <2>1, <2>2
<1> QED BY <1>1, <1>2, <1>3, <1>4, KernelStep

(* The kernel's own steps. *)
LEMMA KernelOnlyStep ==
  ASSUME Placid, QueueInv, UNCHANGED queueVars, WaitSchedules \/ [Next]_vars
  PROVE  QueueInv' /\ Passes
<1>1. /\ queue' = queue /\ box' = box /\ puwMsg' = puwMsg /\ asked' = asked /\ own' = own
      /\ lost' = lost /\ got' = got
  BY DEF queueVars
<1>2. Calling' /\ NoTurn /\ Fills(NoTask)
  BY <1>1, ScheduleCalling, TaskCalling DEF QueueInv
<1>3. NoTask \notin WaitObj
  BY QueueAssumption
<1> QED BY <1>1, <1>2, <1>3, KernelStep

LEMMA QueueNextInv ==
  ASSUME Placid, QueueInv, [QueueNext]_allVars
  PROVE  QueueInv' /\ Passes
<1>1. CASE QueueStep
  <2>1. ASSUME NEW q \in Queue, NEW n \in 1 .. MaxLen, LOS_QueueCreate(q, n) PROVE QueueInv' /\ Passes
    BY <2>1, CreateQueueStep
  <2>2. ASSUME NEW q \in Queue, LOS_QueueDelete(q) PROVE QueueInv' /\ Passes
    BY <2>2, DeleteQueueStep
  <2>3. ASSUME NEW q \in Queue, ReadReturns(q) PROVE QueueInv' /\ Passes
    BY <2>3, ReadReturnsStep
  <2>4. ASSUME NEW q \in Queue, WriteReturns(q) PROVE QueueInv' /\ Passes
    BY <2>4, WriteReturnsStep
  <2>5. ASSUME NEW q \in Queue, NEW c \in Client, ReadNow(c, q) PROVE QueueInv' /\ Passes
    BY <2>5, ReadNowStep
  <2>6. ASSUME NEW q \in Queue, NEW c \in Client, NEW m \in Block, WriteNow(c, q, m)
        PROVE  QueueInv' /\ Passes
    BY <2>6, WriteNowStep
  <2>7. ASSUME NEW q \in Queue, NEW n \in 1 .. Forever, ReadBlocks(q, n) PROVE QueueInv' /\ Passes
    BY <2>7, ReadBlocksStep
  <2>8. ASSUME NEW q \in Queue, NEW n \in 1 .. Forever, NEW m \in Block, WriteBlocks(q, m, n)
        PROVE  QueueInv' /\ Passes
    BY <2>8, WriteBlocksStep
  <2>9. ASSUME NEW c \in Client, MailAllocNow(c) PROVE QueueInv' /\ Passes
    BY <2>9, MailAllocNowStep
  <2>10. ASSUME NEW c \in Client, NEW b \in Block, osQueueMailFree(c, b) PROVE QueueInv' /\ Passes
    BY <2>10, MailFreeStep
  <2>11. ASSUME NEW n \in 1 .. Forever, MailAllocBlocks(n) PROVE QueueInv' /\ Passes
    BY <2>11, MailAllocBlocksStep
  <2>12. CASE MailAllocReturns
    BY <2>12, MailAllocReturnsStep
  <2>13. ASSUME NEW o \in WaitObj, TimesOut(o) PROVE QueueInv' /\ Passes
    BY <2>13, TimesOutStep
  <2>14. CASE WaitSchedules /\ UNCHANGED queueVars
    BY <2>14, KernelOnlyStep
  <2> QED BY <1>1, <2>1, <2>2, <2>3, <2>4, <2>5, <2>6, <2>7, <2>8, <2>9, <2>10, <2>11, <2>12,
             <2>13, <2>14 DEF QueueStep
<1>2. CASE Next /\ UNCHANGED queueVars
  BY <1>2, KernelOnlyStep
<1>3. CASE UNCHANGED allVars
  <2>1. [Next]_vars /\ UNCHANGED queueVars
    BY <1>3 DEF allVars
  <2> QED BY <2>1, KernelOnlyStep
<1> QED BY <1>1, <1>2, <1>3 DEF QueueNext

LEMMA QueueInitInv == ~Nesting /\ QueueInit => QueueInv
<1> SUFFICES ASSUME ~Nesting, QueueInit PROVE QueueInv
  OBVIOUS
<1>1. /\ Init /\ queue = [q \in Queue |-> NoQueue] /\ box = PoolOrder
      /\ puwMsg = [t \in Task |-> NoTask] /\ asked = [t \in Thread |-> NotAsked]
      /\ own = [c \in Client |-> {}] /\ lost = {} /\ got = NoTask
  BY DEF QueueInit
<1>2. /\ k.status = [t \in Task |-> IF t = Idle THEN {"READY"} ELSE {"UNUSED"}]
      /\ k.lock = 0 /\ k.wait = [o \in WaitObj |-> <<>>]
      /\ pc = [t \in Thread |-> IF t \in {Idle, Dummy} THEN "user" ELSE "none"]
  BY <1>1 DEF Init
<1>3. IInv /\ ~k.fault /\ Settles /\ NoneReturns
  BY <1>1, InitInv, InitSettles
<1>4. \A t \in Thread : asked[t].obj = NoTask /\ pc[t] \notin Inside
  BY <1>1, <1>2 DEF NotAsked, Inside
<1>5. \A t \in Task : t \in Thread /\ asked[t].obj \notin WaitObj
  BY <1>4, QueueAssumption DEF Thread
<1>6. Calling
  <2>1. asked \in [Thread -> Requests]
    BY <1>1 DEF Requests, NotAsked
  <2>2. \A t \in Task : ~Has(k, t, "PEND") /\ ~Has(k, t, "TIMEOUT")
    BY <1>2 DEF Has
  <2>3. \A t \in Task, o \in WaitObj : ~Contains(k.wait[o], t)
    BY <1>2 DEF Contains
  <2> QED BY <1>2, <1>3, <1>4, <1>5, <2>1, <2>2, <2>3 DEF Calling, Asking
<1>7. \A o \in WaitObj : Chosen(o) = {} /\ N(o) = 0
  <2>1. \A o \in WaitObj : Chosen(o) = {}
    BY <1>5 DEF Chosen
  <2> QED BY <2>1, FS_EmptySet DEF N
<1>8. /\ NoQueue \in QueueRecord /\ ~NoQueue.used
      /\ \A i \in 0 .. MaxLen - 1 : NoQueue.slot[i] = NoTask
  BY QueueAssumption DEF QueueRecord, NoQueue
<1>9. Typed
  <2>1. queue \in [Queue -> QueueRecord]
    BY <1>1, <1>8
  <2>2. box \in Seq(Block) /\ IsInjective(box)
    BY <1>1, QueueAssumption
  <2> QED BY <1>1, <2>1, <2>2 DEF Typed
<1>10. Rings
  BY <1>1, <1>7, <1>8, Objects DEF Rings
<1>11. Starved
  BY <1>2 DEF Starved
<1>12. Handed
  BY <1>1, <1>7, Objects DEF Handed
<1>13. Writing
  BY <1>5, Objects DEF Writing
<1>14. Mail
  <2>1. ASSUME NEW b \in Block PROVE At(b, "box", 0, 0)
    <3>1. Contains(box, b)
      <4>1. PICK i \in 1 .. Len(PoolOrder) : b = PoolOrder[i]
        BY DEF Block
      <4>2. DOMAIN PoolOrder = 1 .. Len(PoolOrder)
        BY QueueAssumption
      <4> QED BY <1>1, <4>1, <4>2 DEF Contains
    <3>2. b # NoTask
      BY QueueAssumption
    <3> QED BY <1>1, <1>8, <3>1, <3>2 DEF At, Somewhere
  <2> QED BY <2>1 DEF Mail
<1> QED BY <1>6, <1>9, <1>10, <1>11, <1>12, <1>13, <1>14 DEF QueueInv

LEMMA QueueInvariance ==
  ASSUME Placid
  PROVE  QueueSpec => []QueueInv
<1>1. QueueInv /\ [QueueNext]_allVars => QueueInv'
  BY QueueNextInv
<1>2. QueueInit => QueueInv
  BY QueueInitInv DEF Placid, Steady, Tame
<1> QED BY <1>1, <1>2, PTL DEF QueueSpec

(***************************************************************************)
(* The order of the waiters.                                               *)
(***************************************************************************)
Ranked(x) ==
  \A o \in WaitObj : \A i, j \in 1 .. Len(x.wait[o]) :
    i < j => x.prio[x.wait[o][i]] <= x.prio[x.wait[o][j]]

(* y's lists are x's, some without a member, and the members have x's priorities. *)
Thinned(x, y) ==
  /\ \A o \in WaitObj : y.wait[o] = x.wait[o] \/ \E t : y.wait[o] = RemoveFirst(x.wait[o], t)
  /\ \A o \in WaitObj, t \in Task : Contains(x.wait[o], t) => y.prio[t] = x.prio[t]

LEMMA ThinnedRanks ==
  ASSUME NEW x \in Kernel, NEW y, Ranked(x), Thinned(x, y)
  PROVE  Ranked(y)
<1> SUFFICES ASSUME NEW o \in WaitObj, NEW i \in 1 .. Len(y.wait[o]),
                    NEW j \in 1 .. Len(y.wait[o]), i < j
             PROVE  y.prio[y.wait[o][i]] <= y.prio[y.wait[o][j]]
  BY DEF Ranked
<1> DEFINE s == x.wait[o]
           r == y.wait[o]
<1>1. s \in Seq(Task)
  BY KernelType
<1>2. \A m \in 1 .. Len(s) : s[m] \in Task /\ y.prio[s[m]] = x.prio[s[m]]
  BY <1>1 DEF Thinned, Contains
<1>3. \A m, n \in 1 .. Len(s) : m < n => x.prio[s[m]] <= x.prio[s[n]]
  BY DEF Ranked
<1>4. r = s \/ \E t : r = RemoveFirst(s, t)
  BY DEF Thinned
<1>5. i \in 1 .. Len(r) /\ j \in 1 .. Len(r)
  OBVIOUS
<1> HIDE DEF s, r
<1>6. \E m, n \in 1 .. Len(s) : m < n /\ r[i] = s[m] /\ r[j] = s[n]
  <2>1. CASE r = s
    BY <1>5, <2>1
  <2>2. ASSUME NEW t, r = RemoveFirst(s, t), r # s
        PROVE  \E m, n \in 1 .. Len(s) : m < n /\ r[i] = s[m] /\ r[j] = s[n]
    <3>1. \E m \in 1 .. Len(s) : s[m] = t
      BY <1>1, <2>2, RemoveFirstAbsent DEF Contains
    <3>2. \E g \in 1 .. Len(s) :
            LET l == RemoveFirst(s, t)
            IN /\ s[g] = t
               /\ l \in Seq(Task) /\ Len(l) = Len(s) - 1
               /\ \A m \in 1 .. Len(s) - 1 : l[m] = IF m < g THEN s[m] ELSE s[m + 1]
      BY ONLY <1>1, <3>1, RemoveFirstAt
    <3>3. PICK g \in 1 .. Len(s) :
            /\ r \in Seq(Task) /\ Len(r) = Len(s) - 1
            /\ \A m \in 1 .. Len(s) - 1 : r[m] = IF m < g THEN s[m] ELSE s[m + 1]
      BY <2>2, <3>2
    <3> DEFINE m == IF i < g THEN i ELSE i + 1
               n == IF j < g THEN j ELSE j + 1
    <3>4. /\ m \in 1 .. Len(s) /\ n \in 1 .. Len(s) /\ m < n
          /\ r[i] = s[m] /\ r[j] = s[n]
      BY <1>1, <1>5, <3>3
    <3> QED BY <3>4
  <2> QED BY <1>4, <2>1, <2>2
<1>7. y.prio[r[i]] <= y.prio[r[j]]
  BY <1>2, <1>3, <1>6
<1> QED BY <1>7 DEF r

LEMMA ThinnedSame ==
  ASSUME NEW x, NEW y, y.wait = x.wait, y.prio = x.prio
  PROVE  Thinned(x, y)
BY DEF Thinned

(* A task in front of the first waiter that is less urgent. *)
LEMMA PlacedRanks ==
  ASSUME NEW x \in Kernel, x.run \in Task, NEW o \in WaitObj, Ranked(x), NEW y,
         y.prio = x.prio, y.wait[o] = Placed(x, o),
         \A p \in WaitObj : p # o => y.wait[p] = x.wait[p]
  PROVE  Ranked(y)
<1> DEFINE s == x.wait[o]
           r == y.wait[o]
           e == x.run
<1>1. s \in Seq(Task) /\ e \in Task
  BY KernelType
<1>2. PICK i \in 0 .. Len(s) :
        /\ r = IF i = 0 THEN Append(s, e) ELSE InsertAt(s, i, e)
        /\ i = 0 => \A j \in 1 .. Len(s) : ~(x.prio[e] < x.prio[s[j]])
        /\ i # 0 => /\ x.prio[e] < x.prio[s[i]]
                    /\ \A j \in 1 .. i - 1 : ~(x.prio[e] < x.prio[s[j]])
  BY PlacedAt
<1>3. \A m, n \in 1 .. Len(s) : m < n => x.prio[s[m]] <= x.prio[s[n]]
  BY DEF Ranked
<1>4. x.prio[e] \in Nat /\ \A m \in 1 .. Len(s) : x.prio[s[m]] \in Nat
  <2>1. \A t \in Task : x.prio[t] \in Nat
    BY KernelType, TaskAssumption DEF Prio
  <2> QED BY <1>1, <2>1
<1> HIDE DEF s, r, e
<1>5. \A m, n \in 1 .. Len(r) : m < n => x.prio[r[m]] <= x.prio[r[n]]
  <2>1. CASE i = 0
    <3>1. /\ Len(r) = Len(s) + 1
          /\ \A m \in 1 .. Len(r) : r[m] = IF m = Len(s) + 1 THEN e ELSE s[m]
      BY <1>1, <1>2, <2>1
    <3>2. \A m \in 1 .. Len(s) : x.prio[s[m]] <= x.prio[e]
      BY <1>2, <1>4, <2>1
    <3> QED BY <1>1, <1>3, <3>1, <3>2
  <2>2. CASE i # 0
    <3>1. i \in 1 .. Len(s) /\ r = InsertAt(s, i, e)
      BY <1>2, <2>2
    <3>2. /\ Len(r) = Len(s) + 1
          /\ \A j \in 1 .. Len(s) + 1 :
               r[j] = IF j < i THEN s[j] ELSE IF j = i THEN e ELSE s[j - 1]
      <4>1. s \in Seq(Task) /\ e \in Task /\ i \in 1 .. Len(s) + 1
        BY <1>1, <3>1
      <4>2. LET q == InsertAt(s, i, e)
            IN /\ Len(q) = Len(s) + 1
               /\ \A j \in 1 .. Len(s) + 1 :
                    q[j] = IF j < i THEN s[j] ELSE IF j = i THEN e ELSE s[j - 1]
        BY ONLY <4>1, InsertList
      <4> QED BY <3>1, <4>2
    <3>3. \A j \in 1 .. i - 1 : x.prio[s[j]] <= x.prio[e]
      BY <1>1, <1>2, <1>4, <2>2, <3>1
    <3>4. \A j \in i .. Len(s) : x.prio[e] <= x.prio[s[j]]
      <4>1. ASSUME NEW j \in i .. Len(s) PROVE x.prio[e] <= x.prio[s[j]]
        <5>1. j \in 1 .. Len(s) /\ (i = j \/ i < j)
          BY <1>1, <3>1
        <5>2. x.prio[s[i]] <= x.prio[s[j]]
          BY <1>3, <1>4, <3>1, <5>1
        <5>3. x.prio[e] < x.prio[s[i]] /\ x.prio[s[i]] \in Nat /\ x.prio[s[j]] \in Nat
          BY <1>2, <1>4, <2>2, <3>1, <5>1
        <5> QED BY <1>4, <5>2, <5>3
      <4> QED BY <4>1
    <3>5. ASSUME NEW m \in 1 .. Len(s) + 1, NEW n \in 1 .. Len(s) + 1, m < n
          PROVE  x.prio[r[m]] <= x.prio[r[n]]
      <4>1. CASE n < i
        <5>1. r[m] = s[m] /\ r[n] = s[n] /\ m \in 1 .. Len(s) /\ n \in 1 .. Len(s)
          BY <1>1, <3>1, <3>2, <3>5, <4>1
        <5> QED BY <1>3, <3>5, <5>1
      <4>2. CASE n = i
        <5>1. r[m] = s[m] /\ r[n] = e /\ m \in 1 .. i - 1
          BY <1>1, <3>1, <3>2, <3>5, <4>2
        <5> QED BY <3>3, <5>1
      <4>3. CASE n > i
        <5>1. r[n] = s[n - 1] /\ n - 1 \in i .. Len(s) /\ n - 1 \in 1 .. Len(s)
          BY <1>1, <3>1, <3>2, <4>3
        <5>2. CASE m < i
          <6>1. r[m] = s[m] /\ m \in 1 .. Len(s) /\ m < n - 1
            BY <1>1, <3>1, <3>2, <4>3, <5>2
          <6> QED BY <1>3, <5>1, <6>1
        <5>3. CASE m = i
          <6>1. r[m] = e
            BY <1>1, <3>1, <3>2, <5>3
          <6> QED BY <3>4, <5>1, <6>1
        <5>4. CASE m > i
          <6>1. r[m] = s[m - 1] /\ m - 1 \in 1 .. Len(s) /\ m - 1 < n - 1
            BY <1>1, <3>1, <3>2, <3>5, <5>4
          <6> QED BY <1>3, <5>1, <6>1
        <5> QED BY <3>1, <5>2, <5>3, <5>4
      <4> QED BY <3>1, <4>1, <4>2, <4>3
    <3> QED BY <3>2, <3>5
  <2> QED BY <2>1, <2>2
<1> QED BY <1>5 DEF Ranked, r

(* Within the task component, a member of a wait list keeps its priority. *)
LEMMA NextThins ==
  ASSUME Placid, "priset" \notin Api \cup IsrApi, Calling, [Next]_vars
  PROVE  Thinned(k, k')
<1> DEFINE Same == Thinned(k, k')
<1>1. Ok(k) /\ k \in Kernel /\ Sound(k) /\ Running /\ k.run \in Thread /\ NoneReturns
      /\ IInv /\ ~k.fault
  BY CallingFacts
<1>2. \A c \in {"return", "exit", "unlink", "unlock", "leave", "exited"} : ~InTask(c)
  BY <1>1 DEF NoneReturns, InTask
<1>3. ASSUME NEW x \in Kernel PROVE LOS_Schedule(x).wait = x.wait /\ LOS_Schedule(x).prio = x.prio
  BY <1>3 DEF LOS_Schedule, Kernel
<1>4. ASSUME NEW op, NEW x \in Kernel, NEW r, Call(op, x, r), Thinned(k, x) PROVE Same
  BY <1>3, <1>4 DEF Call, Thinned
<1>5. ASSUME NEW t \in Task, LOS_TaskSuspend(t) PROVE Same
  <2>1. /\ t \in Task \ {Idle} /\ ~Has(k, t, "UNUSED")
        /\ Call("suspend", Suspended(k, t), t = k.run)
    BY <1>5 DEF LOS_TaskSuspend
  <2>2. Suspended(k, t) \in Kernel
    BY <1>1, <2>1, SuspendedOk DEF Ok
  <2>3. Thinned(k, Suspended(k, t))
    BY <1>1 DEF Suspended, MakeUnready, Unlink, Thinned, Kernel
  <2> HIDE DEF Same
  <2> QED BY <1>4, <2>1, <2>2, <2>3
<1>6. ASSUME NEW t \in Task, LOS_TaskResume(t) PROVE Same
  <2>1. /\ ~Has(k, t, "UNUSED")
        /\ Call("resume", Resumed(k, t), k.scheduled /\ ~Blocked(Unsuspended(k, t), t))
    BY <1>6 DEF LOS_TaskResume
  <2>2. Resumed(k, t) \in Kernel
    BY <1>1, <2>1, ResumedOk DEF Ok
  <2>3. Thinned(k, Resumed(k, t))
    BY <1>1 DEF Resumed, Unsuspended, MakeReady, Thinned, Kernel
  <2> HIDE DEF Same
  <2> QED BY <1>4, <2>1, <2>2, <2>3
<1>7. ASSUME NEW n \in 1 .. MaxTimeout, LOS_TaskDelay(n) PROVE Same
  BY <1>1, <1>7 DEF LOS_TaskDelay, Delayed, osTaskAdd2TimerList, MakeUnready, Unlink, Thinned, Kernel
<1>8. CASE LOS_TaskYield
  BY <1>1, <1>8 DEF LOS_TaskYield, Rotate, MakeReady, Unlink, Thinned, Kernel
<1>9. CASE TakeTcb \/ CreateFails \/ SwitchFromDeleted
  BY <1>1, <1>9 DEF TakeTcb, Drained, CreateFails, SwitchFromDeleted, osSchedule, Thinned, Kernel
<1>10. /\ ~LOS_TaskLock /\ ~LOS_TaskUnlock /\ ~ReturnDetached /\ ~ReturnJoinable
       /\ \A t \in Task : ~LOS_TaskDelete(t)
       /\ \A t \in Task, p \in Prio : ~LOS_TaskPriSet(t, p)
  BY DEF LOS_TaskLock, LOS_TaskUnlock, ReturnDetached, ReturnJoinable, LOS_TaskDelete,
     LOS_TaskPriSet, Call, Placid, Steady, Tame
<1>11. ASSUME NEW p \in Prio, NEW d \in BOOLEAN, NEW o \in BOOLEAN, LOS_TaskCreate(p, d, o)
       PROVE  Same
  <2> DEFINE t == fresh[k.run]
             x == Filled(k, t, p, d)
  <2>1. InTask("alloc") /\ k' = IF o THEN x ELSE Started(x, t)
    BY <1>11 DEF LOS_TaskCreate
  <2>2. t \in Task /\ Has(k, t, "UNUSED") /\ ~Contains(k.free, t) /\ ~Contains(k.recycle, t)
    BY <2>1, <1>1, AllocFacts
  <2> HIDE DEF t
  <2>3. x \in Kernel
    BY <1>1, <2>2, FilledOk DEF Ok
  <2>4. k'.wait = k.wait /\ \A u \in Task : u # t => k'.prio[u] = k.prio[u]
    <3>1. x.wait = k.wait /\ \A u \in Task : u # t => x.prio[u] = k.prio[u]
      BY <1>1, <2>2 DEF Filled, Kernel
    <3> HIDE DEF x
    <3>2. Started(x, t).wait = x.wait /\ Started(x, t).prio = x.prio
      BY <2>2, <2>3 DEF Started, MakeReady, Unsuspended, osSchedule, Kernel
    <3> QED BY <2>1, <3>1, <3>2
  <2>5. \A q \in WaitObj : ~Contains(k.wait[q], t)
    BY <1>1, <2>2 DEF Sound, Good, WaitLists, Flags, FlagsOf, Waits, Stopped, Has
  <2> QED BY <2>4, <2>5 DEF Thinned
<1>12. CASE Reschedule
  BY <1>1, <1>3, <1>12 DEF Reschedule, Thinned
<1>13. CASE LOS_StartToRun \/ PendSV_Handler
  BY <1>1, <1>13 DEF LOS_StartToRun, PendSV_Handler, Thinned, Kernel
<1>14. CASE osTickHandler
  BY <1>1, <1>14 DEF osTickHandler, Placid, Steady, Tame, Thinned, Kernel
<1>15. CASE osTaskScan
  <2> DEFINE x == [k EXCEPT !.due[0] = Tail(@)]
             t == Head(k.due[0])
  <2>1. k' = Expired(x, t) /\ k.due[0] # <<>>
    BY <1>1, <1>15, ScanWhole DEF IInv, ScanRound
  <2>2. x \in Kernel /\ x.wait = k.wait /\ x.prio = k.prio
    <3>1. k.due[0] \in Seq(Task)
      BY <1>1, TaskAssumption, KernelType
    <3>2. Tail(k.due[0]) \in Seq(Task)
      BY <2>1, <3>1
    <3> QED BY <1>1, <3>2 DEF Kernel
  <2> HIDE DEF x, t
  <2>3. Thinned(x, Expired(x, t))
    BY <2>2 DEF Expired, OutOfList, FlagCleared, Unlink, MakeReady, Thinned, Kernel
  <2> QED BY <2>1, <2>2, <2>3 DEF Thinned
<1>16. CASE osTaskScanEnds
  BY <1>1, <1>3, <1>16 DEF osTaskScanEnds, Thinned
<1>17. CASE UNCHANGED vars
  BY <1>17 DEF vars, Thinned
<1> HIDE DEF Same
<1>18. \A d \in Resved : d \in BOOLEAN
  BY DEF Resved
<1>19. CASE TaskApi
  BY <1>5, <1>6, <1>7, <1>8, <1>9, <1>10, <1>19 DEF TaskApi, Same
<1>20. CASE Continue
  BY <1>2, <1>9, <1>11, <1>12, <1>18, <1>20
     DEF Continue, ExitLocks, ExitReadsLinks, ExitUnlinks, ExitUnlocks, ExitSchedules, osTaskExit,
         Same
<1>21. CASE Exceptions
  BY <1>13, <1>14, <1>15, <1>16, <1>21 DEF Exceptions, Same
<1> QED BY <1>17, <1>19, <1>20, <1>21 DEF Next, Same

(* The task that is woken leaves its list, and no priority changes. *)
LEMMA WakeThins ==
  ASSUME NEW x \in Kernel, NEW o \in WaitObj
  PROVE  Thinned(x, osQueueWakeUp(x, o))
<1> DEFINE t == Head(x.wait[o])
           y == [x EXCEPT !.wait[o] = RemoveFirst(@, t)]
           z == IF Has(x, t, "TIMEOUT") THEN osTimerListDelete(y, t) ELSE y
           w == [z EXCEPT !.status[t] = @ \ {"PEND_QUEUE", "TIMEOUT"}]
<1>1. osQueueWakeUp(x, o) = IF Has(x, t, "SUSPEND") THEN w ELSE MakeReady(w, t)
  BY DEF osQueueWakeUp, Awake
<1>2. y.prio = x.prio /\ \A p \in WaitObj : y.wait[p] = IF p = o THEN RemoveFirst(x.wait[p], t) ELSE x.wait[p]
  BY DEF Kernel
<1>3. w.prio = y.prio /\ w.wait = y.wait
  BY DEF osTimerListDelete, Kernel
<1>4. MakeReady(w, t).prio = w.prio /\ MakeReady(w, t).wait = w.wait
  BY DEF MakeReady, osTimerListDelete, Kernel
<1> HIDE DEF w, y, t
<1> QED BY <1>1, <1>2, <1>3, <1>4 DEF Thinned

(* A call's section, with the LOS_Schedule that may follow at once. *)
LEMMA CallByThins ==
  ASSUME k \in Kernel, NEW c, NEW op, NEW o \in WaitObj, NEW b \in BOOLEAN, NEW r,
         CallBy(c, op, IF b THEN osQueueWakeUp(k, o) ELSE k, r)
  PROVE  Thinned(k, k')
<1> DEFINE x == IF b THEN osQueueWakeUp(k, o) ELSE k
<1>1. k' = x \/ k' = LOS_Schedule(x)
  BY DEF CallBy
<1>2. Thinned(k, x)
  BY WakeThins, ThinnedSame
<1>3. LOS_Schedule(x).wait = x.wait /\ LOS_Schedule(x).prio = x.prio
  BY ZenonT(60) DEF LOS_Schedule, osQueueWakeUp, Awake, MakeReady, osTimerListDelete, Kernel
<1> HIDE DEF x
<1> QED BY <1>1, <1>2, <1>3 DEF Thinned

(* The task that begins to wait takes its place by priority. *)
LEMMA BlocksRanks ==
  ASSUME Placid, Calling, Ranked(k), NEW op, NEW o \in WaitObj, NEW n \in 1 .. Forever, NEW msg,
         Blocks(op, o, n, msg)
  PROVE  Ranked(k')
<1>1. /\ k \in Kernel /\ Sound(k) /\ Asking /\ Running /\ pc[k.run] = "user" /\ UserCode
      /\ k' = osQueuePend(k, o, n) /\ k.scheduled /\ IInv
      /\ InTask(pc[k.run]) /\ k.run # Idle
  BY CallingFacts DEF Blocks, UserCode, InTask
<1>2. k.run \in Task /\ ~Waits(k, k.run)
  BY <1>1, CallerFacts
<1>3. ~Has(k, k.run, "TIMEOUT") /\ \A p \in WaitObj : ~Contains(k.wait[p], k.run)
  BY <1>1, <1>2 DEF Asking, Inside, Sound, Good, WaitLists
<1>4. Queued(k, k', o, n, "PEND_QUEUE") /\ k'.wait[o] = Placed(k, o)
  BY <1>1, <1>2, <1>3, PendQueued
<1>5. k'.prio = k.prio /\ \A p \in WaitObj : p # o => k'.wait[p] = k.wait[p]
  <2> DEFINE u == MakeUnready(k, k.run)
  <2>1. u.prio = k.prio /\ \A p \in WaitObj : u.wait[p] = RemoveFirst(k.wait[p], k.run)
    BY <1>1 DEF MakeUnready, Unlink, Kernel
  <2>2. k'.prio = u.prio /\ \A p \in WaitObj : p # o => k'.wait[p] = u.wait[p]
    BY <1>4 DEF Queued
  <2> HIDE DEF u
  <2>3. \A p \in WaitObj : RemoveFirst(k.wait[p], k.run) = k.wait[p]
    <3>1. ASSUME NEW p \in WaitObj PROVE RemoveFirst(k.wait[p], k.run) = k.wait[p]
      <4>1. k.wait[p] \in Seq(Task) /\ ~Contains(k.wait[p], k.run)
        BY <1>1, <1>3, KernelType
      <4> QED BY <4>1, RemoveFirstAbsent
    <3> QED BY <3>1
  <2> QED BY <2>1, <2>2, <2>3
<1> QED BY <1>1, <1>2, <1>4, <1>5, PlacedRanks

LEMMA QueueRanks ==
  ASSUME Placid, "priset" \notin Api \cup IsrApi, QueueInv, Ranked(k), [QueueNext]_allVars
  PROVE  Ranked(k')
<1>1. Calling /\ k \in Kernel
  BY CallingFacts DEF QueueInv
<1>2. ASSUME Thinned(k, k') PROVE Ranked(k')
  BY <1>1, <1>2, ThinnedRanks
<1>3. ASSUME k' = k PROVE Ranked(k')
  BY <1>3 DEF Ranked
<1>4. ASSUME NEW o, NEW b \in BOOLEAN, o \in WaitObj,
             k' = IF b THEN osQueueWakeUp(k, o) ELSE k
      PROVE  Ranked(k')
  BY <1>1, <1>2, <1>3, <1>4, WakeThins
<1>5. \A q \in Queue : <<q, "read">> \in WaitObj /\ <<q, "write">> \in WaitObj
  BY Objects
<1>6. Mem \in WaitObj
  BY Objects
<1>7. CASE QueueStep
  <2>1. ASSUME NEW q \in Queue, NEW n \in 1 .. MaxLen, LOS_QueueCreate(q, n) PROVE Ranked(k')
    BY <1>3, <2>1 DEF LOS_QueueCreate, vars
  <2>2. ASSUME NEW q \in Queue, LOS_QueueDelete(q) PROVE Ranked(k')
    BY <1>3, <2>2 DEF LOS_QueueDelete, vars
  <2>3. ASSUME NEW q \in Queue, ReadReturns(q) PROVE Ranked(k')
    <3>1. k' = IF k.wait[<<q, "write">>] # <<>> THEN osQueueWakeUp(k, <<q, "write">>) ELSE k
      BY <2>3 DEF ReadReturns, AfterRead
    <3> QED BY <1>4, <1>5, <3>1
  <2>4. ASSUME NEW q \in Queue, WriteReturns(q) PROVE Ranked(k')
    <3>1. k' = IF k.wait[<<q, "read">>] # <<>> THEN osQueueWakeUp(k, <<q, "read">>) ELSE k
      BY <2>4 DEF WriteReturns, AfterWrite
    <3> QED BY <1>4, <1>5, <3>1
  <2>5. ASSUME NEW q \in Queue, NEW c \in Client, ReadNow(c, q) PROVE Ranked(k')
    <3> DEFINE o == <<q, "write">>
               b == k.wait[o] # <<>>
    <3>1. CallBy(c, "read", IF b THEN osQueueWakeUp(k, o) ELSE k, b) /\ o \in WaitObj
      BY <1>5, <2>5 DEF ReadNow, AfterRead
    <3>2. b \in BOOLEAN
      OBVIOUS
    <3> HIDE DEF o, b
    <3> QED BY <1>1, <1>2, <3>1, <3>2, CallByThins
  <2>6. ASSUME NEW q \in Queue, NEW c \in Client, NEW m \in Block, WriteNow(c, q, m)
        PROVE  Ranked(k')
    <3> DEFINE o == <<q, "read">>
               b == k.wait[o] # <<>>
    <3>1. CallBy(c, "write", IF b THEN osQueueWakeUp(k, o) ELSE k, b) /\ o \in WaitObj
      BY <1>5, <2>6 DEF WriteNow, AfterWrite
    <3>2. b \in BOOLEAN
      OBVIOUS
    <3> HIDE DEF o, b
    <3> QED BY <1>1, <1>2, <3>1, <3>2, CallByThins
  <2>7. ASSUME NEW q \in Queue, NEW n \in 1 .. Forever, ReadBlocks(q, n) PROVE Ranked(k')
    <3>1. Blocks("read", <<q, "read">>, n, NoTask)
      BY <2>7 DEF ReadBlocks
    <3> QED BY <1>1, <1>5, <3>1, BlocksRanks
  <2>8. ASSUME NEW q \in Queue, NEW n \in 1 .. Forever, NEW m \in Block, WriteBlocks(q, m, n)
        PROVE  Ranked(k')
    <3>1. Blocks("write", <<q, "write">>, n, m)
      BY <2>8 DEF WriteBlocks
    <3> QED BY <1>1, <1>5, <3>1, BlocksRanks
  <2>9. ASSUME NEW c \in Client, MailAllocNow(c) PROVE Ranked(k')
    <3>1. CallBy(c, "mailalloc", IF FALSE THEN osQueueWakeUp(k, Mem) ELSE k, FALSE)
      BY <2>9 DEF MailAllocNow
    <3> QED BY <1>1, <1>2, <1>6, <3>1, CallByThins
  <2>10. ASSUME NEW c \in Client, NEW b \in Block, osQueueMailFree(c, b) PROVE Ranked(k')
    <3> DEFINE w == k.wait[Mem] # <<>>
    <3>1. CallBy(c, "mailfree", IF w THEN osQueueWakeUp(k, Mem) ELSE k, w)
      BY <2>10 DEF osQueueMailFree
    <3>2. w \in BOOLEAN
      OBVIOUS
    <3> HIDE DEF w
    <3> QED BY <1>1, <1>2, <1>6, <3>1, <3>2, CallByThins
  <2>11. ASSUME NEW n \in 1 .. Forever, MailAllocBlocks(n) PROVE Ranked(k')
    <3>1. Blocks("mailalloc", Mem, n, NoTask)
      BY <2>11 DEF MailAllocBlocks
    <3> QED BY <1>1, <1>6, <3>1, BlocksRanks
  <2>12. CASE MailAllocReturns
    BY <1>3, <2>12 DEF MailAllocReturns
  <2>13. ASSUME NEW o \in WaitObj, TimesOut(o) PROVE Ranked(k')
    <3>1. k'.wait = k.wait /\ k'.prio = k.prio
      BY <1>1, <2>13 DEF TimesOut, Kernel
    <3> QED BY <3>1 DEF Ranked
  <2>14. CASE WaitSchedules /\ UNCHANGED queueVars
    <3>1. k'.wait = k.wait /\ k'.prio = k.prio
      BY <1>1, <2>14 DEF WaitSchedules, LOS_Schedule, Kernel
    <3> QED BY <3>1 DEF Ranked
  <2> QED BY <1>7, <2>1, <2>2, <2>3, <2>4, <2>5, <2>6, <2>7, <2>8, <2>9, <2>10, <2>11, <2>12,
             <2>13, <2>14 DEF QueueStep
<1>8. CASE Next /\ UNCHANGED queueVars
  BY <1>1, <1>2, <1>8, NextThins
<1>9. CASE UNCHANGED allVars
  BY <1>3, <1>9 DEF allVars, vars
<1> QED BY <1>7, <1>8, <1>9 DEF QueueNext

(***************************************************************************)
(* The theorems.                                                           *)
(***************************************************************************)

(* What the queue component stores is what its declarations say: counters and ring
   indices stay in range, and a block in a slot is a block of the box.     *)
THEOREM QueueTypeCorrect == ASSUME Placid PROVE QueueSpec => []QueueTypeOK
<1>1. QueueInv => QueueTypeOK
  BY DEF QueueInv, Calling, IInv, Asking, Requests, Typed, QueueRecord, QueueTypeOK
<1> QED BY <1>1, QueueInvariance, PTL

(* No list operation of a queue call or of the kernel below it meets a node that is
   in no list or in two, as long as no handler reads or writes inside a round of
   osTaskScan (~Nesting, in Placid); and the scheduler's promises hold below queues
   and mail.                                                               *)
THEOREM QueueNeverFaults ==
  ASSUME Placid
  PROVE  QueueSpec => [](NoFault /\ SwitchTargetReady /\ (~Lax => HighestRuns) /\ WaitAgrees)
<1>1. QueueInv => NoFault /\ SwitchTargetReady
  BY DEF QueueInv, Calling, NoFault, Settles, Settled, SwitchTargetReady
<1>2. QueueInv => (~Lax => HighestRuns) /\ WaitAgrees
  BY SettledHighest, WaitsAgree DEF QueueInv, Calling
<1> QED BY <1>1, <1>2, QueueInvariance, PTL

LEMMA SetOfNone ==
  ASSUME NEW S, \A y : y \notin S
  PROVE  Cardinality(S) = 0
<1>1. S = {}
  OBVIOUS
<1> QED BY <1>1, FS_EmptySet

LEMMA OnePlace ==
  ASSUME Typed, NEW b \in Block, NEW kind, NEW who, NEW i, At(b, kind, who, i)
  PROVE  Places(b) = IF b \in lost THEN 0 ELSE 1
<1> DEFINE F == {j \in 1 .. Len(box) : box[j] = b}
           O == {c \in Client : b \in own[c]}
           T == {t \in Task : puwMsg[t] = b}
           S == {p \in Queue \X (0 .. MaxLen - 1) : queue[p[1]].slot[p[2]] = b}
<1>1. Places(b) = Cardinality(F) + Cardinality(O) + Cardinality(T) + Cardinality(S)
  BY DEF Places
<1>2. Contains(box, b) <=> \E j \in 1 .. Len(box) : box[j] = b
  BY DEF Typed, Contains
<1>3. kind # "box" => Cardinality(F) = 0
  <2> SUFFICES ASSUME kind # "box" PROVE \A j : j \notin F
    BY SetOfNone
  <2> QED BY <1>2 DEF At
<1>4. kind = "box" => Cardinality(F) = 1
  <2> SUFFICES ASSUME kind = "box" PROVE Cardinality(F) = 1
    OBVIOUS
  <2>1. PICK x \in 1 .. Len(box) : box[x] = b
    BY <1>2 DEF At
  <2>2. \A j \in 1 .. Len(box) : box[j] = b => j = x
    BY <2>1 DEF Typed, IsInjective
  <2>3. \A j : j \in F <=> j = x
    BY <2>1, <2>2
  <2> HIDE DEF F
  <2>4. F = {x}
    BY <2>3
  <2> QED BY <2>4, FS_Singleton
<1>5. Cardinality(O) = IF kind = "own" THEN 1 ELSE 0
  <2>1. CASE kind = "own"
    <3>1. O = {who}
      BY <2>1 DEF At, Somewhere
    <3> HIDE DEF O
    <3> QED BY <2>1, <3>1, FS_Singleton
  <2>2. CASE kind # "own"
    <3>1. \A c : c \notin O
      BY <2>2 DEF At
    <3> HIDE DEF O
    <3> QED BY <2>2, <3>1, SetOfNone
  <2> QED BY <2>1, <2>2
<1>6. Cardinality(T) = IF kind = "msg" THEN 1 ELSE 0
  <2>1. CASE kind = "msg"
    <3>1. T = {who}
      BY <2>1 DEF At, Somewhere
    <3> HIDE DEF T
    <3> QED BY <2>1, <3>1, FS_Singleton
  <2>2. CASE kind # "msg"
    <3>1. \A t : t \notin T
      BY <2>2 DEF At
    <3> HIDE DEF T
    <3> QED BY <2>2, <3>1, SetOfNone
  <2> QED BY <2>1, <2>2
<1>7. Cardinality(S) = IF kind = "slot" THEN 1 ELSE 0
  <2>1. CASE kind = "slot"
    <3>1. \A p \in Queue \X (0 .. MaxLen - 1) : p \in S <=> p[1] = who /\ p[2] = i
      BY <2>1 DEF At
    <3>2. <<who, i>> \in Queue \X (0 .. MaxLen - 1) /\ <<who, i>> \in S
      BY <2>1 DEF At, Somewhere
    <3>3. \A p : p \in S <=> p = <<who, i>>
      BY <3>1, <3>2
    <3> HIDE DEF S
    <3>4. S = {<<who, i>>}
      BY <3>3
    <3> QED BY <2>1, <3>4, FS_Singleton
  <2>2. CASE kind # "slot"
    <3>1. \A p : p \notin S
      BY <2>2 DEF At
    <3> HIDE DEF S
    <3> QED BY <2>2, <3>1, SetOfNone
  <2> QED BY <2>1, <2>2
<1>8. kind \in {"lost", "box", "own", "msg", "slot"} /\ (b \in lost <=> kind = "lost")
  BY DEF At, Somewhere
<1> HIDE DEF F, O, T, S
<1> QED BY <1>1, <1>3, <1>4, <1>5, <1>6, <1>7, <1>8

(* Every block of the memory box is in exactly one place: free, with one client, in
   one slot of one queue, on its way to the task it was freed for, or gone with a
   deleted queue.                                                          *)
THEOREM MailHasOneOwner == ASSUME Placid PROVE QueueSpec => []MailOwnedOnce
<1>1. QueueInv => MailOwnedOnce
  <2> SUFFICES ASSUME QueueInv, NEW b \in Block PROVE Places(b) = IF b \in lost THEN 0 ELSE 1
    BY DEF MailOwnedOnce
  <2>1. PICK kind, who, i : At(b, kind, who, i)
    BY DEF QueueInv, Mail
  <2> QED BY <2>1, OnePlace DEF QueueInv
<1> QED BY <1>1, QueueInvariance, PTL

(* Nobody waits in vain, and no slot is lost between a wake-up and the woken task's
   turn: every slot of a queue is writable, holds a message or is reserved for one
   task that has been woken, and a waiter finds nothing that it could have.  *)
THEOREM SlotsAreAccounted ==
  ASSUME Placid
  PROVE  QueueSpec => [](SlotsAccounted /\ (k.wait[Mem] # <<>> => box = <<>>))
<1>1. QueueInv => SlotsAccounted /\ (k.wait[Mem] # <<>> => box = <<>>)
  <2> SUFFICES ASSUME QueueInv PROVE SlotsAccounted /\ (k.wait[Mem] # <<>> => box = <<>>)
    OBVIOUS
  <2>1. Rings /\ Starved /\ Typed
    BY DEF QueueInv
  <2>2. ASSUME NEW q \in Queue
        PROVE  /\ queue[q].used =>
                    queue[q].readable + queue[q].writable + Cardinality(Chosen(<<q, "read">>))
                      + Cardinality(Chosen(<<q, "write">>)) = queue[q].len
               /\ k.wait[<<q, "read">>] # <<>> => queue[q].used /\ queue[q].readable = 0
               /\ k.wait[<<q, "write">>] # <<>> => queue[q].used /\ queue[q].writable = 0
    <3>1. queue[q].readable \in Nat /\ queue[q].writable \in Nat /\ queue[q].len \in Nat
      BY <2>1, RecordFacts
    <3>2. N(<<q, "read">>) \in Nat /\ N(<<q, "write">>) \in Nat
      BY ChosenFinite
    <3>3. queue[q].used => queue[q].readable + N(<<q, "read">>) + queue[q].writable
                             + N(<<q, "write">>) = queue[q].len
      BY <2>1 DEF Rings, Ring
    <3>4. queue[q].used => queue[q].readable + queue[q].writable + N(<<q, "read">>)
                             + N(<<q, "write">>) = queue[q].len
      BY <3>1, <3>2, <3>3
    <3>5. /\ k.wait[<<q, "read">>] # <<>> => Bare(<<q, "read">>)
          /\ k.wait[<<q, "write">>] # <<>> => Bare(<<q, "write">>)
      BY <2>1, Objects DEF Starved
    <3> QED BY <3>4, <3>5, Objects DEF Bare, N
  <2>3. k.wait[Mem] # <<>> => Bare(Mem)
    BY <2>1, Objects DEF Starved
  <2> QED BY <2>2, <2>3, Objects DEF SlotsAccounted, Bare
<1> QED BY <1>1, QueueInvariance, PTL

(* The waiters are served: nobody waits for what is there, and where no priority is
   changed the most urgent waiter is next.                                 *)
THEOREM WaitersAreServed ==
  ASSUME Placid, "priset" \notin Api \cup IsrApi
  PROVE  QueueSpec => []WaitersServed
<1>1. QueueInit => Ranked(k)
  BY DEF QueueInit, Init, Ranked
<1>2. QueueInv /\ Ranked(k) /\ [QueueNext]_allVars => Ranked(k)'
  <2> SUFFICES ASSUME QueueInv, Ranked(k), [QueueNext]_allVars PROVE Ranked(k')
    BY DEF Ranked
  <2> QED BY QueueRanks
<1>3. SlotsAccounted /\ (k.wait[Mem] # <<>> => box = <<>>) /\ Ranked(k) => WaitersServed
  BY DEF WaitersServed, UrgentFirst, Ranked
<1> QED BY <1>1, <1>2, <1>3, QueueInvariance, SlotsAreAccounted, PTL DEF QueueSpec

(* What LOS_QueueCreate, LOS_QueueWrite, LOS_QueueRead and LOS_QueueDelete promise:
   a queue is a bounded channel, first in first out, for all its clients together.
   A message is put when it is written, not when it is counted, and got when a
   task copies it, not when that task is woken.                            *)
THEOREM QueuesAreChannels ==
  ASSUME Placid
  PROVE  QueueSpec => ImplementsChannel
<1>1. QueueInit => C!Init
  <2> SUFFICES ASSUME QueueInit PROVE C!Init
    OBVIOUS
  <2>1. QueueInv /\ queue = [q \in Queue |-> NoQueue] /\ got = NoTask
    BY QueueInitInv DEF QueueInit, Placid, Steady, Tame
  <2>2. ASSUME NEW q \in Queue
        PROVE  Messages(q) = <<>> /\ queue[q].used = FALSE /\ queue[q].len = 1
    <3>1. /\ queue[q].used = FALSE /\ queue[q].len = 1 /\ queue[q].readable = 0
          /\ N(<<q, "read">>) = 0
      BY <2>1 DEF NoQueue, QueueInv, Rings
    <3>2. queue[q].readable + N(<<q, "read">>) = 0
      BY <3>1
    <3>3. InOrder(Messages(q), queue[q].slot, queue[q].head, 0, queue[q].len)
      BY <3>2, MessagesAre
    <3> QED BY <3>1, <3>3, NoneListed
  <2> QED BY <2>1, <2>2 DEF C!Init
<1>2. QueueInv /\ [QueueNext]_allVars
        => [C!Next]_<<[q \in Queue |-> [open |-> queue[q].used, cap |-> queue[q].len,
                                         buf |-> Messages(q)]], got>>
  BY QueueNextInv DEF Passes, Chan
<1> QED BY <1>1, <1>2, QueueInvariance, PTL DEF QueueSpec, ImplementsChannel, C!Spec
=============================================================================
