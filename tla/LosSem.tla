------------------------------- MODULE LosSem -------------------------------
(***************************************************************************)
(* Counting semaphores (kernel/base/ipc/los_sem.c) on the task component.  *)
(* WaitObj is the set of semaphore control blocks g_pstAllSem.             *)
(***************************************************************************)
EXTENDS LosIpc

CONSTANTS
  MaxCount,    (* OS_SEM_COUNT_MAX                                      *)
  UnusedOrder  (* g_stUnusedSemList after osSemInit                     *)

Sem == WaitObj

ASSUME SemAssumption ==
  /\ MaxCount \in Nat \ {0}
  /\ UnusedOrder \in Seq(Sem)
  /\ \A s \in Sem : \E i \in 1 .. Len(UnusedOrder) : UnusedOrder[i] = s
  /\ \A i, j \in 1 .. Len(UnusedOrder) : UnusedOrder[i] = UnusedOrder[j] => i = j

VARIABLES
  used,     (* the semaphores whose usSemStat is OS_SEM_USED                    *)
  count,    (* uwSemCount                                                       *)
  unused,   (* g_stUnusedSemList                                                *)
  granted   (* history: the tasks a LOS_SemPost has woken since they blocked    *)

semVars == <<used, count, unused, granted>>
allVars == <<vars, semVars>>

LOS_SemCreate(c) ==
  /\ "semcreate" \in Api /\ UserCode
  /\ unused # <<>>
  /\ used' = used \cup {Head(unused)}
  /\ count' = [count EXCEPT ![Head(unused)] = c]
  /\ unused' = Tail(unused)
  /\ UNCHANGED <<vars, granted>>

(* Mutant: the wait list is not tested. *)
DeleteWaitedFor(s) ==
  /\ "semdelete" \in Api /\ UserCode /\ s \in used
  /\ used' = used \ {s} /\ unused' = <<s>> \o unused
  /\ UNCHANGED <<vars, count, granted>>

LOS_SemDelete(s) ==
  /\ "semdelete" \in Api /\ UserCode
  /\ s \in used /\ k.wait[s] = <<>>
  /\ used' = used \ {s}
  /\ unused' = <<s>> \o unused
  /\ UNCHANGED <<vars, count, granted>>

(* Mutant: the count is not tested. *)
TakeUnchecked(s) ==
  /\ s \in used /\ Call("sempend", k, FALSE)
  /\ count' = [count EXCEPT ![s] = @ - 1]
  /\ UNCHANGED <<used, unused, granted>>

(* LOS_SemPend that does not wait; interrupt handlers may do this too. *)
SemTake(s) ==
  /\ s \in used /\ count[s] > 0
  /\ Call("sempend", k, FALSE)
  /\ count' = [count EXCEPT ![s] = @ - 1]
  /\ UNCHANGED <<used, unused, granted>>

SemBlock(s, n) ==
  /\ k.scheduled /\ "sempend" \in Api /\ UserCode
  /\ s \in used /\ count[s] = 0 /\ k.lock = 0
  /\ k' = WaitOn(k, s, n)
  /\ Goto(k.run, "pend")
  /\ granted' = granted \ {k.run}
  /\ UNCHANGED <<fresh, tick, cut, used, count, unused>>

(* LOS_SemPend after its LOS_Schedule: LOS_OK or LOS_ERRNO_SEM_TIMEOUT. *)
SemPendReturns ==
  /\ InTask("woken")
  /\ k' = [k EXCEPT !.status[k.run] = @ \ {"TIMEOUT"}]
  /\ Goto(k.run, "user")
  /\ UNCHANGED <<fresh, tick, cut, semVars>>

LOS_SemPost(s) ==
  /\ s \in used /\ count[s] # MaxCount
  /\ \/ /\ k.wait[s] # <<>>
        /\ Call("sempost", WakeFirst(k, s), TRUE)
        /\ granted' = granted \cup {Head(k.wait[s])}
        /\ UNCHANGED count
     \/ /\ k.wait[s] = <<>>
        /\ Call("sempost", k, FALSE)
        /\ count' = [count EXCEPT ![s] = @ + 1]
        /\ UNCHANGED granted
  /\ UNCHANGED <<used, unused>>

SemInit ==
  /\ Init
  /\ used = {} /\ unused = UnusedOrder
  /\ count = [s \in Sem |-> 0]
  /\ granted = {}

SemStep ==
  \/ \E c \in 0 .. MaxCount : LOS_SemCreate(c)
  \/ \E s \in Sem : LOS_SemDelete(s) \/ SemTake(s) \/ LOS_SemPost(s)
  \/ \E s \in Sem, n \in 1 .. Forever : SemBlock(s, n)
  \/ WaitSchedules /\ UNCHANGED semVars
  \/ SemPendReturns

SemNext == SemStep \/ (Next /\ UNCHANGED semVars)

SemSpec == SemInit /\ [][SemNext]_allVars

SemFairness ==
  /\ WF_allVars(osTickHandler /\ UNCHANGED semVars)
  /\ WF_allVars(osTaskScan /\ UNCHANGED semVars)
  /\ WF_allVars(osTaskScanEnds /\ UNCHANGED semVars)
  /\ WF_allVars(PendSV_Handler /\ UNCHANGED semVars)
  /\ WF_allVars(Continue /\ UNCHANGED semVars)
  /\ WF_allVars(WaitSchedules /\ UNCHANGED semVars)
  /\ WF_allVars(SemPendReturns)
  /\ SF_allVars(LOS_StartToRun /\ UNCHANGED semVars)
  /\ SF_allVars(LOS_TaskUnlock /\ UNCHANGED semVars)

FairSemSpec == SemSpec /\ SemFairness

-----------------------------------------------------------------------------
(* The type of every variable, with the component's own. *)
SemTypeOK ==
  /\ TypeOK
  /\ used \subseteq Sem
  /\ count \in [Sem -> 0 .. MaxCount]
  /\ unused \in Seq(Sem)
  /\ granted \subseteq Task

(* No token lies idle while a task waits for it, and only semaphores in use
   have waiters: a wake-up is never lost between LOS_SemPend and LOS_SemPost. *)
NoIdleToken ==
  \A s \in Sem : k.wait[s] # <<>> => s \in used /\ count[s] = 0

(* LOS_SemPend returns LOS_OK exactly to the tasks a LOS_SemPost has chosen,
   and LOS_ERRNO_SEM_TIMEOUT to the others, however post, timeout and suspension
   interleave: no token is lost and none is invented.  Handlers post before,
   between and after the rounds of osTaskScan: one that posts inside the round of
   the task it wakes breaks the lists (v_scanpost.cfg), and so does the time
   slice (v_slice.cfg).                                                     *)
OkIffPosted ==
  \A t \in Task :
    pc[t] \in {"pend", "woken"} /\ ~Has(k, t, "PEND") =>
      (t \in granted <=> ~Has(k, t, "TIMEOUT"))
=============================================================================
