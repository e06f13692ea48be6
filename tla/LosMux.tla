------------------------------- MODULE LosMux -------------------------------
(***************************************************************************)
(* Recursive mutexes with priority inheritance (kernel/base/ipc/los_mux.c) *)
(* on the task component.  WaitObj is the set of mutex control blocks      *)
(* g_pstAllMux.  main() creates mutexes and takes none.                    *)
(***************************************************************************)
EXTENDS LosIpc

CONSTANTS
  MaxNest,     (* the deepest recursive LOS_MuxPend (a bound of the model) *)
  UnusedOrder  (* g_stUnusedMuxList after osMuxInit                        *)

Mux == WaitObj

ASSUME MuxAssumption ==
  /\ MaxNest \in Nat \ {0}
  /\ UnusedOrder \in Seq(Mux)
  /\ \A m \in Mux : \E i \in 1 .. Len(UnusedOrder) : UnusedOrder[i] = m
  /\ \A i, j \in 1 .. Len(UnusedOrder) : UnusedOrder[i] = UnusedOrder[j] => i = j

VARIABLES
  mux,     (* the control blocks: ucMuxStat, usMuxCount, pstOwner, usPriority      *)
  unused,  (* g_stUnusedMuxList                                                    *)
  asked,   (* history: the mutex a thread is inside LOS_MuxPend for                *)
  held,    (* history: LOS_MuxPend calls that returned LOS_OK, less posts, by task *)
  base     (* history: the priority a task was created with                        *)

muxVars == <<mux, unused, asked, held, base>>
allVars == <<vars, muxVars>>

Owns(t, m) == mux[m].count > 0 /\ mux[m].owner = t

LOS_MuxCreate ==
  /\ "muxcreate" \in Api /\ UserCode
  /\ unused # <<>>
  /\ mux' = [mux EXCEPT ![Head(unused)] =
               [used |-> TRUE, count |-> 0, owner |-> NoTask, prio |-> 0]]
  /\ unused' = Tail(unused)
  /\ UNCHANGED <<vars, asked, held, base>>

LOS_MuxDelete(m) ==
  /\ "muxdelete" \in Api /\ UserCode
  /\ mux[m].used /\ k.wait[m] = <<>> /\ mux[m].count = 0
  /\ mux' = [mux EXCEPT ![m].used = FALSE]
  /\ unused' = <<m>> \o unused
  /\ UNCHANGED <<vars, asked, held, base>>

(***************************************************************************)
(* LOS_MuxPend.                                                            *)
(***************************************************************************)
Pends(m) == k.scheduled /\ "muxpend" \in Api /\ UserCode /\ mux[m].used

(* Mutant: whoever owns the mutex, the count is raised. *)
TakeOwned(m) ==
  /\ Pends(m) /\ mux[m].count < MaxNest
  /\ mux' = [mux EXCEPT ![m] = [used |-> TRUE, count |-> @.count + 1, owner |-> k.run,
                                prio |-> k.prio[k.run]]]
  /\ held' = [held EXCEPT ![k.run][m] = @ + 1]
  /\ UNCHANGED <<vars, unused, asked, base>>

MuxTake(m) ==
  /\ Pends(m) /\ mux[m].count = 0
  /\ mux' = [mux EXCEPT ![m] = [used |-> TRUE, count |-> 1, owner |-> k.run,
                                prio |-> k.prio[k.run]]]
  /\ held' = [held EXCEPT ![k.run][m] = @ + 1]
  /\ UNCHANGED <<vars, unused, asked, base>>

MuxNest(m) ==
  /\ Pends(m) /\ Owns(k.run, m) /\ mux[m].count < MaxNest
  /\ mux' = [mux EXCEPT ![m].count = @ + 1]
  /\ held' = [held EXCEPT ![k.run][m] = @ + 1]
  /\ UNCHANGED <<vars, unused, asked, base>>

(* Mutant: the priority stays. *)
PriorityStays(x, m) == x

(* The owner inherits the priority of the task that is about to wait. *)
Raised(x, m) ==
  LET o == mux[m].owner
  IN IF x.prio[o] > x.prio[x.run] THEN osTaskPriModify(x, o, x.prio[x.run]) ELSE x

MuxBlock(m, n) ==
  /\ Pends(m) /\ mux[m].count > 0 /\ mux[m].owner # k.run /\ k.lock = 0
  /\ k' = WaitOn(Raised(k, m), m, n)
  /\ asked' = [asked EXCEPT ![k.run] = m]
  /\ Goto(k.run, "pend")
  /\ UNCHANGED <<fresh, tick, cut, mux, unused, held, base>>

(* LOS_MuxPend after its LOS_Schedule: LOS_OK or LOS_ERRNO_MUX_TIMEOUT. *)
MuxPendReturns ==
  /\ InTask("woken")
  /\ k' = [k EXCEPT !.status[k.run] = @ \ {"TIMEOUT"}]
  /\ held' = IF Has(k, k.run, "TIMEOUT") THEN held
             ELSE [held EXCEPT ![k.run][asked[k.run]] = @ + 1]
  /\ asked' = [asked EXCEPT ![k.run] = NoTask]
  /\ Goto(k.run, "user")
  /\ UNCHANGED <<fresh, tick, cut, mux, unused, base>>

(***************************************************************************)
(* LOS_MuxPost.                                                            *)
(***************************************************************************)
Posts(m) ==
  /\ k.scheduled /\ "muxpost" \in Api /\ UserCode
  /\ mux[m].used /\ Owns(k.run, m)
  /\ held' = [held EXCEPT ![k.run][m] = @ - 1]
  /\ UNCHANGED <<fresh, tick, cut, unused, asked, base>>

(* The owner gets the priority back that it had when it took the mutex. *)
Lowered(x, m) ==
  IF x.prio[x.run] # mux[m].prio THEN osTaskPriModify(x, x.run, mux[m].prio) ELSE x

(* Mutant: the owner is not tested. *)
PostByAnyone(m) ==
  /\ k.scheduled /\ "muxpost" \in Api /\ UserCode
  /\ mux[m].used /\ mux[m].count > 1
  /\ held' = [held EXCEPT ![k.run][m] = @ - 1]
  /\ mux' = [mux EXCEPT ![m].count = @ - 1]
  /\ UNCHANGED <<vars, unused, asked, base>>

MuxUnnest(m) ==
  /\ Posts(m) /\ mux[m].count > 1
  /\ mux' = [mux EXCEPT ![m].count = @ - 1]
  /\ UNCHANGED <<k, pc>>

(* Mutant: the waiters are not looked at. *)
FreeAnyway(m) ==
  /\ Posts(m) /\ mux[m].count = 1
  /\ k' = Lowered(k, m)
  /\ mux' = [mux EXCEPT ![m].count = 0]
  /\ UNCHANGED pc

(* Nobody waits: the mutex is free, and nothing is rescheduled. *)
MuxFree(m) ==
  /\ Posts(m) /\ mux[m].count = 1 /\ k.wait[m] = <<>>
  /\ k' = Lowered(k, m)
  /\ mux' = [mux EXCEPT ![m].count = 0]
  /\ UNCHANGED pc

(* The task that has waited longest becomes the owner before it runs. *)
MuxHand(m) ==
  /\ Posts(m) /\ mux[m].count = 1 /\ k.wait[m] # <<>>
  /\ LET t == Head(k.wait[m])
     IN mux' = [mux EXCEPT ![m].count = 1, ![m].owner = t, ![m].prio = k.prio[t]]
  /\ k' = WakeFirst(Lowered(k, m), m)
  /\ Goto(k.run, "sched")

(***************************************************************************)
(* The specification.                                                      *)
(***************************************************************************)
MuxInit ==
  /\ Init
  /\ mux = [m \in Mux |-> [used |-> FALSE, count |-> 0, owner |-> NoTask, prio |-> 0]]
  /\ unused = UnusedOrder
  /\ asked = [t \in Task |-> NoTask]
  /\ held = [t \in Task |-> [m \in Mux |-> 0]]
  /\ base = k.prio

MuxStep ==
  \/ LOS_MuxCreate \/ MuxPendReturns
  \/ \E m \in Mux :
       \/ LOS_MuxDelete(m) \/ MuxTake(m) \/ MuxNest(m)
       \/ MuxUnnest(m) \/ MuxFree(m) \/ MuxHand(m)
  \/ \E m \in Mux, n \in 1 .. Forever : MuxBlock(m, n)
  \/ WaitSchedules /\ UNCHANGED muxVars

TaskStep ==
  /\ Next
  /\ base' = [t \in Task |-> IF pc[t] = "none" THEN k'.prio[t] ELSE base[t]]
  /\ UNCHANGED <<mux, unused, asked, held>>

MuxNext == MuxStep \/ TaskStep

MuxSpec == MuxInit /\ [][MuxNext]_allVars

-----------------------------------------------------------------------------
(* The type of every variable, with the component's own. *)
MuxTypeOK ==
  /\ TypeOK
  /\ mux \in [Mux -> [used : BOOLEAN, count : 0 .. MaxNest, owner : Task \cup {NoTask},
                      prio : Prio]]
  /\ unused \in Seq(Mux)
  /\ asked \in [Task -> Mux \cup {NoTask}]
  /\ held \in [Task -> [Mux -> Nat]]
  /\ base \in [Task -> Prio]

(* What t has been told, or will be when it runs: it holds m so many times. *)
Told(t, m) ==
  held[t][m] + IF /\ pc[t] \in {"pend", "woken"} /\ asked[t] = m
                  /\ k.status[t] \cap {"PEND", "TIMEOUT"} = {}
               THEN 1 ELSE 0

(* Mutual exclusion, as the tasks see it: the control block names as owner the
   one task whose LOS_MuxPend has returned LOS_OK or will, and counts its calls,
   however the hand-over, the timeout and a suspension of a waiter interleave.
   So nobody enters without being the owner, and no owner is told it timed out. *)
OwnerKnows ==
  \A t \in Task, m \in Mux : Told(t, m) = IF Owns(t, m) THEN mux[m].count ELSE 0

(* A mutex that is free, unused or owned by the waiter itself has no waiters:
   somebody will hand it over.                                             *)
WaitersHaveOwner ==
  \A m \in Mux : k.wait[m] # <<>> =>
    mux[m].used /\ mux[m].count > 0 /\ ~Contains(k.wait[m], mux[m].owner)

(* A task is busy with one mutex at a time: it owns or waits for at most one. *)
OneEach ==
  \A t \in Task, m, n \in Mux :
    (Owns(t, m) \/ Contains(k.wait[m], t)) /\ (Owns(t, n) \/ Contains(k.wait[n], t)) => m = n

(* A task that owns no mutex has its own priority again, whatever it inherited
   and whether the task it inherited from got the mutex or timed out.  True of
   tasks that are busy with one mutex at a time (OneEach).                 *)
Restored ==
  \A t \in Task : ~Has(k, t, "UNUSED") /\ (\A m \in Mux : ~Owns(t, m)) =>
    k.prio[t] = base[t]

(* A task that begins to wait makes the owner at least as urgent as itself, and
   nothing takes this away while the one owns and the other waits: not the
   timeout of another waiter, not a suspension.  True while OneEach is.    *)
InheritsFromNewcomer ==
  [][\A t \in Task, m \in Mux :
       /\ Contains(k'.wait[m], t) /\ mux'[m].owner = mux[m].owner
       /\ Contains(k.wait[m], t) => k.prio[mux[m].owner] <= k.prio[t]
       => k'.prio[mux[m].owner] <= k'.prio[t]]_allVars

(* Inheritance: an owner is at least as urgent as every task that waits for its
   mutex ("priority inheritance solves priority inversion").               *)
Inherits ==
  \A m \in Mux, t \in Task : Contains(k.wait[m], t) => k.prio[mux[m].owner] <= k.prio[t]
=============================================================================
