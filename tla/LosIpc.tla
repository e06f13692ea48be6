------------------------------- MODULE LosIpc -------------------------------
(***************************************************************************)
(* The blocking and waking code that the calls of kernel/base/ipc repeat   *)
(* (los_sem.c, los_mux.c, los_queue.c, los_event.c), on top of the task    *)
(* component.  A thread that blocks is at "pend" between its               *)
(* LOS_IntRestore and its LOS_Schedule, and at "woken" after it.           *)
(***************************************************************************)
EXTENDS LosTask

Forever == MaxTimeout + 1   \* LOS_WAIT_FOREVER

(* The running task leaves the ready queue for the tail of o's wait list. *)
WaitOn(x, o, n) ==
  LET y == MakeUnready(x, x.run)
      z == [y EXCEPT !.wait[o] = Append(@, x.run)]
  IN IF n = Forever
     THEN [z EXCEPT !.status[x.run] = (@ \cup {"PEND"}) \ {"TIMEOUT"}]
     ELSE osTaskAdd2TimerList([z EXCEPT !.status[x.run] = @ \cup {"PEND", "TIMEOUT"}],
                              x.run, n)

(* Mutants: PEND, TIMEOUT and the timer stay; only TIMEOUT and the timer stay. *)
WakeKeepsPend(x, o) == MakeReady([x EXCEPT !.wait[o] = Tail(@)], Head(x.wait[o]))
WakeKeepsTimer(x, o) ==
  LET t == Head(x.wait[o])
      y == [x EXCEPT !.wait[o] = Tail(@), !.status[t] = @ \ {"PEND"}]
  IN IF Has(x, t, "SUSPEND") THEN y ELSE MakeReady(y, t)

(* Waiter t leaves o's wait list and its timer, and becomes ready unless it is
   suspended.  flag says what it waited as: PEND or PEND_QUEUE.            *)
Awake(x, o, t, flag) ==
  LET y == [x EXCEPT !.wait[o] = RemoveFirst(@, t)]
      z == IF Has(x, t, "TIMEOUT") THEN osTimerListDelete(y, t) ELSE y
      w == [z EXCEPT !.status[t] = @ \ {flag, "TIMEOUT"}]
  IN IF Has(x, t, "SUSPEND") THEN w ELSE MakeReady(w, t)

WakeFirst(x, o) == Awake(x, o, Head(x.wait[o]), "PEND")

(* The LOS_Schedule of a blocking call. *)
WaitSchedules ==
  /\ InTask("pend")
  /\ k' = LOS_Schedule(k)
  /\ Goto(k.run, "woken")
  /\ UNCHANGED <<fresh, tick, cut>>

(* A thread that has come back from the LOS_Schedule of a blocking call is done
   waiting: it does not go on while it is still in the wait list.          *)
WokenIsDone == InTask("woken") => k.status[k.run] \cap {"PEND", "PEND_QUEUE"} = {}

(* A task waits in one list or in none, and waits in one exactly when it is
   PEND; a waiting task is where osTaskScan, LOS_TaskDelete and the waking
   call look for it, and it does not run on.                               *)
WaitAgrees ==
  /\ WokenIsDone
  /\ \A o \in WaitObj : IsInjective(k.wait[o])
  /\ \A t \in Task :
       LET in == {o \in WaitObj : Contains(k.wait[o], t)}
       IN /\ Cardinality(in) <= 1
          /\ in # {} <=> k.status[t] \cap {"PEND", "PEND_QUEUE"} # {}

(* A delay, and a wait with a timeout, ends: the task is ready then, or when it
   is resumed.                                                             *)
Timed(t) ==
  \/ Has(k, t, "DELAY")
  \/ Has(k, t, "TIMEOUT") /\ k.status[t] \cap {"PEND", "PEND_QUEUE"} # {}
TimedWaitEnds == \A t \in Task : Timed(t) ~> ~Timed(t)
=============================================================================
