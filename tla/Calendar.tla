------------------------------ MODULE Calendar ------------------------------
(***************************************************************************)
(* What the task timer promises its callers (osTaskAdd2TimerList,          *)
(* osTimerListDelete, osTaskScan in kernel/base/core/los_task.c): a task   *)
(* added with n is served in the n-th tick from now, tasks of one tick in  *)
(* the order in which they were added, unless its timer is deleted first.  *)
(* LosTask keeps its timers in this form; SortLink is the code's form.     *)
(***************************************************************************)
EXTENDS Integers, SequencesExt

CONSTANTS Task,       (* tasks that use timers                    *)
          MaxTimeout  (* the longest timeout, a bound of the model *)

VARIABLE due  (* due[n]: the tasks to serve n ticks from now; due[0]: in this tick *)

Pending(t) == \E n \in 0 .. MaxTimeout : Contains(due[n], t)

Add(t, n) ==
  /\ due[0] = <<>> /\ ~Pending(t)
  /\ due' = [due EXCEPT ![n] = Append(@, t)]

Cancel(t) ==
  /\ Pending(t)
  /\ due' = [n \in 0 .. MaxTimeout |-> RemoveFirst(due[n], t)]

Tick ==
  /\ due[0] = <<>>
  /\ due' = [n \in 0 .. MaxTimeout |-> IF n < MaxTimeout THEN due[n + 1] ELSE <<>>]

Serve ==
  /\ due[0] # <<>>
  /\ due' = [due EXCEPT ![0] = Tail(@)]

Init == due = [n \in 0 .. MaxTimeout |-> <<>>]

Next ==
  \/ \E t \in Task, n \in 1 .. MaxTimeout : Add(t, n)
  \/ \E t \in Task : Cancel(t)
  \/ Tick \/ Serve

(* What is served, and when. *)
Serves == Init /\ [][Next]_due

Spec == Serves /\ WF_due(Tick) /\ WF_due(Serve)
=============================================================================
