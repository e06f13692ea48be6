------------------------------- MODULE Alarm -------------------------------
(***************************************************************************)
(* What the software timers promise (osSwTmrStart, osSwtmrStop,            *)
(* osSwtmrScan in kernel/base/core/los_swtmr.c): a timer started with n    *)
(* rings in the n-th tick from now unless it is stopped or started again   *)
(* before; timers of one tick ring in the order in which they were started.*)
(***************************************************************************)
EXTENDS Integers, SequencesExt

CONSTANTS Timer, None,
          MaxInterval    (* the longest interval, a bound of the model *)

VARIABLES
  alarms,  (* the timers that will ring, in this order, and the ticks left to each *)
  rang     (* the timer that rang last                                             *)

Others(i) == RemoveFirstMatch(alarms, LAMBDA a : a.timer = i)

Start(i, n) ==
  LET others == Others(i)
  IN /\ \E j \in 0 .. Len(others) :
          /\ \A m \in 1 .. j : others[m].left <= n
          /\ \A m \in j + 1 .. Len(others) : others[m].left > n
          /\ alarms' = InsertAt(others, j + 1, [timer |-> i, left |-> n])
     /\ UNCHANGED rang

Stop(i) == alarms' = Others(i) /\ UNCHANGED rang

Tick ==
  /\ \A j \in 1 .. Len(alarms) : alarms[j].left > 0
  /\ alarms' = [j \in 1 .. Len(alarms) |-> [alarms[j] EXCEPT !.left = @ - 1]]
  /\ UNCHANGED rang

Ring ==
  /\ alarms # <<>> /\ alarms[1].left = 0
  /\ alarms' = Tail(alarms) /\ rang' = alarms[1].timer

Init == alarms = <<>> /\ rang = None

Next ==
  \/ \E i \in Timer : Stop(i) \/ \E n \in 1 .. MaxInterval : Start(i, n)
  \/ Tick \/ Ring

(* What rings, and when. *)
Rings == Init /\ [][Next]_<<alarms, rang>>

(* Time goes on, and what is due rings. *)
Spec == Rings /\ WF_<<alarms, rang>>(Tick) /\ WF_<<alarms, rang>>(Ring)
=============================================================================
