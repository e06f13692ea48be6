----------------------------- MODULE LosSignal ------------------------------
(***************************************************************************)
(* The signal flags of CMSIS-RTOS threads (osSignalSet, osSignalClear and  *)
(* osSignalWait in kernel/cmsis/cmsis_liteos.c): every TCB has an event    *)
(* uwEvent of its own, which the first call initialises.  WaitObj is the   *)
(* set of tasks.                                                           *)
(*                                                                         *)
(* A thread at "signal" has copied uwEvent and holds no lock.  An event    *)
(* that nobody has initialised is 0xFFFFFFFF: every bit is set.            *)
(***************************************************************************)
EXTENDS LosEvent

CONSTANT Signal   \* the signal flags: osFeature_Signals of the bits, not all of them

VARIABLES
  copied,  (* what a thread at "signal" is doing, and whether its copy was raw     *)
  linked,  (* the tasks whose stEventList has been initialised, once             *)
  sent     (* history: the flags set for a task, and neither received nor cleared *)

signalVars == <<copied, linked, sent>>
everything == <<allEventVars, signalVars>>

NoCall == [op |-> "none", task |-> NoTask, flags |-> {}, timeout |-> 1, raw |-> FALSE]

(* Following the links of a list that was never initialised. *)
Follow(x, t) == [x EXCEPT !.fault = @ \/ t \notin linked]

(* The copy of uwEvent, on which the call decides whether to initialise. *)
Copies(op, t, flags, n) ==
  /\ k.scheduled /\ op \in Api /\ UserCode
  /\ copied' = [copied EXCEPT ![k.run] =
       [op |-> op, task |-> t, flags |-> flags, timeout |-> n, raw |-> id[t] = Bit]]
  /\ Goto(k.run, "signal")
  /\ UNCHANGED <<k, fresh, tick, cut, eventVars, linked, sent>>

LOS_EventInit ==
  LET c == copied[k.run]
  IN /\ InTask("signal") /\ c.raw
     /\ id' = [id EXCEPT ![c.task] = {}]
     /\ k' = [k EXCEPT !.wait[c.task] = <<>>]
     /\ linked' = linked \cup {c.task}
     /\ copied' = [copied EXCEPT ![k.run].raw = FALSE]
     /\ UNCHANGED <<pc, fresh, tick, cut, want, robbed, sent>>

osSignalSet ==
  LET c == copied[k.run]
      bits == id[c.task] \cup c.flags
      x == Awakened(Follow(k, c.task), c.task, c.flags, bits)
  IN /\ InTask("signal") /\ c.op = "signalset" /\ ~c.raw
     /\ k' = x
     /\ id' = [id EXCEPT ![c.task] = bits]
     /\ sent' = [sent EXCEPT ![c.task] = @ \cup c.flags]
     /\ Goto(k.run, IF x # k THEN "sched" ELSE "user")
     /\ copied' = [copied EXCEPT ![k.run] = NoCall]
     /\ UNCHANGED <<fresh, tick, cut, want, robbed, linked>>

(* The same in an interrupt handler, where no thread comes in between. *)
SignalSetInIsr(t, flags) ==
  LET raw == id[t] = Bit
      x == IF raw THEN [k EXCEPT !.wait[t] = <<>>] ELSE Follow(k, t)
      bits == (IF raw THEN {} ELSE id[t]) \cup flags
      y == Awakened(x, t, flags, bits)
  IN /\ "signalset" \in IsrApi /\ InIsr /\ ~Has(k, t, "UNUSED")
     /\ k' = IF y # x THEN LOS_Schedule(y) ELSE x
     /\ id' = [id EXCEPT ![t] = bits]
     /\ sent' = [sent EXCEPT ![t] = @ \cup flags]
     /\ linked' = IF raw THEN linked \cup {t} ELSE linked
     /\ UNCHANGED <<pc, fresh, tick, cut, want, robbed, copied>>

(* osSignalClear tests nothing: of 0xFFFFFFFF it leaves all other bits. *)
osSignalClear(t, flags) ==
  /\ Call("signalclear", k, FALSE) /\ ~Has(k, t, "UNUSED")
  /\ id' = [id EXCEPT ![t] = @ \ flags]
  /\ sent' = [sent EXCEPT ![t] = @ \ flags]
  /\ robbed' = robbed \cup Loses(t, id[t] \cap flags)
  /\ UNCHANGED <<want, copied, linked>>

(* All of the flags, or any flag when none is given; they are cleared. *)
osSignalWait ==
  LET c == copied[k.run]
      t == k.run
      mask == IF c.flags = {} THEN Signal ELSE c.flags
      mode == [all |-> c.flags # {}, clear |-> TRUE]
  IN /\ InTask("signal") /\ c.op = "signalwait" /\ ~c.raw
     /\ \/ /\ Takes(t, mask, mode) /\ Goto(t, "user")
           /\ sent' = [sent EXCEPT ![t] = @ \ mask]
        \/ /\ t \in linked /\ ReadWaits(t, mask, mode, c.timeout)
           /\ UNCHANGED sent
     /\ copied' = [copied EXCEPT ![t] = NoCall]
     /\ UNCHANGED linked

SignalWaitReturns ==
  /\ ReadReturns
  /\ sent' = [sent EXCEPT ![k.run] = @ \ (id[k.run] \ id'[k.run])]
  /\ UNCHANGED <<copied, linked>>

(* LOS_TaskCreateOnly and the deletion of a task set uwEventID to 0xFFFFFFFF. *)
TaskStep ==
  LET changed(t) == Has(k, t, "UNUSED") # Has(k', t, "UNUSED")
  IN /\ Next
     /\ id' = [t \in Task |-> IF changed(t) THEN Bit ELSE id[t]]
     /\ sent' = [t \in Task |-> IF changed(t) THEN {} ELSE sent[t]]
     /\ UNCHANGED <<want, robbed, copied, linked>>

SignalInit ==
  /\ Init
  /\ id = [t \in Task |-> Bit]
  /\ want = [t \in Thread |-> NoWant]
  /\ robbed = {}
  /\ copied = [t \in Thread |-> NoCall]
  /\ linked = {}
  /\ sent = [t \in Task |-> {}]

SignalNext ==
  \/ \E t \in Task \ {Idle}, flags \in SUBSET Signal \ {{}} :
       \/ ~Has(k, t, "UNUSED") /\ Copies("signalset", t, flags, 1)
       \/ SignalSetInIsr(t, flags) \/ osSignalClear(t, flags)
  \/ \E flags \in SUBSET Signal, n \in 1 .. Forever :
       k.run \in Task /\ Copies("signalwait", k.run, flags, n)
  \/ LOS_EventInit \/ osSignalSet \/ osSignalWait \/ SignalWaitReturns
  \/ WaitSchedules /\ UNCHANGED <<eventVars, signalVars>>
  \/ TaskStep

SignalSpec == SignalInit /\ [][SignalNext]_everything

-----------------------------------------------------------------------------
(* A signal flag that was set for a thread stays set until that thread has
   received it or somebody clears it ("set the specified signal flags of an
   active thread").                                                        *)
SignalKept == \A t \in Task : sent[t] \subseteq id[t]
=============================================================================
