------------------------------ MODULE LosEvent ------------------------------
(***************************************************************************)
(* Events (kernel/base/ipc/los_event.c) on the task component.  WaitObj is *)
(* the set of event control blocks; clients have initialised them.         *)
(***************************************************************************)
EXTENDS LosIpc

CONSTANT Bit   \* the bits of an event

Event == WaitObj
Mode  == [all : BOOLEAN, clear : BOOLEAN]   \* LOS_WAITMODE_AND or _OR; _CLR

ASSUME EventAssumption == NoTask \notin Event

VARIABLES
  id,     (* uwEventID of each event: the bits that are set                     *)
  want,   (* the event a thread reads, its uwEventMask and its uwEventMode      *)
  robbed  (* history: the woken readers some of whose bits were cleared since    *)

eventVars == <<id, want, robbed>>
allEventVars == <<vars, eventVars>>

NoWant == [event |-> NoTask, mask |-> {}, mode |-> [all |-> FALSE, clear |-> FALSE]]

(* What LOS_EventPoll returns, and what it leaves of the event. *)
Polled(bits, mask, mode) ==
  IF mode.all /\ ~(mask \subseteq bits) THEN {} ELSE bits \cap mask
LOS_EventPoll(bits, mask, mode) ==
  IF mode.clear THEN bits \ Polled(bits, mask, mode) ELSE bits

(* The readers of e that have been woken and have not polled yet. *)
Woken(e) == {t \in Task : /\ pc[t] \in {"pend", "woken"} /\ want[t].event = e
                          /\ k.status[t] \cap {"PEND", "TIMEOUT"} = {}}
Loses(e, bits) == {t \in Woken(e) : want[t].mask \cap bits # {}}

(***************************************************************************)
(* LOS_EventRead.  With a timeout of 0 it does not wait.                   *)
(***************************************************************************)
(* Mutant: a mask without a bit is accepted. *)
AnyMask(mask) == TRUE

Legal(mask) == mask # {}

Takes(e, mask, mode) ==
  /\ Polled(id[e], mask, mode) # {}
  /\ id' = [id EXCEPT ![e] = LOS_EventPoll(@, mask, mode)]
  /\ robbed' = robbed \cup Loses(e, id[e] \ id'[e])
  /\ UNCHANGED <<k, fresh, tick, cut, want>>

ReadWaits(e, mask, mode, n) ==
  /\ k.scheduled /\ Polled(id[e], mask, mode) = {} /\ k.lock = 0
  /\ k' = WaitOn(k, e, n)
  /\ want' = [want EXCEPT ![k.run] = [event |-> e, mask |-> mask, mode |-> mode]]
  /\ Goto(k.run, "pend")
  /\ UNCHANGED <<fresh, tick, cut, id, robbed>>

LOS_EventRead(e, mask, mode) ==
  /\ "eventread" \in Api /\ UserCode /\ Legal(mask)
  /\ \/ Takes(e, mask, mode) /\ UNCHANGED pc
     \/ \E n \in 1 .. Forever : ReadWaits(e, mask, mode, n)

(* A reader that was woken polls again; one that was not returns an error. *)
ReadReturns ==
  LET w == want[k.run]
      expired == Has(k, k.run, "TIMEOUT")
      e == w.event
  IN /\ InTask("woken") /\ e # NoTask
     /\ k' = [k EXCEPT !.status[k.run] = @ \ {"TIMEOUT"}]
     /\ id' = IF expired THEN id ELSE [id EXCEPT ![e] = LOS_EventPoll(@, w.mask, w.mode)]
     /\ robbed' = (robbed \cup Loses(e, id[e] \ id'[e])) \ {k.run}
     /\ want' = [want EXCEPT ![k.run] = NoWant]
     /\ Goto(k.run, "user")
     /\ UNCHANGED <<fresh, tick, cut>>

(***************************************************************************)
(* LOS_EventWrite wakes every reader that the new bits satisfy, in the     *)
(* order of the wait list.                                                 *)
(***************************************************************************)
(* Mutant: one of the new bits is enough for every reader. *)
AnyBit(t, new, bits) == want[t].mask \cap new # {}

Wakes(t, new, bits) ==
  IF want[t].mode.all THEN want[t].mask \subseteq bits ELSE want[t].mask \cap new # {}

Awakened(x, e, new, bits) ==
  FoldLeft(LAMBDA y, t : IF Wakes(t, new, bits) THEN Awake(y, e, t, "PEND") ELSE y,
           x, x.wait[e])

(* Mutant: only the first reader is looked at. *)
WriteWakesFirst(e, new) ==
  LET bits == id[e] \cup new
      y == IF k.wait[e] # <<>> /\ Wakes(Head(k.wait[e]), new, bits) THEN WakeFirst(k, e) ELSE k
  IN /\ Call("eventwrite", y, y # k)
     /\ id' = [id EXCEPT ![e] = bits]
     /\ UNCHANGED <<want, robbed>>

LOS_EventWrite(e, new) ==
  LET bits == id[e] \cup new
      y == Awakened(k, e, new, bits)
  IN /\ Call("eventwrite", y, y # k)
     /\ id' = [id EXCEPT ![e] = bits]
     /\ UNCHANGED <<want, robbed>>

LOS_EventClear(e, bits) ==
  /\ Call("eventclear", k, FALSE)
  /\ id' = [id EXCEPT ![e] = @ \ bits]
  /\ robbed' = robbed \cup Loses(e, id[e] \cap bits)
  /\ UNCHANGED want

(***************************************************************************)
(* The specification.                                                      *)
(***************************************************************************)
EventInit ==
  /\ Init
  /\ id = [e \in Event |-> {}]
  /\ want = [t \in Thread |-> NoWant]
  /\ robbed = {}

EventStep ==
  \/ \E e \in Event, mask \in SUBSET Bit, mode \in Mode : LOS_EventRead(e, mask, mode)
  \/ ReadReturns
  \/ \E e \in Event, bits \in SUBSET Bit \ {{}} : LOS_EventWrite(e, bits) \/ LOS_EventClear(e, bits)
  \/ WaitSchedules /\ UNCHANGED eventVars

EventNext == EventStep \/ (Next /\ UNCHANGED eventVars)

EventSpec == EventInit /\ [][EventNext]_allEventVars

-----------------------------------------------------------------------------
(* The type of every variable, with the component's own. *)
EventTypeOK ==
  /\ TypeOK
  /\ id \in [Event -> SUBSET Bit]
  /\ want \in [Thread -> [event : Event \cup {NoTask}, mask : SUBSET Bit, mode : Mode]]
  /\ \A t \in Thread : want[t].event \in Event => want[t].mask # {}
  /\ robbed \subseteq Task

(* A reader does not wait for what is there: no wake-up is lost between the poll
   and the wait, nor when one write satisfies several readers.             *)
NoMissedEvent ==
  \A e \in Event, t \in Task :
    Contains(k.wait[e], t) =>
      want[t].event = e /\ Polled(id[e], want[t].mask, want[t].mode) = {}

(* A reader that a write has woken finds its event when it polls again:
   LOS_EventRead returns 0 to it only if another reader or LOS_EventClear has
   taken some of its bits in between.                                      *)
ZeroOnlyIfRobbed ==
  \A e \in Event : \A t \in Woken(e) \ robbed : Polled(id[e], want[t].mask, want[t].mode) # {}
=============================================================================
