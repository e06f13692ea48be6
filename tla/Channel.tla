------------------------------ MODULE Channel ------------------------------
(***************************************************************************)
(* What a message queue promises its clients (LOS_QueueCreate,             *)
(* LOS_QueueWrite, LOS_QueueRead, LOS_QueueDelete in                       *)
(* kernel/base/ipc/los_queue.c): a bounded channel, first in, first out.   *)
(***************************************************************************)
EXTENDS Integers, Sequences

CONSTANTS Queue, Message, None,
          MaxLen                   (* the longest queue created *)

VARIABLES
  chan,  (* of each queue: whether it is open, its capacity and its contents *)
  got    (* the message read last                                            *)

Open(q, n) ==
  /\ ~chan[q].open
  /\ chan' = [chan EXCEPT ![q] = [open |-> TRUE, cap |-> n, buf |-> <<>>]]
  /\ UNCHANGED got

Close(q) ==
  /\ chan[q].open
  /\ chan' = [chan EXCEPT ![q] = [open |-> FALSE, cap |-> 1, buf |-> <<>>]]
  /\ UNCHANGED got

Put(q, m) ==
  /\ chan[q].open /\ Len(chan[q].buf) < chan[q].cap
  /\ chan' = [chan EXCEPT ![q].buf = Append(@, m)]
  /\ UNCHANGED got

Get(q) ==
  /\ chan[q].open /\ chan[q].buf # <<>>
  /\ chan' = [chan EXCEPT ![q].buf = Tail(@)]
  /\ got' = Head(chan[q].buf)

Init ==
  /\ chan = [q \in Queue |-> [open |-> FALSE, cap |-> 1, buf |-> <<>>]]
  /\ got = None

Next ==
  \E q \in Queue :
    \/ Close(q) \/ Get(q)
    \/ \E n \in 1 .. MaxLen : Open(q, n)
    \/ \E m \in Message : Put(q, m)

Spec == Init /\ [][Next]_<<chan, got>>
=============================================================================
