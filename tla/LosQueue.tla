------------------------------ MODULE LosQueue ------------------------------
(***************************************************************************)
(* Message queues and mail (kernel/base/ipc/los_queue.c and the memory box *)
(* of kernel/base/mem/los_membox.c that mail uses) on the task component.  *)
(*                                                                         *)
(* A message is the pointer that is written, here always to a block of the *)
(* memory box, as in osMailPut and osMailGet.  Clients keep to one rule:   *)
(* they write and free only blocks of the box that they own.               *)
(***************************************************************************)
EXTENDS LosIpc

CONSTANTS
  Queue,      (* the queue control blocks                                  *)
  MailQueue,  (* the queue that was created with the memory box            *)
  MaxLen,     (* the longest queue created (a bound of the model)          *)
  PoolOrder   (* the free list of the memory box after LOS_MemboxInit      *)

Side   == {"read", "write", "mem"}
Block  == {PoolOrder[i] : i \in 1 .. Len(PoolOrder)}
Client == Thread \cup {NoTask}          \* NoTask: the interrupt handlers

ASSUME QueueAssumption ==
  /\ WaitObj = Queue \X Side            \* stReadList, stWriteList, stMemList
  /\ NoTask \notin WaitObj
  /\ MailQueue \in Queue /\ MaxLen \in Nat \ {0}
  /\ PoolOrder \in Seq(Block) /\ IsInjective(PoolOrder) /\ NoTask \notin Block

VARIABLES
  queue,  (* the control blocks, and the ring pucQueue                            *)
  box,    (* stFreeList of the memory box                                         *)
  puwMsg, (* the block that a task woken in osQueueMailAlloc finds in its TCB     *)
  asked,  (* what the call a thread is blocked in waits for, and what it writes   *)
  own,    (* history: the blocks each client owns                                 *)
  lost,   (* history: the blocks that were in a queue when it was deleted         *)
  got     (* history: the message read last                                       *)

queueVars == <<queue, box, puwMsg, asked, own, lost, got>>
allVars == <<vars, queueVars>>

NoQueue == [used |-> FALSE, len |-> 1, head |-> 0, tail |-> 0, readable |-> 0,
            writable |-> 0, slot |-> [i \in 0 .. MaxLen - 1 |-> NoTask]]

(***************************************************************************)
(* osQueuePend and osQueueWakeUp.                                          *)
(***************************************************************************)
(* The running task waits before the first waiter that is less urgent. *)
osQueuePend(x, o, n) ==
  LET y == MakeUnready(x, x.run)
      i == SelectInSeq(x.wait[o], LAMBDA t : x.prio[x.run] < x.prio[t])
      z == [y EXCEPT !.wait[o] = IF i = 0 THEN Append(@, x.run) ELSE InsertAt(@, i, x.run),
                     !.status[x.run] = @ \cup {"PEND_QUEUE"}]
  IN IF n = Forever THEN z
     ELSE osTaskAdd2TimerList([z EXCEPT !.status[x.run] = @ \cup {"TIMEOUT"}], x.run, n)

osQueueWakeUp(x, o) == Awake(x, o, Head(x.wait[o]), "PEND_QUEUE")

(* A call of client c: its section turns k into x, LOS_Schedule when resched. *)
CallBy(c, op, x, resched) ==
  /\ \/ /\ c = k.run /\ op \in Api /\ UserCode
        /\ k' = x
        /\ IF resched THEN Goto(c, "sched") ELSE UNCHANGED pc
     \/ /\ c = NoTask /\ op \in IsrApi /\ InIsr
        /\ k' = IF resched THEN LOS_Schedule(x) ELSE x
        /\ UNCHANGED pc
  /\ UNCHANGED <<fresh, tick, cut>>

Blocks(op, o, n, msg) ==
  /\ k.scheduled /\ op \in Api /\ UserCode
  /\ k' = osQueuePend(k, o, n)
  /\ asked' = [asked EXCEPT ![k.run] = [obj |-> o, msg |-> msg]]
  /\ Goto(k.run, "pend")
  /\ UNCHANGED <<fresh, tick, cut, queue, box, puwMsg, own, lost, got>>

(* The task goes on behind its LOS_Schedule. *)
NotAsked == [obj |-> NoTask, msg |-> NoTask]
Wakes(o) ==
  /\ InTask("woken") /\ asked[k.run].obj = o
  /\ asked' = [asked EXCEPT ![k.run] = NotAsked]
  /\ UNCHANGED <<fresh, tick, cut, lost>>

TimesOut(o) ==
  /\ Wakes(o) /\ Has(k, k.run, "TIMEOUT")
  /\ k' = [k EXCEPT !.status[k.run] = @ \ {"TIMEOUT"}]
  /\ Goto(k.run, "user")
  /\ UNCHANGED <<queue, box, puwMsg, own, got>>

(***************************************************************************)
(* Queues.                                                                 *)
(***************************************************************************)
LOS_QueueCreate(q, n) ==
  /\ "queuecreate" \in Api /\ UserCode /\ ~queue[q].used
  /\ queue' = [queue EXCEPT ![q] = [NoQueue EXCEPT !.used = TRUE, !.len = n, !.writable = n]]
  /\ UNCHANGED <<vars, box, puwMsg, asked, own, lost, got>>

(* Mutant: the index runs past the end of the ring. *)
AfterEnd(q, i) == i + 1

After(q, i) == IF i + 1 = queue[q].len THEN 0 ELSE i + 1

(* The end of LOS_QueueRead: the message is taken from the head; a writer that
   waits keeps the slot, which no counter shows, until it runs.  The ring keeps
   the bytes of a message that was read; here the slot is emptied, so that a
   second read of it shows.                                                *)
AfterRead(q) == IF k.wait[<<q, "write">>] # <<>> THEN osQueueWakeUp(k, <<q, "write">>) ELSE k

Received(c, q, counted) ==
  /\ queue' = [queue EXCEPT ![q].readable = @ - counted,
                            ![q].head = After(q, @),
                            ![q].slot[queue[q].head] = NoTask,
                            ![q].writable = IF k.wait[<<q, "write">>] # <<>> THEN @ ELSE @ + 1]
  /\ own' = [own EXCEPT ![c] = @ \cup {queue[q].slot[queue[q].head]}]
  /\ got' = queue[q].slot[queue[q].head]
  /\ UNCHANGED <<box, puwMsg, lost>>

ReadNow(c, q) ==
  /\ queue[q].used /\ queue[q].readable > 0
  /\ CallBy(c, "read", AfterRead(q), k.wait[<<q, "write">>] # <<>>)
  /\ Received(c, q, 1) /\ UNCHANGED asked

ReadBlocks(q, n) ==
  /\ queue[q].used /\ queue[q].readable = 0 /\ k.lock = 0
  /\ Blocks("read", <<q, "read">>, n, NoTask)

ReadReturns(q) ==
  /\ Wakes(<<q, "read">>) /\ ~Has(k, k.run, "TIMEOUT")
  /\ k' = AfterRead(q)
  /\ Goto(k.run, IF k.wait[<<q, "write">>] # <<>> THEN "sched" ELSE "user")
  /\ Received(k.run, q, 0)

(* The end of LOS_QueueWrite, its mirror image. *)
AfterWrite(q) == IF k.wait[<<q, "read">>] # <<>> THEN osQueueWakeUp(k, <<q, "read">>) ELSE k

(* Mutant: the message is counted although a reader is woken for it. *)
SentCounted(c, q, m, counted) ==
  /\ queue' = [queue EXCEPT ![q].writable = @ - counted, ![q].tail = After(q, @),
                            ![q].slot[queue[q].tail] = m, ![q].readable = @ + 1]
  /\ own' = [own EXCEPT ![c] = @ \ {m}]
  /\ UNCHANGED <<box, puwMsg, lost, got>>

Sent(c, q, m, counted) ==
  /\ queue' = [queue EXCEPT ![q].writable = @ - counted,
                            ![q].tail = After(q, @),
                            ![q].slot[queue[q].tail] = m,
                            ![q].readable = IF k.wait[<<q, "read">>] # <<>> THEN @ ELSE @ + 1]
  /\ own' = [own EXCEPT ![c] = @ \ {m}]
  /\ UNCHANGED <<box, puwMsg, lost, got>>

WriteNow(c, q, m) ==
  /\ queue[q].used /\ queue[q].writable > 0 /\ m \in own[c]
  /\ CallBy(c, "write", AfterWrite(q), k.wait[<<q, "read">>] # <<>>)
  /\ Sent(c, q, m, 1) /\ UNCHANGED asked

WriteBlocks(q, m, n) ==
  /\ queue[q].used /\ queue[q].writable = 0 /\ k.lock = 0 /\ m \in own[k.run]
  /\ Blocks("write", <<q, "write">>, n, m)

WriteReturns(q) ==
  /\ Wakes(<<q, "write">>) /\ ~Has(k, k.run, "TIMEOUT")
  /\ k' = AfterWrite(q)
  /\ Goto(k.run, IF k.wait[<<q, "read">>] # <<>> THEN "sched" ELSE "user")
  /\ Sent(k.run, q, asked[k.run].msg, 0)

(* Mutant: the slots that are neither readable nor writable are not looked at. *)
DeleteReserved(q) ==
  /\ "queuedelete" \in Api /\ UserCode /\ queue[q].used
  /\ \A s \in Side : k.wait[<<q, s>>] = <<>>
  /\ queue' = [queue EXCEPT ![q] = NoQueue]
  /\ lost' = lost \cup (Range(queue[q].slot) \ {NoTask})
  /\ UNCHANGED <<vars, box, puwMsg, asked, own, got>>

LOS_QueueDelete(q) ==
  /\ "queuedelete" \in Api /\ UserCode /\ queue[q].used
  /\ \A s \in Side : k.wait[<<q, s>>] = <<>>
  /\ queue[q].writable + queue[q].readable = queue[q].len
  /\ queue' = [queue EXCEPT ![q] = NoQueue]
  /\ lost' = lost \cup (Range(queue[q].slot) \ {NoTask})
  /\ UNCHANGED <<vars, box, puwMsg, asked, own, got>>

(***************************************************************************)
(* Mail: LOS_MemboxAlloc pops the free list, LOS_MemboxFree pushes.  The   *)
(* calls do not test that the queue is in use; clients ask for mail while  *)
(* it is, and may free a block later.                                      *)
(***************************************************************************)
Mem == <<MailQueue, "mem">>

MailAllocNow(c) ==
  /\ queue[MailQueue].used /\ box # <<>>
  /\ CallBy(c, "mailalloc", k, FALSE)
  /\ box' = Tail(box)
  /\ own' = [own EXCEPT ![c] = @ \cup {Head(box)}]
  /\ UNCHANGED <<queue, puwMsg, asked, lost, got>>

(* The scheduler lock is not tested here. *)
MailAllocBlocks(n) ==
  queue[MailQueue].used /\ box = <<>> /\ Blocks("mailalloc", Mem, n, NoTask)

MailAllocReturns ==
  /\ Wakes(Mem) /\ ~Has(k, k.run, "TIMEOUT")
  /\ own' = [own EXCEPT ![k.run] = @ \cup {puwMsg[k.run]}]
  /\ puwMsg' = [puwMsg EXCEPT ![k.run] = NoTask]
  /\ Goto(k.run, "user")
  /\ UNCHANGED <<k, queue, box, got>>

(* Mutant: the block is given to the waiter and left in the free list. *)
FreeGivesTwice(c, b) ==
  LET waits == k.wait[Mem] # <<>>
  IN /\ b \in own[c]
     /\ CallBy(c, "mailfree", IF waits THEN osQueueWakeUp(k, Mem) ELSE k, waits)
     /\ box' = <<b>> \o box
     /\ puwMsg' = IF waits THEN [puwMsg EXCEPT ![Head(k.wait[Mem])] = b] ELSE puwMsg
     /\ own' = [own EXCEPT ![c] = @ \ {b}]
     /\ UNCHANGED <<queue, asked, lost, got>>

(* The freed block, on top of the free list, is allocated again at once for the
   first waiter.                                                           *)
osQueueMailFree(c, b) ==
  LET waits == k.wait[Mem] # <<>>
  IN /\ b \in own[c]
     /\ CallBy(c, "mailfree", IF waits THEN osQueueWakeUp(k, Mem) ELSE k, waits)
     /\ box' = IF waits THEN box ELSE <<b>> \o box
     /\ puwMsg' = IF waits THEN [puwMsg EXCEPT ![Head(k.wait[Mem])] = b] ELSE puwMsg
     /\ own' = [own EXCEPT ![c] = @ \ {b}]
     /\ UNCHANGED <<queue, asked, lost, got>>

(***************************************************************************)
(* The specification.                                                      *)
(***************************************************************************)
QueueInit ==
  /\ Init
  /\ queue = [q \in Queue |-> NoQueue]
  /\ box = PoolOrder
  /\ puwMsg = [t \in Task |-> NoTask]
  /\ asked = [t \in Thread |-> NotAsked]
  /\ own = [c \in Client |-> {}]
  /\ lost = {} /\ got = NoTask

QueueStep ==
  \/ \E q \in Queue, n \in 1 .. MaxLen : LOS_QueueCreate(q, n)
  \/ \E q \in Queue : LOS_QueueDelete(q) \/ ReadReturns(q) \/ WriteReturns(q)
  \/ \E q \in Queue, c \in Client : ReadNow(c, q)
  \/ \E q \in Queue, c \in Client, m \in Block : WriteNow(c, q, m)
  \/ \E q \in Queue, n \in 1 .. Forever :
       ReadBlocks(q, n) \/ \E m \in Block : WriteBlocks(q, m, n)
  \/ \E c \in Client : MailAllocNow(c) \/ \E b \in Block : osQueueMailFree(c, b)
  \/ \E n \in 1 .. Forever : MailAllocBlocks(n)
  \/ MailAllocReturns
  \/ \E o \in WaitObj : TimesOut(o)
  \/ WaitSchedules /\ UNCHANGED queueVars

QueueNext == QueueStep \/ (Next /\ UNCHANGED queueVars)

QueueSpec == QueueInit /\ [][QueueNext]_allVars

-----------------------------------------------------------------------------
(* The type of every variable, with the component's own. *)
QueueTypeOK ==
  /\ TypeOK
  /\ queue \in [Queue -> [used : BOOLEAN, len : 1 .. MaxLen, head : 0 .. MaxLen - 1,
                          tail : 0 .. MaxLen - 1, readable : 0 .. MaxLen,
                          writable : 0 .. MaxLen,
                          slot : [0 .. MaxLen - 1 -> Block \cup {NoTask}]]]
  /\ box \in Seq(Block)
  /\ puwMsg \in [Task -> Block \cup {NoTask}]
  /\ asked \in [Thread -> [obj : WaitObj \cup {NoTask}, msg : Block \cup {NoTask}]]
  /\ own \in [Client -> SUBSET Block]
  /\ lost \subseteq Block /\ got \in Block \cup {NoTask}

(* The tasks that o's list has let go and that have not run yet. *)
Chosen(o) ==
  {t \in Task : /\ asked[t].obj = o
                /\ k.status[t] \cap {"PEND_QUEUE", "TIMEOUT"} = {}}

(* The messages in a queue, oldest first: those that are counted, and one for
   each reader that has been woken and has not read.                       *)
Messages(q) ==
  [i \in 1 .. queue[q].readable + Cardinality(Chosen(<<q, "read">>)) |->
     queue[q].slot[(queue[q].head + i - 1) % queue[q].len]]

(* A queue is a bounded first-in first-out channel for all its clients: no
   message is lost, doubled or overtaken, however reads, writes, wake-ups and
   timeouts interleave ("messages queue first in, first out").             *)
C == INSTANCE Channel WITH
       Message <- Block, None <- NoTask,
       chan <- [q \in Queue |->
         [open |-> queue[q].used, cap |-> queue[q].len, buf |-> Messages(q)]]
ImplementsChannel == C!Spec

(* Every slot is writable, readable or reserved for one woken task, and a waiting
   reader or writer finds nothing it could have. *)
SlotsAccounted ==
  \A q \in Queue :
    /\ queue[q].used =>
         queue[q].readable + queue[q].writable + Cardinality(Chosen(<<q, "read">>))
           + Cardinality(Chosen(<<q, "write">>)) = queue[q].len
    /\ k.wait[<<q, "read">>] # <<>> => queue[q].used /\ queue[q].readable = 0
    /\ k.wait[<<q, "write">>] # <<>> => queue[q].used /\ queue[q].writable = 0

(* Each list of waiters is sorted by priority. *)
UrgentFirst ==
  \A o \in WaitObj : \A i, j \in 1 .. Len(k.wait[o]) :
    i < j => k.prio[k.wait[o][i]] <= k.prio[k.wait[o][j]]

(* Waiters are served: nobody waits in vain for a message, a slot or a mail block,
   no slot is lost between a wake-up and the woken task's turn, and the most
   urgent waiter is next.  The order is that of tasks whose priority does not
   change while they wait.                                                 *)
WaitersServed ==
  SlotsAccounted /\ UrgentFirst /\ (k.wait[Mem] # <<>> => box = <<>>)

(* Every block is in exactly one place: free, owned by one client, in one slot
   of one queue, on its way to a task that waited for it, or gone with a
   deleted queue.                                                          *)
Places(b) ==
  Cardinality({i \in 1 .. Len(box) : box[i] = b})
  + Cardinality({c \in Client : b \in own[c]})
  + Cardinality({t \in Task : puwMsg[t] = b})
  + Cardinality({p \in Queue \X (0 .. MaxLen - 1) : queue[p[1]].slot[p[2]] = b})
MailOwnedOnce == \A b \in Block : Places(b) = IF b \in lost THEN 0 ELSE 1
=============================================================================
