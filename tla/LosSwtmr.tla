------------------------------ MODULE LosSwtmr ------------------------------
(***************************************************************************)
(* Software timers (kernel/base/core/los_swtmr.c, and the osTimer calls of *)
(* kernel/cmsis/cmsis_liteos.c).                                           *)
(*                                                                         *)
(* A call's section between LOS_IntLock and LOS_IntRestore is one step.    *)
(* The tick handler runs osSwtmrScan with interrupts on and above all      *)
(* threads; interrupt handlers may run between its steps.  The handler     *)
(* queue is the channel that LosQueue implements.                          *)
(*                                                                         *)
(* LOS_SwtmrCreate accepts the modes ONCE and PERIOD only and every caller *)
(* sets uwExpiry and uwInterval alike, so ucOverrun decides nothing and    *)
(* one interval stands for both.                                           *)
(***************************************************************************)
EXTENDS Integers, SequencesExt

CONSTANTS
  LIMIT,       (* LOSCFG_BASE_CORE_SWTMR_LIMIT                                  *)
  MAX_TIMERID, (* OS_SWTMR_MAX_TIMERID, a multiple of LIMIT                     *)
  MaxInterval, (* the longest interval (a bound of the model)                   *)
  Client,      (* threads that use timers, the software timer task among them   *)
  IsrApi       (* the calls handlers make while osSwtmrScan runs                *)

ASSUME SwtmrAssumption ==
  /\ LIMIT \in Nat \ {0} /\ MaxInterval \in Nat \ {0}
  /\ MAX_TIMERID \in Nat \ {0} /\ MAX_TIMERID % LIMIT = 0

Timer   == 0 .. LIMIT - 1      \* m_pstSwtmrCBArray
TimerID == 0 .. MAX_TIMERID - 1
NoTimer == LIMIT

VARIABLES
  timer,  (* the control blocks: usTimerID, ucState, ucMode, uwInterval          *)
  free,   (* m_pstSwtmrFreeList                                                  *)
  sort,   (* m_pstSwtmrSortList, each timer with its uwCount                     *)
  scan,   (* osSwtmrScan: "off", in its loop, or with a timer it has unlinked    *)
  out,    (* that timer                                                          *)
  box,    (* the free nodes of m_aucSwTmrHandlerPool                             *)
  hq,     (* m_uwSwTmrHandlerQueue: the timers whose handlers are to be called   *)
  node,   (* the timer whose node osSwTmrTask has read and not yet freed          *)
  made,   (* the block a client has taken in LOS_SwtmrCreate and not yet filled  *)
  asked,  (* the id a client is about to pass to LOS_SwtmrStart in osTimerStart  *)
  fault,  (* a list was searched for a timer that is not in it                   *)
  live,   (* history: the ids handed out by LOS_SwtmrCreate and not ended        *)
  past    (* history: the last ids of each timer that expired as one-shot        *)

vars == <<timer, free, sort, scan, out, box, hq, node, made, asked, fault, live, past>>

(* Mutant: one node less than timers. *)
OneLess == LIMIT - 1

HANDLE_QUEUE_SIZE == LIMIT

(***************************************************************************)
(* The relative list: uwCount is counted from the predecessor.  It is read *)
(* only of timers in the list, and the list carries it here.               *)
(***************************************************************************)
Left(s, j) == FoldLeft(LAMBDA sum, e : sum + e.count, 0, SubSeq(s, 1, j))
Place(s, i) == SelectInSeq(s, LAMBDA e : e.timer = i)
Listed(i)   == Place(sort, i) # 0
Plus(s, j, c) == IF j <= Len(s) THEN [s EXCEPT ![j].count = @ + c] ELSE s

(* Mutant: the timer behind the new one is not corrected. *)
StartUncorrected(s, i, n) ==
  LET j == Max({0} \cup {m \in 1 .. Len(s) : Left(s, m) <= n})
  IN InsertAt(s, j + 1, [timer |-> i, count |-> n - Left(s, j)])

(* Behind all timers that ring no later; the next one is corrected. *)
osSwTmrStart(s, i, n) ==
  LET j == Max({0} \cup {m \in 1 .. Len(s) : Left(s, m) <= n})
      c == n - Left(s, j)
  IN InsertAt(Plus(s, j + 1, -c), j + 1, [timer |-> i, count |-> c])

osSwtmrStop(s, i) ==
  LET j == Place(s, i) IN RemoveAt(Plus(s, j + 1, s[j].count), j)

Current(id) == timer[id % LIMIT].id = id
State(id)   == timer[id % LIMIT].state
Calls(op)   == ~fault /\ (scan = "off" \/ op \in IsrApi)
Idles(c)    == made[c] = NoTimer /\ asked[c] = MAX_TIMERID
Rest        == UNCHANGED <<scan, out, box, hq, node, made, past>>

(* osSwtmrStop searches the list for a timer that is ticking. *)
Faults(id) ==
  /\ State(id) = "TICKING" /\ ~Listed(id % LIMIT)
  /\ fault' = TRUE
  /\ UNCHANGED <<timer, sort, free, live>>

(***************************************************************************)
(* The calls.  Ids are what callers say: an id that is not the block's, or *)
(* a block in another state, is refused and nothing changes.               *)
(***************************************************************************)
TakeTimer(c) ==
  /\ Calls("create") /\ Idles(c) /\ free # <<>>
  /\ free' = Tail(free)
  /\ made' = [made EXCEPT ![c] = Head(free)]
  /\ UNCHANGED <<timer, sort, scan, out, box, hq, node, asked, fault, live, past>>

(* The block is filled after LOS_IntRestore. *)
LOS_SwtmrCreate(c, n, mode) ==
  /\ ~fault /\ scan = "off" /\ made[c] # NoTimer
  /\ timer' = [timer EXCEPT ![made[c]] = [id |-> @.id, state |-> "CREATED", mode |-> mode,
                                           interval |-> n]]
  /\ live' = live \cup {timer[made[c]].id}
  /\ made' = [made EXCEPT ![c] = NoTimer]
  /\ UNCHANGED <<free, sort, scan, out, box, hq, node, asked, fault, past>>

StartTimer(id) ==
  LET i == id % LIMIT
      s == IF State(id) = "TICKING" THEN osSwtmrStop(sort, i) ELSE sort
  IN \/ Faults(id)
     \/ /\ State(id) = "CREATED" \/ Listed(i)
        /\ sort' = osSwTmrStart(s, i, timer[i].interval)
        /\ timer' = [timer EXCEPT ![i].state = "TICKING"]
        /\ UNCHANGED <<free, fault, live>>

LOS_SwtmrStart(id) ==
  Calls("start") /\ Current(id) /\ StartTimer(id) /\ UNCHANGED asked /\ Rest

LOS_SwtmrStop(id) ==
  /\ Calls("stop") /\ Current(id)
  /\ \/ Faults(id)
     \/ /\ Listed(id % LIMIT)
        /\ sort' = osSwtmrStop(sort, id % LIMIT)
        /\ timer' = [timer EXCEPT ![id % LIMIT].state = "CREATED"]
        /\ UNCHANGED <<free, fault, live>>
  /\ UNCHANGED asked /\ Rest

(* Mutant: the block stays in use. *)
DeleteKeepsState(i, tm) ==
  /\ timer' = tm
  /\ free' = <<i>> \o free
  /\ live' = live \ {timer[i].id}

osSwtmrDelete(i, tm) ==
  /\ timer' = [tm EXCEPT ![i].state = "UNUSED"]
  /\ free' = <<i>> \o free
  /\ live' = live \ {timer[i].id}

LOS_SwtmrDelete(id) ==
  LET i == id % LIMIT
  IN /\ Calls("delete") /\ Current(id)
     /\ \/ Faults(id)
        \/ /\ State(id) = "CREATED" \/ Listed(i)
           /\ sort' = IF Listed(i) THEN osSwtmrStop(sort, i) ELSE sort
           /\ osSwtmrDelete(i, timer)
           /\ UNCHANGED fault
     /\ UNCHANGED asked /\ Rest

(* osTimerStart writes the interval through the pointer that stands for the
   timer and then starts whatever id the block has, outside any lock.      *)
osTimerStart(c, i, n) ==
  /\ ~fault /\ scan = "off" /\ Idles(c)
  /\ timer' = [timer EXCEPT ![i].interval = n]
  /\ asked' = [asked EXCEPT ![c] = timer[i].id]
  /\ UNCHANGED <<free, sort, fault, live>> /\ Rest

osTimerStarts(c) ==
  LET id == asked[c]
  IN /\ ~fault /\ scan = "off" /\ id # MAX_TIMERID
     /\ asked' = [asked EXCEPT ![c] = MAX_TIMERID]
     /\ IF Current(id) /\ State(id) # "UNUSED" THEN StartTimer(id)
        ELSE UNCHANGED <<timer, sort, free, fault, live>>
     /\ Rest

(***************************************************************************)
(* The tick.                                                               *)
(***************************************************************************)
osSwtmrScan ==
  /\ ~fault /\ scan = "off" /\ sort # <<>>
  /\ sort' = Plus(sort, 1, -1)
  /\ scan' = IF sort'[1].count = 0 THEN "loop" ELSE "off"
  /\ UNCHANGED <<timer, free, out, box, hq, node, made, asked, fault, live, past>>

(* One round of osSwTmrTimeoutHandle: the first timer is unlinked and its
   handler recorded, if there is a node and a place in the queue for it ... *)
TimesOut ==
  /\ ~fault /\ scan = "loop" /\ sort # <<>> /\ sort[1].count = 0
  /\ scan' = "out" /\ out' = sort[1].timer /\ sort' = Tail(sort)
  /\ IF box > 0 /\ Len(hq) < HANDLE_QUEUE_SIZE
     THEN box' = box - 1 /\ hq' = Append(hq, out')
     ELSE UNCHANGED <<box, hq>>
  /\ UNCHANGED <<timer, free, node, made, asked, fault, live, past>>

(* Mutants: the id stays; the last id is not turned over. *)
SameID(id) == id
NoLastID(id) == IF id <= MAX_TIMERID - LIMIT THEN id + LIMIT ELSE id % LIMIT

NextID(id) == IF id < MAX_TIMERID - LIMIT THEN id + LIMIT ELSE id % LIMIT
Generations == MAX_TIMERID \div LIMIT

(* ... then a one-shot timer is deleted under a new id, another started again. *)
TimesOutOnce ==
  /\ ~fault /\ scan = "out" /\ timer[out].mode = "ONCE"
  /\ osSwtmrDelete(out, [timer EXCEPT ![out].id = NextID(@)])
  /\ past' = [past EXCEPT ![out] =
                LET s == Append(@, timer[out].id)
                IN IF Len(s) < Generations THEN s ELSE Tail(s)]
  /\ scan' = "loop"
  /\ UNCHANGED <<sort, out, box, hq, node, made, asked, fault>>

TimesOutPeriod ==
  /\ ~fault /\ scan = "out" /\ timer[out].mode = "PERIOD"
  /\ sort' = osSwTmrStart(sort, out, timer[out].interval)
  /\ timer' = [timer EXCEPT ![out].state = "TICKING"]
  /\ scan' = "loop"
  /\ UNCHANGED <<free, out, box, hq, node, made, asked, fault, live, past>>

ScanEnds ==
  /\ ~fault /\ scan = "loop"
  /\ sort # <<>> => sort[1].count # 0
  /\ scan' = "off"
  /\ UNCHANGED <<timer, free, sort, out, box, hq, node, made, asked, fault, live, past>>

(* osSwTmrTask: the node is read and copied, then freed; the handler is called
   from the copy.                                                          *)
TaskReads ==
  /\ ~fault /\ scan = "off" /\ node = NoTimer /\ hq # <<>>
  /\ hq' = Tail(hq) /\ node' = Head(hq)
  /\ UNCHANGED <<timer, free, sort, scan, out, box, made, asked, fault, live, past>>

TaskFrees ==
  /\ ~fault /\ scan = "off" /\ node # NoTimer
  /\ box' = box + 1 /\ node' = NoTimer
  /\ UNCHANGED <<timer, free, sort, scan, out, hq, made, asked, fault, live, past>>

(***************************************************************************)
(* The specification; Init is what osSwTmrInit leaves.                     *)
(***************************************************************************)
Init ==
  /\ timer = [i \in Timer |-> [id |-> i, state |-> "UNUSED", mode |-> "ONCE", interval |-> 0]]
  /\ free = [j \in 1 .. LIMIT |-> j - 1]
  /\ sort = <<>> /\ scan = "off" /\ out = NoTimer
  /\ box = HANDLE_QUEUE_SIZE /\ hq = <<>> /\ node = NoTimer
  /\ made = [c \in Client |-> NoTimer]
  /\ asked = [c \in Client |-> MAX_TIMERID]
  /\ fault = FALSE
  /\ live = {} /\ past = [i \in Timer |-> <<>>]

Tick == osSwtmrScan \/ TimesOut \/ TimesOutOnce \/ TimesOutPeriod \/ ScanEnds

Next ==
  \/ \E c \in Client :
       \/ TakeTimer(c) \/ osTimerStarts(c)
       \/ \E n \in 1 .. MaxInterval :
            \/ \E mode \in {"ONCE", "PERIOD"} : LOS_SwtmrCreate(c, n, mode)
            \/ \E i \in Timer : osTimerStart(c, i, n)
  \/ \E id \in TimerID : LOS_SwtmrStart(id) \/ LOS_SwtmrStop(id) \/ LOS_SwtmrDelete(id)
  \/ Tick \/ TaskReads \/ TaskFrees

(* SysTick keeps firing and its handler ends.  Nothing is assumed of threads,
   nor of the software timer task.                                         *)
Spec == Init /\ [][Next]_vars /\ WF_vars(Tick)

-----------------------------------------------------------------------------
(* The type of every variable; in particular usTimerID stays below the limit that
   every call tests, and no uwCount wraps below 0.                         *)
SwtmrTypeOK ==
  /\ timer \in [Timer -> [id : TimerID, state : {"UNUSED", "CREATED", "TICKING"},
                          mode : {"ONCE", "PERIOD"}, interval : 0 .. MaxInterval]]
  /\ sort \in Seq([timer : Timer, count : 0 .. MaxInterval])
  /\ free \in Seq(Timer) /\ hq \in Seq(Timer)
  /\ scan \in {"off", "loop", "out"} /\ out \in Timer \cup {NoTimer}
  /\ box \in 0 .. HANDLE_QUEUE_SIZE /\ node \in Timer \cup {NoTimer}
  /\ made \in [Client -> Timer \cup {NoTimer}]
  /\ asked \in [Client -> TimerID \cup {MAX_TIMERID}]
  /\ fault \in BOOLEAN /\ live \subseteq TimerID
  /\ past \in [Timer -> Seq(TimerID)]

(* The relative list keeps every timer's absolute deadline, whatever is started,
   restarted, stopped and deleted before and behind it, and timers that ring
   together ring in the order they were started ("first in, first out").   *)
A == INSTANCE Alarm WITH
       None <- NoTimer, rang <- out,
       alarms <- [j \in 1 .. Len(sort) |-> [timer |-> sort[j].timer, left |-> Left(sort, j)]]
ImplementsAlarm == A!Spec

(* No block is lost or owned twice, and the ids that LOS_SwtmrCreate has handed
   out and nobody has ended are those of the blocks in use: a created timer
   can be started, stopped and deleted by its id.                          *)
TimersAgree ==
  /\ ~fault /\ IsInjective(free)
  /\ \A j \in 1 .. Len(sort) : Place(sort, sort[j].timer) = j
  /\ \A i \in Timer :
       /\ timer[i].id % LIMIT = i
       /\ timer[i].state = "UNUSED" <=> Contains(free, i) \/ \E c \in Client : made[c] = i
       /\ \A c, d \in Client : made[c] = i => ~Contains(free, i) /\ (made[d] = i => c = d)
       /\ timer[i].state = "TICKING" <=> Listed(i) \/ (scan = "out" /\ out = i)
       /\ timer[i].state # "UNUSED" <=> timer[i].id \in live
  /\ live \subseteq {timer[i].id : i \in Timer}

(* The id of a one-shot timer that has expired is refused, until usTimerID has
   gone through all its values.                                            *)
StaleIdRefused == \A i \in Timer : \A j \in 1 .. Len(past[i]) : past[i][j] # timer[i].id

(* An expiry is dropped only when the software timer task is so far behind that
   one timer has expired twice without its handler being called.           *)
Recorded == (IF node = NoTimer THEN <<>> ELSE <<node>>) \o hq
DroppedOnlyWhenBehind ==
  [][TimesOut /\ hq' = hq => ~IsInjective(Append(Recorded, out'))]_vars
=============================================================================
