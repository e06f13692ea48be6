------------------------------ MODULE SortLink ------------------------------
(***************************************************************************)
(* g_stTskSortLink, the timing wheel of kernel/base/core/los_task.c: Len   *)
(* buckets, each a list of tasks with roll counts relative to the previous *)
(* task of the list.  One bucket is visited in each tick.                  *)
(***************************************************************************)
EXTENDS Integers, SequencesExt

CONSTANTS Task,        (* tasks that use timers                                *)
          LinkLen,     (* OS_TSK_SORTLINK_LEN                                  *)
          Nesting,     (* handlers delete timers inside a round of osTaskScan  *)
          MaxTimeout   (* the longest timeout, a bound of the model            *)

ASSUME SortLinkAssumption ==
  LinkLen \in Nat \ {0} /\ MaxTimeout \in Nat \ {0} /\ Nesting \in BOOLEAN

Index == 0 .. LinkLen - 1

VARIABLES
  cursor,  (* usCursor                                                         *)
  bucket,  (* pstSortLink[i], a list of stTimerList nodes                      *)
  roll,    (* UWROLLNUM(uwIdxRollNum)                                          *)
  index,   (* UWSORTINDEX(uwIdxRollNum)                                        *)
  scan     (* inside the loop of osTaskScan                                    *)

vars == <<cursor, bucket, roll, index, scan>>

InWheel(t) == \E i \in Index : Contains(bucket[i], t)

(* The whole rolls before the j-th task of a list is served. *)
Rolls(s, j) ==
  LET sum[i \in 0 .. j] == IF i = 0 THEN 0 ELSE sum[i - 1] + roll[s[i]] IN sum[j]

(* Mutant: the correction for multiples of LinkLen is left out. *)
RollNumUncorrected(n) == n \div LinkLen

RollNum(n) == IF n % LinkLen > 0 THEN n \div LinkLen ELSE n \div LinkLen - 1

(* The new task goes behind all whose rolls do not exceed its own, keeps the
   difference, and is subtracted from the task it is put in front of.      *)
osTaskAdd2TimerList(t, n) ==
  LET i == (n + cursor) % LinkLen
      s == bucket[i]
      before == {j \in 1 .. Len(s) : Rolls(s, j) <= RollNum(n)}
      place == Cardinality(before)
      left == RollNum(n) - Rolls(s, place)
  IN /\ ~scan /\ ~InWheel(t)
     /\ bucket' = [bucket EXCEPT ![i] = InsertAt(s, place + 1, t)]
     /\ index' = [index EXCEPT ![t] = i]
     /\ roll' = [u \in Task |->
                   IF u = t THEN left
                   ELSE IF place < Len(s) /\ u = s[place + 1] THEN roll[u] - left
                   ELSE roll[u]]
     /\ UNCHANGED <<cursor, scan>>

(* The round of osTaskScan has found that the task has rolls left, and has not
   charged it yet.  If it is deleted there, the charge falls on the deleted task,
   not on those behind it, and ends the scan.                              *)
ChargeFallsOn(t) ==
  Nesting /\ scan /\ index[t] = cursor /\ t = Head(bucket[cursor]) /\ roll[t] > 0

(* The successor takes over the rolls of the deleted task. *)
osTimerListDelete(t) ==
  LET s == bucket[index[t]]
      j == SelectInSeq(s, LAMBDA u : u = t)
  IN /\ InWheel(t)
     /\ bucket' = [bucket EXCEPT ![index[t]] = RemoveAt(s, j)]
     /\ roll' = IF j < Len(s) THEN [roll EXCEPT ![s[j + 1]] = @ + roll[t]] ELSE roll
     /\ scan' \in IF ChargeFallsOn(t) THEN {FALSE, scan} ELSE {scan}
     /\ UNCHANGED <<cursor, index>>

(* osTaskScan: the cursor moves, and an empty bucket ends the scan. *)
ScanBegins ==
  /\ ~scan
  /\ cursor' = (cursor + 1) % LinkLen
  /\ scan' = (bucket[cursor'] # <<>>)
  /\ UNCHANGED <<bucket, roll, index>>

ScanServes ==
  /\ scan /\ bucket[cursor] # <<>> /\ roll[Head(bucket[cursor])] = 0
  /\ bucket' = [bucket EXCEPT ![cursor] = Tail(@)]
  /\ UNCHANGED <<cursor, roll, index, scan>>

(* The first task that has rolls left is charged one, for all behind it. *)
ScanEnds ==
  /\ scan
  /\ \/ /\ bucket[cursor] = <<>>
        /\ roll' = roll
     \/ /\ bucket[cursor] # <<>> /\ roll[Head(bucket[cursor])] > 0
        /\ roll' = [roll EXCEPT ![Head(bucket[cursor])] = @ - 1]
  /\ scan' = FALSE
  /\ UNCHANGED <<cursor, bucket, index>>

Init ==
  /\ cursor = 0
  /\ bucket = [i \in Index |-> <<>>]
  /\ roll = [t \in Task |-> 0]
  /\ index = [t \in Task |-> 0]
  /\ scan = FALSE

Next ==
  \/ \E t \in Task, n \in 1 .. MaxTimeout : osTaskAdd2TimerList(t, n)
  \/ \E t \in Task : osTimerListDelete(t)
  \/ ScanBegins \/ ScanServes \/ ScanEnds

(* The tick keeps firing and its handler runs to its end. *)
Spec ==
  /\ Init /\ [][Next]_vars
  /\ WF_vars(ScanBegins) /\ WF_vars(ScanServes) /\ WF_vars(ScanEnds)

-----------------------------------------------------------------------------
(* The wheel implements the calendar: a task is served exactly n ticks after it
   was added, in order of arrival, whatever is added to or deleted from its
   bucket meanwhile, but for a deletion between the roll test and the charge of
   osTaskScan, which makes the rest of the bucket a turn late (v_wheel.cfg).  While the bucket under the cursor is being served, the
   roll of this visit is still charged to the tasks that stay in it.       *)
DueIn(n) ==
  LET i == (cursor + n) % LinkLen
      s == bucket[i]
      rolls == IF scan /\ i = cursor THEN n \div LinkLen ELSE RollNum(n)
      js == {j \in 1 .. Len(s) : Rolls(s, j) = rolls}
  IN IF js = {} \/ (n = 0 /\ ~scan) THEN <<>> ELSE SubSeq(s, Min(js), Max(js))

Timers == INSTANCE Calendar WITH due <- [n \in 0 .. MaxTimeout |-> DueIn(n)]
ImplementsCalendar == Timers!Spec
=============================================================================
