---------------------------- MODULE LosMuxProofs ----------------------------
(***************************************************************************)
(* Theorems about recursive mutexes, for every number of mutexes and tasks *)
(* and every depth of nesting, of applications that are Steady.  Those     *)
(* about inherited priorities are of tasks that are busy with one mutex at *)
(* a time, in every state of the behaviour (OneEach).                      *)
(***************************************************************************)
EXTENDS LosMux, LosTaskProofs

(* The control blocks in the free list are unused, and in it once. *)
Blocks ==
  /\ IsInjective(unused)
  /\ \A m \in Mux : Contains(unused, m) => ~mux[m].used
  /\ \A m \in Mux : ~mux[m].used => mux[m].count = 0

(* An owner is a task that lives. *)
Owners ==
  \A m \in Mux : mux[m].count > 0 =>
    mux[m].owner \in Task \ {Idle} /\ ~Has(k, mux[m].owner, "UNUSED")

(* Who waits for a mutex is inside the LOS_MuxPend that asked for it. *)
Asking ==
  /\ \A t \in Task : ~Has(k, t, "PEND_QUEUE")
  /\ \A t \in Task : pc[t] \in Inside => asked[t] \in Mux /\ ~Has(k, t, "UNUSED")
  /\ \A t \in Task, m \in Mux : Contains(k.wait[m], t) => pc[t] \in Inside /\ asked[t] = m

(* The inductive invariant. *)
Mutual == Blocks /\ Owners /\ Asking /\ WaitersHaveOwner /\ OwnerKnows
MuxInv == IInv /\ ~k.fault /\ Settles /\ NoneReturns /\ MuxTypeOK /\ Mutual

LEMMA MuxType ==
  ASSUME MuxInv
  PROVE  /\ IInv /\ TypeOK /\ k \in Kernel /\ pc \in [Thread -> Control]
         /\ mux \in [Mux -> [used : BOOLEAN, count : 0 .. MaxNest,
                             owner : Task \cup {NoTask}, prio : Prio]]
         /\ unused \in Seq(Mux) /\ asked \in [Task -> Mux \cup {NoTask}]
         /\ held \in [Task -> [Mux -> Nat]] /\ base \in [Task -> Prio]
         /\ ~k.fault /\ Settles /\ NoneReturns
         /\ Blocks /\ Owners /\ Asking /\ WaitersHaveOwner /\ OwnerKnows
BY DEF MuxInv, MuxTypeOK, TypeOK, Mutual

LEMMA MuxInitInv == ~Nesting /\ MuxInit => MuxInv
<1> SUFFICES ASSUME ~Nesting, MuxInit PROVE MuxInv
  OBVIOUS
<1>1. IInv /\ ~k.fault /\ Settles /\ NoneReturns
  BY InitInv, InitSettles DEF MuxInit
<1>2. k \in Kernel /\ 0 \in Prio
  BY <1>1, TaskAssumption DEF IInv, TypeOK, Prio
<1>3. MuxTypeOK
  BY <1>1, <1>2, MuxAssumption, KernelType DEF MuxInit, MuxTypeOK, IInv, Kernel
<1>4. /\ k.wait = [o \in WaitObj |-> <<>>]
      /\ k.status = [t \in Task |-> IF t = Idle THEN {"READY"} ELSE {"UNUSED"}]
      /\ pc = [t \in Thread |-> IF t \in {Idle, Dummy} THEN "user" ELSE "none"]
      /\ mux = [m \in Mux |-> [used |-> FALSE, count |-> 0, owner |-> NoTask, prio |-> 0]]
      /\ unused = UnusedOrder /\ held = [t \in Task |-> [m \in Mux |-> 0]]
  BY DEF MuxInit, Init
<1>5. Blocks /\ Owners
  <2>1. \A m \in Mux : ~mux[m].used /\ mux[m].count = 0
    BY <1>4
  <2>2. IsInjective(unused)
    BY <1>4, MuxAssumption DEF IsInjective
  <2> QED BY <2>1, <2>2 DEF Blocks, Owners
<1>6. Asking
  <2>1. \A t \in Task : pc[t] \notin Inside /\ ~Has(k, t, "PEND_QUEUE")
    BY <1>4 DEF Inside, Has, Thread
  <2>2. \A m \in Mux : k.wait[m] = <<>>
    BY <1>4 DEF Mux
  <2> QED BY <2>1, <2>2, EmptyList DEF Asking
<1>7. WaitersHaveOwner
  BY <1>4 DEF WaitersHaveOwner, Mux
<1>8. OwnerKnows
  BY <1>4 DEF OwnerKnows, Told, Owns, Thread
<1> QED BY <1>1, <1>3, <1>5, <1>6, <1>7, <1>8 DEF MuxInv, Mutual

(***************************************************************************)
(* Steps.                                                                  *)
(***************************************************************************)

(* A step of the task component. *)
LEMMA TaskMutual ==
  ASSUME Steady, MuxInv, [Next]_vars, UNCHANGED <<mux, unused, asked, held>>, ~k'.fault, IInv'
  PROVE  Mutual'
<1>1. /\ k \in Kernel /\ k' \in Kernel /\ IInv /\ NoneReturns /\ ~k.fault
      /\ Blocks /\ Owners /\ Asking /\ WaitersHaveOwner /\ OwnerKnows
  BY MuxType DEF IInv, TypeOK
<1>2. Endures
  BY <1>1, NextEndures
<1>3. \A t \in Task : Has(k', t, "UNUSED") => Has(k, t, "UNUSED")
  BY <1>1, NextUsedStays DEF UsedStays
<1>4. \A t \in Task : pc[t] \in Inside <=> pc'[t] \in Inside
  <2>1. \A t \in Task : pc[t] \in Inside => pc'[t] = pc[t]
    BY <1>1, InsideStays DEF Asking
  <2> QED BY <1>2, <2>1 DEF Endures
<1>5. Blocks'
  BY <1>1 DEF Blocks
<1>6. Owners'
  BY <1>1, <1>3 DEF Owners
<1>7. Asking'
  <2>1. \A t \in Task, m \in Mux : Contains(k'.wait[m], t) => Contains(k.wait[m], t)
    BY <1>2 DEF Endures, Mux
  <2>2. \A t \in Task : ~Has(k', t, "PEND_QUEUE")
    BY <1>1, <1>2 DEF Endures, Asking
  <2> QED BY <1>1, <1>3, <1>4, <2>1, <2>2 DEF Asking
<1>8. WaitersHaveOwner'
  <2>1. ASSUME NEW m \in Mux, k'.wait[m] # <<>>
        PROVE  k.wait[m] # <<>> /\ (Contains(k'.wait[m], mux[m].owner) => Contains(k.wait[m], mux[m].owner))
    <3>1. k'.wait[m] \in Seq(Task) /\ k.wait[m] \in Seq(Task)
      BY <1>1, KernelType DEF Mux
    <3>2. \A t : Contains(k'.wait[m], t) => t \in Task
      BY <3>1 DEF Contains
    <3>3. \A t : Contains(k'.wait[m], t) => Contains(k.wait[m], t)
      BY <1>2, <3>2 DEF Endures, Mux
    <3>4. Contains(k'.wait[m], Head(k'.wait[m]))
      BY <2>1, <3>1, TailList
    <3> QED BY <3>3, <3>4, EmptyList
  <2> QED BY <1>1, <2>1 DEF WaitersHaveOwner
<1>9. OwnerKnows'
  <2>1. ASSUME NEW t \in Task, NEW m \in Mux PROVE Told(t, m)' = Told(t, m)
    <3> DEFINE In == pc[t] \in Inside /\ asked[t] = m
    <3>1. In' <=> In
      BY <1>4
    <3>2. In => (Has(k, t, "PEND") \/ Has(k, t, "TIMEOUT") <=> Has(k', t, "PEND") \/ Has(k', t, "TIMEOUT"))
      BY <1>2, <1>4 DEF Endures
    <3>3. \A x : x.status[t] \cap {"PEND", "TIMEOUT"} = {} <=> ~(Has(x, t, "PEND") \/ Has(x, t, "TIMEOUT"))
      BY DEF Has
    <3>4. /\ k.status[t] \cap {"PEND", "TIMEOUT"} = {} <=> ~(Has(k, t, "PEND") \/ Has(k, t, "TIMEOUT"))
          /\ k'.status[t] \cap {"PEND", "TIMEOUT"} = {} <=> ~(Has(k', t, "PEND") \/ Has(k', t, "TIMEOUT"))
      BY <3>3
    <3> QED BY <3>1, <3>2, <3>4 DEF Told, Inside
  <2>2. ASSUME NEW t \in Task, NEW m \in Mux PROVE Owns(t, m)' <=> Owns(t, m)
    BY DEF Owns
  <2> QED BY <1>1, <2>1, <2>2 DEF OwnerKnows
<1> QED BY <1>5, <1>6, <1>7, <1>8, <1>9 DEF Mutual

(* Control blocks are taken from the free list and returned to it. *)
LEMMA BlockListStep ==
  ASSUME MuxInv, NEW m \in Mux, NEW r \in [used : BOOLEAN, count : {0}, owner : Task \cup {NoTask}, prio : Prio],
         k.wait[m] = <<>>, mux[m].count = 0, mux' = [mux EXCEPT ![m] = r],
         \/ r.used /\ unused # <<>> /\ m = Head(unused) /\ unused' = Tail(unused)
         \/ ~r.used /\ mux[m].used /\ unused' = <<m>> \o unused,
         UNCHANGED <<vars, asked, held, base>>
  PROVE  MuxInv'
<1>1. /\ IInv /\ TypeOK /\ k \in Kernel
      /\ mux \in [Mux -> [used : BOOLEAN, count : 0 .. MaxNest, owner : Task \cup {NoTask}, prio : Prio]]
      /\ unused \in Seq(Mux)
      /\ Blocks /\ Owners /\ Asking /\ WaitersHaveOwner /\ OwnerKnows
  BY MuxType
<1>2. IInv' /\ TypeOK'
  BY <1>1, NextInv DEF IInv, vars
<1>3. k' = k /\ pc' = pc /\ tick' = tick /\ asked' = asked /\ held' = held /\ base' = base
  BY DEF vars
<1>4. ~k'.fault /\ Settles' /\ NoneReturns'
  BY <1>3, MuxType DEF Settles, Moving, Late, NoneReturns
<1>5. /\ unused' \in Seq(Mux) /\ IsInjective(unused')
      /\ \A u : Contains(unused', u) => (u = m /\ ~r.used) \/ (Contains(unused, u) /\ u # m)
  <2>1. CASE r.used
    <3>1. unused # <<>> /\ m = Head(unused) /\ unused' = Tail(unused) /\ IsInjective(unused)
      BY <1>1, <2>1 DEF Blocks
    <3>2. unused \in Seq(Mux)
      BY <1>1
    <3> QED BY <3>1, <3>2, TailList
  <2>2. CASE ~r.used
    <3>1. ~Contains(unused, m) /\ mux[m].used
      BY <1>1, <2>2 DEF Blocks
    <3>2. unused' = <<m>> \o unused /\ IsInjective(unused)
      BY <1>1, <2>2 DEF Blocks
    <3> QED BY <1>1, <2>2, <3>1, <3>2, PushList
  <2> QED BY <2>1, <2>2
<1>6. /\ r.count = 0 /\ r.used \in BOOLEAN /\ mux'[m] = r
      /\ \A n \in Mux : n # m => mux'[n] = mux[n]
      /\ r \in [used : BOOLEAN, count : 0 .. MaxNest, owner : Task \cup {NoTask}, prio : Prio]
  BY <1>1, MuxAssumption
<1>7. MuxTypeOK'
  BY <1>1, <1>2, <1>3, <1>5, <1>6, MuxType DEF MuxTypeOK
<1>8. Blocks'
  BY <1>1, <1>5, <1>6 DEF Blocks
<1>9. Owners' /\ Asking' /\ WaitersHaveOwner'
  BY <1>1, <1>3, <1>6 DEF Owners, Asking, WaitersHaveOwner
<1>10. OwnerKnows'
  <2>1. ASSUME NEW t \in Task, NEW n \in Mux
        PROVE  /\ Told(t, n)' = Told(t, n)
               /\ (IF Owns(t, n)' THEN mux'[n].count ELSE 0) = IF Owns(t, n) THEN mux[n].count ELSE 0
    BY <1>3, <1>6 DEF Told, Owns
  <2> QED BY <1>1, <2>1 DEF OwnerKnows
<1> QED BY <1>2, <1>4, <1>7, <1>8, <1>9, <1>10 DEF MuxInv, Mutual

LEMMA MuxCreateStep ==
  ASSUME MuxInv, LOS_MuxCreate
  PROVE  MuxInv'
<1> DEFINE m == Head(unused)
           r == [used |-> TRUE, count |-> 0, owner |-> NoTask, prio |-> 0]
<1>1. /\ unused # <<>> /\ mux' = [mux EXCEPT ![m] = r] /\ unused' = Tail(unused)
      /\ UNCHANGED <<vars, asked, held, base>>
  BY DEF LOS_MuxCreate
<1>2. /\ m \in Mux /\ Contains(unused, m)
  BY <1>1, MuxType, TailList
<1>3. r \in [used : BOOLEAN, count : {0}, owner : Task \cup {NoTask}, prio : Prio] /\ r.used
  BY TaskAssumption DEF Prio
<1> HIDE DEF r
<1>4. mux[m].count = 0 /\ k.wait[m] = <<>>
  BY <1>2, MuxType DEF Blocks, WaitersHaveOwner
<1> QED BY <1>1, <1>2, <1>3, <1>4, BlockListStep

LEMMA MuxDeleteStep ==
  ASSUME MuxInv, NEW m \in Mux, LOS_MuxDelete(m)
  PROVE  MuxInv'
<1> DEFINE r == [mux[m] EXCEPT !.used = FALSE]
<1>1. /\ mux[m].used /\ k.wait[m] = <<>> /\ mux[m].count = 0
      /\ mux' = [mux EXCEPT ![m].used = FALSE] /\ unused' = <<m>> \o unused
      /\ UNCHANGED <<vars, asked, held, base>>
  BY DEF LOS_MuxDelete
<1>2. mux' = [mux EXCEPT ![m] = r]
  BY <1>1
<1>3. r \in [used : BOOLEAN, count : {0}, owner : Task \cup {NoTask}, prio : Prio] /\ ~r.used
  BY <1>1, MuxType
<1> HIDE DEF r
<1> QED BY <1>1, <1>2, <1>3, BlockListStep

(* The task that makes a mutex call holds what its own calls returned. *)
LEMMA CallerHolds ==
  ASSUME MuxInv, UserCode, k.scheduled
  PROVE  /\ k.run \in Task \ {Idle} /\ pc[k.run] = "user" /\ InTask(pc[k.run])
         /\ ~Waits(k, k.run) /\ ~Has(k, k.run, "UNUSED")
         /\ Ok(k) /\ Sound(k) /\ ~k.pendsv /\ tick = "off" /\ k.due[0] = <<>>
         /\ \A m \in Mux : /\ ~Contains(k.wait[m], k.run)
                           /\ held[k.run][m] = IF Owns(k.run, m) THEN mux[m].count ELSE 0
<1>1. InTask(pc[k.run]) /\ pc[k.run] = "user" /\ k.run # Idle
  BY DEF UserCode, InTask
<1>2. /\ Ok(k) /\ Sound(k) /\ ~k.pendsv /\ tick = "off" /\ k.due[0] = <<>>
      /\ k.run \in Task \ {Idle} /\ ~Waits(k, k.run)
  BY <1>1, MuxType, CallerFacts
<1>3. ~Has(k, k.run, "UNUSED")
  BY <1>2 DEF Sound
<1>4. ASSUME NEW m \in Mux
      PROVE  /\ ~Contains(k.wait[m], k.run)
             /\ held[k.run][m] = IF Owns(k.run, m) THEN mux[m].count ELSE 0
  <2>1. ~Contains(k.wait[m], k.run)
    BY <1>2 DEF Sound, Good, WaitLists, Mux
  <2>2. Told(k.run, m) = held[k.run][m]
    <3>1. held[k.run][m] \in Nat
      BY <1>2, MuxType
    <3> QED BY <1>1, <3>1 DEF Told
  <2>3. Told(k.run, m) = IF Owns(k.run, m) THEN mux[m].count ELSE 0
    BY <1>2, MuxType DEF OwnerKnows
  <2> QED BY <2>1, <2>2, <2>3
<1> QED BY <1>1, <1>2, <1>3, <1>4

(* A task takes a free mutex, or takes or gives back a level of its own. *)
LEMMA LevelStep ==
  ASSUME MuxInv, UserCode, k.scheduled, NEW m \in Mux, NEW h \in 1 .. MaxNest, NEW p \in Prio,
         mux[m].used, mux[m].count = 0 \/ Owns(k.run, m),
         mux' = [mux EXCEPT ![m] = [used |-> TRUE, count |-> h, owner |-> k.run, prio |-> p]],
         held' = [held EXCEPT ![k.run][m] = h],
         UNCHANGED <<vars, unused, asked, base>>
  PROVE  MuxInv'
<1> DEFINE t == k.run
           r == [used |-> TRUE, count |-> h, owner |-> t, prio |-> p]
<1>1. /\ IInv /\ TypeOK /\ k \in Kernel
      /\ mux \in [Mux -> [used : BOOLEAN, count : 0 .. MaxNest, owner : Task \cup {NoTask}, prio : Prio]]
      /\ held \in [Task -> [Mux -> Nat]]
      /\ Blocks /\ Owners /\ Asking /\ WaitersHaveOwner /\ OwnerKnows
  BY MuxType
<1>2. /\ t \in Task \ {Idle} /\ pc[t] = "user" /\ ~Has(k, t, "UNUSED")
      /\ ~Contains(k.wait[m], t)
  BY CallerHolds
<1>3. IInv' /\ TypeOK'
  BY <1>1, NextInv DEF IInv, vars
<1>4. k' = k /\ pc' = pc /\ tick' = tick /\ unused' = unused /\ asked' = asked /\ base' = base
  BY DEF vars
<1>5. ~k'.fault /\ Settles' /\ NoneReturns'
  BY <1>4, MuxType DEF Settles, Moving, Late, NoneReturns
<1>6. /\ r.used = TRUE /\ r.count = h /\ r.owner = t /\ h \in Nat /\ h > 0
      /\ r \in [used : BOOLEAN, count : 0 .. MaxNest, owner : Task \cup {NoTask}, prio : Prio]
  BY <1>2, MuxAssumption
<1>7. /\ mux'[m] = r /\ \A n \in Mux : n # m => mux'[n] = mux[n]
      /\ mux' = [mux EXCEPT ![m] = r] /\ held' = [held EXCEPT ![t][m] = h]
  BY <1>1
<1> HIDE DEF r, t
<1>8. /\ held' \in [Task -> [Mux -> Nat]] /\ held'[t][m] = h
      /\ \A u \in Task, n \in Mux : u # t \/ n # m => held'[u][n] = held[u][n]
  BY <1>1, <1>2, <1>6, <1>7
<1>9. MuxTypeOK'
  BY <1>1, <1>3, <1>4, <1>6, <1>7, <1>8, MuxType DEF MuxTypeOK
<1>10. Blocks'
  BY <1>1, <1>4, <1>6, <1>7 DEF Blocks
<1>11. Owners' /\ Asking' /\ WaitersHaveOwner'
  <2>1. \A n \in Mux : \/ mux'[n] = mux[n]
                       \/ /\ n = m /\ mux'[n].used /\ mux'[n].count > 0 /\ mux'[n].owner = t
    BY <1>6, <1>7
  <2> QED BY <1>1, <1>2, <1>4, <2>1 DEF Owners, Asking, WaitersHaveOwner
<1>12. mux[m].count = 0 \/ mux[m].owner = t
  BY DEF Owns, t
<1>13. OwnerKnows'
  <2>1. SUFFICES ASSUME NEW u \in Task, NEW n \in Mux
                 PROVE  Told(u, n)' = IF Owns(u, n)' THEN mux'[n].count ELSE 0
    BY DEF OwnerKnows
  <2>2. Told(u, n) = IF Owns(u, n) THEN mux[n].count ELSE 0
    BY <1>1 DEF OwnerKnows
  <2>3. CASE n # m
    <3>1. Told(u, n)' = Told(u, n) /\ mux'[n] = mux[n]
      BY <1>4, <1>7, <1>8, <2>3 DEF Told
    <3> QED BY <2>2, <3>1 DEF Owns
  <2>4. CASE n = m /\ u # t
    <3>1. Told(u, n)' = Told(u, n) /\ mux'[n].owner = t
      BY <1>4, <1>6, <1>7, <1>8, <2>4 DEF Told
    <3>2. ~Owns(u, n) /\ ~Owns(u, n)'
      BY <1>12, <2>4, <3>1 DEF Owns
    <3> QED BY <2>2, <3>1, <3>2
  <2>5. CASE n = m /\ u = t
    <3>1. Told(u, n)' = h
      BY <1>2, <1>4, <1>6, <1>8, <2>5 DEF Told
    <3>2. Owns(u, n)' /\ mux'[n].count = h
      BY <1>6, <1>7, <2>5 DEF Owns
    <3> QED BY <3>1, <3>2
  <2> QED BY <2>3, <2>4, <2>5
<1> QED BY <1>3, <1>5, <1>9, <1>10, <1>11, <1>13 DEF MuxInv, Mutual

LEMMA MuxTakeStep ==
  ASSUME MuxInv, NEW m \in Mux, MuxTake(m)
  PROVE  MuxInv'
<1>1. /\ UserCode /\ k.scheduled /\ mux[m].used /\ mux[m].count = 0
      /\ mux' = [mux EXCEPT ![m] = [used |-> TRUE, count |-> 1, owner |-> k.run,
                                    prio |-> k.prio[k.run]]]
      /\ held' = [held EXCEPT ![k.run][m] = @ + 1]
      /\ UNCHANGED <<vars, unused, asked, base>>
  BY DEF MuxTake, Pends
<1>2. k.run \in Task /\ held[k.run][m] = 0
  BY <1>1, CallerHolds DEF Owns
<1>3. held' = [held EXCEPT ![k.run][m] = 1]
  BY <1>1, <1>2, MuxType
<1>4. k.prio[k.run] \in Prio
  BY <1>2, MuxType, KernelType
<1>5. 1 \in 1 .. MaxNest
  BY MuxAssumption
<1> QED BY <1>1, <1>3, <1>4, <1>5, LevelStep

LEMMA CountChanges ==
  ASSUME NEW r \in [used : BOOLEAN, count : 0 .. MaxNest, owner : Task \cup {NoTask}, prio : Prio],
         NEW h
  PROVE  [r EXCEPT !.count = h]
           = [used |-> r.used, count |-> h, owner |-> r.owner, prio |-> r.prio]
OBVIOUS

LEMMA OwnerChanges ==
  ASSUME NEW r \in [used : BOOLEAN, count : 0 .. MaxNest, owner : Task \cup {NoTask}, prio : Prio],
         NEW h, NEW u, NEW q
  PROVE  [[[r EXCEPT !.count = h] EXCEPT !.owner = u] EXCEPT !.prio = q]
           = [used |-> r.used, count |-> h, owner |-> u, prio |-> q]
<1> DEFINE a == [r EXCEPT !.count = h]
           b == [a EXCEPT !.owner = u]
           c == [b EXCEPT !.prio = q]
<1>1. a = [used |-> r.used, count |-> h, owner |-> r.owner, prio |-> r.prio]
  BY CountChanges
<1> HIDE DEF a
<1>2. b = [used |-> r.used, count |-> h, owner |-> u, prio |-> r.prio]
  BY <1>1
<1> HIDE DEF b
<1>3. c = [used |-> r.used, count |-> h, owner |-> u, prio |-> q]
  BY <1>2
<1> QED BY <1>3 DEF a, b

LEMMA MuxNestStep ==
  ASSUME MuxInv, NEW m \in Mux, MuxNest(m)
  PROVE  MuxInv'
<1> DEFINE h == mux[m].count + 1
           q == mux[m].prio
<1>1. /\ UserCode /\ k.scheduled /\ mux[m].used /\ Owns(k.run, m) /\ mux[m].count < MaxNest
      /\ mux' = [mux EXCEPT ![m].count = h]
      /\ held' = [held EXCEPT ![k.run][m] = @ + 1]
      /\ UNCHANGED <<vars, unused, asked, base>>
  BY DEF MuxNest, Pends
<1>2. k.run \in Task /\ held[k.run][m] = mux[m].count
  BY <1>1, CallerHolds
<1>3. h \in 1 .. MaxNest /\ q \in Prio
  BY <1>1, MuxType, MuxAssumption DEF Owns
<1>4. mux' = [mux EXCEPT ![m] = [used |-> TRUE, count |-> h, owner |-> k.run, prio |-> q]]
  <2>1. /\ mux \in [Mux -> [used : BOOLEAN, count : 0 .. MaxNest, owner : Task \cup {NoTask},
                            prio : Prio]]
        /\ mux[m].used = TRUE /\ mux[m].owner = k.run
    BY <1>1, MuxType DEF Owns
  <2>2. [mux[m] EXCEPT !.count = h] = [used |-> TRUE, count |-> h, owner |-> k.run, prio |-> q]
    BY <2>1, CountChanges
  <2>3. mux' = [mux EXCEPT ![m] = [mux[m] EXCEPT !.count = h]]
    BY <1>1
  <2> QED BY <2>2, <2>3
<1>5. held' = [held EXCEPT ![k.run][m] = h]
  BY <1>1, <1>2, MuxType
<1> HIDE DEF h, q
<1> QED BY <1>1, <1>3, <1>4, <1>5, LevelStep

LEMMA MuxUnnestStep ==
  ASSUME MuxInv, NEW m \in Mux, MuxUnnest(m)
  PROVE  MuxInv'
<1> DEFINE h == mux[m].count - 1
           q == mux[m].prio
<1>1. /\ UserCode /\ k.scheduled /\ mux[m].used /\ Owns(k.run, m) /\ mux[m].count > 1
      /\ mux' = [mux EXCEPT ![m].count = h]
      /\ held' = [held EXCEPT ![k.run][m] = @ - 1]
      /\ UNCHANGED <<vars, unused, asked, base>>
  BY DEF MuxUnnest, Posts, vars
<1>2. k.run \in Task /\ held[k.run][m] = mux[m].count
  BY <1>1, CallerHolds
<1>3. h \in 1 .. MaxNest /\ q \in Prio
  BY <1>1, MuxType, MuxAssumption DEF Owns
<1>4. mux' = [mux EXCEPT ![m] = [used |-> TRUE, count |-> h, owner |-> k.run, prio |-> q]]
  <2>1. /\ mux \in [Mux -> [used : BOOLEAN, count : 0 .. MaxNest, owner : Task \cup {NoTask},
                            prio : Prio]]
        /\ mux[m].used = TRUE /\ mux[m].owner = k.run
    BY <1>1, MuxType DEF Owns
  <2>2. [mux[m] EXCEPT !.count = h] = [used |-> TRUE, count |-> h, owner |-> k.run, prio |-> q]
    BY <2>1, CountChanges
  <2>3. mux' = [mux EXCEPT ![m] = [mux[m] EXCEPT !.count = h]]
    BY <1>1
  <2> QED BY <2>2, <2>3
<1>5. held' = [held EXCEPT ![k.run][m] = h]
  BY <1>1, <1>2, MuxType
<1> HIDE DEF h, q
<1> QED BY <1>1, <1>3, <1>4, <1>5, LevelStep

(***************************************************************************)
(* Priorities.                                                             *)
(***************************************************************************)

(* osTaskPriModify changes one priority and the order of the ready queues. *)
LEMMA PriModifyFacts ==
  ASSUME NEW x, NEW t \in Task \ {Idle}, NEW p \in Prio, Ok(x), ~x.fault, ~Has(x, t, "UNUSED")
  PROVE  LET y == osTaskPriModify(x, t, p)
         IN y.status = x.status /\ y.wait = x.wait /\ y.due = x.due /\ y.prio \in [Task -> Prio]
<1> DEFINE z == MakeUnready(x, t)
           w == WithPrio(z, t, p)
           v == MakeReady(w, t)
           y == osTaskPriModify(x, t, p)
<1>1. x \in Kernel /\ Sound(x)
  BY DEF Ok
<1>2. CASE Has(x, t, "READY")
  <2>1. y = v
    BY <1>2 DEF osTaskPriModify
  <2>2. \A o \in WaitObj : ~Contains(x.wait[o], t) /\ x.wait[o] \in Seq(Task)
    <3>1. ~Waits(x, t)
      BY <1>1, <1>2 DEF Sound, Good, Flags, FlagsOf, Stopped
    <3> QED BY <1>1, <3>1, KernelType DEF Sound, Good, WaitLists
  <2>3. \A o \in WaitObj : RemoveFirst(x.wait[o], t) = x.wait[o]
    BY <2>2, RemoveFirstAbsent
  <2>4. /\ z \in Kernel /\ z.due = x.due
        /\ z.status = [x.status EXCEPT ![t] = @ \ {"READY"}]
        /\ \A o \in WaitObj : z.wait[o] = RemoveFirst(x.wait[o], t)
    BY <1>1, MakeUnreadyFacts
  <2> HIDE DEF z
  <2>5. z.wait = x.wait
    <3>1. z.wait \in [WaitObj -> Seq(Task)] /\ x.wait \in [WaitObj -> Seq(Task)]
      BY <1>1, <2>4 DEF Kernel
    <3> QED BY <2>3, <2>4, <3>1
  <2>6. w \in Kernel /\ w.status = z.status /\ w.wait = z.wait /\ w.due = z.due
    BY <2>4 DEF WithPrio, Kernel
  <2> HIDE DEF w
  <2>7. /\ v \in Kernel /\ v.status = [w.status EXCEPT ![t] = @ \cup {"READY"}]
        /\ v.wait = w.wait /\ v.due = w.due
    BY <2>6, MakeReadyFacts
  <2> HIDE DEF v, y
  <2>8. v.status = x.status
    <3>1. x.status \in [Task -> SUBSET Flag] /\ "READY" \in x.status[t]
      BY <1>1, <1>2 DEF Kernel, Has
    <3>2. (x.status[t] \ {"READY"}) \cup {"READY"} = x.status[t]
      BY <3>1
    <3> QED BY <2>4, <2>6, <2>7, <3>1, <3>2
  <2>9. v.prio \in [Task -> Prio]
    BY <2>7 DEF Kernel
  <2> QED BY <2>1, <2>4, <2>5, <2>6, <2>7, <2>8, <2>9 DEF y
<1>3. CASE ~Has(x, t, "READY")
  BY <1>1, <1>3 DEF osTaskPriModify, WithPrio, Kernel
<1> QED BY <1>2, <1>3

(* k after a change of one priority, or none: what the calls that follow need. *)
Reprioritised(x) ==
  /\ Ok(x) /\ ~x.fault /\ SameRest(k, x) /\ Gentle(k, x)
  /\ x.status = k.status /\ x.wait = k.wait /\ x.due = k.due

LEMMA PriModifies ==
  ASSUME MuxInv, NEW t \in Task \ {Idle}, NEW p \in Prio, ~Has(k, t, "UNUSED")
  PROVE  Reprioritised(osTaskPriModify(k, t, p)) /\ Reprioritised(k)
<1> DEFINE y == osTaskPriModify(k, t, p)
<1>1. Ok(k) /\ ~k.fault
  BY MuxType, Start
<1>2. Ok(y) /\ Gentle(k, y)
  BY <1>1, PriModifyOk DEF Frame
<1>3. ~y.fault /\ SameRest(k, y)
  BY <1>1, PriModifySafe
<1>4. y.status = k.status /\ y.wait = k.wait /\ y.due = k.due
  BY <1>1, PriModifyFacts
<1>5. Gentle(k, k) /\ SameRest(k, k)
  BY FrameReflexive DEF Frame, SameRest
<1> QED BY <1>1, <1>2, <1>3, <1>4, <1>5 DEF Reprioritised

LEMMA RaisedOk ==
  ASSUME MuxInv, UserCode, k.scheduled, NEW m \in Mux, mux[m].count > 0
  PROVE  Reprioritised(Raised(k, m))
<1>1. /\ mux[m].owner \in Task \ {Idle} /\ ~Has(k, mux[m].owner, "UNUSED")
      /\ k.run \in Task /\ k.prio[k.run] \in Prio
  BY MuxType, CallerHolds, KernelType DEF Owners
<1> QED BY <1>1, PriModifies DEF Raised

LEMMA LoweredOk ==
  ASSUME MuxInv, UserCode, k.scheduled, NEW m \in Mux
  PROVE  Reprioritised(Lowered(k, m))
<1>1. /\ k.run \in Task \ {Idle} /\ ~Has(k, k.run, "UNUSED") /\ mux[m].prio \in Prio
  BY MuxType, CallerHolds
<1> QED BY <1>1, PriModifies DEF Lowered

(***************************************************************************)
(* LOS_MuxPend.                                                            *)
(***************************************************************************)
LEMMA WaitedFacts ==
  ASSUME NEW x, NEW y, NEW m \in WaitObj, NEW n \in 1 .. Forever,
         Ok(x), x.run \in Task, ~x.fault, ~Waits(x, x.run), Queued(x, y, m, n, "PEND")
  PROVE  /\ \A o \in WaitObj, u \in Task :
              Contains(y.wait[o], u) <=> Contains(x.wait[o], u) \/ (u = x.run /\ o = m)
         /\ \A u \in Task : u # x.run => y.status[u] = x.status[u]
         /\ \A f \in Flag \ {"TIMEOUT", "READY"} :
              Has(y, x.run, f) <=> Has(x, x.run, f) \/ f = "PEND"
<1>1. "PEND" \in {"PEND", "PEND_QUEUE"}
  OBVIOUS
<1> QED BY <1>1, QueuedFacts

LEMMA MuxBlockKernel ==
  ASSUME ~TIMESLICE, MuxInv, NEW m \in Mux, NEW n \in 1 .. Forever, MuxBlock(m, n)
  PROVE  /\ IInv' /\ ~k'.fault /\ Settles' /\ NoneReturns'
         /\ \A o \in Mux, u \in Task :
              Contains(k'.wait[o], u) <=> Contains(k.wait[o], u) \/ (u = k.run /\ o = m)
         /\ \A u \in Task : u # k.run => k'.status[u] = k.status[u]
         /\ Has(k', k.run, "PEND") /\ ~Has(k', k.run, "UNUSED")
         /\ \A u \in Task : ~Has(k', u, "PEND_QUEUE")
<1> DEFINE t == k.run
           x == Raised(k, m)
<1>1. /\ UserCode /\ k.scheduled /\ k.lock = 0 /\ mux[m].count > 0
      /\ k' = WaitOn(x, m, n) /\ Goto(t, "pend") /\ pc' = [pc EXCEPT ![t] = "pend"]
      /\ fresh' = fresh /\ tick' = tick /\ cut' = cut /\ m \in WaitObj
  BY DEF MuxBlock, Pends, Goto, Mux
<1>2. /\ t \in Task \ {Idle} /\ ~Waits(k, t) /\ ~Has(k, t, "UNUSED")
      /\ IInv /\ Settles /\ NoneReturns /\ pc \in [Thread -> Control] /\ Asking
  BY <1>1, CallerHolds, MuxType
<1>3. Reprioritised(x)
  BY <1>1, RaisedOk
<1> HIDE DEF x
<1>4. /\ Ok(x) /\ ~x.fault /\ SameRest(k, x) /\ Gentle(k, x) /\ x \in Kernel
      /\ x.status = k.status /\ x.wait = k.wait /\ x.due = k.due /\ x.run = t
      /\ x.pendsv = k.pendsv
  BY <1>3 DEF Reprioritised, SameRest, Ok
<1>5. /\ ~Waits(x, x.run) /\ x.run \in Task \ {Idle}
      /\ \A u, f : Has(x, u, f) <=> Has(k, u, f)
  BY <1>2, <1>4 DEF Waits, Has
<1>6. Queued(x, k', m, n, "PEND")
  BY <1>1, <1>4, <1>5, WaitOnQueued
<1>7. "PEND" \in {"PEND", "PEND_QUEUE"}
  OBVIOUS
<1>8. IInv'
  BY <1>1, <1>2, <1>4, <1>6, <1>7, BlockStep
<1>9. ~k'.fault /\ Settles'
  BY <1>1, <1>2, <1>4, <1>5, WaitSettles
<1>10. NoneReturns'
  BY <1>1, <1>2, GoesElsewhere
<1>11. /\ \A o \in WaitObj, u \in Task :
            Contains(k'.wait[o], u) <=> Contains(x.wait[o], u) \/ (u = x.run /\ o = m)
       /\ \A u \in Task : u # x.run => k'.status[u] = x.status[u]
       /\ \A f \in Flag \ {"TIMEOUT", "READY"} :
            Has(k', x.run, f) <=> Has(x, x.run, f) \/ f = "PEND"
  <2>1. Ok(x) /\ ~x.fault /\ x.run \in Task /\ ~Waits(x, x.run) /\ m \in WaitObj
    BY <1>1, <1>4, <1>5
  <2> QED BY <1>6, <2>1, WaitedFacts
<1>12. Has(k', t, "PEND") /\ ~Has(k', t, "UNUSED") /\ ~Has(k', t, "PEND_QUEUE")
  <2>1. {"PEND", "UNUSED", "PEND_QUEUE"} \subseteq Flag \ {"TIMEOUT", "READY"}
    BY DEF Flag
  <2>2. ~Has(x, t, "UNUSED") /\ ~Has(x, t, "PEND_QUEUE")
    BY <1>2, <1>5 DEF Asking
  <2> QED BY <1>4, <1>11, <2>1, <2>2
<1>13. \A u \in Task : ~Has(k', u, "PEND_QUEUE")
  BY <1>2, <1>4, <1>11, <1>12 DEF Asking, Has
<1> QED BY <1>4, <1>8, <1>9, <1>10, <1>11, <1>12, <1>13 DEF Mux

LEMMA MuxBlockStep ==
  ASSUME ~TIMESLICE, MuxInv, NEW m \in Mux, NEW n \in 1 .. Forever, MuxBlock(m, n)
  PROVE  MuxInv'
<1> DEFINE t == k.run
<1>1. /\ UserCode /\ k.scheduled /\ mux[m].used /\ mux[m].count > 0 /\ mux[m].owner # t
      /\ pc' = [pc EXCEPT ![t] = "pend"] /\ asked' = [asked EXCEPT ![t] = m]
      /\ mux' = mux /\ unused' = unused /\ held' = held /\ base' = base
  BY DEF MuxBlock, Pends, Goto
<1>2. /\ t \in Task \ {Idle} /\ pc[t] = "user"
      /\ \A o \in Mux : /\ ~Contains(k.wait[o], t)
                        /\ held[t][o] = IF Owns(t, o) THEN mux[o].count ELSE 0
  BY <1>1, CallerHolds
<1>3. /\ IInv' /\ ~k'.fault /\ Settles' /\ NoneReturns'
      /\ \A o \in Mux, u \in Task :
           Contains(k'.wait[o], u) <=> Contains(k.wait[o], u) \/ (u = t /\ o = m)
      /\ \A u \in Task : u # t => k'.status[u] = k.status[u]
      /\ Has(k', t, "PEND") /\ ~Has(k', t, "UNUSED")
      /\ \A u \in Task : ~Has(k', u, "PEND_QUEUE")
  BY MuxBlockKernel
<1>4. /\ k \in Kernel /\ k' \in Kernel /\ TypeOK' /\ \A u \in Task : u \in Thread
      /\ pc \in [Thread -> Control] /\ asked \in [Task -> Mux \cup {NoTask}]
      /\ Blocks /\ Owners /\ Asking /\ WaitersHaveOwner /\ OwnerKnows
  BY <1>3, MuxType DEF IInv, TypeOK, Thread
<1> HIDE DEF t
<1>5. /\ pc'[t] = "pend" /\ \A u \in Task : u # t => pc'[u] = pc[u]
      /\ asked'[t] = m /\ \A u \in Task : u # t => asked'[u] = asked[u]
      /\ asked' \in [Task -> Mux \cup {NoTask}]
  BY <1>1, <1>2, <1>4
<1>6. MuxTypeOK'
  BY <1>1, <1>4, <1>5, MuxType DEF MuxTypeOK
<1>7. Blocks'
  BY <1>1, <1>4 DEF Blocks
<1>8. Owners'
  BY <1>1, <1>3, <1>4 DEF Owners, Has
<1>9. Asking'
  <2>1. \A u \in Task : u # t => ~Has(k', u, "UNUSED") \/ Has(k, u, "UNUSED")
    BY <1>3 DEF Has
  <2> QED BY <1>2, <1>3, <1>4, <1>5, <2>1 DEF Asking, Inside
<1>10. WaitersHaveOwner'
  <2>1. SUFFICES ASSUME NEW o \in Mux, k'.wait[o] # <<>>
                 PROVE  mux[o].used /\ mux[o].count > 0 /\ ~Contains(k'.wait[o], mux[o].owner)
    BY <1>1 DEF WaitersHaveOwner
  <2>2. PICK u \in Task : Contains(k'.wait[o], u)
    BY <1>4, <2>1, WaiterExists DEF Mux
  <2>3. Contains(k.wait[o], u) => k.wait[o] # <<>>
    BY EmptyList
  <2>4. mux[o].used /\ mux[o].count > 0
    BY <1>1, <1>3, <1>4, <2>2, <2>3 DEF WaitersHaveOwner
  <2>5. mux[o].owner \in Task /\ (o = m => mux[o].owner # t)
    BY <1>1, <1>4, <2>4 DEF Owners
  <2>6. ~Contains(k.wait[o], mux[o].owner)
    BY <1>4, EmptyList DEF WaitersHaveOwner
  <2> QED BY <1>3, <2>4, <2>5, <2>6
<1>11. OwnerKnows'
  <2>1. SUFFICES ASSUME NEW u \in Task, NEW o \in Mux
                 PROVE  Told(u, o)' = IF Owns(u, o) THEN mux[o].count ELSE 0
    BY <1>1 DEF OwnerKnows, Owns
  <2>2. CASE u # t
    <3>1. k'.status[u] = k.status[u] /\ pc'[u] = pc[u] /\ asked'[u] = asked[u]
      BY <1>3, <1>5, <2>2
    <3>2. Told(u, o)' = Told(u, o)
      BY <1>1, <3>1 DEF Told
    <3> QED BY <1>4, <3>2 DEF OwnerKnows
  <2>3. CASE u = t
    <3>1. k'.status[u] \cap {"PEND", "TIMEOUT"} # {} /\ held[u][o] \in Nat
      BY <1>2, <1>3, <2>3, MuxType DEF Has
    <3>2. Told(u, o)' = held[u][o]
      BY <1>1, <3>1 DEF Told
    <3> QED BY <1>2, <2>3, <3>2
  <2> QED BY <2>2, <2>3
<1> QED BY <1>3, <1>6, <1>7, <1>8, <1>9, <1>10, <1>11 DEF MuxInv, Mutual

LEMMA MuxPendReturnsStep ==
  ASSUME MuxInv, MuxPendReturns
  PROVE  MuxInv'
<1> DEFINE t == k.run
           a == asked[t]
           late == Has(k, t, "TIMEOUT")
<1>1. /\ InTask("woken") /\ k' = [k EXCEPT !.status[k.run] = @ \ {"TIMEOUT"}]
      /\ pc' = [pc EXCEPT ![t] = "user"] /\ asked' = [asked EXCEPT ![t] = NoTask]
      /\ held' = IF late THEN held ELSE [held EXCEPT ![t][a] = @ + 1]
      /\ fresh' = fresh /\ tick' = tick /\ cut' = cut
      /\ mux' = mux /\ unused' = unused /\ base' = base
  BY DEF MuxPendReturns, InTask, Goto
<1>2. /\ IInv /\ ~k.fault /\ Settles /\ NoneReturns /\ k \in Kernel /\ pc \in [Thread -> Control]
      /\ asked \in [Task -> Mux \cup {NoTask}] /\ held \in [Task -> [Mux -> Nat]]
      /\ Blocks /\ Owners /\ Asking /\ WaitersHaveOwner /\ OwnerKnows
  BY MuxType
<1>3. /\ Ok(k') /\ Gentle(k, k') /\ k'.due = k.due /\ k'.wait = k.wait /\ t \in Task
      /\ k'.status = [k.status EXCEPT ![t] = @ \ {"TIMEOUT"}]
  BY <1>1, <1>2, ClearsTimeout
<1>4. IInv' /\ TypeOK'
  BY <1>1, <1>2, <1>3, WokenStep DEF IInv
<1>5. ~k'.fault /\ Settles'
  BY <1>1, <1>2, ReturnSettles
<1>6. NoneReturns'
  BY <1>1, <1>2, GoesElsewhere
<1>7. pc[t] = "woken" /\ pc[t] \in Inside /\ a \in Mux /\ ~Has(k, t, "UNUSED")
  BY <1>1, <1>2, <1>3 DEF InTask, Inside, Asking
<1>8. ~Waits(k, t) /\ \A o \in Mux : ~Contains(k.wait[o], t)
  <2>1. InTask(pc[k.run]) /\ Running
    BY <1>1, <1>2, Start DEF InTask
  <2>2. k.run # Idle /\ k.scheduled
    BY <1>3, <1>7, <2>1, TaskAssumption DEF Running, Thread
  <2>3. ~Waits(k, t) /\ Sound(k)
    BY <1>2, <1>7, <2>1, <2>2, CallerFacts
  <2> QED BY <1>3, <2>3 DEF Sound, Good, WaitLists, Mux
<1> HIDE DEF a, t
<1>9. /\ k'.status[t] = k.status[t] \ {"TIMEOUT"}
      /\ \A u \in Task : u # t => k'.status[u] = k.status[u]
      /\ pc'[t] = "user" /\ \A u \in Task : u # t => pc'[u] = pc[u]
      /\ \A u \in Task : u # t => asked'[u] = asked[u]
      /\ asked' \in [Task -> Mux \cup {NoTask}]
  BY <1>1, <1>2, <1>3 DEF Kernel, Thread
<1>10. /\ held' \in [Task -> [Mux -> Nat]]
       /\ held'[t][a] = held[t][a] + IF late THEN 0 ELSE 1
       /\ \A u \in Task, o \in Mux : u # t \/ o # a => held'[u][o] = held[u][o]
  <2>1. held[t][a] \in Nat
    BY <1>2, <1>3, <1>7
  <2>2. CASE late
    BY <1>1, <1>2, <2>1, <2>2
  <2>3. CASE ~late
    <3>1. held' = [held EXCEPT ![t][a] = @ + 1]
      BY <1>1, <2>3
    <3> HIDE DEF late
    <3> QED BY <1>2, <1>3, <1>7, <2>1, <2>3, <3>1
  <2> QED BY <2>2, <2>3
<1>11. MuxTypeOK'
  BY <1>1, <1>4, <1>9, <1>10, MuxType DEF MuxTypeOK
<1>12. Blocks' /\ Owners' /\ WaitersHaveOwner'
  <2>1. \A u \in Task : Has(k', u, "UNUSED") => Has(k, u, "UNUSED")
    BY <1>9 DEF Has
  <2> QED BY <1>1, <1>2, <1>3, <2>1 DEF Blocks, Owners, WaitersHaveOwner
<1>13. Asking'
  <2>1. \A u \in Task, f \in {"UNUSED", "PEND_QUEUE"} : Has(k', u, f) <=> Has(k, u, f)
    BY <1>9 DEF Has
  <2>2. \A u \in Task : pc'[u] \in Inside => u # t
    BY <1>9 DEF Inside
  <2>3. \A u \in Task : ~Has(k', u, "PEND_QUEUE")
    BY <1>2, <2>1 DEF Asking
  <2>4. \A u \in Task : pc'[u] \in Inside => asked'[u] \in Mux /\ ~Has(k', u, "UNUSED")
    BY <1>2, <1>9, <2>1, <2>2 DEF Asking
  <2>5. \A u \in Task, o \in Mux : Contains(k'.wait[o], u) => pc'[u] \in Inside /\ asked'[u] = o
    BY <1>2, <1>3, <1>8, <1>9 DEF Asking
  <2> QED BY <2>3, <2>4, <2>5 DEF Asking
<1>14. OwnerKnows'
  <2>1. SUFFICES ASSUME NEW u \in Task, NEW o \in Mux PROVE Told(u, o)' = Told(u, o)
    <3>1. \A u \in Task, o \in Mux : Owns(u, o)' <=> Owns(u, o)
      BY <1>1 DEF Owns
    <3> QED BY <1>1, <1>2, <2>1, <3>1 DEF OwnerKnows
  <2>2. CASE u # t
    <3>1. /\ k'.status[u] = k.status[u] /\ pc'[u] = pc[u] /\ asked'[u] = asked[u]
          /\ held'[u][o] = held[u][o]
      BY <1>9, <1>10, <2>2
    <3> QED BY <3>1 DEF Told
  <2>3. CASE u = t /\ o # a
    <3>1. pc'[u] = "user" /\ held'[u][o] = held[u][o] /\ asked[u] # o /\ held[u][o] \in Nat
      BY <1>2, <1>9, <1>10, <2>3 DEF a
    <3>2. Told(u, o)' = held[u][o] /\ Told(u, o) = held[u][o]
      BY <3>1 DEF Told
    <3> QED BY <3>2
  <2>4. CASE u = t /\ o = a
    <3>1. /\ pc'[u] = "user" /\ pc[u] = "woken" /\ asked[u] = o /\ held[u][o] \in Nat
          /\ held'[u][o] = held[u][o] + IF late THEN 0 ELSE 1
      BY <1>2, <1>7, <1>9, <1>10, <2>4 DEF a
    <3>2. k.status[u] \cap {"PEND", "TIMEOUT"} = {} <=> ~late
      BY <1>8, <2>4 DEF Waits, Has
    <3>3. Told(u, o)' = held'[u][o]
      <4>1. held'[u][o] \in Nat
        BY <1>10
      <4> QED BY <3>1, <4>1 DEF Told
    <3> QED BY <3>1, <3>2, <3>3 DEF Told
  <2> QED BY <2>2, <2>3, <2>4
<1> QED BY <1>4, <1>5, <1>6, <1>11, <1>12, <1>13, <1>14 DEF MuxInv, Mutual

(***************************************************************************)
(* LOS_MuxPost.                                                            *)
(***************************************************************************)
LEMMA MuxFreeStep ==
  ASSUME MuxInv, NEW m \in Mux, MuxFree(m)
  PROVE  MuxInv'
<1> DEFINE t == k.run
           x == Lowered(k, m)
<1>1. /\ UserCode /\ k.scheduled /\ "muxpost" \in Api /\ mux[m].used /\ Owns(t, m)
      /\ mux[m].count = 1 /\ k.wait[m] = <<>> /\ k' = x /\ pc' = pc
      /\ mux' = [mux EXCEPT ![m].count = 0] /\ held' = [held EXCEPT ![t][m] = @ - 1]
      /\ fresh' = fresh /\ tick' = tick /\ cut' = cut
      /\ unused' = unused /\ asked' = asked /\ base' = base
  BY DEF MuxFree, Posts
<1>2. /\ IInv /\ ~k.fault /\ Settles /\ NoneReturns /\ k \in Kernel /\ pc \in [Thread -> Control]
      /\ mux \in [Mux -> [used : BOOLEAN, count : 0 .. MaxNest, owner : Task \cup {NoTask},
                          prio : Prio]]
      /\ held \in [Task -> [Mux -> Nat]]
      /\ Blocks /\ Owners /\ Asking /\ WaitersHaveOwner /\ OwnerKnows
  BY MuxType
<1>3. t \in Task /\ pc[t] = "user" /\ held[t][m] = 1
  BY <1>1, CallerHolds
<1>4. Reprioritised(x)
  BY <1>1, LoweredOk
<1>5. Call("muxpost", x, FALSE)
  BY <1>1 DEF Call
<1> HIDE DEF x
<1>6. /\ Ok(x) /\ ~x.fault /\ Gentle(k, x) /\ SameRest(k, x)
      /\ x.status = k.status /\ x.wait = k.wait /\ x.due = k.due
  BY <1>4 DEF Reprioritised
<1>7. IInv' /\ TypeOK'
  BY <1>2, <1>5, <1>6, CallStep DEF IInv
<1>8. ~k'.fault /\ Settles'
  <2>1. \A u, f : Has(x, u, f) <=> Has(k, u, f)
    BY <1>6 DEF Has
  <2> QED BY <1>1, <1>2, <1>5, <1>6, <2>1, CallSettles DEF SameRest, Lax
<1>9. NoneReturns'
  BY <1>1, <1>2, GoesElsewhere
<1>10. k'.status = k.status /\ k'.wait = k.wait
  BY <1>1, <1>6
<1> HIDE DEF t
<1>11. /\ held' \in [Task -> [Mux -> Nat]] /\ held'[t][m] = 0
       /\ \A u \in Task, o \in Mux : u # t \/ o # m => held'[u][o] = held[u][o]
  BY <1>1, <1>2, <1>3
<1>12. /\ mux' \in [Mux -> [used : BOOLEAN, count : 0 .. MaxNest, owner : Task \cup {NoTask},
                            prio : Prio]]
       /\ mux'[m].count = 0 /\ mux'[m].used
       /\ \A o \in Mux : o # m => mux'[o] = mux[o]
  <2> DEFINE r == [mux[m] EXCEPT !.count = 0]
  <2>1. mux' = [mux EXCEPT ![m] = r]
    BY <1>1
  <2>2. /\ r \in [used : BOOLEAN, count : 0 .. MaxNest, owner : Task \cup {NoTask}, prio : Prio]
        /\ r.count = 0 /\ r.used
    <3>1. r = [used |-> mux[m].used, count |-> 0, owner |-> mux[m].owner, prio |-> mux[m].prio]
      BY <1>2, CountChanges
    <3>2. mux[m].used = TRUE /\ mux[m].owner \in Task \cup {NoTask} /\ mux[m].prio \in Prio
      BY <1>1, <1>2
    <3>3. 0 \in 0 .. MaxNest
      BY MuxAssumption
    <3> HIDE DEF r
    <3> QED BY <3>1, <3>2, <3>3
  <2> HIDE DEF r
  <2> QED BY <1>2, <2>1, <2>2
<1>13. MuxTypeOK'
  BY <1>1, <1>7, <1>11, <1>12, MuxType DEF MuxTypeOK
<1>14. Blocks' /\ Owners' /\ WaitersHaveOwner'
  BY <1>1, <1>2, <1>10, <1>12 DEF Blocks, Owners, WaitersHaveOwner, Has
<1>15. Asking'
  BY <1>1, <1>2, <1>10 DEF Asking, Has
<1>16. OwnerKnows'
  <2>1. SUFFICES ASSUME NEW u \in Task, NEW o \in Mux
                 PROVE  Told(u, o)' = IF Owns(u, o)' THEN mux'[o].count ELSE 0
    BY DEF OwnerKnows
  <2>2. Told(u, o) = IF Owns(u, o) THEN mux[o].count ELSE 0
    BY <1>2 DEF OwnerKnows
  <2>3. CASE o # m
    <3>1. mux'[o] = mux[o] /\ held'[u][o] = held[u][o]
      BY <1>11, <1>12, <2>3
    <3>2. Told(u, o)' = Told(u, o)
      BY <1>1, <1>10, <3>1 DEF Told
    <3> QED BY <2>2, <3>1, <3>2 DEF Owns
  <2>4. CASE o = m /\ u # t
    <3>1. Told(u, o)' = Told(u, o)
      BY <1>1, <1>10, <1>11, <2>4 DEF Told
    <3>2. ~Owns(u, o) /\ ~Owns(u, o)'
      BY <1>1, <1>12, <2>4 DEF Owns
    <3> QED BY <2>2, <3>1, <3>2
  <2>5. CASE o = m /\ u = t
    <3>1. pc'[u] = "user" /\ held'[u][o] = 0 /\ ~Owns(u, o)'
      BY <1>1, <1>3, <1>11, <1>12, <2>5 DEF Owns
    <3> QED BY <3>1 DEF Told
  <2> QED BY <2>3, <2>4, <2>5
<1> QED BY <1>7, <1>8, <1>9, <1>13, <1>14, <1>15, <1>16 DEF MuxInv, Mutual

(* The kernel hands the mutex to a waiter: what LOS_MuxPost does to the kernel. *)
LEMMA MuxHandKernel ==
  ASSUME MuxInv, NEW m \in Mux, MuxHand(m)
  PROVE  LET u == Head(k.wait[m])
         IN /\ IInv' /\ ~k'.fault /\ Settles' /\ NoneReturns'
            /\ u \in Task \ {Idle, k.run} /\ Contains(k.wait[m], u)
            /\ k'.status[u] = AwakeFlags(k.status[u], "PEND")
            /\ \A v \in Task : v # u => k'.status[v] = k.status[v]
            /\ \A o \in Mux, v \in Task :
                 Contains(k'.wait[o], v) <=> Contains(k.wait[o], v) /\ v # u
<1> DEFINE t == k.run
           u == Head(k.wait[m])
           y == Lowered(k, m)
           x == Awake(y, m, u, "PEND")
<1>1. /\ UserCode /\ k.scheduled /\ "muxpost" \in Api /\ k.wait[m] # <<>> /\ m \in WaitObj
      /\ k' = WakeFirst(y, m) /\ pc' = [pc EXCEPT ![t] = "sched"] /\ Goto(t, "sched")
      /\ fresh' = fresh /\ tick' = tick /\ cut' = cut
  BY DEF MuxHand, Posts, Goto, Mux
<1>2. /\ IInv /\ ~k.fault /\ Settles /\ NoneReturns /\ k \in Kernel /\ pc \in [Thread -> Control]
      /\ Asking /\ Sound(k)
  BY MuxType, Start
<1>3. Reprioritised(y)
  BY <1>1, LoweredOk
<1> HIDE DEF y
<1>4. /\ Ok(y) /\ ~y.fault /\ Gentle(k, y) /\ SameRest(k, y)
      /\ y.status = k.status /\ y.wait = k.wait /\ y.due = k.due
  BY <1>3 DEF Reprioritised
<1>5. k' = x /\ Call("muxpost", x, TRUE)
  BY <1>1, <1>4 DEF Call, WakeFirst
<1>6. u \in Task /\ Contains(k.wait[m], u) /\ u # t
  <2>1. k.wait[m] \in Seq(Task)
    BY <1>1, <1>2, KernelType
  <2>2. u \in Task /\ Contains(k.wait[m], u)
    BY <1>1, <2>1, TailList
  <2> QED BY <1>1, <2>2, CallerHolds
<1> HIDE DEF u
<1>7. Has(k, u, "PEND")
  <2>1. Waits(k, u)
    BY <1>1, <1>2, <1>6 DEF Sound, Good, WaitLists
  <2> QED BY <1>2, <1>6, <2>1 DEF Waits, Asking
<1>8. /\ Ok(y) /\ ~y.fault /\ m \in WaitObj /\ u \in Task
      /\ Has(y, u, "PEND") /\ Contains(y.wait[m], u)
  BY <1>1, <1>4, <1>6, <1>7 DEF Has
<1>9. "PEND" \in {"PEND", "PEND_QUEUE"}
  OBVIOUS
<1>10. /\ Ok(x) /\ Gentle(y, x) /\ u # Idle /\ ~x.fault /\ SameRest(y, x)
       /\ y.due[0] = <<>> => x.due[0] = <<>>
       /\ x.status[u] = AwakeFlags(y.status[u], "PEND")
       /\ \A v \in Task : v # u => x.status[v] = y.status[v]
       /\ \A p \in WaitObj, v \in Task : Contains(x.wait[p], v) <=> Contains(y.wait[p], v) /\ v # u
  BY <1>8, AwakeFacts
<1> HIDE DEF x
<1>11. IInv'
  <2>1. Gentle(k, x) /\ (k.due[0] = <<>> => x.due[0] = <<>>)
    BY <1>4, <1>10, GentleTransitive
  <2> QED BY <1>1, <1>2, <1>5, <1>10, <2>1, CallStep
<1>12. ~k'.fault /\ Settles'
  <2>1. SameRest(k, y) /\ (Has(k, k.run, "READY") => Has(y, k.run, "READY"))
    BY <1>4 DEF Has
  <2>2. IInv /\ Settles /\ k.scheduled /\ Call("muxpost", x, TRUE)
    BY <1>1, <1>2, <1>5
  <2> QED BY <1>8, <1>9, <1>10, <2>1, <2>2, AwakeSettles
<1>13. NoneReturns'
  BY <1>1, <1>2, GoesElsewhere
<1>14. /\ k'.status[u] = AwakeFlags(k.status[u], "PEND")
       /\ \A v \in Task : v # u => k'.status[v] = k.status[v]
       /\ \A o \in Mux, v \in Task : Contains(k'.wait[o], v) <=> Contains(k.wait[o], v) /\ v # u
  BY <1>4, <1>5, <1>10 DEF Mux
<1> QED BY <1>6, <1>10, <1>11, <1>12, <1>13, <1>14 DEF u

LEMMA MuxHandStep ==
  ASSUME MuxInv, NEW m \in Mux, MuxHand(m)
  PROVE  MuxInv'
<1> DEFINE t == k.run
           u == Head(k.wait[m])
           q == k.prio[u]
           r == [used |-> mux[m].used, count |-> 1, owner |-> u, prio |-> q]
<1>1. /\ UserCode /\ k.scheduled /\ mux[m].used /\ Owns(t, m) /\ mux[m].count = 1
      /\ pc' = [pc EXCEPT ![t] = "sched"]
      /\ mux' = [mux EXCEPT ![m].count = 1, ![m].owner = u, ![m].prio = q]
      /\ held' = [held EXCEPT ![t][m] = @ - 1]
      /\ unused' = unused /\ asked' = asked /\ base' = base
  BY DEF MuxHand, Posts, Goto
<1>2. /\ IInv /\ k \in Kernel /\ pc \in [Thread -> Control] /\ \A v \in Task : v \in Thread
      /\ mux \in [Mux -> [used : BOOLEAN, count : 0 .. MaxNest, owner : Task \cup {NoTask},
                          prio : Prio]]
      /\ held \in [Task -> [Mux -> Nat]]
      /\ Blocks /\ Owners /\ Asking /\ WaitersHaveOwner /\ OwnerKnows
  BY MuxType DEF Thread
<1>3. t \in Task /\ pc[t] = "user" /\ held[t][m] = 1
  BY <1>1, CallerHolds
<1>4. /\ IInv' /\ ~k'.fault /\ Settles' /\ NoneReturns'
      /\ u \in Task \ {Idle, t} /\ Contains(k.wait[m], u)
      /\ k'.status[u] = AwakeFlags(k.status[u], "PEND")
      /\ \A v \in Task : v # u => k'.status[v] = k.status[v]
      /\ \A o \in Mux, v \in Task :
           Contains(k'.wait[o], v) <=> Contains(k.wait[o], v) /\ v # u
  BY MuxHandKernel
<1>5. TypeOK' /\ k' \in Kernel
  BY <1>4 DEF IInv, TypeOK
<1> HIDE DEF u, q
<1>6. q \in Prio
  BY <1>2, <1>4, KernelType DEF q
<1>7. /\ mux' \in [Mux -> [used : BOOLEAN, count : 0 .. MaxNest, owner : Task \cup {NoTask},
                            prio : Prio]]
      /\ mux'[m].count = 1 /\ mux'[m].used /\ mux'[m].owner = u
      /\ \A o \in Mux : o # m => mux'[o] = mux[o]
  <2>1. mux' = [mux EXCEPT ![m] = r]
    <3> DEFINE M == [used : BOOLEAN, count : 0 .. MaxNest, owner : Task \cup {NoTask}, prio : Prio]
    <3>1. /\ mux' = [mux EXCEPT ![m] = [[[mux[m] EXCEPT !.count = 1] EXCEPT !.owner = u]
                                       EXCEPT !.prio = q]]
          /\ mux[m] \in M
      BY <1>1, <1>2
    <3>2. [[[mux[m] EXCEPT !.count = 1] EXCEPT !.owner = u] EXCEPT !.prio = q]
            = [used |-> mux[m].used, count |-> 1, owner |-> u, prio |-> q]
      BY <3>1, OwnerChanges
    <3> QED BY <3>1, <3>2
  <2>2. /\ r \in [used : BOOLEAN, count : 0 .. MaxNest, owner : Task \cup {NoTask}, prio : Prio]
        /\ r.count = 1 /\ r.used /\ r.owner = u
    <3>1. mux[m].used = TRUE /\ u \in Task \cup {NoTask} /\ q \in Prio
      BY <1>1, <1>2, <1>4, <1>6
    <3>2. 1 \in 0 .. MaxNest
      BY MuxAssumption
    <3> QED BY <3>1, <3>2
  <2> HIDE DEF r
  <2> QED BY <1>2, <2>1, <2>2
<1> HIDE DEF r, t
<1>8. /\ held' \in [Task -> [Mux -> Nat]] /\ held'[t][m] = 0
      /\ \A v \in Task, o \in Mux : v # t \/ o # m => held'[v][o] = held[v][o]
  BY <1>1, <1>2, <1>3
<1>9. /\ pc[u] \in Inside /\ asked[u] = m /\ ~Has(k, u, "UNUSED")
      /\ pc'[t] = "sched" /\ \A v \in Task : v # t => pc'[v] = pc[v]
  BY <1>1, <1>2, <1>3, <1>4 DEF Asking
<1>10. /\ ~Has(k', u, "PEND") /\ ~Has(k', u, "TIMEOUT")
       /\ \A v \in Task, f \in {"UNUSED", "PEND_QUEUE"} : Has(k', v, f) => Has(k, v, f)
  BY <1>4 DEF Has, AwakeFlags
<1>11. MuxTypeOK'
  BY <1>1, <1>5, <1>7, <1>8, MuxType DEF MuxTypeOK
<1>12. Blocks'
  BY <1>1, <1>2, <1>7 DEF Blocks
<1>13. Owners'
  BY <1>2, <1>4, <1>7, <1>9, <1>10 DEF Owners
<1>14. Asking'
  <2>1. \A v \in Task : ~Has(k', v, "PEND_QUEUE")
    BY <1>2, <1>10 DEF Asking
  <2>2. \A v \in Task : pc'[v] \in Inside => v # t
    BY <1>9 DEF Inside
  <2>3. \A v \in Task : pc'[v] \in Inside => asked'[v] \in Mux /\ ~Has(k', v, "UNUSED")
    BY <1>1, <1>2, <1>9, <1>10, <2>2 DEF Asking
  <2>4. \A v \in Task, o \in Mux : Contains(k'.wait[o], v) => pc'[v] \in Inside /\ asked'[v] = o
    <3>1. pc[t] \notin Inside
      BY <1>3 DEF Inside
    <3> QED BY <1>1, <1>2, <1>4, <1>9, <3>1 DEF Asking
  <2> QED BY <2>1, <2>3, <2>4 DEF Asking
<1>15. WaitersHaveOwner'
  <2>1. SUFFICES ASSUME NEW o \in Mux, k'.wait[o] # <<>>
                 PROVE  mux'[o].used /\ mux'[o].count > 0 /\ ~Contains(k'.wait[o], mux'[o].owner)
    BY DEF WaitersHaveOwner
  <2>2. CASE o = m
    BY <1>4, <1>7, <2>2
  <2>3. CASE o # m
    <3>1. PICK v \in Task : Contains(k'.wait[o], v)
      BY <1>5, <2>1, WaiterExists DEF Mux
    <3>2. Contains(k.wait[o], v)
      BY <1>4, <3>1
    <3>3. k.wait[o] # <<>>
      BY <3>2, EmptyList
    <3>4. mux[o].used /\ mux[o].count > 0 /\ ~Contains(k.wait[o], mux[o].owner)
      BY <1>2, <3>3 DEF WaitersHaveOwner
    <3>5. mux[o].owner \in Task
      BY <1>2, <3>4 DEF Owners
    <3> QED BY <1>4, <1>7, <2>3, <3>4, <3>5
  <2> QED BY <2>2, <2>3
<1>16. OwnerKnows'
  <2>1. SUFFICES ASSUME NEW v \in Task, NEW o \in Mux
                 PROVE  Told(v, o)' = IF Owns(v, o)' THEN mux'[o].count ELSE 0
    BY DEF OwnerKnows
  <2>2. Told(v, o) = IF Owns(v, o) THEN mux[o].count ELSE 0
    BY <1>2 DEF OwnerKnows
  <2>3. held[v][o] \in Nat /\ held'[v][o] \in Nat
    BY <1>2, <1>8
  <2>4. CASE v = t
    <3>1. Told(v, o)' = held'[v][o] /\ Told(v, o) = held[v][o]
      BY <1>3, <1>9, <2>3, <2>4 DEF Told
    <3>2. CASE o # m
      BY <1>7, <1>8, <2>2, <3>1, <3>2 DEF Owns
    <3>3. CASE o = m
      <4>1. ~Owns(v, o)' /\ held'[v][o] = 0
        BY <1>4, <1>7, <1>8, <2>4, <3>3 DEF Owns
      <4> QED BY <3>1, <4>1
    <3> QED BY <3>2, <3>3
  <2>5. CASE v = u
    <3>1. pc'[v] = pc[v] /\ asked'[v] = m /\ held'[v][o] = held[v][o] /\ v # t
      BY <1>1, <1>4, <1>8, <1>9, <2>5
    <3>2. CASE o # m
      <4>1. Told(v, o)' = held[v][o] /\ Told(v, o) = held[v][o]
        BY <1>1, <2>3, <3>1, <3>2 DEF Told
      <4>2. mux'[o] = mux[o]
        BY <1>7, <3>2
      <4> QED BY <2>2, <4>1, <4>2 DEF Owns
    <3>3. CASE o = m
      <4>1. ~Owns(v, o) /\ Owns(v, o)' /\ mux'[o].count = 1
        BY <1>1, <1>7, <2>5, <3>1, <3>3 DEF Owns
      <4>2. held[v][o] = 0
        BY <2>2, <2>3, <4>1 DEF Told
      <4>3. k'.status[v] \cap {"PEND", "TIMEOUT"} = {} /\ pc'[v] \in {"pend", "woken"}
        BY <1>9, <1>10, <2>5, <3>1 DEF Has, Inside
      <4>4. Told(v, o)' = 1
        BY <3>1, <3>3, <4>2, <4>3 DEF Told
      <4> QED BY <4>1, <4>4
    <3> QED BY <3>2, <3>3
  <2>6. CASE v # t /\ v # u
    <3>1. /\ k'.status[v] = k.status[v] /\ pc'[v] = pc[v] /\ asked'[v] = asked[v]
          /\ held'[v][o] = held[v][o]
      BY <1>1, <1>4, <1>8, <1>9, <2>6
    <3>2. Told(v, o)' = Told(v, o)
      BY <3>1 DEF Told
    <3>3. Owns(v, o)' <=> Owns(v, o)
      BY <1>1, <1>7, <2>6 DEF Owns
    <3>4. Owns(v, o) => mux'[o] = mux[o]
      BY <1>1, <1>7, <2>6 DEF Owns
    <3> QED BY <2>2, <3>2, <3>3, <3>4
  <2> QED BY <2>4, <2>5, <2>6
<1> QED BY <1>4, <1>11, <1>12, <1>13, <1>14, <1>15, <1>16 DEF MuxInv, Mutual

(***************************************************************************)
(* Every step.                                                             *)
(***************************************************************************)
LEMMA MuxSchedulesStep ==
  ASSUME MuxInv, WaitSchedules, UNCHANGED muxVars
  PROVE  MuxInv'
<1> DEFINE t == k.run
<1>1. /\ InTask("pend") /\ InTask(pc[t]) /\ pc[t] = "pend" /\ k' = LOS_Schedule(k)
      /\ pc' = [pc EXCEPT ![t] = "woken"]
      /\ mux' = mux /\ unused' = unused /\ asked' = asked /\ held' = held /\ base' = base
  BY DEF WaitSchedules, InTask, Goto, muxVars
<1>2. /\ IInv /\ ~k.fault /\ Settles /\ NoneReturns /\ k \in Kernel /\ pc \in [Thread -> Control]
      /\ Blocks /\ Owners /\ Asking /\ WaitersHaveOwner /\ OwnerKnows
  BY MuxType
<1>3. IInv' /\ TypeOK'
  BY <1>2, WaitSchedulesStep DEF IInv
<1>4. ~k'.fault /\ Settles'
  BY <1>1, <1>2, ReschedulesSettles
<1>5. NoneReturns'
  BY <1>1, <1>2, GoesElsewhere
<1>6. k'.status = k.status /\ k'.wait = k.wait
  BY <1>1, <1>2 DEF LOS_Schedule, Kernel
<1>7. \A u \in Task : /\ pc'[u] \in Inside <=> pc[u] \in Inside
                      /\ pc'[u] \in {"pend", "woken"} <=> pc[u] \in {"pend", "woken"}
  BY <1>1, <1>2 DEF Inside, Thread
<1>8. MuxTypeOK'
  BY <1>1, <1>3, MuxType DEF MuxTypeOK
<1>9. Blocks' /\ Owners' /\ WaitersHaveOwner'
  BY <1>1, <1>2, <1>6 DEF Blocks, Owners, WaitersHaveOwner, Has
<1>10. Asking'
  BY <1>1, <1>2, <1>6, <1>7 DEF Asking, Has
<1>11. OwnerKnows'
  <2>1. \A u \in Task, o \in Mux : Told(u, o)' = Told(u, o) /\ (Owns(u, o)' <=> Owns(u, o))
    BY <1>1, <1>6, <1>7 DEF Told, Owns
  <2> QED BY <1>1, <1>2, <2>1 DEF OwnerKnows
<1> QED BY <1>3, <1>4, <1>5, <1>8, <1>9, <1>10, <1>11 DEF MuxInv, Mutual

LEMMA MuxTaskStep ==
  ASSUME Steady, MuxInv, TaskStep
  PROVE  MuxInv'
<1>1. /\ [Next]_vars /\ UNCHANGED <<mux, unused, asked, held>>
      /\ base' = [t \in Task |-> IF pc[t] = "none" THEN k'.prio[t] ELSE base[t]]
  BY DEF TaskStep
<1>2. IInv /\ ~k.fault /\ Settles /\ NoneReturns /\ ~TIMESLICE
  BY MuxType DEF Steady, Tame
<1>3. IInv' /\ TypeOK' /\ k' \in Kernel
  BY <1>1, <1>2, NextInv DEF IInv, TypeOK
<1>4. ~k'.fault /\ Settles' /\ NoneReturns'
  BY <1>1, <1>2, NextSettles DEF Steady
<1>5. MuxTypeOK'
  <2>1. base' \in [Task -> Prio]
    BY <1>1, <1>3, MuxType, KernelType
  <2> QED BY <1>1, <1>3, <2>1, MuxType DEF MuxTypeOK
<1>6. Mutual'
  BY <1>1, <1>3, <1>4, TaskMutual
<1> QED BY <1>3, <1>4, <1>5, <1>6 DEF MuxInv

LEMMA MuxNextInv ==
  ASSUME Steady
  PROVE  MuxInv /\ [MuxNext]_allVars => MuxInv'
<1> SUFFICES ASSUME MuxInv, [MuxNext]_allVars PROVE MuxInv'
  OBVIOUS
<1>1. CASE MuxStep
  <2>1. ~TIMESLICE
    BY DEF Steady, Tame
  <2> QED BY <1>1, <2>1, MuxCreateStep, MuxDeleteStep, MuxTakeStep, MuxNestStep, MuxUnnestStep,
             MuxFreeStep, MuxHandStep, MuxBlockStep, MuxPendReturnsStep, MuxSchedulesStep
          DEF MuxStep
<1>2. CASE TaskStep
  BY <1>2, MuxTaskStep
<1>3. CASE UNCHANGED allVars
  <2>1. /\ k' = k /\ pc' = pc /\ tick' = tick /\ fresh' = fresh /\ cut' = cut
        /\ mux' = mux /\ unused' = unused /\ asked' = asked /\ held' = held /\ base' = base
    BY <1>3 DEF allVars, vars, muxVars
  <2>2. IInv' /\ TypeOK'
    BY <2>1, MuxType, NextInv DEF IInv, vars
  <2>3. Mutual'
    BY <2>1, MuxType DEF Mutual, Blocks, Owners, Asking, WaitersHaveOwner, OwnerKnows, Told, Owns
  <2>4. MuxTypeOK'
    BY <2>1, <2>2, MuxType DEF MuxTypeOK
  <2>5. ~k'.fault /\ Settles' /\ NoneReturns'
    BY <2>1, MuxType DEF Settles, Moving, Late, NoneReturns
  <2> QED BY <2>2, <2>3, <2>4, <2>5 DEF MuxInv
<1> QED BY <1>1, <1>2, <1>3 DEF MuxNext

LEMMA MuxInvariance ==
  ASSUME Steady
  PROVE  MuxSpec => []MuxInv
<1>1. MuxInv /\ [MuxNext]_allVars => MuxInv'
  BY MuxNextInv
<1>2. MuxInit => MuxInv
  BY MuxInitInv DEF Steady, Tame
<1> QED BY <1>1, <1>2, PTL DEF MuxSpec

(***************************************************************************)
(* The theorems.                                                           *)
(***************************************************************************)

(* Every variable keeps its type: a nesting count stays within its bound, an owner
   is a task, and no task is told it holds a mutex less than zero times.   *)
THEOREM MuxTypeCorrect == ASSUME Steady PROVE MuxSpec => []MuxTypeOK
<1>1. MuxInv => MuxTypeOK
  BY DEF MuxInv
<1> QED BY <1>1, MuxInvariance, PTL

(* No list operation of a mutex call or of the kernel below it meets a node that is
   in no list or in two, also when osTaskPriModify moves a task that is ready,
   waits or is suspended, as long as no handler calls the task component inside a
   round of osTaskScan (~Nesting, in Steady); and PendSV finds a ready task. *)
THEOREM MuxNeverFaults ==
  ASSUME Steady
  PROVE  MuxSpec => [](NoFault /\ SwitchTargetReady)
<1>1. MuxInv => NoFault /\ SwitchTargetReady
  BY DEF MuxInv, NoFault, Settles, Settled, SwitchTargetReady
<1> QED BY <1>1, MuxInvariance, PTL

(* Mutual exclusion, as the tasks see it: the owner in the control block is the one
   task whose LOS_MuxPend has returned LOS_OK or will, as often as the count says,
   however a hand-over by LOS_MuxPost, the timeout of a waiter and a suspension
   interleave.                                                             *)
THEOREM MuxOwnerKnows == ASSUME Steady PROVE MuxSpec => []OwnerKnows
<1>1. MuxInv => OwnerKnows
  BY DEF MuxInv, Mutual
<1> QED BY <1>1, MuxInvariance, PTL

(* Whoever waits for a mutex waits for another task that lives and will post it: no
   waiter is left behind by LOS_MuxPost, LOS_MuxDelete or a timeout.       *)
THEOREM MuxWaitersHaveOwner ==
  ASSUME Steady
  PROVE  MuxSpec => [](WaitersHaveOwner /\ Owners)
<1>1. MuxInv => WaitersHaveOwner /\ Owners
  BY DEF MuxInv, Mutual
<1> QED BY <1>1, MuxInvariance, PTL

(***************************************************************************)
(* Priorities that nobody sets.                                            *)
(***************************************************************************)

(* No call of the application changes a priority. *)
PrioritiesGiven == Steady /\ "priset" \notin Api \cup IsrApi

(* What a section does to every task's priority: nothing. *)
LEMMA PrioKept ==
  ASSUME NEW x \in Kernel, NEW t \in Task
  PROVE  /\ Suspended(x, t).prio = x.prio /\ Resumed(x, t).prio = x.prio
         /\ Started(x, t).prio = x.prio
         /\ LOS_Schedule(x).prio = x.prio
         /\ \A n \in 1 .. MaxTimeout : x.run \in Task => Delayed(x, n).prio = x.prio
         /\ x.run \in Task => Rotate(x).prio = x.prio
<1>1. LOS_Schedule(x).prio = x.prio
  BY DEF LOS_Schedule, Kernel
<1>2. Suspended(x, t).prio = x.prio
  <2> DEFINE u == MakeUnready(x, t)
  <2>1. u \in Kernel /\ u.prio = x.prio
    BY MakeUnreadyFacts
  <2> HIDE DEF u
  <2>2. Suspended(x, t).prio = IF Has(x, t, "READY") THEN u.prio ELSE x.prio
    <3>1. Suspended(x, t) = IF Has(x, t, "READY") THEN [u EXCEPT !.status[t] = @ \cup {"SUSPEND"}]
                            ELSE [x EXCEPT !.status[t] = @ \cup {"SUSPEND"}]
      BY DEF Suspended, u
    <3> QED BY <2>1, <3>1 DEF Kernel
  <2> QED BY <2>1, <2>2
<1>3. /\ Unsuspended(x, t) \in Kernel /\ Unsuspended(x, t).prio = x.prio
      /\ Unsuspended(x, t).scheduled = x.scheduled
  BY DEF Unsuspended, Kernel
<1> DEFINE y == Unsuspended(x, t)
           z == MakeReady(y, t)
<1>4. z \in Kernel /\ z.prio = x.prio
  BY <1>3, MakeReadyFacts
<1> HIDE DEF y, z
<1>5. Resumed(x, t).prio = x.prio
  <2>1. Resumed(x, t) \in {y, z, [z EXCEPT !.new = LOS_PriqueueTop(z)]}
    BY DEF Resumed, y, z
  <2>2. [z EXCEPT !.new = LOS_PriqueueTop(z)].prio = z.prio
    BY <1>4 DEF Kernel
  <2> QED BY <1>3, <1>4, <2>1, <2>2 DEF y
<1>6. Started(x, t).prio = x.prio
  <2> DEFINE w == [z EXCEPT !.new = LOS_PriqueueTop(z)]
  <2>1. w.prio = z.prio /\ osSchedule(w).prio = z.prio
    BY <1>4 DEF Kernel, osSchedule
  <2>2. Started(x, t) \in {w, osSchedule(w)}
    BY DEF Started, y, z
  <2> HIDE DEF w
  <2> QED BY <1>4, <2>1, <2>2
<1>7. ASSUME NEW n \in 1 .. MaxTimeout, x.run \in Task PROVE Delayed(x, n).prio = x.prio
  <2> DEFINE u == MakeUnready(x, x.run)
             v == osTaskAdd2TimerList(u, x.run, n)
  <2>1. u \in Kernel /\ u.prio = x.prio
    BY <1>7, MakeUnreadyFacts
  <2> HIDE DEF u
  <2>2. v = [u EXCEPT !.due[n] = Append(@, x.run)]
    BY DEF osTaskAdd2TimerList
  <2>3. [v EXCEPT !.status[x.run] = @ \cup {"DELAY"}].prio = u.prio
    BY <2>1, <2>2 DEF Kernel
  <2>4. Delayed(x, n) = [v EXCEPT !.status[x.run] = @ \cup {"DELAY"}]
    BY DEF Delayed, u
  <2> QED BY <2>1, <2>3, <2>4
<1>8. ASSUME x.run \in Task PROVE Rotate(x).prio = x.prio
  <2> DEFINE u == Unlink(x, x.run)
  <2>1. u \in Kernel /\ u.prio = x.prio
    BY <1>8, UnlinkFacts
  <2> HIDE DEF u
  <2>2. MakeReady(u, x.run).prio = u.prio
    BY <1>8, <2>1, MakeReadyFacts
  <2>3. Rotate(x) = MakeReady(u, x.run)
    BY DEF Rotate, u
  <2> QED BY <2>1, <2>2, <2>3
<1> QED BY <1>1, <1>2, <1>5, <1>6, <1>7, <1>8

LEMMA ExpiredPrio ==
  ASSUME NEW x \in Kernel, NEW t \in Task
  PROVE  Expired(x, t).prio = x.prio
<1> DEFINE y == IF x.status[t] \cap {"PEND", "PEND_QUEUE"} # {} THEN Unlink(x, t) ELSE x
           g == IF Has(x, t, "PEND") THEN {"PEND"}
                ELSE IF Has(x, t, "PEND_QUEUE") THEN {"PEND_QUEUE"} ELSE {"DELAY"}
           z == [y EXCEPT !.status[t] = @ \ g]
<1>1. y \in Kernel /\ y.prio = x.prio
  BY UnlinkFacts
<1>2. Expired(x, t) = IF Has(x, t, "SUSPEND") THEN z ELSE MakeReady(z, t)
  BY DEF Expired, OutOfList, FlagCleared, Has
<1> HIDE DEF y, g
<1>3. z \in Kernel /\ z.prio = y.prio
  BY <1>1 DEF Kernel
<1> HIDE DEF z
<1>4. MakeReady(z, t).prio = z.prio
  BY <1>3, MakeReadyFacts
<1> QED BY <1>1, <1>2, <1>3, <1>4

LEMMA AwakePrio ==
  ASSUME NEW x \in Kernel, NEW o \in WaitObj, NEW t \in Task
  PROVE  Awake(x, o, t, "PEND").prio = x.prio
<1> DEFINE y == [x EXCEPT !.wait[o] = RemoveFirst(@, t)]
           z == IF Has(x, t, "TIMEOUT") THEN osTimerListDelete(y, t) ELSE y
           w == [z EXCEPT !.status[t] = @ \ {"PEND", "TIMEOUT"}]
<1>1. y \in Kernel /\ y.prio = x.prio
  BY RemoveFirstType, KernelType DEF Kernel
<1> HIDE DEF y
<1>2. osTimerListDelete(y, t) \in Kernel /\ osTimerListDelete(y, t).prio = y.prio
  <2>1. \A n \in 0 .. MaxTimeout : RemoveFirst(y.due[n], t) \in Seq(Task)
    BY <1>1, KernelType, RemoveFirstType
  <2> QED BY <1>1, <2>1 DEF osTimerListDelete, Kernel
<1>3. z \in Kernel /\ z.prio = y.prio
  BY <1>1, <1>2
<1> HIDE DEF z
<1>4. w \in Kernel /\ w.prio = z.prio
  BY <1>3 DEF Kernel
<1>5. Awake(x, o, t, "PEND") = IF Has(x, t, "SUSPEND") THEN w ELSE MakeReady(w, t)
  BY DEF Awake, y, z
<1> HIDE DEF w
<1>6. MakeReady(w, t).prio = w.prio
  BY <1>4, MakeReadyFacts
<1> QED BY <1>1, <1>3, <1>4, <1>5, <1>6

LEMMA PriModifyPrio ==
  ASSUME NEW x \in Kernel, NEW t \in Task, NEW p \in Prio
  PROVE  osTaskPriModify(x, t, p).prio = [x.prio EXCEPT ![t] = p]
<1> DEFINE z == MakeUnready(x, t)
           w == WithPrio(z, t, p)
<1>1. z \in Kernel /\ z.prio = x.prio
  BY MakeUnreadyFacts
<1> HIDE DEF z
<1>2. w \in Kernel /\ w.prio = [z.prio EXCEPT ![t] = p]
  BY <1>1 DEF WithPrio, Kernel
<1> HIDE DEF w
<1>3. MakeReady(w, t).prio = w.prio
  BY <1>2, MakeReadyFacts
<1>4. WithPrio(x, t, p).prio = [x.prio EXCEPT ![t] = p]
  BY DEF WithPrio, Kernel
<1>5. osTaskPriModify(x, t, p) = IF Has(x, t, "READY") THEN MakeReady(w, t) ELSE WithPrio(x, t, p)
  BY DEF osTaskPriModify, z, w
<1> QED BY <1>1, <1>2, <1>3, <1>4, <1>5

(***************************************************************************)
(* A step of the task component: who lives keeps its priority, and a task  *)
(* is born in LOS_TaskCreate.                                              *)
(***************************************************************************)
LivesOn(t) ==
  /\ Has(k', t, "UNUSED") <=> Has(k, t, "UNUSED")
  /\ k'.prio[t] = k.prio[t]
  /\ pc'[t] = "none" <=> pc[t] = "none"
IsBorn(t) == Has(k, t, "UNUSED") /\ ~Has(k', t, "UNUSED") /\ pc'[t] # "none"
Lives == \A t \in Task : LivesOn(t) \/ IsBorn(t)

(* The code the running thread goes to, when it is not created or deleted. *)
LEMMA GoesOn ==
  ASSUME pc \in [Thread -> Control], k.run \in Thread,
         \/ pc' = pc
         \/ pc[k.run] # "none" /\ \E c \in Control \ {"none"} : pc' = [pc EXCEPT ![k.run] = c]
         \/ \E c : pc' = [pc EXCEPT ![Dummy] = c]
  PROVE  \A t \in Task : pc'[t] = "none" <=> pc[t] = "none"
<1>1. \A t \in Task : t \in Thread /\ t # Dummy
  BY TaskAssumption DEF Thread
<1> QED BY <1>1

LEMMA CallLives ==
  ASSUME NEW op, NEW x \in Kernel, NEW r, Call(op, x, r), x.prio = k.prio, Frame(k, x),
         pc \in [Thread -> Control], k.run \in Thread
  PROVE  Lives
<1>1. k' = x \/ k' = LOS_Schedule(x)
  BY DEF Call
<1>2. LOS_Schedule(x).status = x.status /\ LOS_Schedule(x).prio = x.prio
  BY DEF LOS_Schedule, Kernel
<1>3. k'.status = x.status /\ k'.prio = x.prio
  BY <1>1, <1>2
<1>4. \A t \in Task : Has(x, t, "UNUSED") <=> Has(k, t, "UNUSED")
  BY DEF Frame, Gentle, Keeps, KeepsTcbs
<1>5. \A t \in Task : pc'[t] = "none" <=> pc[t] = "none"
  <2>1. pc' = pc \/ (pc[k.run] = "user" /\ pc' = [pc EXCEPT ![k.run] = "sched"])
    BY DEF Call, Goto, UserCode, InTask
  <2>2. "sched" \in Control \ {"none"}
    BY DEF Control
  <2> QED BY <2>1, <2>2, GoesOn
<1> QED BY <1>3, <1>4, <1>5 DEF Lives, LivesOn, Has

LEMMA TaskApiLives ==
  ASSUME PrioritiesGiven, IInv, ~k.fault, TaskApi
  PROVE  Lives
<1>1. /\ Ok(k) /\ k \in Kernel /\ Sound(k) /\ Running /\ Delaying(k)
      /\ pc \in [Thread -> Control] /\ k.run \in Thread
  BY Start, KernelType DEF Ok, IInv, TypeOK
<1>2. ASSUME NEW t \in Task, LOS_TaskSuspend(t) PROVE Lives
  <2>1. t \in Task \ {Idle} /\ ~Has(k, t, "UNUSED") /\ Call("suspend", Suspended(k, t), t = k.run)
    BY <1>2 DEF LOS_TaskSuspend
  <2>2. Suspended(k, t) \in Kernel /\ Frame(k, Suspended(k, t)) /\ Suspended(k, t).prio = k.prio
    BY <1>1, <2>1, SuspendedOk, PrioKept DEF Ok
  <2> QED BY <1>1, <2>1, <2>2, CallLives
<1>3. ASSUME NEW t \in Task, LOS_TaskResume(t) PROVE Lives
  <2>1. ~Has(k, t, "UNUSED")
        /\ Call("resume", Resumed(k, t), k.scheduled /\ ~Blocked(Unsuspended(k, t), t))
    BY <1>3 DEF LOS_TaskResume
  <2>2. Resumed(k, t) \in Kernel /\ Frame(k, Resumed(k, t)) /\ Resumed(k, t).prio = k.prio
    BY <1>1, <2>1, ResumedOk, PrioKept DEF Ok
  <2> QED BY <1>1, <2>1, <2>2, CallLives
<1>4. ASSUME NEW n \in 1 .. MaxTimeout, LOS_TaskDelay(n) PROVE Lives
  <2>1. /\ k' = Delayed(k, n) /\ pc[k.run] = "user" /\ k.run # Idle
        /\ pc' = [pc EXCEPT ![k.run] = "sched"]
    BY <1>4 DEF LOS_TaskDelay, Goto, UserCode, InTask
  <2>2. k.run \in Task \ {Idle} /\ ~Waits(k, k.run)
    <3>1. k.run # Dummy
      BY <1>1, <1>4 DEF LOS_TaskDelay, UserCode, InTask, Running
    <3>2. ~Stopped(k, k.run)
      BY <1>1, <1>4, <2>1, <3>1 DEF Delaying, LOS_TaskDelay, UserCode, InTask, Thread
    <3> QED BY <1>1, <2>1, <3>1, <3>2 DEF Thread, Stopped
  <2>3. Keeps(k, k') /\ k'.prio = k.prio
    BY <1>1, <2>1, <2>2, DelayedOk, PrioKept
  <2>4. \A t \in Task : pc'[t] = "none" <=> pc[t] = "none"
    <3>1. "sched" \in Control \ {"none"}
      BY DEF Control
    <3> QED BY <1>1, <2>1, <3>1, GoesOn
  <2> QED BY <2>3, <2>4 DEF Lives, LivesOn, Keeps, KeepsTcbs
<1>5. CASE LOS_TaskYield
  <2>1. k.run \in Task /\ k' = Rotate(k) /\ ~k.pendsv /\ pc[k.run] = "user"
        /\ pc' = [pc EXCEPT ![k.run] = "sched"]
    BY <1>5 DEF LOS_TaskYield, CanYield, UserCode, InTask, Goto
  <2>2. ~Waits(k, k.run)
    BY <1>1, <2>1 DEF Delaying, Stopped
  <2>3. Frame(k, k') /\ k'.prio = k.prio
    BY <1>1, <2>1, <2>2, RotateOk, PrioKept
  <2>4. \A t \in Task : pc'[t] = "none" <=> pc[t] = "none"
    <3>1. "sched" \in Control \ {"none"}
      BY DEF Control
    <3> QED BY <1>1, <2>1, <3>1, GoesOn
  <2> QED BY <2>3, <2>4 DEF Lives, LivesOn, Frame, Gentle, Keeps, KeepsTcbs
<1>6. CASE LOS_TaskLock \/ LOS_TaskUnlock \/ TakeTcb
  <2>1. k'.status = k.status /\ k'.prio = k.prio
    BY <1>1, <1>6 DEF LOS_TaskLock, LOS_TaskUnlock, TakeTcb, Drained, Kernel
  <2>2. \/ pc' = pc
        \/ pc[k.run] = "user" /\ \E c \in {"sched", "alloc"} : pc' = [pc EXCEPT ![k.run] = c]
    BY <1>6 DEF LOS_TaskLock, LOS_TaskUnlock, TakeTcb, Goto, UserCode, InTask
  <2>3. {"sched", "alloc"} \subseteq Control \ {"none"}
    BY DEF Control
  <2>4. \A t \in Task : pc'[t] = "none" <=> pc[t] = "none"
    BY <1>1, <2>2, <2>3, GoesOn
  <2> QED BY <2>1, <2>4 DEF Lives, LivesOn, Has
<1>7. \A t \in Task : ~LOS_TaskDelete(t)
  BY DEF LOS_TaskDelete, PrioritiesGiven, Steady
<1>8. \A t \in Task, p \in Prio : ~LOS_TaskPriSet(t, p)
  BY DEF LOS_TaskPriSet, Call, PrioritiesGiven
<1> QED BY <1>2, <1>3, <1>4, <1>5, <1>6, <1>7, <1>8
           DEF TaskApi, ReturnDetached, ReturnJoinable, PrioritiesGiven, Steady, Tame

LEMMA ContinueLives ==
  ASSUME IInv, NoneReturns, Continue
  PROVE  Lives
<1>1. k \in Kernel /\ k.run \in Thread /\ pc \in [Thread -> Control]
  BY KernelType DEF IInv, TypeOK
<1>2. ASSUME NEW p \in Prio, NEW d \in Resved, NEW o \in BOOLEAN, LOS_TaskCreate(p, d, o)
      PROVE  Lives
  <2> DEFINE t == fresh[k.run]
             x == Filled(k, t, p, d)
  <2>1. /\ Ok(k) /\ ~k.fault /\ t \in Task /\ Has(k, t, "UNUSED") /\ d \in BOOLEAN
        /\ ~Contains(k.free, t) /\ ~Contains(k.recycle, t) /\ pc[k.run] = "alloc"
        /\ t \in Thread
    BY <1>2, AllocFacts DEF LOS_TaskCreate, Resved
  <2>2. (k' = x \/ k' = Started(x, t)) /\ pc' = [pc EXCEPT ![k.run] = "user", ![t] = "user"]
    BY <1>2 DEF LOS_TaskCreate
  <2> HIDE DEF t
  <2>3. x.prio = [k.prio EXCEPT ![t] = p]
    BY <1>1 DEF Filled, Kernel
  <2>4. /\ Ok(x) /\ x.fault = k.fault /\ ~Has(x, t, "UNUSED") /\ ~Stopped(x, t)
        /\ \A u \in Task : u # t => x.status[u] = k.status[u]
    BY <2>1, FilledOk
  <2> HIDE DEF x
  <2>5. /\ \A u \in Task : Has(k', u, "UNUSED") <=> Has(x, u, "UNUSED")
        /\ k'.prio = x.prio
    <3>1. Frame(x, Started(x, t)) /\ Started(x, t).prio = x.prio
      BY <2>1, <2>4, StartedOk, PrioKept DEF Ok
    <3> QED BY <2>2, <3>1 DEF Frame, Gentle, Keeps, KeepsTcbs
  <2>6. ASSUME NEW u \in Task, u # t PROVE LivesOn(u)
    <3>1. k'.prio[u] = k.prio[u]
      BY <1>1, <2>3, <2>5, <2>6, KernelType
    <3>2. pc'[u] = "none" <=> pc[u] = "none"
      BY <1>1, <2>1, <2>2, <2>6 DEF Thread
    <3>3. Has(k', u, "UNUSED") <=> Has(k, u, "UNUSED")
      BY <2>4, <2>5, <2>6 DEF Has
    <3> QED BY <3>1, <3>2, <3>3 DEF LivesOn
  <2>7. IsBorn(t)
    <3>1. pc'[t] = "user"
      BY <1>1, <2>1, <2>2
    <3> QED BY <2>1, <2>4, <2>5, <3>1 DEF IsBorn
  <2> QED BY <2>6, <2>7 DEF Lives
<1>3. CASE CreateFails \/ Reschedule \/ SwitchFromDeleted
  <2>1. k'.status = k.status /\ k'.prio = k.prio
    BY <1>1, <1>3 DEF CreateFails, Reschedule, SwitchFromDeleted, LOS_Schedule, osSchedule, Kernel
  <2>2. \/ pc[k.run] # "none" /\ pc' = [pc EXCEPT ![k.run] = "user"]
        \/ pc' = [pc EXCEPT ![Dummy] = "none"]
    BY <1>3 DEF CreateFails, Reschedule, SwitchFromDeleted, InTask, Goto
  <2>3. "user" \in Control \ {"none"}
    BY DEF Control
  <2>4. \A t \in Task : pc'[t] = "none" <=> pc[t] = "none"
    BY <1>1, <2>2, <2>3, GoesOn
  <2> QED BY <2>1, <2>4 DEF Lives, LivesOn, Has
<1>4. \A c \in {"return", "exit", "unlink", "unlock", "leave", "exited"} : ~InTask(c)
  BY <1>1 DEF NoneReturns, InTask
<1> QED BY <1>2, <1>3, <1>4 DEF Continue, ExitLocks, ExitReadsLinks, ExitUnlinks, ExitUnlocks,
           ExitSchedules, osTaskExit

LEMMA ExceptionsLive ==
  ASSUME ~TIMESLICE, IInv, ~k.fault, Exceptions
  PROVE  Lives
<1>1. /\ Ok(k) /\ k \in Kernel /\ Running /\ k.run \in Thread /\ pc \in [Thread -> Control]
  BY Start, KernelType DEF Ok, IInv, TypeOK
<1>2. \A t \in Task : pc'[t] = "none" <=> pc[t] = "none"
  <2>1. pc' = pc \/ pc' = [pc EXCEPT ![Dummy] = "none"]
    BY ScanServes DEF Exceptions, LOS_StartToRun, PendSV_Handler, osTickHandler, osTaskScanEnds, Goto
  <2> QED BY <1>1, <2>1, GoesOn
<1>3. CASE LOS_StartToRun \/ PendSV_Handler \/ osTaskScanEnds
  <2>1. k'.status = k.status /\ k'.prio = k.prio
    BY <1>1, <1>3 DEF LOS_StartToRun, PendSV_Handler, osTaskScanEnds, LOS_Schedule, Kernel
  <2> QED BY <1>2, <2>1 DEF Lives, LivesOn, Has
<1>4. CASE osTickHandler
  <2>1. k' = Shifted(k) /\ k.due[0] = <<>>
    BY <1>1, <1>4 DEF osTickHandler, Shifted, Running
  <2>2. Frame(k, k') /\ k'.prio = k.prio
    BY <1>1, <2>1, ShiftedOk DEF Shifted, Kernel
  <2> QED BY <1>2, <2>2 DEF Lives, LivesOn, Frame, Gentle, Keeps, KeepsTcbs
<1>5. CASE osTaskScan
  <2> DEFINE t == Head(k.due[0])
             x == [k EXCEPT !.due[0] = Tail(@)]
  <2>1. k.due[0] # <<>> /\ k' = Expired(x, t)
    BY <1>5, ScanWhole DEF IInv, ScanRound
  <2>2. 0 \in 0 .. MaxTimeout /\ k.due[0] \in Seq(Task)
    BY <1>1, TaskAssumption, KernelType
  <2>3. t \in Task /\ x \in Kernel /\ x.prio = k.prio
    <3>1. t \in Task /\ Tail(k.due[0]) \in Seq(Task)
      BY <2>1, <2>2
    <3>2. x = [k EXCEPT !.due = [k.due EXCEPT ![0] = Tail(k.due[0])]]
      OBVIOUS
    <3>3. [k.due EXCEPT ![0] = Tail(k.due[0])] \in [0 .. MaxTimeout -> Seq(Task)]
      BY <1>1, <3>1 DEF Kernel
    <3> QED BY <1>1, <3>1, <3>2, <3>3 DEF Kernel
  <2>4. Frame(k, Expired(x, t))
    BY <1>1, <2>1, ExpiredOk
  <2> HIDE DEF t, x
  <2>5. k'.prio = k.prio
    BY <2>1, <2>3, ExpiredPrio
  <2> QED BY <1>2, <2>1, <2>4, <2>5 DEF Lives, LivesOn, Frame, Gentle, Keeps, KeepsTcbs
<1> QED BY <1>3, <1>4, <1>5 DEF Exceptions

LEMMA NextLives ==
  ASSUME PrioritiesGiven, IInv, ~k.fault, NoneReturns, [Next]_vars
  PROVE  Lives
<1>1. CASE UNCHANGED vars
  BY <1>1 DEF vars, Lives, LivesOn, Has
<1>2. CASE Next
  BY <1>2, TaskApiLives, ContinueLives, ExceptionsLive DEF Next, PrioritiesGiven, Steady, Tame
<1> QED BY <1>1, <1>2

(***************************************************************************)
(* Priorities that are lent.                                               *)
(***************************************************************************)

(* A TCB is unused exactly while no code runs on it; a control block remembers what
   its owner's own priority is; who owns nothing has its own.              *)
Born  == \A t \in Task : pc[t] = "none" <=> Has(k, t, "UNUSED")
Lent  == \A m \in Mux : mux[m].count > 0 => mux[m].prio = base[mux[m].owner]
Lends == Born /\ Lent /\ Restored

LEMMA LendsInit == ~Nesting /\ MuxInit => MuxInv /\ Lends
<1> SUFFICES ASSUME ~Nesting, MuxInit PROVE MuxInv /\ Lends
  OBVIOUS
<1>1. MuxInv
  BY MuxInitInv
<1>2. /\ k.status = [t \in Task |-> IF t = Idle THEN {"READY"} ELSE {"UNUSED"}]
      /\ pc = [t \in Thread |-> IF t \in {Idle, Dummy} THEN "user" ELSE "none"]
      /\ mux = [m \in Mux |-> [used |-> FALSE, count |-> 0, owner |-> NoTask, prio |-> 0]]
      /\ base = k.prio
  BY DEF MuxInit, Init
<1>3. Born
  <2>1. \A t \in Task : t \in Thread /\ t # Dummy
    BY TaskAssumption DEF Thread
  <2>2. \A t \in Task : pc[t] = "none" <=> t # Idle
    BY <1>2, <2>1
  <2>3. \A t \in Task : Has(k, t, "UNUSED") <=> t # Idle
    BY <1>2 DEF Has
  <2> QED BY <2>2, <2>3 DEF Born
<1>4. Lent
  BY <1>2 DEF Lent
<1>5. Restored
  BY <1>2 DEF Restored
<1> QED BY <1>1, <1>3, <1>4, <1>5 DEF Lends

(* A mutex call gives birth to no task, and buries none. *)
NoBirth ==
  /\ base' = base
  /\ \A t \in Task : Has(k', t, "UNUSED") <=> Has(k, t, "UNUSED")
  /\ \A t \in Task : pc'[t] = "none" <=> pc[t] = "none"

(* Who still owns what it owned, and has the priority it had, ... *)
LEMMA LendsKept ==
  ASSUME Lends, NoBirth, Lent',
         \A t \in Task, m \in Mux : Owns(t, m) => Owns(t, m)',
         \A t \in Task : (\E m \in Mux : Owns(t, m)') \/ k'.prio[t] = k.prio[t]
  PROVE  Lends'
<1>1. Born'
  BY DEF Lends, Born, NoBirth
<1>2. Restored'
  <2> SUFFICES ASSUME NEW t \in Task, ~Has(k', t, "UNUSED"), \A m \in Mux : ~Owns(t, m)'
               PROVE  k'.prio[t] = base'[t]
    BY DEF Restored
  <2>1. ~Has(k, t, "UNUSED") /\ (\A m \in Mux : ~Owns(t, m)) /\ k'.prio[t] = k.prio[t]
    BY DEF NoBirth
  <2> QED BY <2>1 DEF Lends, Restored, NoBirth
<1> QED BY <1>1, <1>2 DEF Lends

(* Calls that change no priority and let nobody wait. *)
Quiet == k'.prio = k.prio /\ k'.wait = k.wait /\ NoBirth

LEMMA SameKernelQuiet ==
  ASSUME UNCHANGED vars, base' = base
  PROVE  Quiet
BY DEF vars, Quiet, NoBirth, Has

LEMMA PendReturnsQuiet ==
  ASSUME MuxInv, MuxPendReturns
  PROVE  Quiet
<1>1. /\ InTask("woken") /\ k' = [k EXCEPT !.status[k.run] = @ \ {"TIMEOUT"}]
      /\ pc' = [pc EXCEPT ![k.run] = "user"] /\ base' = base /\ pc[k.run] = "woken"
  BY DEF MuxPendReturns, Goto, InTask
<1>2. IInv /\ pc \in [Thread -> Control] /\ k \in Kernel /\ k.run \in Thread
  BY MuxType, KernelType
<1>3. /\ k'.wait = k.wait /\ k'.prio = k.prio /\ k.run \in Task
      /\ k'.status = [k.status EXCEPT ![k.run] = @ \ {"TIMEOUT"}]
  BY <1>1, <1>2, ClearsTimeout
<1>4. \A t \in Task : Has(k', t, "UNUSED") <=> Has(k, t, "UNUSED")
  <2>1. k.status \in [Task -> SUBSET Flag]
    BY <1>2 DEF Kernel
  <2> QED BY <1>3, <2>1 DEF Has
<1>5. \A t \in Task : pc'[t] = "none" <=> pc[t] = "none"
  <2>1. "user" \in Control \ {"none"}
    BY DEF Control
  <2> QED BY <1>1, <1>2, <2>1, GoesOn
<1> QED BY <1>1, <1>3, <1>4, <1>5 DEF Quiet, NoBirth

LEMMA SchedulesQuiet ==
  ASSUME MuxInv, WaitSchedules, UNCHANGED muxVars
  PROVE  Quiet
<1>1. /\ k' = LOS_Schedule(k) /\ pc' = [pc EXCEPT ![k.run] = "woken"] /\ pc[k.run] = "pend"
      /\ base' = base
  BY DEF WaitSchedules, Goto, InTask, muxVars
<1>2. pc \in [Thread -> Control] /\ k \in Kernel /\ k.run \in Thread
  BY MuxType, KernelType
<1>3. k'.wait = k.wait /\ k'.prio = k.prio /\ k'.status = k.status
  BY <1>1, <1>2 DEF LOS_Schedule, Kernel
<1>4. \A t \in Task : pc'[t] = "none" <=> pc[t] = "none"
  <2>1. "woken" \in Control \ {"none"}
    BY DEF Control
  <2> QED BY <1>1, <1>2, <2>1, GoesOn
<1> QED BY <1>1, <1>3, <1>4 DEF Quiet, NoBirth, Has

(* LOS_MuxPend makes the owner at least as urgent as the caller, which then waits. *)
LEMMA MuxBlockEffect ==
  ASSUME ~TIMESLICE, MuxInv, NEW m \in Mux, NEW n \in 1 .. Forever, MuxBlock(m, n)
  PROVE  /\ NoBirth /\ mux' = mux /\ Owns(mux[m].owner, m)
         /\ mux[m].owner \in Task /\ k.run \in Task /\ mux[m].owner # k.run
         /\ k'.prio[mux[m].owner] <= k.prio[mux[m].owner]
         /\ k'.prio[mux[m].owner] <= k.prio[k.run]
         /\ \A t \in Task : t # mux[m].owner => k'.prio[t] = k.prio[t]
         /\ \A o \in Mux, t \in Task :
              Contains(k'.wait[o], t) <=> Contains(k.wait[o], t) \/ (t = k.run /\ o = m)
<1> DEFINE t == k.run
           o == mux[m].owner
           x == Raised(k, m)
<1>1. /\ UserCode /\ k.scheduled /\ mux[m].count > 0 /\ o # t /\ m \in WaitObj
      /\ k' = WaitOn(x, m, n) /\ pc' = [pc EXCEPT ![t] = "pend"] /\ pc[t] = "user"
      /\ mux' = mux /\ base' = base
  BY DEF MuxBlock, Pends, Goto, Mux, UserCode, InTask
<1>2. /\ t \in Task \ {Idle} /\ ~Waits(k, t) /\ ~Has(k, t, "UNUSED") /\ Owners
      /\ pc \in [Thread -> Control] /\ k \in Kernel /\ k.run \in Thread
  BY <1>1, CallerHolds, MuxType, KernelType
<1>3. /\ o \in Task \ {Idle} /\ k.prio[o] \in Prio /\ k.prio[t] \in Prio
      /\ k.prio \in [Task -> Prio] /\ \A p \in Prio : p \in Int
  BY <1>1, <1>2, KernelType DEF Owners, Kernel, Prio
<1>4. x.prio = IF k.prio[o] > k.prio[t] THEN [k.prio EXCEPT ![o] = k.prio[t]] ELSE k.prio
  <2>1. x = IF k.prio[o] > k.prio[t] THEN osTaskPriModify(k, o, k.prio[t]) ELSE k
    BY DEF Raised
  <2>2. osTaskPriModify(k, o, k.prio[t]).prio = [k.prio EXCEPT ![o] = k.prio[t]]
    BY <1>2, <1>3, PriModifyPrio
  <2> HIDE DEF x, o, t
  <2> QED BY <2>1, <2>2
<1>5. Reprioritised(x)
  BY <1>1, RaisedOk
<1> HIDE DEF x
<1>6. k'.prio = x.prio
  <2>1. Ok(x) /\ ~x.fault /\ x.run = t /\ x.status = k.status
    BY <1>5 DEF Reprioritised, SameRest
  <2>2. x.run \in Task /\ ~Waits(x, x.run)
    BY <1>2, <2>1 DEF Waits, Has
  <2>3. Queued(x, k', m, n, "PEND")
    BY <1>1, <2>1, <2>2, WaitOnQueued DEF Ok
  <2>4. "PEND" \in {"PEND", "PEND_QUEUE"}
    OBVIOUS
  <2> QED BY <1>1, <2>1, <2>2, <2>3, <2>4, QueuedFacts
<1>7. /\ \A p \in Mux, u \in Task :
           Contains(k'.wait[p], u) <=> Contains(k.wait[p], u) \/ (u = t /\ p = m)
      /\ \A u \in Task : u # t => k'.status[u] = k.status[u]
      /\ ~Has(k', t, "UNUSED")
  BY MuxBlockKernel
<1>8. NoBirth
  <2>1. \A u \in Task : Has(k', u, "UNUSED") <=> Has(k, u, "UNUSED")
    BY <1>2, <1>7 DEF Has
  <2>2. "pend" \in Control \ {"none"}
    BY DEF Control
  <2>3. \A u \in Task : pc'[u] = "none" <=> pc[u] = "none"
    BY <1>1, <1>2, <2>2, GoesOn
  <2> QED BY <1>1, <2>1, <2>3 DEF NoBirth
<1>9. /\ k'.prio[o] <= k.prio[o] /\ k'.prio[o] <= k.prio[t]
      /\ \A u \in Task : u # o => k'.prio[u] = k.prio[u]
  <2> HIDE DEF o, t
  <2>1. CASE k.prio[o] > k.prio[t]
    <3>1. k'.prio = [k.prio EXCEPT ![o] = k.prio[t]]
      BY <1>4, <1>6, <2>1
    <3>2. k'.prio[o] = k.prio[t] /\ \A u \in Task : u # o => k'.prio[u] = k.prio[u]
      BY <1>3, <3>1
    <3> QED BY <1>3, <2>1, <3>2
  <2>2. CASE ~(k.prio[o] > k.prio[t])
    <3>1. k'.prio = k.prio
      BY <1>4, <1>6, <2>2
    <3> QED BY <1>3, <2>2, <3>1
  <2> QED BY <2>1, <2>2
<1> QED BY <1>1, <1>2, <1>3, <1>7, <1>8, <1>9 DEF Owns

LEMMA LoweredPrio ==
  ASSUME MuxInv, UserCode, k.scheduled, NEW m \in Mux
  PROVE  Lowered(k, m).prio = [k.prio EXCEPT ![k.run] = mux[m].prio]
<1>1. k.run \in Task /\ mux[m].prio \in Prio /\ k \in Kernel /\ k.prio \in [Task -> Prio]
  BY MuxType, CallerHolds DEF Kernel
<1>2. osTaskPriModify(k, k.run, mux[m].prio).prio = [k.prio EXCEPT ![k.run] = mux[m].prio]
  BY <1>1, PriModifyPrio
<1>3. k.prio[k.run] = mux[m].prio => [k.prio EXCEPT ![k.run] = mux[m].prio] = k.prio
  BY <1>1
<1> QED BY <1>2, <1>3 DEF Lowered

(* The LOS_MuxPost that gives a mutex up gives its owner the old priority back. *)
LEMMA MuxFreeEffect ==
  ASSUME MuxInv, NEW m \in Mux, MuxFree(m)
  PROVE  /\ NoBirth /\ k.run \in Task /\ Owns(k.run, m) /\ k.wait[m] = <<>>
         /\ k'.prio = [k.prio EXCEPT ![k.run] = mux[m].prio] /\ k'.wait = k.wait
         /\ mux'[m].count = 0 /\ \A o \in Mux : o # m => mux'[o] = mux[o]
<1>1. /\ UserCode /\ k.scheduled /\ Owns(k.run, m) /\ k.wait[m] = <<>>
      /\ k' = Lowered(k, m) /\ pc' = pc /\ base' = base
      /\ mux' = [mux EXCEPT ![m].count = 0]
  BY DEF MuxFree, Posts
<1>2. k.run \in Task /\ Reprioritised(Lowered(k, m))
  BY <1>1, CallerHolds, LoweredOk
<1>3. k'.status = k.status /\ k'.wait = k.wait
  BY <1>1, <1>2 DEF Reprioritised
<1>4. k'.prio = [k.prio EXCEPT ![k.run] = mux[m].prio]
  BY <1>1, LoweredPrio
<1>5. mux'[m].count = 0 /\ \A o \in Mux : o # m => mux'[o] = mux[o]
  <2>1. mux \in [Mux -> [used : BOOLEAN, count : 0 .. MaxNest, owner : Task \cup {NoTask},
                         prio : Prio]]
    BY MuxType
  <2>2. mux' = [mux EXCEPT ![m] = [mux[m] EXCEPT !.count = 0]]
    BY <1>1
  <2>3. [mux[m] EXCEPT !.count = 0].count = 0
    BY <2>1
  <2> QED BY <2>1, <2>2, <2>3
<1> QED BY <1>1, <1>2, <1>3, <1>4, <1>5 DEF NoBirth, Has

LEMMA MuxHandEffect ==
  ASSUME MuxInv, NEW m \in Mux, MuxHand(m)
  PROVE  LET u == Head(k.wait[m])
         IN /\ NoBirth /\ k.run \in Task /\ Owns(k.run, m) /\ mux'[m].count = 1
            /\ u \in Task /\ u # k.run /\ Contains(k.wait[m], u) /\ ~Has(k, u, "UNUSED")
            /\ k'.prio = [k.prio EXCEPT ![k.run] = mux[m].prio]
            /\ \A o \in Mux, v \in Task : Contains(k'.wait[o], v) => Contains(k.wait[o], v)
            /\ mux'[m].owner = u /\ mux'[m].prio = k.prio[u]
            /\ \A o \in Mux : o # m => mux'[o] = mux[o]
<1> DEFINE t == k.run
           u == Head(k.wait[m])
           y == Lowered(k, m)
<1>1. /\ UserCode /\ k.scheduled /\ Owns(t, m) /\ m \in WaitObj /\ pc[t] = "user"
      /\ k' = WakeFirst(y, m) /\ pc' = [pc EXCEPT ![t] = "sched"] /\ base' = base
      /\ mux' = [mux EXCEPT ![m].count = 1, ![m].owner = u, ![m].prio = k.prio[u]]
  BY DEF MuxHand, Posts, Goto, Mux, UserCode, InTask
<1>2. /\ u \in Task \ {Idle, t} /\ Contains(k.wait[m], u)
      /\ k'.status[u] = AwakeFlags(k.status[u], "PEND")
      /\ \A v \in Task : v # u => k'.status[v] = k.status[v]
      /\ \A o \in Mux, v \in Task :
           Contains(k'.wait[o], v) <=> Contains(k.wait[o], v) /\ v # u
  BY MuxHandKernel
<1>3. /\ t \in Task /\ pc \in [Thread -> Control] /\ k \in Kernel /\ k.run \in Thread /\ Asking
      /\ Reprioritised(y)
  BY <1>1, CallerHolds, MuxType, LoweredOk, KernelType
<1>4. ~Has(k, u, "UNUSED")
  BY <1>2, <1>3 DEF Asking
<1>5. y.prio = [k.prio EXCEPT ![t] = mux[m].prio]
  BY <1>1, LoweredPrio
<1> HIDE DEF y
<1>6. k'.prio = y.prio
  <2>1. y \in Kernel /\ y.wait = k.wait
    BY <1>3 DEF Reprioritised, Ok
  <2>2. k' = Awake(y, m, u, "PEND")
    BY <1>1, <2>1 DEF WakeFirst
  <2> QED BY <1>1, <1>2, <2>1, <2>2, AwakePrio
<1> HIDE DEF u
<1>7. NoBirth
  <2>1. ~Has(k', u, "UNUSED")
    BY <1>2, <1>4 DEF Has, AwakeFlags
  <2>2. \A v \in Task : Has(k', v, "UNUSED") <=> Has(k, v, "UNUSED")
    BY <1>2, <1>4, <2>1 DEF Has
  <2>3. "sched" \in Control \ {"none"}
    BY DEF Control
  <2>4. \A v \in Task : pc'[v] = "none" <=> pc[v] = "none"
    BY <1>1, <1>3, <2>3, GoesOn
  <2> QED BY <1>1, <2>2, <2>4 DEF NoBirth
<1>8. /\ mux'[m].owner = u /\ mux'[m].prio = k.prio[u] /\ mux'[m].count = 1
      /\ \A o \in Mux : o # m => mux'[o] = mux[o]
  <2> DEFINE r == [used |-> mux[m].used, count |-> 1, owner |-> u, prio |-> k.prio[u]]
  <2>1. mux \in [Mux -> [used : BOOLEAN, count : 0 .. MaxNest, owner : Task \cup {NoTask},
                         prio : Prio]]
    BY MuxType
  <2>2. mux' = [mux EXCEPT ![m] = [[[mux[m] EXCEPT !.count = 1] EXCEPT !.owner = u]
                                     EXCEPT !.prio = k.prio[u]]]
    BY <1>1, <2>1
  <2>3. [[[mux[m] EXCEPT !.count = 1] EXCEPT !.owner = u] EXCEPT !.prio = k.prio[u]] = r
    BY <2>1, OwnerChanges
  <2>4. mux' = [mux EXCEPT ![m] = r]
    BY <2>2, <2>3
  <2>5. r.owner = u /\ r.prio = k.prio[u] /\ r.count = 1
    OBVIOUS
  <2> HIDE DEF r
  <2> QED BY <2>1, <2>4, <2>5
<1> QED BY <1>1, <1>2, <1>3, <1>4, <1>5, <1>6, <1>7, <1>8 DEF u

(***************************************************************************)
(* Tasks that are busy with one mutex at a time: the lemmas of a step.     *)
(***************************************************************************)
LEMMA TaskLends ==
  ASSUME PrioritiesGiven, MuxInv, Lends, TaskStep
  PROVE  Lends'
<1>1. /\ [Next]_vars /\ mux' = mux
      /\ base' = [t \in Task |-> IF pc[t] = "none" THEN k'.prio[t] ELSE base[t]]
  BY DEF TaskStep
<1>2. IInv /\ ~k.fault /\ NoneReturns /\ Owners /\ Born /\ Lent /\ Restored
  BY MuxType DEF Lends
<1>3. \A t \in Task : LivesOn(t) \/ IsBorn(t)
  BY <1>1, <1>2, NextLives DEF Lives
<1>4. Born'
  <2>1. \A t \in Task : pc'[t] = "none" <=> Has(k', t, "UNUSED")
    BY <1>2, <1>3 DEF Born, LivesOn, IsBorn
  <2> QED BY <2>1 DEF Born
<1>5. Lent'
  <2>1. ASSUME NEW m \in Mux, mux[m].count > 0 PROVE base'[mux[m].owner] = base[mux[m].owner]
    <3>1. mux[m].owner \in Task /\ pc[mux[m].owner] # "none"
      BY <1>2, <2>1 DEF Owners, Born
    <3> QED BY <1>1, <3>1
  <2> QED BY <1>1, <1>2, <2>1 DEF Lent
<1>6. Restored'
  <2> SUFFICES ASSUME NEW t \in Task, ~Has(k', t, "UNUSED"), \A m \in Mux : ~Owns(t, m)'
               PROVE  k'.prio[t] = base'[t]
    BY DEF Restored
  <2>1. CASE Has(k, t, "UNUSED")
    BY <1>1, <1>2, <2>1 DEF Born
  <2>2. CASE ~Has(k, t, "UNUSED")
    <3>1. k'.prio[t] = k.prio[t] /\ pc[t] # "none"
      BY <1>2, <1>3, <2>2 DEF Born, LivesOn, IsBorn
    <3>2. \A m \in Mux : ~Owns(t, m)
      BY <1>1 DEF Owns
    <3>3. k.prio[t] = base[t]
      BY <1>2, <2>2, <3>2 DEF Restored
    <3> QED BY <1>1, <3>1, <3>3
  <2> QED BY <2>1, <2>2
<1> QED BY <1>4, <1>5, <1>6 DEF Lends

(* The calls that touch one control block, and do not end an ownership. *)
LEMMA BlockChangeLends ==
  ASSUME MuxInv, Lends, Quiet, NEW m \in Mux,
         \A o \in Mux : o # m => mux'[o] = mux[o],
         \/ mux[m].count = 0 /\ mux'[m].count = 0
         \/ /\ mux[m].count > 0 /\ mux'[m].count > 0
            /\ mux'[m].owner = mux[m].owner /\ mux'[m].prio = mux[m].prio
  PROVE  Lends'
<1>1. Lent /\ k'.prio = k.prio /\ NoBirth /\ base' = base
  BY DEF Lends, Quiet, NoBirth
<1>2. Lent'
  <2>1. ASSUME NEW o \in Mux, mux'[o].count > 0 PROVE mux'[o].prio = base[mux'[o].owner]
    <3>1. CASE o # m
      BY <1>1, <2>1, <3>1 DEF Lent
    <3>2. CASE o = m
      BY <1>1, <2>1, <3>2 DEF Lent
    <3> QED BY <3>1, <3>2
  <2> QED BY <1>1, <2>1 DEF Lent
<1>3. \A t \in Task, o \in Mux : Owns(t, o) => Owns(t, o)'
  <2>1. ASSUME NEW t \in Task, NEW o \in Mux, mux[o].count > 0, mux[o].owner = t
        PROVE  mux'[o].count > 0 /\ mux'[o].owner = t
    <3>1. CASE o # m
      BY <2>1, <3>1
    <3>2. CASE o = m
      BY <2>1, <3>2
    <3> QED BY <3>1, <3>2
  <2> QED BY <2>1 DEF Owns
<1> QED BY <1>1, <1>2, <1>3, LendsKept

(* The task owns no mutex yet: what it takes remembers its own priority. *)
LEMMA MuxTakeLends ==
  ASSUME MuxInv, Lends, OneEach', NEW m \in Mux, MuxTake(m)
  PROVE  Lends'
<1>1. /\ UserCode /\ k.scheduled /\ mux[m].count = 0 /\ UNCHANGED <<vars, base>>
      /\ mux' = [mux EXCEPT ![m] = [used |-> TRUE, count |-> 1, owner |-> k.run,
                                    prio |-> k.prio[k.run]]]
  BY DEF MuxTake, Pends
<1>2. k.run \in Task /\ ~Has(k, k.run, "UNUSED")
  BY <1>1, CallerHolds
<1>3. /\ mux'[m].count = 1 /\ mux'[m].owner = k.run /\ mux'[m].prio = k.prio[k.run]
      /\ \A o \in Mux : o # m => mux'[o] = mux[o]
  BY <1>1, MuxType
<1>4. Quiet /\ NoBirth /\ k'.prio = k.prio /\ base' = base
  BY <1>1, SameKernelQuiet DEF Quiet
<1>5. \A t \in Task, o \in Mux : Owns(t, o) => Owns(t, o)'
  <2>1. \A t \in Task, o \in Mux : Owns(t, o) => o # m
    BY <1>1 DEF Owns
  <2> QED BY <1>3, <2>1 DEF Owns
<1>6. \A o \in Mux : ~Owns(k.run, o)
  <2> SUFFICES ASSUME NEW o \in Mux, Owns(k.run, o) PROVE FALSE
    OBVIOUS
  <2>1. PICK t \in Task : t = k.run
    BY <1>2
  <2>2. Owns(t, o)' /\ Owns(t, m)' /\ o # m
    BY <1>1, <1>3, <1>5, <2>1 DEF Owns
  <2> QED BY <2>2 DEF OneEach
<1>7. k.prio[k.run] = base[k.run]
  BY <1>2, <1>6 DEF Lends, Restored
<1>8. Lent'
  <2>1. ASSUME NEW o \in Mux, mux'[o].count > 0 PROVE mux'[o].prio = base[mux'[o].owner]
    <3>1. CASE o # m
      BY <1>3, <2>1, <3>1 DEF Lends, Lent
    <3>2. CASE o = m
      BY <1>3, <1>7, <3>2
    <3> QED BY <3>1, <3>2
  <2> QED BY <1>4, <2>1 DEF Lent
<1> QED BY <1>4, <1>5, <1>8, LendsKept

LEMMA MuxBlockLends ==
  ASSUME ~TIMESLICE, MuxInv, Lends, NEW m \in Mux, NEW n \in 1 .. Forever, MuxBlock(m, n)
  PROVE  Lends'
<1>1. /\ NoBirth /\ mux' = mux /\ Owns(mux[m].owner, m)
      /\ \A t \in Task : t # mux[m].owner => k'.prio[t] = k.prio[t]
  BY MuxBlockEffect
<1>2. Lent'
  BY <1>1 DEF Lends, Lent, NoBirth
<1>3. \A t \in Task, o \in Mux : Owns(t, o) => Owns(t, o)'
  BY <1>1 DEF Owns
<1>4. ASSUME NEW t \in Task PROVE (\E o \in Mux : Owns(t, o)') \/ k'.prio[t] = k.prio[t]
  <2>1. t = mux[m].owner => Owns(t, m)'
    BY <1>1 DEF Owns
  <2> QED BY <1>1, <2>1
<1> QED BY <1>1, <1>2, <1>3, <1>4, LendsKept

(* Who gives a mutex up gets its own priority, which the mutex remembers. *)
LEMMA MuxFreeLends ==
  ASSUME MuxInv, Lends, NEW m \in Mux, MuxFree(m)
  PROVE  Lends'
<1>1. /\ NoBirth /\ k.run \in Task /\ Owns(k.run, m)
      /\ k'.prio = [k.prio EXCEPT ![k.run] = mux[m].prio]
      /\ mux'[m].count = 0 /\ \A o \in Mux : o # m => mux'[o] = mux[o]
      /\ k.prio \in [Task -> Prio]
  BY MuxFreeEffect, MuxType DEF Kernel
<1>2. base' = base /\ Born' /\ Lent /\ Restored
  BY <1>1 DEF Lends, Born, NoBirth
<1>3. Lent'
  <2>1. ASSUME NEW o \in Mux, mux'[o].count > 0 PROVE mux'[o].prio = base[mux'[o].owner]
    <3>1. o # m
      BY <1>1, <2>1
    <3> QED BY <1>1, <1>2, <2>1, <3>1 DEF Lent
  <2> QED BY <1>2, <2>1 DEF Lent
<1>4. Restored'
  <2> SUFFICES ASSUME NEW t \in Task, ~Has(k', t, "UNUSED"), \A o \in Mux : ~Owns(t, o)'
               PROVE  k'.prio[t] = base[t]
    BY <1>2 DEF Restored
  <2>1. CASE t = k.run
    BY <1>1, <1>2, <2>1 DEF Lent, Owns
  <2>2. CASE t # k.run
    <3>1. k'.prio[t] = k.prio[t] /\ ~Has(k, t, "UNUSED")
      BY <1>1, <2>2 DEF NoBirth
    <3>2. ASSUME NEW o \in Mux, Owns(t, o) PROVE FALSE
      <4>1. o # m
        BY <1>1, <2>2, <3>2 DEF Owns
      <4>2. Owns(t, o)'
        BY <1>1, <3>2, <4>1 DEF Owns
      <4> QED BY <4>2
    <3> QED BY <1>2, <3>1, <3>2 DEF Restored
  <2> QED BY <2>1, <2>2
<1> QED BY <1>2, <1>3, <1>4 DEF Lends

(* The waiter that gets it owns no other: it has its own priority, too. *)
LEMMA MuxHandLends ==
  ASSUME MuxInv, Lends, OneEach, NEW m \in Mux, MuxHand(m)
  PROVE  Lends'
<1> DEFINE u == Head(k.wait[m])
<1>1. /\ NoBirth /\ k.run \in Task /\ Owns(k.run, m) /\ mux'[m].count = 1
      /\ u \in Task /\ u # k.run /\ Contains(k.wait[m], u) /\ ~Has(k, u, "UNUSED")
      /\ k'.prio = [k.prio EXCEPT ![k.run] = mux[m].prio]
      /\ mux'[m].owner = u /\ mux'[m].prio = k.prio[u]
      /\ \A o \in Mux : o # m => mux'[o] = mux[o]
      /\ k.prio \in [Task -> Prio]
  BY MuxHandEffect, MuxType DEF Kernel
<1> HIDE DEF u
<1>2. base' = base /\ Born' /\ Lent /\ Restored
  BY <1>1 DEF Lends, Born, NoBirth
<1>3. \A o \in Mux : ~Owns(u, o)
  <2> SUFFICES ASSUME NEW o \in Mux, Owns(u, o) PROVE FALSE
    OBVIOUS
  <2>1. o = m
    BY <1>1 DEF OneEach
  <2> QED BY <1>1, <2>1 DEF Owns
<1>4. k.prio[u] = base[u]
  BY <1>1, <1>2, <1>3 DEF Restored
<1>5. Lent'
  <2>1. ASSUME NEW o \in Mux, mux'[o].count > 0 PROVE mux'[o].prio = base[mux'[o].owner]
    <3>1. CASE o # m
      BY <1>1, <1>2, <2>1, <3>1 DEF Lent
    <3>2. CASE o = m
      BY <1>1, <1>4, <3>2
    <3> QED BY <3>1, <3>2
  <2> QED BY <1>2, <2>1 DEF Lent
<1>6. Restored'
  <2> SUFFICES ASSUME NEW t \in Task, ~Has(k', t, "UNUSED"), \A o \in Mux : ~Owns(t, o)'
               PROVE  k'.prio[t] = base[t]
    BY <1>2 DEF Restored
  <2>1. CASE t = k.run
    BY <1>1, <1>2, <2>1 DEF Lent, Owns
  <2>2. CASE t # k.run
    <3>1. k'.prio[t] = k.prio[t] /\ ~Has(k, t, "UNUSED")
      BY <1>1, <2>2 DEF NoBirth
    <3>2. ASSUME NEW o \in Mux, Owns(t, o) PROVE FALSE
      <4>1. o # m
        BY <1>1, <2>2, <3>2 DEF Owns
      <4>2. Owns(t, o)'
        BY <1>1, <3>2, <4>1 DEF Owns
      <4> QED BY <4>2
    <3> QED BY <1>2, <3>1, <3>2 DEF Restored
  <2> QED BY <2>1, <2>2
<1> QED BY <1>2, <1>5, <1>6 DEF Lends

(* LOS_MuxCreate, LOS_MuxDelete, the nested calls, and the ends of LOS_MuxPend. *)
LEMMA QuietLends ==
  ASSUME MuxInv, Lends,
         \/ LOS_MuxCreate \/ MuxPendReturns \/ (WaitSchedules /\ UNCHANGED muxVars)
         \/ \E m \in Mux : LOS_MuxDelete(m) \/ MuxNest(m) \/ MuxUnnest(m)
  PROVE  Quiet /\ Lends' /\ \A m \in Mux : mux[m].count > 0 => mux'[m].owner = mux[m].owner
<1>1. /\ mux \in [Mux -> [used : BOOLEAN, count : 0 .. MaxNest, owner : Task \cup {NoTask},
                          prio : Prio]]
      /\ unused \in Seq(Mux) /\ Blocks
  BY MuxType
<1>2. CASE MuxPendReturns \/ (WaitSchedules /\ UNCHANGED muxVars)
  <2>1. Quiet /\ NoBirth /\ mux' = mux /\ k'.prio = k.prio /\ base' = base
    BY <1>2, PendReturnsQuiet, SchedulesQuiet DEF MuxPendReturns, muxVars, Quiet, NoBirth
  <2>2. Lent'
    BY <2>1 DEF Lends, Lent
  <2>3. \A t \in Task, o \in Mux : Owns(t, o) => Owns(t, o)'
    BY <2>1 DEF Owns
  <2>4. Lends'
    BY <2>1, <2>2, <2>3, LendsKept
  <2> QED BY <2>1, <2>4
<1>3. CASE LOS_MuxCreate
  <2> DEFINE m == Head(unused)
             r == [used |-> TRUE, count |-> 0, owner |-> NoTask, prio |-> 0]
  <2>1. unused # <<>> /\ mux' = [mux EXCEPT ![m] = r] /\ UNCHANGED vars /\ base' = base
    BY <1>3 DEF LOS_MuxCreate
  <2>2. m \in Mux /\ Contains(unused, m)
    BY <1>1, <2>1, TailList
  <2> HIDE DEF m
  <2>3. mux[m].count = 0
    BY <1>1, <2>2 DEF Blocks
  <2>4. mux'[m].count = 0 /\ \A o \in Mux : o # m => mux'[o] = mux[o]
    BY <1>1, <2>1, <2>2
  <2>5. Quiet
    BY <2>1, SameKernelQuiet
  <2>6. Lends'
    BY <2>2, <2>3, <2>4, <2>5, BlockChangeLends
  <2>7. \A o \in Mux : mux[o].count > 0 => mux'[o].owner = mux[o].owner
    BY <2>3, <2>4
  <2> QED BY <2>5, <2>6, <2>7
<1>4. ASSUME NEW m \in Mux, LOS_MuxDelete(m) \/ MuxNest(m) \/ MuxUnnest(m)
      PROVE  Quiet /\ Lends' /\ \A o \in Mux : mux[o].count > 0 => mux'[o].owner = mux[o].owner
  <2>1. UNCHANGED vars /\ base' = base
    BY <1>4 DEF LOS_MuxDelete, MuxNest, MuxUnnest, Posts, vars
  <2>2. Quiet
    BY <2>1, SameKernelQuiet
  <2>3. PICK r : /\ mux' = [mux EXCEPT ![m] = r] /\ r.owner = mux[m].owner /\ r.prio = mux[m].prio
                 /\ (mux[m].count = 0 /\ r.count = 0) \/ (mux[m].count > 0 /\ r.count > 0)
    <3>1. mux[m] \in [used : BOOLEAN, count : 0 .. MaxNest, owner : Task \cup {NoTask}, prio : Prio]
      BY <1>1
    <3>2. CASE LOS_MuxDelete(m)
      <4> DEFINE q == [mux[m] EXCEPT !.used = FALSE]
      <4>1. mux[m].count = 0 /\ mux' = [mux EXCEPT ![m] = q]
        BY <3>2 DEF LOS_MuxDelete
      <4>2. q.owner = mux[m].owner /\ q.prio = mux[m].prio /\ q.count = mux[m].count
        BY <3>1
      <4> HIDE DEF q
      <4> QED BY <4>1, <4>2
    <3>3. ASSUME NEW h \in Int, h > 0, mux[m].count > 0, mux' = [mux EXCEPT ![m].count = h]
          PROVE  \E r : /\ mux' = [mux EXCEPT ![m] = r] /\ r.owner = mux[m].owner
                        /\ r.prio = mux[m].prio /\ mux[m].count > 0 /\ r.count > 0
      <4> DEFINE q == [mux[m] EXCEPT !.count = h]
      <4>1. mux' = [mux EXCEPT ![m] = q]
        BY <3>3
      <4>2. q.owner = mux[m].owner /\ q.prio = mux[m].prio /\ q.count = h
        BY <3>1
      <4> HIDE DEF q
      <4> QED BY <3>3, <4>1, <4>2
    <3>4. mux[m].count \in Int
      BY <3>1
    <3>5. CASE MuxNest(m)
      <4> DEFINE h == mux[m].count + 1
      <4>1. mux[m].count > 0 /\ mux' = [mux EXCEPT ![m].count = h]
        BY <3>5 DEF MuxNest, Owns
      <4>2. h \in Int /\ h > 0
        BY <3>4, <4>1
      <4> HIDE DEF h
      <4> QED BY <3>3, <4>1, <4>2
    <3>6. CASE MuxUnnest(m)
      <4> DEFINE h == mux[m].count - 1
      <4>1. mux[m].count > 1 /\ mux' = [mux EXCEPT ![m].count = h]
        BY <3>6 DEF MuxUnnest
      <4>2. h \in Int /\ h > 0 /\ mux[m].count > 0
        BY <3>4, <4>1
      <4> HIDE DEF h
      <4> QED BY <3>3, <4>1, <4>2
    <3> QED BY <1>4, <3>2, <3>5, <3>6
  <2>6. mux'[m] = r /\ \A o \in Mux : o # m => mux'[o] = mux[o]
    BY <1>1, <2>3
  <2>7. Lends'
    BY <2>2, <2>3, <2>6, BlockChangeLends
  <2>8. \A o \in Mux : mux'[o].owner = mux[o].owner
    BY <2>3, <2>6
  <2> QED BY <2>2, <2>7, <2>8
<1> QED BY <1>2, <1>3, <1>4

LEMMA LendsNext ==
  ASSUME PrioritiesGiven
  PROVE  MuxInv /\ Lends /\ OneEach /\ OneEach' /\ [MuxNext]_allVars => Lends'
<1> SUFFICES ASSUME MuxInv, Lends, OneEach, OneEach', [MuxNext]_allVars PROVE Lends'
  OBVIOUS
<1>1. CASE MuxStep
  <2>1. ~TIMESLICE
    BY DEF PrioritiesGiven, Steady, Tame
  <2> QED BY <1>1, <2>1, QuietLends, MuxTakeLends, MuxBlockLends, MuxFreeLends, MuxHandLends
          DEF MuxStep
<1>2. CASE TaskStep
  BY <1>2, TaskLends
<1>3. CASE UNCHANGED allVars
  <2>1. k' = k /\ pc' = pc /\ mux' = mux /\ base' = base
    BY <1>3 DEF allVars, vars, muxVars
  <2> QED BY <2>1 DEF Lends, Born, Lent, Restored, Owns, Has
<1> QED BY <1>1, <1>2, <1>3 DEF MuxNext

(* An inherited priority is given back: a task that owns no mutex has the priority
   it was created with, whomever it inherited from and whether that task got
   the mutex, timed out or is suspended; as long as no task is busy with two
   mutexes at once.                                                        *)
THEOREM MuxRestoresPriority ==
  ASSUME PrioritiesGiven
  PROVE  MuxSpec /\ []OneEach => []Restored
<1>1. MuxInit => Lends
  BY LendsInit DEF PrioritiesGiven, Steady, Tame
<1>2. MuxInv /\ Lends /\ OneEach /\ OneEach' /\ [MuxNext]_allVars => Lends'
  BY LendsNext
<1>3. MuxSpec => []MuxInv
  BY MuxInvariance DEF PrioritiesGiven
<1>4. Lends => Restored
  BY DEF Lends
<1> QED BY <1>1, <1>2, <1>3, <1>4, PTL DEF MuxSpec

LEMMA InheritsStep ==
  ASSUME PrioritiesGiven, MuxInv, MuxInv', OneEach, MuxNext
  PROVE  \A t \in Task, m \in Mux :
           /\ Contains(k'.wait[m], t) /\ mux'[m].owner = mux[m].owner
           /\ Contains(k.wait[m], t) => k.prio[mux[m].owner] <= k.prio[t]
           => k'.prio[mux[m].owner] <= k'.prio[t]
<1> SUFFICES ASSUME NEW t \in Task, NEW m \in Mux,
                    Contains(k'.wait[m], t), mux'[m].owner = mux[m].owner,
                    Contains(k.wait[m], t) => k.prio[mux[m].owner] <= k.prio[t]
             PROVE  k'.prio[mux[m].owner] <= k'.prio[t]
  OBVIOUS
<1>1. /\ IInv /\ ~k.fault /\ NoneReturns /\ Owners /\ Asking /\ WaitersHaveOwner
      /\ k.prio \in [Task -> Prio] /\ k.wait \in [WaitObj -> Seq(Task)] /\ ~TIMESLICE
      /\ \A p \in Prio : p \in Int
  <2>1. IInv /\ k \in Kernel /\ ~k.fault /\ NoneReturns /\ Owners /\ Asking /\ WaitersHaveOwner
    BY MuxType
  <2>2. k.prio \in [Task -> Prio] /\ k.wait \in [WaitObj -> Seq(Task)]
    BY ONLY <2>1 DEF Kernel
  <2>3. ~TIMESLICE
    BY ONLY PrioritiesGiven DEF PrioritiesGiven, Steady, Tame
  <2>4. \A p \in Prio : p \in Int
    BY TaskAssumption DEF Prio
  <2> QED BY <2>1, <2>2, <2>3, <2>4
<1>2. Contains(k.wait[m], t) => /\ Owns(mux[m].owner, m) /\ mux[m].owner \in Task
                               /\ ~Has(k, t, "UNUSED") /\ ~Has(k, mux[m].owner, "UNUSED")
  <2>1. Contains(k.wait[m], t) => k.wait[m] # <<>>
    BY EmptyList
  <2> QED BY <1>1, <2>1 DEF WaitersHaveOwner, Owners, Asking, Owns
<1>3. ASSUME k'.wait = k.wait, k'.prio = k.prio PROVE k'.prio[mux[m].owner] <= k'.prio[t]
  BY <1>3
<1>4. CASE TaskStep
  <2>1. [Next]_vars /\ ~k'.fault
    BY <1>4, MuxType DEF TaskStep, MuxInv
  <2>2. Contains(k.wait[m], t)
    BY <1>1, <2>1, NextEndures DEF Endures, Mux, PrioritiesGiven
  <2>3. \A u \in Task : LivesOn(u) \/ IsBorn(u)
    BY <1>1, <2>1, NextLives DEF Lives
  <2>4. k'.prio[t] = k.prio[t] /\ k'.prio[mux[m].owner] = k.prio[mux[m].owner]
    BY <1>2, <2>2, <2>3 DEF LivesOn, IsBorn
  <2> QED BY <2>2, <2>4
<1>5. ASSUME NEW o \in Mux, NEW n \in 1 .. Forever, MuxBlock(o, n)
      PROVE  k'.prio[mux[m].owner] <= k'.prio[t]
  <2> DEFINE w == mux[o].owner
  <2>1. /\ Owns(w, o) /\ w \in Task /\ k.run \in Task /\ w # k.run
        /\ k'.prio[w] <= k.prio[w] /\ k'.prio[w] <= k.prio[k.run]
        /\ \A u \in Task : u # w => k'.prio[u] = k.prio[u]
        /\ Contains(k.wait[m], t) \/ (t = k.run /\ m = o)
    BY <1>1, <1>5, MuxBlockEffect
  <2>2. k'.prio \in [Task -> Prio]
    BY MuxType DEF MuxInv, MuxTypeOK, TypeOK, Kernel
  <2>3. CASE Contains(k.wait[m], t)
    <3>1. t # w
      <4>1. m # o \/ t # w
        BY <1>2, <2>1, <2>3, <1>1, EmptyList DEF WaitersHaveOwner
      <4>2. m = o \/ t # w
        BY <2>1, <2>3 DEF OneEach
      <4> QED BY <4>1, <4>2
    <3>2. k'.prio[t] = k.prio[t] /\ k.prio[mux[m].owner] <= k.prio[t]
      BY <2>1, <2>3, <3>1
    <3>3. k'.prio[mux[m].owner] <= k.prio[mux[m].owner]
      <4>1. CASE mux[m].owner = w
        BY <2>1, <4>1
      <4>2. CASE mux[m].owner # w
        <5>1. k'.prio[mux[m].owner] = k.prio[mux[m].owner] /\ k.prio[mux[m].owner] \in Int
          BY <1>1, <1>2, <2>1, <2>3, <4>2
        <5> QED BY <5>1
      <4> QED BY <4>1, <4>2
    <3>4. {k'.prio[mux[m].owner], k.prio[mux[m].owner], k.prio[t]} \subseteq Int
      BY <1>1, <1>2, <2>2, <2>3
    <3> QED BY <3>2, <3>3, <3>4
  <2>4. CASE t = k.run /\ m = o
    BY <2>1, <2>4
  <2> QED BY <2>1, <2>3, <2>4
<1>6. ASSUME NEW o \in Mux, MuxFree(o) PROVE k'.prio[mux[m].owner] <= k'.prio[t]
  <2>1. /\ k.run \in Task /\ Owns(k.run, o) /\ k.wait[o] = <<>> /\ k'.wait = k.wait
        /\ k'.prio = [k.prio EXCEPT ![k.run] = mux[o].prio]
    BY <1>6, MuxFreeEffect
  <2>2. Contains(k.wait[m], t) /\ m # o
    BY <2>1, EmptyList
  <2>3. t # k.run
    BY <1>6, <2>2, CallerHolds DEF MuxFree, Posts
  <2>4. mux[m].owner # k.run
    BY <1>2, <2>1, <2>2 DEF OneEach
  <2> QED BY <1>1, <1>2, <2>1, <2>2, <2>3, <2>4
<1>7. ASSUME NEW o \in Mux, MuxHand(o) PROVE k'.prio[mux[m].owner] <= k'.prio[t]
  <2>1. /\ k.run \in Task /\ Owns(k.run, o) /\ Contains(k.wait[m], t)
        /\ k'.prio = [k.prio EXCEPT ![k.run] = mux[o].prio]
        /\ mux'[o].owner # k.run
    BY <1>7, MuxHandEffect
  <2>2. t # k.run
    BY <1>7, <2>1, CallerHolds DEF MuxHand, Posts
  <2>3. mux[m].owner # k.run
    <3>1. mux[m].owner = k.run => m = o
      BY <1>2, <2>1 DEF OneEach
    <3> QED BY <2>1, <3>1
  <2> QED BY <1>1, <1>2, <2>1, <2>2, <2>3
<1>8. ASSUME NEW o \in Mux, MuxTake(o) PROVE k'.prio[mux[m].owner] <= k'.prio[t]
  <2>1. k' = k
    BY <1>8 DEF MuxTake, vars
  <2> QED BY <2>1
<1>9. ASSUME \/ LOS_MuxCreate \/ MuxPendReturns \/ (WaitSchedules /\ UNCHANGED muxVars)
             \/ \E o \in Mux : LOS_MuxDelete(o) \/ MuxNest(o) \/ MuxUnnest(o)
      PROVE  k'.prio[mux[m].owner] <= k'.prio[t]
  <2>1. k'.wait = k.wait /\ k'.prio = k.prio
    <3>1. CASE LOS_MuxCreate \/ (\E o \in Mux : LOS_MuxDelete(o) \/ MuxNest(o) \/ MuxUnnest(o))
      BY <3>1 DEF LOS_MuxCreate, LOS_MuxDelete, MuxNest, MuxUnnest, Posts, vars
    <3> QED BY <1>9, <3>1, PendReturnsQuiet, SchedulesQuiet DEF Quiet
  <2> QED BY <1>3, <2>1
<1> QED BY <1>4, <1>5, <1>6, <1>7, <1>8, <1>9 DEF MuxNext, MuxStep

(* Whoever begins to wait makes the owner at least as urgent as itself, and neither
   another waiter's timeout nor a suspension nor a switch takes this away
   while the one owns and the other waits.                                 *)
THEOREM MuxInheritsFromNewcomer ==
  ASSUME PrioritiesGiven
  PROVE  MuxSpec /\ []OneEach => InheritsFromNewcomer
<1> DEFINE A == \A t \in Task, m \in Mux :
                  /\ Contains(k'.wait[m], t) /\ mux'[m].owner = mux[m].owner
                  /\ Contains(k.wait[m], t) => k.prio[mux[m].owner] <= k.prio[t]
                  => k'.prio[mux[m].owner] <= k'.prio[t]
<1>1. MuxInv /\ MuxInv' /\ OneEach /\ [MuxNext]_allVars => [A]_allVars
  BY InheritsStep
<1>2. MuxSpec => []MuxInv
  BY MuxInvariance DEF PrioritiesGiven
<1>3. MuxSpec /\ []OneEach => [][A]_allVars
  <2> HIDE DEF A
  <2> QED BY <1>1, <1>2, PTL DEF MuxSpec
<1> QED BY <1>3 DEF InheritsFromNewcomer
=============================================================================
