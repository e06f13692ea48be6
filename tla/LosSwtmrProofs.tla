--------------------------- MODULE LosSwtmrProofs ---------------------------
(***************************************************************************)
(* Proofs about the software timers (LosSwtmr).                            *)
(*                                                                         *)
(* The premise of every theorem is HandlersKeepOut: interrupt handlers may *)
(* create timers while the tick handler has one unlinked, but not start,   *)
(* stop or delete any.  Without it the kernel searches its list for a      *)
(* timer that is not there (run v_swtmr).                                  *)
(*                                                                         *)
(* The order: what Left sums up (the fold unfolded into a row of sums),    *)
(* what each operation on the list does to those sums and to the set of    *)
(* listed timers, the generations of a timer's ids, the inductive          *)
(* invariant SwtmrInv, one lemma per action that keeps it, the invariants  *)
(* and the action property it gives, and the refinement of Alarm.          *)
(***************************************************************************)
EXTENDS LosSwtmr, ListLemmas, FiniteSetTheorems
(***************************************************************************)
(* The relative list.  Left folds over a prefix of it; the first lemma     *)
(* unfolds the fold into a row of sums, for which an induction on the      *)
(* length of the prefix is needed.                                         *)
(***************************************************************************)
Relative(s) == \A j \in 1 .. Len(s) : s[j].count \in Int

LEMMA PrefixSums ==
  ASSUME NEW S, NEW s \in Seq(S), NEW n \in 0 .. Len(s)
  PROVE  \E g : /\ g[0] = 0 /\ Left(s, n) = g[n]
                /\ \A m \in 1 .. n : g[m] = g[m - 1] + s[m].count
<1> DEFINE q == SubSeq(s, 1, n)
           Step(h, T) == IF T = {} THEN 0 ELSE h[T \ {Max(T)}] + q[Max(T)].count
           Fold(h, m) == h = [T \in SUBSET (1 .. m) |-> Step(h, T)]
<1>1. n \in Nat /\ DOMAIN q = 1 .. n /\ \A m \in 1 .. n : q[m] = s[m]
  OBVIOUS
<1>2. Left(s, n) = (CHOOSE h : Fold(h, n))[1 .. n]
  BY <1>1 DEF Left, FoldLeft, MapThenFoldSet
<1> HIDE DEF q
<1>3. ASSUME NEW m \in Nat PROVE \E h : Fold(h, m)
  <2> DEFINE B == {l \in Nat : ~ \E h : Fold(h, l)}
  <2>1. SUFFICES ASSUME B # {} PROVE FALSE
    OBVIOUS
  <2>2. PICK l \in B : \A i \in B : l <= i
    BY <2>1, LeastNatural
  <2>3. CASE l = 0
    <3>1. \A T \in SUBSET (1 .. 0) : T = {}
      OBVIOUS
    <3>2. Fold([T \in SUBSET (1 .. 0) |-> 0], 0)
      BY <3>1
    <3> QED BY <2>2, <2>3, <3>2
  <2>4. CASE l # 0
    <3>1. l \in Nat /\ l - 1 \in Nat /\ l - 1 \notin B
      <4> HIDE DEF Fold
      <4>1. l \in Nat
        BY <2>2
      <4>2. l - 1 \in Nat /\ ~(l <= l - 1)
        BY <2>4, <4>1
      <4> QED BY <2>2, <4>1, <4>2
    <3>2. PICK h : Fold(h, l - 1)
      BY <3>1
    <3> DEFINE i == [T \in SUBSET (1 .. l) |->
                       IF l \in T THEN h[T \ {l}] + q[l].count ELSE h[T]]
               j == [T \in SUBSET (1 .. l) |-> Step(i, T)]
    <3>3. \A T \in SUBSET (1 .. l - 1) :
            /\ h[T] = Step(h, T) /\ i[T] = h[T]
            /\ T # {} => T \ {Max(T)} \in SUBSET (1 .. l - 1)
      <4>1. \A T \in SUBSET (1 .. l - 1) : T \in SUBSET (1 .. l) /\ l \notin T
        BY <3>1
      <4> QED BY <3>2, <4>1
    <3>4. ASSUME NEW T \in SUBSET (1 .. l) PROVE i[T] = j[T]
      <4>1. CASE l \in T
        <5>1. Max(T) = l /\ T \ {l} \in SUBSET (1 .. l - 1)
          BY <3>1, <4>1, MaxUpTo
        <5>2. i[T] = h[T \ {l}] + q[l].count /\ T # {} /\ i[T \ {l}] = h[T \ {l}]
          BY <3>3, <4>1, <5>1
        <5> QED BY <5>1, <5>2
      <4>2. CASE l \notin T
        <5>1. T \in SUBSET (1 .. l - 1)
          BY <3>1, <4>2, MaxUpTo
        <5>2. i[T] = Step(h, T) /\ (T # {} => i[T \ {Max(T)}] = h[T \ {Max(T)}])
          BY <3>3, <5>1
        <5> QED BY <5>2
      <4> QED BY <4>1, <4>2
    <3>5. i = j
      <4>1. i = [T \in SUBSET (1 .. l) |-> i[T]] /\ j = [T \in SUBSET (1 .. l) |-> j[T]]
        OBVIOUS
      <4> HIDE DEF i, j
      <4> QED BY <3>4, <4>1
    <3>6. Fold(i, l)
      BY <3>5
    <3> QED BY <2>2, <3>6
  <2> QED BY <2>3, <2>4
<1> DEFINE h == CHOOSE h : Fold(h, n)
<1>4. Fold(h, n)
  BY <1>1, <1>3
<1> HIDE DEF h
<1>5. \A T \in SUBSET (1 .. n) : h[T] = Step(h, T)
  BY <1>4
<1> DEFINE g == [m \in 0 .. n |-> h[1 .. m]]
<1>6. g[0] = 0
  <2>1. 1 .. 0 = {} /\ {} \in SUBSET (1 .. n) /\ 0 \in 0 .. n
    BY <1>1
  <2>2. h[{}] = 0
    BY <1>5, <2>1
  <2> QED BY <2>1, <2>2
<1>7. ASSUME NEW m \in 1 .. n PROVE g[m] = g[m - 1] + s[m].count
  <2>1. 1 .. m \in SUBSET (1 .. n) /\ m \in 1 .. m /\ m \in 0 .. n /\ m - 1 \in 0 .. n /\ m \in Nat
    <3> HIDE DEF g
    <3>1. n \in Nat
      BY <1>1
    <3>2. m \in Nat /\ 1 <= m /\ m <= n
      BY <3>1
    <3> QED BY <3>1, <3>2
  <2>2. Max(1 .. m) = m /\ (1 .. m) \ {m} = 1 .. m - 1
    BY <2>1, MaxUpTo
  <2>3. h[1 .. m] = h[1 .. m - 1] + q[m].count
    BY <1>5, <2>1, <2>2
  <2> QED BY <1>1, <2>1, <2>3
<1>8. Left(s, n) = g[n]
  BY <1>1, <1>2 DEF h
<1> HIDE DEF g
<1> QED BY <1>6, <1>7, <1>8

(* Two rows that begin alike and go on alike are alike. *)
LEMMA SameRows ==
  ASSUME NEW n \in Nat, NEW f, NEW g, f[0] = g[0],
         \A m \in 1 .. n : f[m - 1] = g[m - 1] => f[m] = g[m]
  PROVE  \A m \in 0 .. n : f[m] = g[m]
<1> DEFINE B == {m \in 0 .. n : f[m] # g[m]}
<1>1. SUFFICES ASSUME B # {} PROVE FALSE
  OBVIOUS
<1>2. PICK l \in B : \A i \in B : l <= i
  <2>1. B \in SUBSET Nat
    OBVIOUS
  <2> HIDE DEF B
  <2> QED BY <1>1, <2>1, LeastNatural
<1>3. l \in 1 .. n /\ l - 1 \in 0 .. n /\ ~(l <= l - 1)
  BY <1>2
<1>4. f[l - 1] = g[l - 1]
  BY <1>2, <1>3
<1> QED BY <1>2, <1>3, <1>4

(* What Left is: 0, and then the counts added one by one. *)
LEMMA LeftSteps ==
  ASSUME NEW S, NEW s \in Seq(S)
  PROVE  Left(s, 0) = 0 /\ \A n \in 1 .. Len(s) : Left(s, n) = Left(s, n - 1) + s[n].count
<1>1. Left(s, 0) = 0
  BY PrefixSums
<1>2. ASSUME NEW n \in 1 .. Len(s) PROVE Left(s, n) = Left(s, n - 1) + s[n].count
  <2>1. n \in 0 .. Len(s) /\ n - 1 \in 0 .. Len(s) /\ n - 1 \in Nat /\ n - 1 \in 0 .. n - 1 /\ n \in 1 .. n
    OBVIOUS
  <2>2. PICK f : /\ f[0] = 0 /\ Left(s, n) = f[n]
                 /\ \A m \in 1 .. n : f[m] = f[m - 1] + s[m].count
    BY <2>1, PrefixSums
  <2>3. PICK g : /\ g[0] = 0 /\ Left(s, n - 1) = g[n - 1]
                 /\ \A m \in 1 .. n - 1 : g[m] = g[m - 1] + s[m].count
    BY <2>1, PrefixSums
  <2>4. \A m \in 1 .. n - 1 : f[m - 1] = g[m - 1] => f[m] = g[m]
    <3>1. \A m \in 1 .. n - 1 : m \in 1 .. n
      OBVIOUS
    <3> QED BY <2>2, <2>3, <3>1
  <2>5. \A m \in 0 .. n - 1 : f[m] = g[m]
    <3>1. n - 1 \in Nat /\ f[0] = g[0]
      BY <2>1, <2>2, <2>3
    <3> QED BY <2>4, <3>1, SameRows
  <2>6. f[n - 1] = g[n - 1] /\ f[n] = f[n - 1] + s[n].count
    BY <2>1, <2>2, <2>5
  <2> QED BY <2>2, <2>3, <2>6
<1> QED BY <1>1, <1>2

(* A row with these steps is Left. *)
LEMMA LeftIs ==
  ASSUME NEW S, NEW s \in Seq(S), NEW g
  PROVE  g[0] = 0 /\ (\A m \in 1 .. Len(s) : g[m] = g[m - 1] + s[m].count)
           => \A m \in 0 .. Len(s) : Left(s, m) = g[m]
<1>0. PICK n \in Nat : n = Len(s)
  OBVIOUS
<1>1. PICK f : \A m \in 0 .. n : f[m] = Left(s, m)
  <2>1. \A m \in 0 .. n : [l \in 0 .. n |-> Left(s, l)][m] = Left(s, m)
    OBVIOUS
  <2> QED BY <2>1
<1>2. ASSUME g[0] = 0, \A m \in 1 .. n : g[m] = g[m - 1] + s[m].count
      PROVE  \A m \in 0 .. n : f[m] = g[m]
  <2>1. f[0] = g[0]
    BY <1>1, <1>2, LeftSteps
  <2>2. \A m \in 1 .. n : f[m - 1] = g[m - 1] => f[m] = g[m]
    <3>1. \A m \in 1 .. n : m \in 0 .. n /\ m - 1 \in 0 .. n
      OBVIOUS
    <3> QED BY <1>0, <1>1, <1>2, <3>1, LeftSteps
  <2>3. n \in Nat
    OBVIOUS
  <2> QED BY ONLY <2>1, <2>2, <2>3, SameRows
<1> QED BY <1>0, <1>1, <1>2
(***************************************************************************)
(* What the operations on the list do to the ticks that are left.          *)
(***************************************************************************)
Node == [timer : Timer, count : Int]
Rising(s) == \A j \in 1 .. Len(s) : s[j].count >= 0

LEMMA Sums ==
  ASSUME NEW s \in Seq(Node)
  PROVE  /\ Left(s, 0) = 0
         /\ \A m \in 1 .. Len(s) :
              /\ s[m].timer \in Timer /\ s[m].count \in Int
              /\ Left(s, m) = Left(s, m - 1) + s[m].count
<1>1. \A m \in 1 .. Len(s) : s[m] \in Node
  OBVIOUS
<1>2. \A m \in 1 .. Len(s) : s[m].timer \in Timer /\ s[m].count \in Int
  BY <1>1 DEF Node
<1> QED BY <1>2, LeftSteps

LEMMA LeftType ==
  ASSUME NEW s \in Seq(Node)
  PROVE  /\ \A m \in 0 .. Len(s) : Left(s, m) \in Int
         /\ Rising(s) => \A m \in 0 .. Len(s) : Left(s, m) >= 0
<1> DEFINE B == {m \in 0 .. Len(s) : Left(s, m) \notin Int}
           C == {m \in 0 .. Len(s) : ~(Left(s, m) >= 0)}
<1>1. \A m \in 1 .. Len(s) : s[m].count \in Int /\ Left(s, m) = Left(s, m - 1) + s[m].count
  BY Sums
<1>2. Left(s, 0) = 0
  BY Sums
<1>3. B = {}
  <2>1. SUFFICES ASSUME B # {} PROVE FALSE
    OBVIOUS
  <2>2. PICK l \in B : \A i \in B : l <= i
    <3>1. B \in SUBSET Nat
      OBVIOUS
    <3> HIDE DEF B
    <3> QED BY <2>1, <3>1, LeastNatural
  <2>3. l \in 1 .. Len(s) /\ l - 1 \in 0 .. Len(s) /\ ~(l <= l - 1)
    BY <1>2, <2>2
  <2>4. Left(s, l - 1) \in Int
    BY <2>2, <2>3
  <2> QED BY <1>1, <2>2, <2>3, <2>4
<1>4. ASSUME Rising(s) PROVE C = {}
  <2>1. SUFFICES ASSUME C # {} PROVE FALSE
    OBVIOUS
  <2>2. PICK l \in C : \A i \in C : l <= i
    <3>1. C \in SUBSET Nat
      OBVIOUS
    <3> HIDE DEF C
    <3> QED BY <2>1, <3>1, LeastNatural
  <2>3. l \in 1 .. Len(s) /\ l - 1 \in 0 .. Len(s) /\ ~(l <= l - 1)
    BY <1>2, <2>2
  <2>4. Left(s, l - 1) >= 0 /\ Left(s, l - 1) \in Int
    BY <1>3, <2>2, <2>3
  <2> QED BY <1>1, <1>4, <2>2, <2>3, <2>4 DEF Rising
<1> QED BY <1>3, <1>4

(* A timer rings no earlier than one before it. *)
LEMMA LeftRises ==
  ASSUME NEW s \in Seq(Node), Rising(s), NEW l \in 0 .. Len(s)
  PROVE  \A m \in l .. Len(s) : Left(s, l) <= Left(s, m)
<1> DEFINE B == {m \in l .. Len(s) : ~(Left(s, l) <= Left(s, m))}
<1>1. SUFFICES ASSUME B # {} PROVE FALSE
  OBVIOUS
<1>2. PICK b \in B : \A i \in B : b <= i
  <2>1. B \in SUBSET Nat
    OBVIOUS
  <2> HIDE DEF B
  <2> QED BY <1>1, <2>1, LeastNatural
<1>3. \A m \in 0 .. Len(s) : Left(s, m) \in Int
  BY LeftType
<1>4. b # l
  BY <1>2, <1>3
<1>5. b \in 1 .. Len(s) /\ b - 1 \in l .. Len(s) /\ ~(b <= b - 1) /\ b - 1 \in 0 .. Len(s) /\ b \in 0 .. Len(s)
  BY <1>2, <1>4
<1>6. Left(s, l) <= Left(s, b - 1)
  BY <1>2, <1>5
<1>7. Left(s, b) = Left(s, b - 1) + s[b].count /\ s[b].count >= 0 /\ s[b].count \in Int
  BY <1>5, Sums DEF Rising
<1> QED BY <1>2, <1>3, <1>5, <1>6, <1>7

LEMMA PlusList ==
  ASSUME NEW s \in Seq(Node), NEW j \in 1 .. Len(s) + 1, NEW c \in Int
  PROVE  /\ Plus(s, j, c) \in Seq(Node) /\ Len(Plus(s, j, c)) = Len(s)
         /\ \A m \in 1 .. Len(s) :
              /\ Plus(s, j, c)[m].timer = s[m].timer
              /\ Plus(s, j, c)[m].count = IF m = j THEN s[m].count + c ELSE s[m].count
<1>1. CASE j > Len(s)
  BY <1>1 DEF Plus
<1>2. CASE j <= Len(s)
  <2> DEFINE e == [s[j] EXCEPT !.count = @ + c]
  <2>1. j \in 1 .. Len(s) /\ s[j] \in Node
    BY <1>2
  <2>2. e \in Node /\ e.timer = s[j].timer /\ e.count = s[j].count + c
    BY <2>1 DEF Node
  <2>3. Plus(s, j, c) = [s EXCEPT ![j] = e]
    BY <1>2 DEF Plus
  <2> HIDE DEF e
  <2> QED BY <2>1, <2>2, <2>3
<1> QED BY <1>1, <1>2

(* r is s with timer i behind those that ring no later than in n ticks, at j + 1. *)
StartsAt(s, r, i, n, j) ==
  /\ r \in Seq(Node) /\ Len(r) = Len(s) + 1 /\ Rising(r)
  /\ \A m \in 1 .. j : Left(s, m) <= n
  /\ \A m \in j + 1 .. Len(s) : Left(s, m) > n
  /\ \A m \in 1 .. Len(s) + 1 :
       /\ r[m].timer = IF m <= j THEN s[m].timer ELSE IF m = j + 1 THEN i ELSE s[m - 1].timer
       /\ Left(r, m) = IF m <= j THEN Left(s, m) ELSE IF m = j + 1 THEN n ELSE Left(s, m - 1)

(* osSwTmrStart puts the timer behind those that ring no later and before the
   others, and disturbs none of them.                                      *)
LEMMA StartRow ==
  ASSUME NEW s \in Seq(Node), Rising(s), NEW i \in Timer, NEW n \in Nat
  PROVE  \E j \in 0 .. Len(s) : StartsAt(s, osSwTmrStart(s, i, n), i, n, j)
<1> DEFINE T == {0} \cup {m \in 1 .. Len(s) : Left(s, m) <= n}
           j == Max(T)
           c == n - Left(s, j)
           e == [timer |-> i, count |-> c]
           u == Plus(s, j + 1, -c)
           r == osSwTmrStart(s, i, n)
<1>1. j \in T /\ \A m \in T : m <= j
  <2>1. T \in SUBSET Nat /\ T # {} /\ Len(s) \in Nat /\ \A m \in T : m <= Len(s)
    OBVIOUS
  <2> HIDE DEF T
  <2> QED BY <2>1, MaxFacts
<1>2. r = InsertAt(u, j + 1, e)
  BY DEF osSwTmrStart
<1>3. Left(s, 0) = 0 /\ \A m \in 0 .. Len(s) : Left(s, m) \in Int
  BY Sums, LeftType
<1> HIDE DEF j
<1>4. /\ j \in 0 .. Len(s) /\ Left(s, j) <= n
      /\ \A m \in 1 .. Len(s) : m > j => Left(s, m) > n
  <2>1. j \in 0 .. Len(s) /\ Left(s, j) <= n
    BY <1>1, <1>3
  <2>2. ASSUME NEW m \in 1 .. Len(s), m > j PROVE Left(s, m) > n
    <3>1. m \notin T
      BY <1>1, <2>1, <2>2
    <3>2. ~(Left(s, m) <= n)
      BY <3>1
    <3> QED BY <1>3, <3>2
  <2> QED BY <2>1, <2>2
<1> HIDE DEF T
<1>5. \A m \in 1 .. j : Left(s, m) <= n
  <2>1. ASSUME NEW m \in 1 .. j PROVE Left(s, m) <= n
    <3>1. m \in 0 .. Len(s) /\ j \in m .. Len(s)
      BY <1>4
    <3>2. Left(s, m) <= Left(s, j)
      BY <3>1, LeftRises
    <3> QED BY <1>3, <1>4, <3>1, <3>2
  <2> QED BY <2>1
<1>6. \A m \in j + 1 .. Len(s) : Left(s, m) > n
  BY <1>4
<1>7. c \in Int /\ c >= 0 /\ e \in Node /\ j + 1 \in 1 .. Len(s) + 1
  BY <1>3, <1>4 DEF Node
<1>8. /\ u \in Seq(Node) /\ Len(u) = Len(s)
      /\ \A m \in 1 .. Len(s) :
           /\ u[m].timer = s[m].timer
           /\ u[m].count = IF m = j + 1 THEN s[m].count - c ELSE s[m].count
  <2>1. -c \in Int
    BY <1>7
  <2>2. /\ u \in Seq(Node) /\ Len(u) = Len(s)
        /\ \A m \in 1 .. Len(s) :
             /\ u[m].timer = s[m].timer
             /\ u[m].count = IF m = j + 1 THEN s[m].count + -c ELSE s[m].count
    BY <1>7, <2>1, PlusList
  <2>3. \A m \in 1 .. Len(s) : s[m].count \in Int
    BY Sums
  <2> QED BY <1>7, <2>2, <2>3
<1> HIDE DEF u, r
<1>9. /\ r \in Seq(Node) /\ Len(r) = Len(s) + 1
      /\ \A m \in 1 .. Len(s) + 1 : r[m] = IF m < j + 1 THEN u[m] ELSE IF m = j + 1 THEN e ELSE u[m - 1]
  <2>1. u \in Seq(Node) /\ e \in Node /\ j + 1 \in 1 .. Len(u) + 1 /\ Len(u) = Len(s)
    BY <1>7, <1>8
  <2> DEFINE p == j + 1
             q == InsertAt(u, p, e)
  <2> HIDE DEF e, p
  <2>2. /\ q \in Seq(Node) /\ Len(q) = Len(u) + 1
        /\ \A m \in 1 .. Len(u) + 1 : q[m] = IF m < p THEN u[m] ELSE IF m = p THEN e ELSE u[m - 1]
    <3>1. p \in 1 .. Len(u) + 1
      BY <2>1 DEF p
    <3> QED BY <2>1, <3>1, InsertList
  <2> QED BY <1>2, <2>1, <2>2 DEF p
<1>10. e.timer = i /\ e.count = c
  OBVIOUS
<1> HIDE DEF e
<1>11. ASSUME NEW m \in 1 .. Len(s) + 1
       PROVE  /\ r[m].timer = IF m <= j THEN s[m].timer ELSE IF m = j + 1 THEN i ELSE s[m - 1].timer
              /\ r[m].count = IF m <= j THEN s[m].count ELSE IF m = j + 1 THEN c
                              ELSE IF m = j + 2 THEN s[m - 1].count - c ELSE s[m - 1].count
  <2>1. CASE m <= j
    <3>1. m \in 1 .. Len(s) /\ m < j + 1 /\ m # j + 1
      BY <1>4, <2>1
    <3> QED BY <1>8, <1>9, <2>1, <3>1
  <2>2. CASE m = j + 1
    <3>1. ~(m <= j) /\ ~(m < j + 1)
      BY <1>4, <2>2
    <3> QED BY <1>9, <1>10, <2>2, <3>1
  <2>3. CASE m > j + 1
    <3>1. m - 1 \in 1 .. Len(s) /\ ~(m <= j) /\ ~(m < j + 1) /\ m # j + 1 /\ (m - 1 = j + 1 <=> m = j + 2)
      BY <1>4, <2>3
    <3> QED BY <1>8, <1>9, <3>1
  <2> QED BY <1>4, <2>1, <2>2, <2>3
<1> DEFINE g == [m \in 0 .. Len(s) + 1 |->
                   IF m <= j THEN Left(s, m) ELSE IF m = j + 1 THEN n ELSE Left(s, m - 1)]
<1>12. g[0] = 0
  BY <1>3, <1>4
<1>13. ASSUME NEW m \in 1 .. Len(s) + 1 PROVE g[m] = g[m - 1] + r[m].count
  <2>1. \A l \in 1 .. Len(s) : s[l].count \in Int /\ Left(s, l) = Left(s, l - 1) + s[l].count
    BY Sums
  <2>2. m \in 0 .. Len(s) + 1 /\ m - 1 \in 0 .. Len(s) + 1
    OBVIOUS
  <2>3. CASE m <= j
    <3>1. m \in 1 .. Len(s) /\ m - 1 <= j
      BY <1>4, <2>3
    <3> QED BY <1>11, <2>1, <2>2, <2>3, <3>1
  <2>4. CASE m = j + 1
    <3>1. g[m] = n /\ g[m - 1] = Left(s, j) /\ r[m].count = c
      BY <1>4, <1>11, <2>2, <2>4
    <3> QED BY <1>3, <1>4, <3>1
  <2>5. CASE m = j + 2
    <3>1. m - 1 \in 1 .. Len(s) /\ m - 1 = j + 1
      BY <1>4, <2>5
    <3>2. g[m] = Left(s, j + 1) /\ g[m - 1] = n /\ r[m].count = s[j + 1].count - c
      BY <1>4, <1>11, <2>2, <2>5, <3>1
    <3>3. Left(s, j + 1) = Left(s, j) + s[j + 1].count /\ s[j + 1].count \in Int
      BY <1>4, <2>1, <3>1
    <3> QED BY <1>3, <1>4, <3>2, <3>3
  <2>6. CASE m > j + 2
    <3>1. m - 1 \in 1 .. Len(s) /\ ~(m <= j) /\ ~(m - 1 <= j) /\ m # j + 1 /\ m - 1 # j + 1 /\ m # j + 2
      BY <1>4, <2>6
    <3>2. g[m] = Left(s, m - 1) /\ g[m - 1] = Left(s, m - 1 - 1) /\ r[m].count = s[m - 1].count
      BY <1>11, <2>2, <3>1
    <3> QED BY <2>1, <3>1, <3>2
  <2> QED BY <1>4, <2>3, <2>4, <2>5, <2>6
<1>14. \A m \in 0 .. Len(s) + 1 :
         g[m] = IF m <= j THEN Left(s, m) ELSE IF m = j + 1 THEN n ELSE Left(s, m - 1)
  OBVIOUS
<1> HIDE DEF g
<1>15. \A m \in 0 .. Len(s) + 1 : Left(r, m) = g[m]
  <2>1. r \in Seq(Node) /\ Len(r) = Len(s) + 1
    BY <1>9
  <2>2. \A m \in 1 .. Len(r) : g[m] = g[m - 1] + r[m].count
    BY <1>13, <2>1
  <2>3. \A m \in 0 .. Len(r) : Left(r, m) = g[m]
    BY <1>12, <2>1, <2>2, LeftIs
  <2> QED BY <2>1, <2>3
<1>16. Rising(r)
  <2>1. ASSUME NEW m \in 1 .. Len(s) + 1 PROVE r[m].count >= 0
    <3>1. CASE m = j + 2
      <4>1. m - 1 \in 1 .. Len(s) /\ m - 1 = j + 1
        BY <1>4, <3>1
      <4>2. r[m].count = s[j + 1].count - c
        BY <1>4, <1>11, <3>1, <4>1
      <4>3. Left(s, j + 1) = Left(s, j) + s[j + 1].count /\ s[j + 1].count \in Int /\ Left(s, j + 1) > n
        <5>1. j + 1 \in 1 .. Len(s) /\ j + 1 - 1 = j /\ j + 1 > j
          BY <1>4, <4>1
        <5> QED BY <1>4, <5>1, Sums
      <4> QED BY <1>3, <1>4, <4>2, <4>3
    <3>2. CASE m # j + 2
      <4>1. \A l \in 1 .. Len(s) : s[l].count >= 0
        BY DEF Rising
      <4>2. m <= j \/ m = j + 1 \/ (m - 1 \in 1 .. Len(s) /\ ~(m <= j) /\ m # j + 1)
        BY <1>4
      <4>3. m <= j => m \in 1 .. Len(s)
        BY <1>4
      <4> QED BY <1>7, <1>11, <3>2, <4>1, <4>2, <4>3
    <3> QED BY <3>1, <3>2
  <2> QED BY <1>9, <2>1 DEF Rising
<1>17. \A m \in 1 .. Len(s) + 1 :
         Left(r, m) = IF m <= j THEN Left(s, m) ELSE IF m = j + 1 THEN n ELSE Left(s, m - 1)
  <2>1. \A m \in 1 .. Len(s) + 1 : m \in 0 .. Len(s) + 1
    OBVIOUS
  <2> QED BY <1>14, <1>15, <2>1
<1>18. /\ r \in Seq(Node) /\ Len(r) = Len(s) + 1 /\ Rising(r) /\ j \in 0 .. Len(s)
       /\ \A m \in 1 .. Len(s) + 1 :
            r[m].timer = IF m <= j THEN s[m].timer ELSE IF m = j + 1 THEN i ELSE s[m - 1].timer
  BY <1>4, <1>9, <1>11, <1>16
<1> HIDE DEF c
<1>19. StartsAt(s, r, i, n, j)
  BY <1>5, <1>6, <1>17, <1>18 DEF StartsAt
<1> QED BY <1>4, <1>19 DEF r

(* osSwtmrStop takes the timer out and disturbs none behind it. *)
LEMMA StopRow ==
  ASSUME NEW s \in Seq(Node), Rising(s), NEW i, Place(s, i) \in 1 .. Len(s)
  PROVE  LET r == osSwtmrStop(s, i)
             j == Place(s, i)
         IN /\ r \in Seq(Node) /\ Len(r) = Len(s) - 1 /\ Rising(r)
            /\ \A m \in 1 .. Len(s) - 1 :
                 /\ r[m].timer = IF m < j THEN s[m].timer ELSE s[m + 1].timer
                 /\ Left(r, m) = IF m < j THEN Left(s, m) ELSE Left(s, m + 1)
<1> DEFINE j == Place(s, i)
           c == s[j].count
           u == Plus(s, j + 1, c)
           r == osSwtmrStop(s, i)
<1>1. r = RemoveAt(u, j)
  BY DEF osSwtmrStop
<1>2. \A m \in 1 .. Len(s) : /\ s[m].count \in Int /\ s[m].count >= 0
                             /\ Left(s, m) = Left(s, m - 1) + s[m].count
  BY Sums DEF Rising
<1>3. Left(s, 0) = 0 /\ \A m \in 0 .. Len(s) : Left(s, m) \in Int
  BY Sums, LeftType
<1>4. j \in 1 .. Len(s)
  OBVIOUS
<1> HIDE DEF j
<1>5. c \in Int /\ c >= 0 /\ j + 1 \in 1 .. Len(s) + 1 /\ Left(s, j) = Left(s, j - 1) + c
  BY <1>2, <1>4
<1>6. /\ u \in Seq(Node) /\ Len(u) = Len(s)
      /\ \A m \in 1 .. Len(s) :
           /\ u[m].timer = s[m].timer
           /\ u[m].count = IF m = j + 1 THEN s[m].count + c ELSE s[m].count
  BY <1>5, PlusList
<1> HIDE DEF c, u, r
<1>7. /\ r \in Seq(Node) /\ Len(r) = Len(s) - 1
      /\ \A m \in 1 .. Len(s) - 1 : r[m] = IF m < j THEN u[m] ELSE u[m + 1]
  <2>1. u \in Seq(Node) /\ j \in 1 .. Len(u)
    BY <1>4, <1>6
  <2>2. /\ RemoveAt(u, j) \in Seq(Node) /\ Len(RemoveAt(u, j)) = Len(u) - 1
        /\ \A m \in 1 .. Len(u) - 1 : RemoveAt(u, j)[m] = IF m < j THEN u[m] ELSE u[m + 1]
    BY <2>1, RemoveAtList
  <2> QED BY <1>1, <1>6, <2>2
<1>8. ASSUME NEW m \in 1 .. Len(s) - 1
      PROVE  /\ r[m].timer = IF m < j THEN s[m].timer ELSE s[m + 1].timer
             /\ r[m].count = IF m < j THEN s[m].count
                             ELSE IF m = j THEN s[m + 1].count + c ELSE s[m + 1].count
  <2>1. m \in 1 .. Len(s) /\ m + 1 \in 1 .. Len(s) /\ (m < j => m # j + 1) /\ (m + 1 = j + 1 <=> m = j)
    BY <1>4
  <2> QED BY <1>6, <1>7, <2>1
<1> DEFINE g == [m \in 0 .. Len(s) - 1 |-> IF m < j THEN Left(s, m) ELSE Left(s, m + 1)]
<1>9. \A m \in 0 .. Len(s) - 1 : g[m] = IF m < j THEN Left(s, m) ELSE Left(s, m + 1)
  OBVIOUS
<1>10. g[0] = 0
  <2>1. 0 \in 0 .. Len(s) - 1 /\ 0 < j
    BY <1>4
  <2> QED BY <1>3, <1>9, <2>1
<1> HIDE DEF g
<1>11. ASSUME NEW m \in 1 .. Len(s) - 1 PROVE g[m] = g[m - 1] + r[m].count
  <2>1. /\ m \in 1 .. Len(s) /\ m + 1 \in 1 .. Len(s) /\ m + 1 - 1 = m
        /\ m \in 0 .. Len(s) - 1 /\ m - 1 \in 0 .. Len(s) - 1 /\ m - 1 + 1 = m
    OBVIOUS
  <2>2. CASE m < j
    <3>1. m - 1 < j
      BY <1>4, <2>2
    <3> QED BY <1>2, <1>8, <1>9, <2>1, <2>2, <3>1
  <2>3. CASE m = j
    <3>1. g[m] = Left(s, m + 1) /\ g[m - 1] = Left(s, m - 1) /\ r[m].count = s[m + 1].count + c
      BY <1>4, <1>8, <1>9, <2>1, <2>3
    <3>2. Left(s, m + 1) = Left(s, m) + s[m + 1].count /\ s[m + 1].count \in Int
      BY <1>2, <2>1
    <3>3. Left(s, m) = Left(s, m - 1) + c /\ Left(s, m - 1) \in Int
      BY <1>3, <1>5, <2>1, <2>3
    <3> QED BY <1>5, <3>1, <3>2, <3>3
  <2>4. CASE m > j
    <3>1. ~(m < j) /\ ~(m - 1 < j) /\ m # j
      BY <1>4, <2>4
    <3>2. g[m] = Left(s, m + 1) /\ g[m - 1] = Left(s, m) /\ r[m].count = s[m + 1].count
      BY <1>8, <1>9, <2>1, <3>1
    <3> QED BY <1>2, <2>1, <3>2
  <2> QED BY <1>4, <2>2, <2>3, <2>4
<1>12. \A m \in 0 .. Len(s) - 1 : Left(r, m) = g[m]
  <2>1. r \in Seq(Node) /\ Len(r) = Len(s) - 1
    BY <1>7
  <2>2. \A m \in 1 .. Len(r) : g[m] = g[m - 1] + r[m].count
    BY <1>11, <2>1
  <2>3. \A m \in 0 .. Len(r) : Left(r, m) = g[m]
    BY <1>10, <2>1, <2>2, LeftIs
  <2> QED BY <2>1, <2>3
<1>13. Rising(r)
  <2>1. ASSUME NEW m \in 1 .. Len(s) - 1 PROVE r[m].count >= 0
    <3>1. m \in 1 .. Len(s) /\ m + 1 \in 1 .. Len(s)
      OBVIOUS
    <3>2. /\ s[m].count \in Int /\ s[m].count >= 0
          /\ s[m + 1].count \in Int /\ s[m + 1].count >= 0 /\ s[m + 1].count + c >= 0
      BY <1>2, <1>5, <3>1
    <3>3. r[m].count \in {s[m].count, s[m + 1].count + c, s[m + 1].count}
      BY <1>8
    <3> QED BY <3>2, <3>3
  <2> QED BY <1>7, <2>1 DEF Rising
<1>14. \A m \in 1 .. Len(s) - 1 :
         /\ r[m].timer = IF m < j THEN s[m].timer ELSE s[m + 1].timer
         /\ Left(r, m) = IF m < j THEN Left(s, m) ELSE Left(s, m + 1)
  <2>1. \A m \in 1 .. Len(s) - 1 : m \in 0 .. Len(s) - 1
    OBVIOUS
  <2> QED BY <1>8, <1>9, <1>12, <2>1
<1> QED BY <1>7, <1>13, <1>14 DEF r, j

(* A tick counts at the first timer and so for all. *)
LEMMA TickRow ==
  ASSUME NEW s \in Seq(Node), s # <<>>
  PROVE  LET r == Plus(s, 1, -1)
         IN /\ r \in Seq(Node) /\ Len(r) = Len(s) /\ r # <<>>
            /\ Rising(s) /\ s[1].count > 0 => Rising(r)
            /\ \A m \in 1 .. Len(s) : r[m].timer = s[m].timer /\ Left(r, m) = Left(s, m) - 1
<1> DEFINE r == Plus(s, 1, -1)
           g == [m \in 0 .. Len(s) |-> IF m = 0 THEN 0 ELSE Left(s, m) - 1]
<1>1. Len(s) \in Nat /\ Len(s) > 0 /\ 1 \in 1 .. Len(s) + 1 /\ -1 \in Int /\ 1 \in 1 .. Len(s)
  OBVIOUS
<1>2. \A m \in 1 .. Len(s) : s[m].count \in Int /\ Left(s, m) = Left(s, m - 1) + s[m].count
  BY Sums
<1>3. Left(s, 0) = 0 /\ \A m \in 0 .. Len(s) : Left(s, m) \in Int
  BY Sums, LeftType
<1>4. /\ r \in Seq(Node) /\ Len(r) = Len(s)
      /\ \A m \in 1 .. Len(s) :
           /\ r[m].timer = s[m].timer
           /\ r[m].count = IF m = 1 THEN s[m].count + -1 ELSE s[m].count
  BY <1>1, PlusList
<1>5. g[0] = 0 /\ \A m \in 1 .. Len(s) : g[m] = Left(s, m) - 1
  OBVIOUS
<1> HIDE DEF r, g
<1>6. ASSUME NEW m \in 1 .. Len(s) PROVE g[m] = g[m - 1] + r[m].count
  <2>1. CASE m = 1
    BY <1>1, <1>2, <1>3, <1>4, <1>5, <2>1
  <2>2. CASE m # 1
    <3>1. m - 1 \in 1 .. Len(s) /\ m - 1 \in 0 .. Len(s)
      BY <2>2
    <3>2. g[m] = Left(s, m) - 1 /\ g[m - 1] = Left(s, m - 1) - 1 /\ r[m].count = s[m].count
      BY <1>4, <1>5, <2>2, <3>1
    <3>3. Left(s, m) = Left(s, m - 1) + s[m].count /\ s[m].count \in Int /\ Left(s, m - 1) \in Int
      BY <1>2, <1>3, <3>1
    <3> QED BY <3>2, <3>3
  <2> QED BY <2>1, <2>2
<1>7. \A m \in 0 .. Len(s) : Left(r, m) = g[m]
  <2>1. r \in Seq(Node) /\ Len(r) = Len(s)
    BY <1>4
  <2>2. \A m \in 1 .. Len(r) : g[m] = g[m - 1] + r[m].count
    BY <1>6, <2>1
  <2>3. g[0] = 0
    BY <1>5
  <2>4. \A m \in 0 .. Len(r) : Left(r, m) = g[m]
    BY <2>1, <2>2, <2>3, LeftIs
  <2> QED BY <2>1, <2>4
<1>8. Rising(s) /\ s[1].count > 0 => Rising(r)
  <2> SUFFICES ASSUME Rising(s), s[1].count > 0, NEW m \in 1 .. Len(s) PROVE r[m].count >= 0
    BY <1>4 DEF Rising
  <2>1. s[m].count \in Int /\ s[m].count >= 0
    BY <1>2 DEF Rising
  <2> QED BY <1>4, <2>1
<1>9. r # <<>>
  BY <1>1, <1>4
<1>10. \A m \in 1 .. Len(s) : Left(r, m) = Left(s, m) - 1
  <2>1. \A m \in 1 .. Len(s) : m \in 0 .. Len(s)
    OBVIOUS
  <2> QED BY <1>5, <1>7, <2>1
<1> QED BY <1>4, <1>8, <1>9, <1>10 DEF r

(* Unlinking the first timer, which has no ticks left. *)
LEMMA TailRow ==
  ASSUME NEW s \in Seq(Node), s # <<>>, s[1].count = 0
  PROVE  LET r == Tail(s)
         IN /\ r \in Seq(Node) /\ Len(r) = Len(s) - 1
            /\ Rising(s) => Rising(r)
            /\ \A m \in 1 .. Len(s) - 1 : r[m] = s[m + 1] /\ Left(r, m) = Left(s, m + 1)
<1> DEFINE r == Tail(s)
           g == [m \in 0 .. Len(s) - 1 |-> Left(s, m + 1)]
<1>1. /\ r \in Seq(Node) /\ Len(r) = Len(s) - 1 /\ Len(s) \in Nat /\ Len(s) > 0
      /\ \A m \in 1 .. Len(s) - 1 : r[m] = s[m + 1]
  OBVIOUS
<1>2. \A m \in 0 .. Len(s) - 1 : g[m] = Left(s, m + 1)
  OBVIOUS
<1> HIDE DEF r, g
<1>3. g[0] = 0
  <2>1. 0 \in 0 .. Len(s) - 1 /\ 1 \in 1 .. Len(s) /\ 0 + 1 = 1 /\ 1 - 1 = 0
    BY <1>1
  <2>2. Left(s, 1) = Left(s, 0) + s[1].count /\ Left(s, 0) = 0
    BY <2>1, Sums
  <2> QED BY <1>2, <2>1, <2>2
<1>4. ASSUME NEW m \in 1 .. Len(s) - 1 PROVE g[m] = g[m - 1] + r[m].count
  <2>1. m \in 0 .. Len(s) - 1 /\ m - 1 \in 0 .. Len(s) - 1 /\ m - 1 + 1 = m /\ m + 1 \in 1 .. Len(s) /\ m + 1 - 1 = m
    BY <1>1
  <2>2. Left(s, m + 1) = Left(s, m) + s[m + 1].count
    BY <2>1, Sums
  <2> QED BY <1>1, <1>2, <2>1, <2>2
<1>5. \A m \in 0 .. Len(s) - 1 : Left(r, m) = g[m]
  <2>1. r \in Seq(Node) /\ Len(r) = Len(s) - 1
    BY <1>1
  <2>2. \A m \in 1 .. Len(r) : g[m] = g[m - 1] + r[m].count
    BY <1>4, <2>1
  <2>3. \A m \in 0 .. Len(r) : Left(r, m) = g[m]
    BY <1>3, <2>1, <2>2, LeftIs
  <2> QED BY <2>1, <2>3
<1>6. \A m \in 1 .. Len(s) - 1 : Left(r, m) = Left(s, m + 1)
  <2>1. \A m \in 1 .. Len(s) - 1 : m \in 0 .. Len(s) - 1
    OBVIOUS
  <2> QED BY <1>2, <1>5, <2>1
<1>7. ASSUME Rising(s) PROVE Rising(r)
  <2>1. \A m \in 1 .. Len(s) - 1 : m + 1 \in 1 .. Len(s)
    BY <1>1
  <2> QED BY <1>1, <1>7, <2>1 DEF Rising
<1> QED BY <1>1, <1>6, <1>7 DEF r

(***************************************************************************)
(* Where a timer is in the list.                                           *)
(***************************************************************************)
Once(s) == \A l, m \in 1 .. Len(s) : s[l].timer = s[m].timer => l = m

LEMMA PlaceIs ==
  ASSUME NEW s \in Seq(Node), NEW i
  PROVE  /\ Place(s, i) \in 0 .. Len(s)
         /\ Place(s, i) # 0 => s[Place(s, i)].timer = i
         /\ Place(s, i) = 0 <=> \A m \in 1 .. Len(s) : s[m].timer # i
         /\ Once(s) => \A m \in 1 .. Len(s) : s[m].timer = i => Place(s, i) = m
<1> DEFINE I == {m \in 1 .. Len(s) : s[m].timer = i}
<1>1. Place(s, i) = IF I # {} THEN Min(I) ELSE 0
  BY DEF Place, SelectInSeq
<1>2. I # {} => Min(I) \in I
  <2>1. I \in SUBSET Nat
    OBVIOUS
  <2> HIDE DEF I
  <2> QED BY <2>1, MinFacts
<1>3. I # {} => Place(s, i) \in 1 .. Len(s) /\ s[Place(s, i)].timer = i
  BY <1>1, <1>2
<1>4. I = {} => Place(s, i) = 0 /\ \A m \in 1 .. Len(s) : s[m].timer # i
  BY <1>1
<1>5. (\E m \in 1 .. Len(s) : s[m].timer = i) => I # {}
  OBVIOUS
<1> HIDE DEF I
<1> QED BY <1>3, <1>4, <1>5 DEF Once

(* TimersAgree says Once in this way. *)
LEMMA PlaceOnce ==
  ASSUME NEW s \in Seq(Node)
  PROVE  Once(s) <=> \A j \in 1 .. Len(s) : Place(s, s[j].timer) = j
<1>1. Once(s) => \A j \in 1 .. Len(s) : Place(s, s[j].timer) = j
  BY PlaceIs
<1>2. ASSUME \A j \in 1 .. Len(s) : Place(s, s[j].timer) = j PROVE Once(s)
  BY <1>2 DEF Once
<1> QED BY <1>1, <1>2

(* The timers in the list after each operation. *)
In(s, i) == \E m \in 1 .. Len(s) : s[m].timer = i

LEMMA StartIn ==
  ASSUME NEW s \in Seq(Node), Rising(s), NEW i \in Timer, NEW n \in Nat
  PROVE  LET r == osSwTmrStart(s, i, n)
         IN /\ \A u : In(r, u) <=> In(s, u) \/ u = i
            /\ Once(s) /\ ~In(s, i) => Once(r)
<1> DEFINE r == osSwTmrStart(s, i, n)
<1>1. PICK j \in 0 .. Len(s) : StartsAt(s, r, i, n, j)
  BY StartRow
<1> USE DEF StartsAt
<1> HIDE DEF r
<1> DEFINE at(m) == IF m <= j THEN m ELSE m - 1
<1>2. \A m \in 1 .. Len(s) + 1 :
        /\ m = j + 1 => r[m].timer = i
        /\ m # j + 1 => at(m) \in 1 .. Len(s) /\ r[m].timer = s[at(m)].timer
  <2>1. ASSUME NEW m \in 1 .. Len(s) + 1
        PROVE  /\ m = j + 1 => r[m].timer = i
               /\ m # j + 1 => at(m) \in 1 .. Len(s) /\ r[m].timer = s[at(m)].timer
    <3>1. m <= j => m \in 1 .. Len(s) /\ m # j + 1
      OBVIOUS
    <3>2. ~(m <= j) /\ m # j + 1 => m - 1 \in 1 .. Len(s)
      OBVIOUS
    <3> QED BY <1>1, <3>1, <3>2
  <2> QED BY <2>1
<1>3. \A m \in 1 .. Len(s) : \E l \in 1 .. Len(s) + 1 : l # j + 1 /\ at(l) = m
  <2>1. ASSUME NEW m \in 1 .. Len(s) PROVE \E l \in 1 .. Len(s) + 1 : l # j + 1 /\ at(l) = m
    <3>1. CASE m <= j
      BY <3>1
    <3>2. CASE ~(m <= j)
      <4>1. m + 1 \in 1 .. Len(s) + 1 /\ m + 1 # j + 1 /\ ~(m + 1 <= j) /\ m + 1 - 1 = m
        BY <3>2
      <4> QED BY <4>1
    <3> QED BY <3>1, <3>2
  <2> QED BY <2>1
<1>4. ASSUME NEW l \in 1 .. Len(s) + 1, NEW m \in 1 .. Len(s) + 1, l # j + 1, m # j + 1, at(l) = at(m)
      PROVE  l = m
  BY <1>4
<1>5. Len(r) = Len(s) + 1 /\ j + 1 \in 1 .. Len(s) + 1
  BY <1>1
<1> HIDE DEF at
<1>6. ASSUME NEW u PROVE In(r, u) <=> In(s, u) \/ u = i
  <2>1. ASSUME In(r, u) PROVE In(s, u) \/ u = i
    BY <1>2, <1>5, <2>1 DEF In
  <2>2. ASSUME In(s, u) PROVE In(r, u)
    BY <1>2, <1>3, <1>5, <2>2 DEF In
  <2>3. In(r, i)
    BY <1>2, <1>5 DEF In
  <2> QED BY <2>1, <2>2, <2>3
<1>7. ASSUME Once(s), ~In(s, i) PROVE Once(r)
  <2>1. ASSUME NEW l \in 1 .. Len(s) + 1, NEW m \in 1 .. Len(s) + 1, r[l].timer = r[m].timer PROVE l = m
    <3>1. l = j + 1 <=> m = j + 1
      BY <1>2, <1>7, <2>1 DEF In
    <3>2. l # j + 1 => at(l) = at(m)
      BY <1>2, <1>7, <2>1, <3>1 DEF Once
    <3> QED BY <1>4, <3>1, <3>2
  <2> QED BY <1>5, <2>1 DEF Once
<1> QED BY <1>6, <1>7 DEF r

LEMMA StopIn ==
  ASSUME NEW s \in Seq(Node), Rising(s), Once(s), NEW i, Place(s, i) # 0
  PROVE  LET r == osSwtmrStop(s, i)
         IN Once(r) /\ \A u : In(r, u) <=> In(s, u) /\ u # i
<1> DEFINE r == osSwtmrStop(s, i)
           j == Place(s, i)
           at(m) == IF m < j THEN m ELSE m + 1
<1>1. j \in 1 .. Len(s) /\ s[j].timer = i
  BY PlaceIs
<1>2. Len(r) = Len(s) - 1 /\ \A m \in 1 .. Len(s) - 1 : r[m].timer = IF m < j THEN s[m].timer ELSE s[m + 1].timer
  BY <1>1, StopRow
<1> HIDE DEF r, j
<1>3. \A m \in 1 .. Len(s) - 1 : at(m) \in 1 .. Len(s) /\ at(m) # j /\ r[m].timer = s[at(m)].timer
  BY <1>1, <1>2
<1>4. \A m \in 1 .. Len(s) : m # j => \E l \in 1 .. Len(s) - 1 : at(l) = m
  <2>1. ASSUME NEW m \in 1 .. Len(s), m # j PROVE \E l \in 1 .. Len(s) - 1 : at(l) = m
    <3>1. CASE m < j
      <4>1. m \in 1 .. Len(s) - 1
        BY <1>1, <3>1
      <4> QED BY <3>1, <4>1
    <3>2. CASE m > j
      <4>1. m - 1 \in 1 .. Len(s) - 1 /\ ~(m - 1 < j) /\ m - 1 + 1 = m
        BY <1>1, <3>2
      <4> QED BY <4>1
    <3> QED BY <1>1, <2>1, <3>1, <3>2
  <2> QED BY <2>1
<1>5. ASSUME NEW l \in 1 .. Len(s) - 1, NEW m \in 1 .. Len(s) - 1, at(l) = at(m) PROVE l = m
  BY <1>1, <1>5
<1> HIDE DEF at
<1>6. ASSUME NEW u PROVE In(r, u) <=> In(s, u) /\ u # i
  <2>1. ASSUME In(r, u) PROVE In(s, u) /\ u # i
    <3>1. PICK m \in 1 .. Len(s) - 1 : r[m].timer = u
      BY <1>2, <2>1 DEF In
    <3>2. at(m) \in 1 .. Len(s) /\ at(m) # j /\ s[at(m)].timer = u
      BY <1>3, <3>1
    <3> QED BY <1>1, <3>2 DEF In, Once
  <2>2. ASSUME In(s, u), u # i PROVE In(r, u)
    <3>1. PICK m \in 1 .. Len(s) : s[m].timer = u
      BY <2>2 DEF In
    <3>2. PICK l \in 1 .. Len(s) - 1 : at(l) = m
      BY <1>1, <1>4, <2>2, <3>1
    <3> QED BY <1>2, <1>3, <3>1, <3>2 DEF In
  <2> QED BY <2>1, <2>2
<1>7. Once(r)
  BY <1>2, <1>3, <1>5 DEF Once
<1> QED BY <1>6, <1>7 DEF r

(***************************************************************************)
(* The ids of a timer: its index and a generation.                         *)
(***************************************************************************)
ID(i, g)   == i + LIMIT * g
Back(g, d) == IF d <= g THEN g - d ELSE g - d + Generations

LEMMA Multiples ==
  ASSUME NEW n \in Nat, n > 0, NEW a \in Int, NEW b \in Int
  PROVE  /\ n * a \in Int /\ n * (a + 1) = n * a + n
         /\ a <= b => n * a <= n * b
         /\ n * a = n * b => a = b
<1>1. n * a \in Int /\ n * (a + 1) = n * a + n
  OBVIOUS
<1>2. a <= b => n * a <= n * b
  OBVIOUS
<1>3. n * a = n * b => a = b
  OBVIOUS
<1> QED BY <1>1, <1>2, <1>3

LEMMA Generation ==
  /\ Generations \in Nat /\ Generations > 0 /\ MAX_TIMERID = LIMIT * Generations
  /\ LIMIT \in Nat /\ LIMIT > 0
<1>1. /\ LIMIT \in Nat /\ LIMIT > 0 /\ MAX_TIMERID \in Nat /\ MAX_TIMERID > 0
      /\ MAX_TIMERID % LIMIT = 0
  BY SwtmrAssumption
<1> DEFINE q == MAX_TIMERID \div LIMIT
<1>2. q \in Int /\ MAX_TIMERID = LIMIT * q + (MAX_TIMERID % LIMIT)
  BY <1>1
<1>3. MAX_TIMERID = LIMIT * q
  BY <1>1, <1>2
<1>4. q > 0
  BY <1>1, <1>2, <1>3
<1> QED BY <1>1, <1>2, <1>3, <1>4 DEF Generations

LEMMA IDs ==
  ASSUME NEW i \in Timer, NEW g \in 0 .. Generations - 1
  PROVE  /\ ID(i, g) \in TimerID /\ ID(i, g) % LIMIT = i
         /\ NextID(ID(i, g)) = IF g < Generations - 1 THEN ID(i, g + 1) ELSE ID(i, 0)
<1>1. /\ Generations \in Nat /\ Generations > 0 /\ MAX_TIMERID = LIMIT * Generations
      /\ LIMIT \in Nat /\ LIMIT > 0
  BY Generation
<1>2. i \in Int /\ 0 <= i /\ i < LIMIT /\ g \in Int /\ 0 <= g /\ g <= Generations - 1
  BY <1>1 DEF Timer
<1>3. /\ LIMIT * g \in Int /\ LIMIT * 0 = 0 /\ LIMIT * (g + 1) = LIMIT * g + LIMIT
      /\ LIMIT * 0 <= LIMIT * g
  BY <1>1, <1>2, Multiples
<1>4. LIMIT * (Generations - 1) \in Int /\ LIMIT * (Generations - 1) = MAX_TIMERID - LIMIT
  <2>1. Generations - 1 \in Int /\ Generations - 1 + 1 = Generations
    BY <1>1
  <2>2. LIMIT * (Generations - 1) \in Int /\ LIMIT * (Generations - 1 + 1) = LIMIT * (Generations - 1) + LIMIT
    BY <1>1, <2>1, Multiples
  <2> QED BY <1>1, <2>1, <2>2
<1>5. LIMIT * g <= MAX_TIMERID - LIMIT
  BY <1>1, <1>2, <1>4, Multiples
<1>6. ID(i, g) % LIMIT = i
  BY <1>1, <1>2, <1>3 DEF ID
<1>7. ID(i, g) \in TimerID
  BY <1>1, <1>2, <1>3, <1>5 DEF ID, TimerID
<1>8. g < Generations - 1 => ID(i, g) < MAX_TIMERID - LIMIT /\ ID(i, g) + LIMIT = ID(i, g + 1)
  <2> SUFFICES ASSUME g < Generations - 1
               PROVE  ID(i, g) < MAX_TIMERID - LIMIT /\ ID(i, g) + LIMIT = ID(i, g + 1)
    OBVIOUS
  <2>1. g + 1 \in Int /\ g + 1 <= Generations - 1 /\ Generations - 1 \in Int
    BY <1>1, <1>2
  <2>2. LIMIT * (g + 1) <= LIMIT * (Generations - 1)
    BY <1>1, <2>1, Multiples
  <2> QED BY <1>1, <1>2, <1>3, <1>4, <2>2 DEF ID
<1>9. g = Generations - 1 => ~(ID(i, g) < MAX_TIMERID - LIMIT) /\ ID(i, 0) = i
  BY <1>1, <1>2, <1>3, <1>4 DEF ID
<1>10. g < Generations - 1 \/ g = Generations - 1
  BY <1>1, <1>2
<1> QED BY <1>2, <1>6, <1>7, <1>8, <1>9, <1>10 DEF NextID

LEMMA OneID ==
  ASSUME NEW i \in Timer, NEW g \in Int, NEW h \in Int, ID(i, g) = ID(i, h)
  PROVE  g = h
<1>1. i \in Int /\ LIMIT \in Nat /\ LIMIT > 0
  BY Generation DEF Timer
<1>2. LIMIT * g \in Int /\ LIMIT * h \in Int
  BY <1>1, Multiples
<1>3. LIMIT * g = LIMIT * h
  BY <1>1, <1>2 DEF ID
<1> QED BY <1>1, <1>3, Multiples

(* The last ids of a timer, whose generation is g. *)
History(i, p, g) ==
  /\ Len(p) < Generations
  /\ \A j \in 1 .. Len(p) : p[j] = ID(i, Back(g, Len(p) - j + 1))

LEMMA HistoryStale ==
  ASSUME NEW i \in Timer, NEW p, Len(p) \in Nat, NEW g \in 0 .. Generations - 1, History(i, p, g)
  PROVE  \A j \in 1 .. Len(p) : p[j] # ID(i, g)
<1> SUFFICES ASSUME NEW j \in 1 .. Len(p) PROVE p[j] # ID(i, g)
  OBVIOUS
<1>1. Generations \in Nat
  BY Generation
<1> DEFINE d == Len(p) - j + 1
<1>2. d \in Nat /\ 1 <= d /\ d < Generations
  BY <1>1 DEF History
<1>3. Back(g, d) \in Int /\ Back(g, d) # g /\ p[j] = ID(i, Back(g, d))
  BY <1>1, <1>2 DEF Back, History
<1> QED BY <1>3, OneID

LEMMA HistoryGrows ==
  ASSUME NEW i \in Timer, NEW S, NEW p \in Seq(S), NEW g \in 0 .. Generations - 1, History(i, p, g),
         ID(i, g) \in S
  PROVE  LET s == Append(p, ID(i, g))
             q == IF Len(s) < Generations THEN s ELSE Tail(s)
             h == IF g < Generations - 1 THEN g + 1 ELSE 0
         IN q \in Seq(S) /\ h \in 0 .. Generations - 1 /\ History(i, q, h)
<1> DEFINE n == Len(p)
           e == ID(i, g)
           s == Append(p, e)
           q == IF Len(s) < Generations THEN s ELSE Tail(s)
           h == IF g < Generations - 1 THEN g + 1 ELSE 0
<1>1. Generations \in Nat /\ Generations > 0 /\ g \in Nat /\ g <= Generations - 1 /\ n \in Nat
  BY Generation
<1>2. h \in 0 .. Generations - 1
  BY <1>1
<1>3. s \in Seq(S) /\ Len(s) = n + 1 /\ \A j \in 1 .. n + 1 : s[j] = IF j = n + 1 THEN e ELSE p[j]
  OBVIOUS
<1>4. \A j \in 1 .. n : p[j] = ID(i, Back(g, n - j + 1))
  BY DEF History
<1>5. n < Generations
  BY DEF History
<1> HIDE DEF e, n
<1>6. \A d \in 1 .. Generations - 1 : Back(h, d) = IF d = 1 THEN g ELSE Back(g, d - 1)
  BY <1>1 DEF Back
<1> HIDE DEF h
<1>7. \A j \in 1 .. n + 1 : n + 1 - j + 1 \in 1 .. Generations - 1 => s[j] = ID(i, Back(h, n + 1 - j + 1))
  <2> SUFFICES ASSUME NEW j \in 1 .. n + 1, n + 1 - j + 1 \in 1 .. Generations - 1
               PROVE  s[j] = ID(i, Back(h, n + 1 - j + 1))
    OBVIOUS
  <2>1. CASE j = n + 1
    BY <1>1, <1>3, <1>6, <2>1 DEF e
  <2>2. CASE j # n + 1
    <3>1. j \in 1 .. n /\ n + 1 - j + 1 # 1 /\ n + 1 - j + 1 - 1 = n - j + 1
      BY <1>1, <2>2
    <3>2. Back(h, n + 1 - j + 1) = Back(g, n - j + 1)
      <4> DEFINE d == n + 1 - j + 1
      <4>1. d \in 1 .. Generations - 1 /\ d # 1 /\ d - 1 = n - j + 1
        BY <1>1, <3>1
      <4> HIDE DEF d
      <4>2. Back(h, d) = Back(g, n - j + 1)
        BY <1>6, <4>1
      <4> QED BY <4>2 DEF d
    <3> QED BY <1>3, <1>4, <2>2, <3>1, <3>2
  <2> QED BY <2>1, <2>2
<1> HIDE DEF s
<1>8. CASE n + 1 < Generations
  <2>1. q = s
    BY <1>3, <1>8
  <2>2. \A j \in 1 .. n + 1 : n + 1 - j + 1 \in 1 .. Generations - 1
    BY <1>1, <1>8
  <2>3. History(i, q, h)
    <3>1. \A j \in 1 .. n + 1 : s[j] = ID(i, Back(h, n + 1 - j + 1))
      BY <1>7, <2>2
    <3>2. Len(s) = n + 1
      BY <1>3
    <3> HIDE DEF q
    <3> QED BY <1>1, <1>8, <2>1, <3>1, <3>2 DEF History
  <2> QED BY <1>2, <1>3, <2>1, <2>3 DEF s, h, e
<1>9. CASE ~(n + 1 < Generations)
  <2>1. q = Tail(s) /\ s # <<>>
    BY <1>1, <1>3, <1>9
  <2>2. q \in Seq(S) /\ Len(q) = n /\ \A j \in 1 .. n : q[j] = s[j + 1]
    BY <1>1, <1>3, <2>1
  <2>3. ASSUME NEW j \in 1 .. n PROVE q[j] = ID(i, Back(h, n - j + 1))
    <3>1. j + 1 \in 1 .. n + 1 /\ n + 1 - (j + 1) + 1 = n - j + 1 /\ n - j + 1 \in 1 .. Generations - 1
      BY <1>1, <1>5
    <3> QED BY <1>7, <2>2, <3>1
  <2>4. History(i, q, h)
    BY <1>5, <2>2, <2>3 DEF History
  <2> QED BY <1>2, <2>2, <2>4 DEF s, h, e
<1> QED BY <1>8, <1>9

(***************************************************************************)
(* The timer list as the invariant says it.                                *)
(***************************************************************************)
Sorted(s) ==
  /\ s \in Seq(Node) /\ Rising(s) /\ Once(s)
  /\ \A j \in 1 .. Len(s) : Left(s, j) <= MaxInterval

(* Outside the scan no timer of the list is due. *)
NoneDue(s) == s # <<>> => s[1].count > 0

LEMMA FirstLeft ==
  ASSUME NEW s \in Seq(Node), s # <<>>
  PROVE  1 \in 1 .. Len(s) /\ s[1].count = Left(s, 1) /\ s[1].count \in Int
<1>1. 1 \in 1 .. Len(s)
  OBVIOUS
<1>2. /\ Left(s, 0) = 0 /\ s[1].count \in Int
      /\ Left(s, 1) = Left(s, 1 - 1) + s[1].count
  BY <1>1, Sums
<1> QED BY <1>1, <1>2

LEMMA SortStart ==
  ASSUME NEW s, Sorted(s), NEW i \in Timer, ~In(s, i), NEW n \in 1 .. MaxInterval
  PROVE  LET r == osSwTmrStart(s, i, n)
         IN /\ Sorted(r) /\ (NoneDue(s) => NoneDue(r))
            /\ \A u : In(r, u) <=> In(s, u) \/ u = i
<1> DEFINE r == osSwTmrStart(s, i, n)
<1>1. s \in Seq(Node) /\ Rising(s) /\ Once(s) /\ n \in Nat /\ MaxInterval \in Nat /\ n >= 1 /\ n <= MaxInterval
  BY SwtmrAssumption DEF Sorted
<1>2. Once(r) /\ \A u : In(r, u) <=> In(s, u) \/ u = i
  BY <1>1, StartIn
<1>3. PICK j \in 0 .. Len(s) : StartsAt(s, r, i, n, j)
  <2>1. s \in Seq(Node) /\ Rising(s) /\ n \in Nat
    BY <1>1
  <2> QED BY <2>1, StartRow
<1> USE DEF StartsAt
<1> HIDE DEF r
<1>4. ASSUME NEW m \in 1 .. Len(s) + 1 PROVE Left(r, m) <= MaxInterval
  <2>1. m <= j => m \in 1 .. Len(s)
    OBVIOUS
  <2>2. ~(m <= j) /\ m # j + 1 => m - 1 \in 1 .. Len(s)
    OBVIOUS
  <2>3. \A l \in 1 .. Len(s) : Left(s, l) <= MaxInterval
    BY DEF Sorted
  <2> QED BY <1>1, <1>3, <2>1, <2>2, <2>3
<1>5. Sorted(r)
  BY <1>2, <1>3, <1>4 DEF Sorted
<1>6. ASSUME NoneDue(s) PROVE NoneDue(r)
  <2>1. 1 \in 1 .. Len(s) + 1 /\ r # <<>>
    BY <1>3
  <2>2. r[1].count = Left(r, 1)
    BY <1>3, <2>1, FirstLeft
  <2>3. CASE 1 <= j
    <3>1. s # <<>>
      BY <2>3
    <3>2. Left(r, 1) = Left(s, 1) /\ Left(s, 1) > 0
      BY <1>1, <1>3, <1>6, <2>1, <2>3, <3>1, FirstLeft DEF NoneDue
    <3> QED BY <2>2, <3>2 DEF NoneDue
  <2>4. CASE ~(1 <= j)
    <3>1. Left(r, 1) = n
      BY <1>3, <2>1, <2>4
    <3> QED BY <1>1, <2>2, <3>1 DEF NoneDue
  <2> QED BY <2>3, <2>4
<1> QED BY <1>2, <1>5, <1>6 DEF r

LEMMA SortStop ==
  ASSUME NEW s, Sorted(s), NEW i, In(s, i)
  PROVE  LET r == osSwtmrStop(s, i)
         IN /\ Sorted(r) /\ (NoneDue(s) => NoneDue(r))
            /\ \A u : In(r, u) <=> In(s, u) /\ u # i
<1> DEFINE r == osSwtmrStop(s, i)
           j == Place(s, i)
<1>1. s \in Seq(Node) /\ Rising(s) /\ Once(s) /\ MaxInterval \in Nat
  BY SwtmrAssumption DEF Sorted
<1>2. j \in 1 .. Len(s)
  <2>1. j \in 0 .. Len(s) /\ j # 0
    BY <1>1, PlaceIs DEF In
  <2> QED BY <2>1
<1>3. Once(r) /\ \A u : In(r, u) <=> In(s, u) /\ u # i
  BY <1>1, <1>2, StopIn
<1>4. /\ r \in Seq(Node) /\ Len(r) = Len(s) - 1 /\ Rising(r)
      /\ \A m \in 1 .. Len(s) - 1 :
           /\ r[m].timer = IF m < j THEN s[m].timer ELSE s[m + 1].timer
           /\ Left(r, m) = IF m < j THEN Left(s, m) ELSE Left(s, m + 1)
  BY <1>1, <1>2, StopRow
<1> HIDE DEF r, j
<1>5. ASSUME NEW m \in 1 .. Len(s) - 1 PROVE Left(r, m) <= MaxInterval
  <2>1. m \in 1 .. Len(s) /\ m + 1 \in 1 .. Len(s)
    OBVIOUS
  <2> QED BY <1>4, <2>1 DEF Sorted
<1>6. Sorted(r)
  BY <1>3, <1>4, <1>5 DEF Sorted
<1>7. ASSUME NoneDue(s), r # <<>> PROVE r[1].count > 0
  <2>1. 1 \in 1 .. Len(s) - 1 /\ s # <<>> /\ 1 \in 0 .. Len(s) /\ 2 \in 1 .. Len(s) /\ 2 \in 0 .. Len(s)
        /\ 2 \in 1 .. Len(s) /\ 1 + 1 = 2
    BY <1>4, <1>7
  <2>2. r[1].count = Left(r, 1) /\ s[1].count = Left(s, 1) /\ s[1].count > 0 /\ s[1].count \in Int
    BY <1>1, <1>4, <1>7, <2>1, FirstLeft DEF NoneDue
  <2>3. Left(s, 1) <= Left(s, 2) /\ Left(s, 2) \in Int
    BY <1>1, <2>1, LeftRises, LeftType
  <2>4. Left(r, 1) \in {Left(s, 1), Left(s, 2)}
    BY <1>4, <2>1
  <2> QED BY <2>2, <2>3, <2>4
<1> QED BY <1>3, <1>6, <1>7 DEF r, NoneDue

LEMMA SortTick ==
  ASSUME NEW s, Sorted(s), NoneDue(s), s # <<>>
  PROVE  LET r == Plus(s, 1, -1)
         IN Sorted(r) /\ r # <<>> /\ \A u : In(r, u) <=> In(s, u)
<1> DEFINE r == Plus(s, 1, -1)
<1>1. /\ s \in Seq(Node) /\ Rising(s) /\ Once(s) /\ MaxInterval \in Nat /\ s[1].count > 0
      /\ \A j \in 1 .. Len(s) : Left(s, j) <= MaxInterval
  BY SwtmrAssumption DEF Sorted, NoneDue
<1>2. /\ r \in Seq(Node) /\ Len(r) = Len(s) /\ r # <<>> /\ Rising(r)
      /\ \A m \in 1 .. Len(s) : r[m].timer = s[m].timer /\ Left(r, m) = Left(s, m) - 1
  BY <1>1, TickRow
<1>3. \A m \in 1 .. Len(s) : Left(s, m) \in Int
  BY <1>1, LeftType
<1> HIDE DEF r
<1>4. Sorted(r)
  <2>1. Once(r)
    BY <1>1, <1>2 DEF Once
  <2>2. \A m \in 1 .. Len(s) : Left(r, m) <= MaxInterval
    BY <1>1, <1>2, <1>3
  <2> QED BY <1>2, <2>1, <2>2 DEF Sorted
<1>5. \A u : In(r, u) <=> In(s, u)
  BY <1>2 DEF In
<1> QED BY <1>2, <1>4, <1>5 DEF r

LEMMA SortTail ==
  ASSUME NEW s, Sorted(s), s # <<>>, s[1].count = 0
  PROVE  LET r == Tail(s)
         IN /\ Sorted(r) /\ s[1].timer \in Timer
            /\ \A u : In(r, u) <=> In(s, u) /\ u # s[1].timer
<1> DEFINE r == Tail(s)
<1>1. /\ s \in Seq(Node) /\ Rising(s) /\ Once(s)
      /\ \A j \in 1 .. Len(s) : Left(s, j) <= MaxInterval
  BY DEF Sorted
<1>2. /\ r \in Seq(Node) /\ Len(r) = Len(s) - 1 /\ Rising(r)
      /\ \A m \in 1 .. Len(s) - 1 : r[m] = s[m + 1] /\ Left(r, m) = Left(s, m + 1)
  BY <1>1, TailRow
<1>3. \A m \in 1 .. Len(s) - 1 : m + 1 \in 1 .. Len(s) /\ m + 1 # 1
  OBVIOUS
<1>4. 1 \in 1 .. Len(s) /\ s[1].timer \in Timer
  BY <1>1, FirstLeft, Sums
<1> HIDE DEF r
<1>5. Sorted(r)
  <2>1. ASSUME NEW l \in 1 .. Len(r), NEW m \in 1 .. Len(r), r[l].timer = r[m].timer PROVE l = m
    <3>1. l + 1 = m + 1
      <4>1. l \in 1 .. Len(s) - 1 /\ m \in 1 .. Len(s) - 1
        BY <1>2
      <4>2. l + 1 \in 1 .. Len(s) /\ m + 1 \in 1 .. Len(s) /\ s[l + 1].timer = s[m + 1].timer
        BY <1>2, <1>3, <2>1, <4>1
      <4> QED BY <1>1, <4>2 DEF Once
    <3> QED BY <3>1
  <2>2. \A m \in 1 .. Len(r) : Left(r, m) <= MaxInterval
    BY <1>1, <1>2, <1>3
  <2> QED BY <1>2, <2>1, <2>2 DEF Sorted, Once
<1>6. ASSUME NEW u PROVE In(r, u) <=> In(s, u) /\ u # s[1].timer
  <2>1. ASSUME In(r, u) PROVE In(s, u) /\ u # s[1].timer
    <3>1. PICK m \in 1 .. Len(s) - 1 : r[m].timer = u
      BY <1>2, <2>1 DEF In
    <3>2. s[m + 1].timer = u /\ m + 1 \in 1 .. Len(s) /\ m + 1 # 1
      BY <1>2, <1>3, <3>1
    <3> QED BY <1>1, <1>4, <3>2 DEF In, Once
  <2>2. ASSUME In(s, u), u # s[1].timer PROVE In(r, u)
    <3>1. PICK m \in 1 .. Len(s) : s[m].timer = u
      BY <2>2 DEF In
    <3>2. m - 1 \in 1 .. Len(s) - 1 /\ m - 1 + 1 = m
      BY <2>2, <3>1
    <3>3. r[m - 1].timer = u
      BY <1>2, <3>1, <3>2
    <3> QED BY <1>2, <3>2, <3>3 DEF In
  <2> QED BY <2>1, <2>2
<1> QED BY <1>4, <1>5, <1>6 DEF r

(***************************************************************************)
(* The inductive invariant, for handlers that leave timers alone while the *)
(* scan has one unlinked.                                                  *)
(***************************************************************************)
HandlersKeepOut == IsrApi \cap {"start", "stop", "delete"} = {}

Block == [id : TimerID, state : {"UNUSED", "CREATED", "TICKING"},
          mode : {"ONCE", "PERIOD"}, interval : 0 .. MaxInterval]

Types ==
  /\ timer \in [Timer -> Block]
  /\ free \in Seq(Timer) /\ hq \in Seq(Timer)
  /\ scan \in {"off", "loop", "out"} /\ out \in Timer \cup {NoTimer}
  /\ box \in Nat /\ node \in Timer \cup {NoTimer}
  /\ made \in [Client -> Timer \cup {NoTimer}]
  /\ asked \in [Client -> TimerID \cup {MAX_TIMERID}]
  /\ live \subseteq TimerID /\ past \in [Timer -> Seq(TimerID)]

(* The list, and the timer that the scan has taken out of it. *)
Outside(i) == scan = "out" /\ out = i
Listing ==
  /\ Sorted(sort) /\ (scan = "off" => NoneDue(sort))
  /\ scan = "out" => out \in Timer /\ ~In(sort, out)
  /\ \A i \in Timer : timer[i].state = "TICKING" <=> In(sort, i) \/ Outside(i)

(* The free blocks and those that a client is about to fill. *)
Taken(i) == \E c \in Client : made[c] = i
Blocks ==
  /\ IsInjective(free)
  /\ \A i \in Timer :
       /\ timer[i].state = "UNUSED" <=> Contains(free, i) \/ Taken(i)
       /\ Taken(i) => ~Contains(free, i)
       /\ timer[i].state # "UNUSED" => timer[i].interval > 0
  /\ \A c, d \in Client : made[c] \in Timer /\ made[c] = made[d] => c = d

(* Ids. *)
Living ==
  /\ \A i \in Timer : timer[i].state # "UNUSED" <=> timer[i].id \in live
  /\ live \subseteq {timer[i].id : i \in Timer}
Aging ==
  \A i \in Timer : \E g \in 0 .. Generations - 1 :
    timer[i].id = ID(i, g) /\ History(i, past[i], g)

(* Every node of the box is free, in the queue or with the timer task. *)
Counting == box + Len(hq) + (IF node = NoTimer THEN 0 ELSE 1) = LIMIT

SwtmrInv == fault = FALSE /\ Types /\ Listing /\ Blocks /\ Living /\ Aging /\ Counting

LEMMA TimerFacts ==
  /\ NoTimer \notin Timer /\ MAX_TIMERID \notin TimerID /\ LIMIT \in Nat /\ LIMIT > 0
  /\ MaxInterval \in Nat /\ \A id \in TimerID : id % LIMIT \in Timer
<1>1. LIMIT \in Nat /\ LIMIT > 0 /\ MaxInterval \in Nat /\ MAX_TIMERID \in Nat
  BY SwtmrAssumption
<1>2. NoTimer \notin Timer /\ MAX_TIMERID \notin TimerID
  BY <1>1 DEF NoTimer, Timer, TimerID
<1>3. ASSUME NEW id \in TimerID PROVE id % LIMIT \in Timer
  <2>1. id \in Int
    BY <1>1 DEF TimerID
  <2>2. id % LIMIT \in 0 .. LIMIT - 1
    BY <1>1, <2>1
  <2> QED BY <2>2 DEF Timer
<1> QED BY <1>1, <1>2, <1>3

LEMMA InitSwtmrInv == Init => SwtmrInv
<1> SUFFICES ASSUME Init PROVE SwtmrInv
  OBVIOUS
<1> USE DEF Init
<1>1. LIMIT \in Nat /\ LIMIT > 0 /\ MAX_TIMERID \in Nat /\ MaxInterval \in Nat /\ NoTimer \notin Timer
  BY TimerFacts, SwtmrAssumption
<1>2. Generations \in Nat /\ Generations > 0 /\ 0 \in 0 .. Generations - 1
  BY Generation
<1>3. \A i \in Timer : i = ID(i, 0)
  BY <1>1 DEF ID, Timer
<1>4. \A i \in Timer : i \in TimerID
  BY <1>2, <1>3, IDs
<1>5. Types
  <2>1. timer \in [Timer -> Block]
    BY <1>1, <1>4 DEF Block
  <2>2. free \in Seq(Timer)
    BY <1>1 DEF Timer
  <2>3. \A i \in Timer : past[i] \in Seq(TimerID)
    OBVIOUS
  <2>4. box \in Nat
    BY <1>1 DEF HANDLE_QUEUE_SIZE
  <2> QED BY <2>1, <2>2, <2>3, <2>4 DEF Types
<1>6. Listing
  <2>1. sort \in Seq(Node) /\ Len(sort) = 0
    OBVIOUS
  <2>2. Sorted(sort) /\ NoneDue(sort) /\ \A u : ~In(sort, u)
    BY <2>1 DEF Sorted, NoneDue, Rising, Once, In
  <2> QED BY <2>2 DEF Listing, Outside
<1>7. Blocks
  <2>1. \A i \in Timer : Contains(free, i)
    <3>1. ASSUME NEW i \in Timer PROVE Contains(free, i)
      <4>1. i + 1 \in 1 .. LIMIT /\ free[i + 1] = i /\ DOMAIN free = 1 .. LIMIT
        BY <1>1 DEF Timer
      <4>2. Len(free) = LIMIT
        BY <1>1, <1>5, <4>1 DEF Types
      <4> QED BY <4>1, <4>2 DEF Contains
    <3> QED BY <3>1
  <2>2. IsInjective(free)
    BY <1>1 DEF IsInjective
  <2>3. \A i \in Timer : ~Taken(i)
    BY <1>1 DEF Taken
  <2>4. \A c \in Client : made[c] \notin Timer
    BY <1>1
  <2> QED BY <2>1, <2>2, <2>3, <2>4 DEF Blocks
<1>8. Living
  BY DEF Living
<1>9. Aging
  <2>1. \A i \in Timer : timer[i].id = ID(i, 0) /\ past[i] = <<>>
    BY <1>3
  <2>2. \A i \in Timer : History(i, <<>>, 0)
    BY <1>2 DEF History
  <2> QED BY <1>2, <2>1, <2>2 DEF Aging
<1>10. Counting
  BY <1>1 DEF Counting, HANDLE_QUEUE_SIZE
<1> QED BY <1>5, <1>6, <1>7, <1>8, <1>9, <1>10 DEF SwtmrInv

(* What a step that writes one block leaves of the others. *)
LEMMA StateSet ==
  ASSUME Types, NEW i \in Timer, NEW v \in {"UNUSED", "CREATED", "TICKING"}
  PROVE  LET r == [timer EXCEPT ![i].state = v]
         IN /\ r \in [Timer -> Block]
            /\ \A u \in Timer :
                 /\ r[u].state = IF u = i THEN v ELSE timer[u].state
                 /\ r[u].id = timer[u].id /\ r[u].mode = timer[u].mode
                 /\ r[u].interval = timer[u].interval
<1>1. timer \in [Timer -> Block] /\ \A u \in Timer : timer[u] \in Block
  BY DEF Types
<1> DEFINE e == [timer[i] EXCEPT !.state = v]
<1>2. e \in Block /\ e.state = v /\ e.id = timer[i].id /\ e.mode = timer[i].mode /\ e.interval = timer[i].interval
  BY <1>1 DEF Block
<1>3. [timer EXCEPT ![i].state = v] = [timer EXCEPT ![i] = e]
  OBVIOUS
<1> HIDE DEF e
<1> QED BY <1>1, <1>2, <1>3

(* The ids and their history do not change. *)
LEMMA AgingKept ==
  ASSUME Aging, \A i \in Timer : timer'[i].id = timer[i].id, past' = past
  PROVE  Aging'
BY DEF Aging

LEMMA OwnID ==
  ASSUME Aging, NEW i \in Timer
  PROVE  timer[i].id % LIMIT = i /\ timer[i].id \in TimerID
BY IDs DEF Aging

(***************************************************************************)
(* The steps.                                                              *)
(***************************************************************************)

(* In a call with the id of a block, and in osTimerStarts, the list holds the
   timer if it is ticking.                                                 *)
LEMMA TickingListed ==
  ASSUME SwtmrInv, scan = "off", NEW i \in Timer
  PROVE  /\ timer[i].state = "TICKING" <=> In(sort, i)
         /\ Listed(i) <=> In(sort, i)
         /\ Sorted(sort) /\ NoneDue(sort)
<1>1. Sorted(sort) /\ NoneDue(sort) /\ sort \in Seq(Node)
  BY DEF SwtmrInv, Listing, Sorted
<1>2. Listed(i) <=> In(sort, i)
  BY <1>1, PlaceIs DEF Listed, In
<1> QED BY <1>1, <1>2 DEF SwtmrInv, Listing, Outside

LEMMA NotFaulting ==
  ASSUME SwtmrInv, scan = "off", NEW id \in TimerID
  PROVE  ~Faults(id)
BY TickingListed, TimerFacts DEF Faults, State

LEMMA CallsOutside ==
  ASSUME HandlersKeepOut, NEW op \in {"start", "stop", "delete"}, Calls(op)
  PROVE  scan = "off" /\ fault = FALSE
BY DEF HandlersKeepOut, Calls

LEMMA StartStep ==
  ASSUME SwtmrInv, scan = "off", NEW id \in TimerID, StartTimer(id), Rest,
         State(id) # "UNUSED", asked' \in [Client -> TimerID \cup {MAX_TIMERID}]
  PROVE  SwtmrInv'
<1> DEFINE i == id % LIMIT
           s == IF State(id) = "TICKING" THEN osSwtmrStop(sort, i) ELSE sort
<1>1. i \in Timer
  BY TimerFacts
<1>2. /\ State(id) = "CREATED" \/ Listed(i)
      /\ sort' = osSwTmrStart(s, i, timer[i].interval)
      /\ timer' = [timer EXCEPT ![i].state = "TICKING"]
      /\ free' = free /\ fault' = fault /\ live' = live
  BY NotFaulting DEF StartTimer
<1>3. /\ scan' = scan /\ out' = out /\ box' = box /\ hq' = hq /\ node' = node /\ made' = made /\ past' = past
  BY DEF Rest
<1>4. Types /\ Listing /\ Blocks /\ Living /\ Aging /\ Counting /\ fault = FALSE
  BY DEF SwtmrInv
<1>5. /\ timer[i].state = "TICKING" <=> In(sort, i)
      /\ Sorted(sort) /\ NoneDue(sort)
  BY <1>1, TickingListed
<1>6. State(id) = timer[i].state
  BY DEF State
<1>7. Sorted(s) /\ NoneDue(s) /\ \A u : In(s, u) <=> In(sort, u) /\ u # i
  BY <1>5, <1>6, SortStop
<1>8. timer[i].interval \in 1 .. MaxInterval
  <2>1. timer[i] \in Block
    BY <1>1, <1>4 DEF Types
  <2> QED BY <1>1, <1>4, <1>6, <2>1 DEF Blocks, Block
<1> HIDE DEF s, i
<1>9. Sorted(sort') /\ NoneDue(sort') /\ \A u : In(sort', u) <=> In(sort, u) \/ u = i
  <2>1. ~In(s, i)
    BY <1>7
  <2> QED BY <1>1, <1>2, <1>7, <1>8, <2>1, SortStart
<1>10. /\ timer' \in [Timer -> Block]
       /\ \A u \in Timer : /\ timer'[u].state = IF u = i THEN "TICKING" ELSE timer[u].state
                           /\ timer'[u].id = timer[u].id /\ timer'[u].interval = timer[u].interval
  BY <1>1, <1>2, <1>4, StateSet
<1>11. Types'
  BY <1>2, <1>3, <1>4, <1>10 DEF Types
<1>12. Listing'
  BY <1>1, <1>3, <1>4, <1>9, <1>10 DEF Listing, Outside
<1>13. Blocks'
  BY <1>1, <1>2, <1>3, <1>4, <1>6, <1>10 DEF Blocks, Taken, i
<1>14. Living'
  <2>1. timer[i].state # "UNUSED"
    BY <1>6
  <2>2. {timer'[u].id : u \in Timer} = {timer[u].id : u \in Timer}
    BY <1>10
  <2> QED BY <1>1, <1>2, <1>4, <1>10, <2>1, <2>2 DEF Living
<1>15. Aging'
  BY <1>3, <1>4, <1>10, AgingKept
<1>16. Counting'
  BY <1>3, <1>4 DEF Counting
<1> QED BY <1>2, <1>4, <1>11, <1>12, <1>13, <1>14, <1>15, <1>16 DEF SwtmrInv

LEMMA StopStep ==
  ASSUME SwtmrInv, HandlersKeepOut, NEW id \in TimerID, LOS_SwtmrStop(id)
  PROVE  SwtmrInv'
<1> DEFINE i == id % LIMIT
<1>1. i \in Timer /\ scan = "off"
  BY TimerFacts, CallsOutside DEF LOS_SwtmrStop
<1>2. /\ Listed(i) /\ sort' = osSwtmrStop(sort, i)
      /\ timer' = [timer EXCEPT ![i].state = "CREATED"]
      /\ free' = free /\ fault' = fault /\ live' = live /\ asked' = asked
      /\ scan' = scan /\ out' = out /\ box' = box /\ hq' = hq /\ node' = node /\ made' = made /\ past' = past
  BY <1>1, NotFaulting DEF LOS_SwtmrStop, Rest
<1> HIDE DEF i
<1>3. Types /\ Listing /\ Blocks /\ Living /\ Aging /\ Counting /\ fault = FALSE
  BY DEF SwtmrInv
<1>4. timer[i].state = "TICKING" /\ In(sort, i) /\ Sorted(sort) /\ NoneDue(sort)
  BY <1>1, <1>2, TickingListed
<1>5. Sorted(sort') /\ NoneDue(sort') /\ \A u : In(sort', u) <=> In(sort, u) /\ u # i
  BY <1>2, <1>4, SortStop
<1>6. /\ timer' \in [Timer -> Block]
      /\ \A u \in Timer : /\ timer'[u].state = IF u = i THEN "CREATED" ELSE timer[u].state
                          /\ timer'[u].id = timer[u].id /\ timer'[u].interval = timer[u].interval
  BY <1>1, <1>2, <1>3, StateSet
<1>7. Types'
  BY <1>2, <1>3, <1>6 DEF Types
<1>8. Listing'
  BY <1>1, <1>2, <1>3, <1>5, <1>6 DEF Listing, Outside
<1>9. Blocks'
  BY <1>1, <1>2, <1>3, <1>4, <1>6 DEF Blocks, Taken
<1>10. Living'
  <2>1. {timer'[u].id : u \in Timer} = {timer[u].id : u \in Timer}
    BY <1>6
  <2> QED BY <1>1, <1>2, <1>3, <1>4, <1>6, <2>1 DEF Living
<1>11. Aging'
  BY <1>2, <1>3, <1>6, AgingKept
<1>12. Counting'
  BY <1>2, <1>3 DEF Counting
<1> QED BY <1>2, <1>3, <1>7, <1>8, <1>9, <1>10, <1>11, <1>12 DEF SwtmrInv

(* osSwtmrDelete puts the block into the free list, under its id or the next. *)
LEMMA Deleted ==
  ASSUME SwtmrInv, NEW i \in Timer, timer[i].state # "UNUSED", NEW tm \in [Timer -> Block],
         \A u \in Timer : /\ u # i => tm[u] = timer[u]
                          /\ tm[u].interval = timer[u].interval,
         tm[i].id \in TimerID, tm[i].id % LIMIT = i,
         osSwtmrDelete(i, tm), made' = made
  PROVE  /\ timer' \in [Timer -> Block] /\ free' \in Seq(Timer) /\ live' \subseteq TimerID
         /\ Blocks' /\ Living'
         /\ \A u \in Timer : /\ timer'[u].state = IF u = i THEN "UNUSED" ELSE timer[u].state
                             /\ timer'[u].id = tm[u].id /\ timer'[u].mode = tm[u].mode
<1>1. Types /\ Blocks /\ Living /\ Aging
  BY DEF SwtmrInv
<1>2. /\ timer' = [tm EXCEPT ![i].state = "UNUSED"]
      /\ free' = <<i>> \o free /\ live' = live \ {timer[i].id}
  BY DEF osSwtmrDelete
<1>3. /\ timer' \in [Timer -> Block]
      /\ \A u \in Timer :
           /\ timer'[u].state = IF u = i THEN "UNUSED" ELSE tm[u].state
           /\ timer'[u].id = tm[u].id /\ timer'[u].mode = tm[u].mode
           /\ timer'[u].interval = tm[u].interval
  <2> DEFINE e == [tm[i] EXCEPT !.state = "UNUSED"]
  <2>1. tm[i] \in Block
    OBVIOUS
  <2>2. e \in Block /\ e.state = "UNUSED" /\ e.id = tm[i].id /\ e.mode = tm[i].mode /\ e.interval = tm[i].interval
    BY <2>1 DEF Block
  <2>3. timer' = [tm EXCEPT ![i] = e]
    BY <1>2
  <2> HIDE DEF e
  <2> QED BY <2>2, <2>3
<1>4. \A u \in Timer : timer'[u].state = IF u = i THEN "UNUSED" ELSE timer[u].state
  BY <1>3
<1>5. ~Contains(free, i) /\ ~Taken(i) /\ free \in Seq(Timer) /\ IsInjective(free)
  BY <1>1 DEF Blocks, Types
<1>6. free' \in Seq(Timer) /\ IsInjective(free') /\ \A u : Contains(free', u) <=> Contains(free, u) \/ u = i
  BY <1>2, <1>5, PushList
<1>7. Blocks'
  <2>1. \A u : Taken(u)' <=> Taken(u)
    BY DEF Taken
  <2>2. ASSUME NEW u \in Timer
        PROVE  /\ timer'[u].state = "UNUSED" <=> Contains(free', u) \/ Taken(u)'
               /\ Taken(u)' => ~Contains(free', u)
               /\ timer'[u].state # "UNUSED" => timer'[u].interval > 0
    BY <1>1, <1>3, <1>4, <1>5, <1>6, <2>1 DEF Blocks
  <2> QED BY <1>1, <1>6, <2>2 DEF Blocks
<1>8. Living'
  <2>1. \A u \in Timer : timer[u].id % LIMIT = u
    BY <1>1, OwnID
  <2>2. \A u \in Timer : u # i => timer'[u].id = timer[u].id /\ timer[u].id # timer[i].id
    BY <1>3, <2>1
  <2>3. \A d \in live : \E u \in Timer : d = timer[u].id
    BY <1>1 DEF Living
  <2>4. timer'[i].id \notin live'
    <3>1. SUFFICES ASSUME timer'[i].id \in live' PROVE FALSE
      OBVIOUS
    <3>2. PICK u \in Timer : timer'[i].id = timer[u].id
      BY <1>2, <2>3, <3>1
    <3>3. u = i
      BY <1>3, <2>1, <3>2
    <3> QED BY <1>2, <3>1, <3>2, <3>3
  <2>5. \A u \in Timer : timer'[u].state # "UNUSED" <=> timer'[u].id \in live'
    BY <1>1, <1>2, <1>4, <2>2, <2>4 DEF Living
  <2>6. \A d \in live' : \E u \in Timer : d = timer'[u].id
    BY <1>2, <2>2, <2>3
  <2> QED BY <2>5, <2>6 DEF Living
<1> QED BY <1>1, <1>2, <1>3, <1>4, <1>6, <1>7, <1>8 DEF Types

LEMMA DeleteStep ==
  ASSUME SwtmrInv, HandlersKeepOut, NEW id \in TimerID, LOS_SwtmrDelete(id)
  PROVE  SwtmrInv'
<1> DEFINE i == id % LIMIT
<1>1. i \in Timer /\ scan = "off"
  BY TimerFacts, CallsOutside DEF LOS_SwtmrDelete
<1>2. /\ State(id) = "CREATED" \/ Listed(i)
      /\ sort' = IF Listed(i) THEN osSwtmrStop(sort, i) ELSE sort
      /\ osSwtmrDelete(i, timer)
      /\ fault' = fault /\ asked' = asked
      /\ scan' = scan /\ out' = out /\ box' = box /\ hq' = hq /\ node' = node /\ made' = made /\ past' = past
  BY <1>1, NotFaulting DEF LOS_SwtmrDelete, Rest
<1>3. Types /\ Listing /\ Blocks /\ Living /\ Aging /\ Counting /\ fault = FALSE
  BY DEF SwtmrInv
<1>4. /\ timer[i].state = "TICKING" <=> In(sort, i)
      /\ Listed(i) <=> In(sort, i)
      /\ Sorted(sort) /\ NoneDue(sort)
  BY <1>1, TickingListed
<1>5. timer[i].state # "UNUSED"
  BY <1>2, <1>4 DEF State
<1> HIDE DEF i
<1>6. Sorted(sort') /\ NoneDue(sort') /\ \A u : In(sort', u) <=> In(sort, u) /\ u # i
  BY <1>2, <1>4, SortStop
<1>7. timer \in [Timer -> Block] /\ timer[i].id \in TimerID /\ timer[i].id % LIMIT = i
  BY <1>1, <1>3, OwnID DEF Types
<1>8. /\ timer' \in [Timer -> Block] /\ free' \in Seq(Timer) /\ live' \subseteq TimerID
      /\ Blocks' /\ Living'
      /\ \A u \in Timer : /\ timer'[u].state = IF u = i THEN "UNUSED" ELSE timer[u].state
                          /\ timer'[u].id = timer[u].id /\ timer'[u].mode = timer[u].mode
  BY <1>1, <1>2, <1>5, <1>7, Deleted
<1>9. Types'
  BY <1>2, <1>3, <1>8 DEF Types
<1>10. Listing'
  BY <1>1, <1>2, <1>3, <1>6, <1>8 DEF Listing, Outside
<1>11. Aging'
  BY <1>2, <1>3, <1>8, AgingKept
<1>12. Counting'
  BY <1>2, <1>3 DEF Counting
<1> QED BY <1>2, <1>3, <1>8, <1>9, <1>10, <1>11, <1>12 DEF SwtmrInv

LEMMA TakeStep ==
  ASSUME SwtmrInv, NEW c \in Client, TakeTimer(c)
  PROVE  SwtmrInv'
<1>1. /\ free # <<>> /\ made[c] = NoTimer
      /\ free' = Tail(free) /\ made' = [made EXCEPT ![c] = Head(free)]
      /\ timer' = timer /\ sort' = sort /\ scan' = scan /\ out' = out /\ box' = box /\ hq' = hq
      /\ node' = node /\ asked' = asked /\ fault' = fault /\ live' = live /\ past' = past
  BY DEF TakeTimer, Idles
<1>2. Types /\ Listing /\ Blocks /\ Living /\ Aging /\ Counting /\ fault = FALSE
  BY DEF SwtmrInv
<1>3. /\ Head(free) \in Timer /\ Contains(free, Head(free)) /\ Tail(free) \in Seq(Timer)
      /\ IsInjective(free') /\ \A u : Contains(free', u) <=> Contains(free, u) /\ u # Head(free)
  BY <1>1, <1>2, TailList DEF Types, Blocks
<1>4. Types'
  BY <1>1, <1>2, <1>3 DEF Types
<1>5. \A d \in Client : made'[d] = IF d = c THEN Head(free) ELSE made[d]
  BY <1>1, <1>2 DEF Types
<1>6. Blocks'
  <2>1. ~Taken(Head(free))
    BY <1>2, <1>3 DEF Blocks
  <2>2. \A u \in Timer : Taken(u)' <=> Taken(u) \/ u = Head(free)
    BY <1>1, <1>5, TimerFacts DEF Taken
  <2>3. ASSUME NEW d \in Client, NEW e \in Client, made'[d] \in Timer, made'[d] = made'[e] PROVE d = e
    BY <1>2, <1>5, <2>1, <2>3 DEF Blocks, Taken
  <2>4. ASSUME NEW u \in Timer
        PROVE  /\ timer'[u].state = "UNUSED" <=> Contains(free', u) \/ Taken(u)'
               /\ Taken(u)' => ~Contains(free', u)
               /\ timer'[u].state # "UNUSED" => timer'[u].interval > 0
    BY <1>1, <1>2, <1>3, <2>2 DEF Blocks
  <2> QED BY <1>3, <2>3, <2>4 DEF Blocks
<1>7. Listing' /\ Living' /\ Aging' /\ Counting'
  BY <1>1, <1>2 DEF Listing, Outside, Living, Aging, Counting
<1> QED BY <1>1, <1>2, <1>4, <1>6, <1>7 DEF SwtmrInv

LEMMA CreateStep ==
  ASSUME SwtmrInv, NEW c \in Client, NEW n \in 1 .. MaxInterval, NEW mode \in {"ONCE", "PERIOD"},
         LOS_SwtmrCreate(c, n, mode)
  PROVE  SwtmrInv'
<1> DEFINE i == made[c]
           e == [id |-> timer[i].id, state |-> "CREATED", mode |-> mode, interval |-> n]
<1>1. /\ scan = "off" /\ i # NoTimer
      /\ timer' = [timer EXCEPT ![i] = e]
      /\ live' = live \cup {timer[i].id} /\ made' = [made EXCEPT ![c] = NoTimer]
      /\ free' = free /\ sort' = sort /\ scan' = scan /\ out' = out /\ box' = box /\ hq' = hq
      /\ node' = node /\ asked' = asked /\ fault' = fault /\ past' = past
  BY DEF LOS_SwtmrCreate
<1>2. Types /\ Listing /\ Blocks /\ Living /\ Aging /\ Counting /\ fault = FALSE
  BY DEF SwtmrInv
<1>3. i \in Timer /\ NoTimer \notin Timer /\ n \in 0 .. MaxInterval /\ n > 0
  BY <1>1, <1>2, TimerFacts DEF Types
<1>4. Taken(i) /\ ~Contains(free, i) /\ timer[i].state = "UNUSED"
  BY <1>2, <1>3 DEF Taken, Blocks
<1>5. timer[i].id \in TimerID
  BY <1>2, <1>3, OwnID
<1>6. e \in Block /\ e.id = timer[i].id /\ e.state = "CREATED" /\ e.interval = n
  BY <1>3, <1>5 DEF Block
<1>7. \A d \in Client : made'[d] = IF d = c THEN NoTimer ELSE made[d]
  BY <1>1, <1>2 DEF Types
<1> HIDE DEF e, i
<1>8. /\ timer' \in [Timer -> Block]
      /\ \A u \in Timer : /\ timer'[u].state = IF u = i THEN "CREATED" ELSE timer[u].state
                          /\ timer'[u].id = timer[u].id
                          /\ timer'[u].interval = IF u = i THEN n ELSE timer[u].interval
  BY <1>1, <1>2, <1>3, <1>6 DEF Types
<1>9. Types'
  BY <1>1, <1>2, <1>3, <1>5, <1>8 DEF Types
<1>10. Listing'
  BY <1>1, <1>2, <1>3, <1>4, <1>8 DEF Listing, Outside
<1>11. Blocks'
  <2>1. \A u \in Timer : Taken(u)' <=> Taken(u) /\ u # i
    BY <1>2, <1>3, <1>7 DEF Taken, Blocks, i
  <2>2. ASSUME NEW d \in Client, NEW g \in Client, made'[d] \in Timer, made'[d] = made'[g] PROVE d = g
    BY <1>2, <1>3, <1>7, <2>2 DEF Blocks
  <2>3. ASSUME NEW u \in Timer
        PROVE  /\ timer'[u].state = "UNUSED" <=> Contains(free', u) \/ Taken(u)'
               /\ Taken(u)' => ~Contains(free', u)
               /\ timer'[u].state # "UNUSED" => timer'[u].interval > 0
    BY <1>1, <1>2, <1>3, <1>4, <1>8, <2>1 DEF Blocks
  <2> QED BY <1>1, <1>2, <2>2, <2>3 DEF Blocks
<1>12. Living'
  <2>1. \A u \in Timer : timer[u].id = timer[i].id => u = i
    BY <1>2, <1>3, OwnID
  <2>2. {timer'[u].id : u \in Timer} = {timer[u].id : u \in Timer}
    BY <1>8
  <2> QED BY <1>1, <1>2, <1>3, <1>8, <2>1, <2>2 DEF Living
<1>13. Aging'
  BY <1>1, <1>2, <1>8, AgingKept
<1>14. Counting'
  BY <1>1, <1>2 DEF Counting
<1> QED BY <1>1, <1>2, <1>9, <1>10, <1>11, <1>12, <1>13, <1>14 DEF SwtmrInv

LEMMA TimerStartStep ==
  ASSUME SwtmrInv, NEW c \in Client, NEW i \in Timer, NEW n \in 1 .. MaxInterval, osTimerStart(c, i, n)
  PROVE  SwtmrInv'
<1> DEFINE e == [timer[i] EXCEPT !.interval = n]
<1>1. /\ timer' = [timer EXCEPT ![i].interval = n] /\ asked' = [asked EXCEPT ![c] = timer[i].id]
      /\ free' = free /\ sort' = sort /\ scan' = scan /\ out' = out /\ box' = box /\ hq' = hq
      /\ node' = node /\ made' = made /\ fault' = fault /\ live' = live /\ past' = past
  BY DEF osTimerStart, Rest
<1>2. Types /\ Listing /\ Blocks /\ Living /\ Aging /\ Counting /\ fault = FALSE
  BY DEF SwtmrInv
<1>3. n \in 0 .. MaxInterval /\ n > 0 /\ timer[i] \in Block /\ timer[i].id \in TimerID
  BY <1>2, TimerFacts, OwnID DEF Types
<1>4. e \in Block /\ e.id = timer[i].id /\ e.state = timer[i].state /\ e.interval = n
  BY <1>3 DEF Block
<1>5. timer' = [timer EXCEPT ![i] = e]
  BY <1>1
<1> HIDE DEF e
<1>6. /\ timer' \in [Timer -> Block]
      /\ \A u \in Timer : /\ timer'[u].state = timer[u].state /\ timer'[u].id = timer[u].id
                          /\ timer'[u].interval = IF u = i THEN n ELSE timer[u].interval
  BY <1>2, <1>4, <1>5 DEF Types
<1>7. Types'
  BY <1>1, <1>2, <1>3, <1>6 DEF Types
<1>8. Listing'
  BY <1>1, <1>2, <1>6 DEF Listing, Outside
<1>9. Blocks'
  BY <1>1, <1>2, <1>3, <1>6 DEF Blocks, Taken
<1>10. Living'
  <2>1. {timer'[u].id : u \in Timer} = {timer[u].id : u \in Timer}
    BY <1>6
  <2> QED BY <1>1, <1>2, <1>6, <2>1 DEF Living
<1>11. Aging'
  BY <1>1, <1>2, <1>6, AgingKept
<1>12. Counting'
  BY <1>1, <1>2 DEF Counting
<1> QED BY <1>1, <1>2, <1>7, <1>8, <1>9, <1>10, <1>11, <1>12 DEF SwtmrInv

(* A step that leaves the blocks, the ids and the box alone. *)
LEMMA OthersKept ==
  ASSUME SwtmrInv, Types', Listing', UNCHANGED <<timer, free, box, hq, node, made, fault, live, past>>
  PROVE  SwtmrInv'
<1>1. Types /\ Listing /\ Blocks /\ Living /\ Aging /\ Counting /\ fault = FALSE
  BY DEF SwtmrInv
<1>2. Blocks' /\ Living' /\ Aging' /\ Counting'
  BY <1>1 DEF Blocks, Taken, Living, Aging, Counting
<1> QED BY <1>1, <1>2 DEF SwtmrInv

LEMMA TimerStartsStep ==
  ASSUME SwtmrInv, NEW c \in Client, osTimerStarts(c)
  PROVE  SwtmrInv'
<1> DEFINE id == asked[c]
<1>1. /\ scan = "off" /\ id # MAX_TIMERID /\ Rest
      /\ asked' = [asked EXCEPT ![c] = MAX_TIMERID]
  BY DEF osTimerStarts
<1>2. Types /\ Listing
  BY DEF SwtmrInv
<1>3. id \in TimerID /\ asked' \in [Client -> TimerID \cup {MAX_TIMERID}]
  BY <1>1, <1>2 DEF Types
<1>4. CASE Current(id) /\ State(id) # "UNUSED"
  <2>1. StartTimer(id)
    BY <1>4 DEF osTimerStarts
  <2> QED BY <1>1, <1>3, <1>4, <2>1, StartStep
<1>5. CASE ~(Current(id) /\ State(id) # "UNUSED")
  <2>1. UNCHANGED <<timer, sort, free, fault, live, scan, out, box, hq, node, made, past>>
    BY <1>1, <1>5 DEF osTimerStarts, Rest
  <2>2. Types'
    BY <1>2, <1>3, <2>1 DEF Types
  <2>3. Listing'
    BY <1>2, <2>1 DEF Listing, Outside
  <2> QED BY <2>1, <2>2, <2>3, OthersKept
<1> QED BY <1>4, <1>5

LEMMA ScanStep ==
  ASSUME SwtmrInv, osSwtmrScan
  PROVE  SwtmrInv'
<1>1. /\ scan = "off" /\ sort # <<>> /\ sort' = Plus(sort, 1, -1)
      /\ scan' = IF sort'[1].count = 0 THEN "loop" ELSE "off"
      /\ UNCHANGED <<timer, free, out, box, hq, node, made, asked, fault, live, past>>
  BY DEF osSwtmrScan
<1>2. Types /\ Listing
  BY DEF SwtmrInv
<1>3. Sorted(sort') /\ sort' # <<>> /\ \A u : In(sort', u) <=> In(sort, u)
  BY <1>1, <1>2, SortTick DEF Listing
<1>4. scan' \in {"off", "loop"} /\ (scan' = "off" => NoneDue(sort'))
  <2>1. sort' \in Seq(Node) /\ Rising(sort')
    BY <1>3 DEF Sorted
  <2>2. sort'[1].count \in Int /\ sort'[1].count >= 0
    BY <1>3, <2>1, FirstLeft DEF Rising
  <2> QED BY <1>1, <2>2 DEF NoneDue
<1>5. Types'
  BY <1>1, <1>2, <1>4 DEF Types
<1>6. Listing'
  BY <1>1, <1>2, <1>3, <1>4 DEF Listing, Outside
<1> QED BY <1>1, <1>5, <1>6, OthersKept

LEMMA TimesOutStep ==
  ASSUME SwtmrInv, TimesOut
  PROVE  SwtmrInv'
<1>1. /\ scan = "loop" /\ sort # <<>> /\ sort[1].count = 0
      /\ scan' = "out" /\ out' = sort[1].timer /\ sort' = Tail(sort)
      /\ UNCHANGED <<timer, free, node, made, asked, fault, live, past>>
  BY DEF TimesOut
<1>2. \/ box > 0 /\ box' = box - 1 /\ hq' = Append(hq, out')
      \/ box' = box /\ hq' = hq
  BY DEF TimesOut
<1>3. Types /\ Listing /\ Blocks /\ Living /\ Aging /\ Counting /\ fault = FALSE
  BY DEF SwtmrInv
<1>4. Sorted(sort') /\ out' \in Timer /\ \A u : In(sort', u) <=> In(sort, u) /\ u # out'
  BY <1>1, <1>3, SortTail DEF Listing
<1>5. In(sort, out')
  <2>1. sort \in Seq(Node)
    BY <1>3 DEF Listing, Sorted
  <2> QED BY <1>1, <2>1, FirstLeft DEF In
<1>6. hq' \in Seq(Timer) /\ box' \in Nat /\ Counting'
  <2>1. hq \in Seq(Timer) /\ box \in Nat
    BY <1>3 DEF Types
  <2>2. CASE box > 0 /\ box' = box - 1 /\ hq' = Append(hq, out')
    <3>1. hq' \in Seq(Timer) /\ Len(hq') = Len(hq) + 1 /\ box' \in Nat
      BY <1>4, <2>1, <2>2
    <3>2. Len(hq) \in Nat
      BY <2>1
    <3> QED BY <1>1, <1>3, <2>1, <2>2, <3>1, <3>2 DEF Counting
  <2>3. CASE box' = box /\ hq' = hq
    BY <1>1, <1>3, <2>1, <2>3 DEF Counting
  <2> QED BY <1>2, <2>2, <2>3
<1>7. Types'
  BY <1>1, <1>3, <1>4, <1>6 DEF Types
<1>8. Listing'
  BY <1>1, <1>3, <1>4, <1>5 DEF Listing, Outside
<1>9. Blocks' /\ Living' /\ Aging'
  BY <1>1, <1>3 DEF Blocks, Taken, Living, Aging
<1> QED BY <1>1, <1>3, <1>6, <1>7, <1>8, <1>9 DEF SwtmrInv

LEMMA TimesOutOnceStep ==
  ASSUME SwtmrInv, TimesOutOnce
  PROVE  SwtmrInv'
<1> DEFINE i == out
           tm == [timer EXCEPT ![i].id = NextID(@)]
           s == Append(past[i], timer[i].id)
           q == IF Len(s) < Generations THEN s ELSE Tail(s)
<1>1. /\ scan = "out" /\ scan' = "loop" /\ osSwtmrDelete(i, tm)
      /\ past' = [past EXCEPT ![i] = q]
      /\ UNCHANGED <<sort, out, box, hq, node, made, asked, fault>>
  BY DEF TimesOutOnce
<1>2. Types /\ Listing /\ Blocks /\ Living /\ Aging /\ Counting /\ fault = FALSE
  BY DEF SwtmrInv
<1>3. i \in Timer /\ ~In(sort, i) /\ timer[i].state = "TICKING"
  BY <1>1, <1>2 DEF Listing, Outside
<1>4. PICK g \in 0 .. Generations - 1 : timer[i].id = ID(i, g) /\ History(i, past[i], g)
  BY <1>2, <1>3 DEF Aging
<1> DEFINE h == IF g < Generations - 1 THEN g + 1 ELSE 0
<1>5. /\ ID(i, g) \in TimerID /\ NextID(timer[i].id) = ID(i, h)
      /\ h \in 0 .. Generations - 1 /\ q \in Seq(TimerID) /\ History(i, q, h)
  <2>1. past[i] \in Seq(TimerID)
    BY <1>2, <1>3 DEF Types
  <2>2. ID(i, g) \in TimerID /\ NextID(timer[i].id) = ID(i, h)
    BY <1>3, <1>4, IDs
  <2> QED BY <1>3, <1>4, <2>1, <2>2, HistoryGrows
<1> HIDE DEF h, q
<1>6. ID(i, h) \in TimerID /\ ID(i, h) % LIMIT = i
  BY <1>3, <1>5, IDs
<1>7. /\ tm \in [Timer -> Block]
      /\ \A u \in Timer : /\ u # i => tm[u] = timer[u]
                          /\ tm[u].interval = timer[u].interval
                          /\ tm[u].id = IF u = i THEN ID(i, h) ELSE timer[u].id
  <2> DEFINE e == [timer[i] EXCEPT !.id = ID(i, h)]
  <2>1. timer[i] \in Block /\ timer \in [Timer -> Block]
    BY <1>2, <1>3 DEF Types
  <2>2. e \in Block /\ e.id = ID(i, h) /\ e.interval = timer[i].interval
    BY <1>6, <2>1 DEF Block
  <2>3. tm = [timer EXCEPT ![i] = e]
    BY <1>5
  <2> HIDE DEF e, tm
  <2> QED BY <1>3, <2>1, <2>2, <2>3
<1> HIDE DEF tm
<1>8. /\ timer' \in [Timer -> Block] /\ free' \in Seq(Timer) /\ live' \subseteq TimerID
      /\ Blocks' /\ Living'
      /\ \A u \in Timer : /\ timer'[u].state = IF u = i THEN "UNUSED" ELSE timer[u].state
                          /\ timer'[u].id = tm[u].id /\ timer'[u].mode = tm[u].mode
  <2>1. timer[i].state # "UNUSED" /\ tm[i].id \in TimerID /\ tm[i].id % LIMIT = i /\ made' = made
    BY <1>1, <1>3, <1>6, <1>7
  <2> HIDE DEF i
  <2> QED BY <1>1, <1>3, <1>7, <2>1, Deleted
<1>9. past' \in [Timer -> Seq(TimerID)] /\ \A u \in Timer : past'[u] = IF u = i THEN q ELSE past[u]
  BY <1>1, <1>2, <1>3, <1>5 DEF Types
<1>10. Types'
  BY <1>1, <1>2, <1>8, <1>9 DEF Types
<1>11. Listing'
  BY <1>1, <1>2, <1>3, <1>8 DEF Listing, Outside
<1>12. Aging'
  <2>1. ASSUME NEW u \in Timer
        PROVE  \E f \in 0 .. Generations - 1 : timer'[u].id = ID(u, f) /\ History(u, past'[u], f)
    <3>1. CASE u = i
      BY <1>5, <1>7, <1>8, <1>9, <3>1
    <3>2. CASE u # i
      BY <1>2, <1>7, <1>8, <1>9, <3>2 DEF Aging
    <3> QED BY <3>1, <3>2
  <2> QED BY <2>1 DEF Aging
<1>13. Counting'
  BY <1>1, <1>2 DEF Counting
<1> QED BY <1>1, <1>2, <1>8, <1>10, <1>11, <1>12, <1>13 DEF SwtmrInv

LEMMA TimesOutPeriodStep ==
  ASSUME SwtmrInv, TimesOutPeriod
  PROVE  SwtmrInv'
<1> DEFINE i == out
<1>1. /\ scan = "out" /\ scan' = "loop"
      /\ sort' = osSwTmrStart(sort, i, timer[i].interval)
      /\ timer' = [timer EXCEPT ![i].state = "TICKING"]
      /\ UNCHANGED <<free, out, box, hq, node, made, asked, fault, live, past>>
  BY DEF TimesOutPeriod
<1>2. Types /\ Listing /\ Blocks /\ Living /\ Aging /\ Counting /\ fault = FALSE
  BY DEF SwtmrInv
<1>3. i \in Timer /\ ~In(sort, i) /\ timer[i].state = "TICKING" /\ Sorted(sort)
  BY <1>1, <1>2 DEF Listing, Outside
<1>4. timer[i].interval \in 1 .. MaxInterval
  <2>1. timer[i] \in Block
    BY <1>2, <1>3 DEF Types
  <2> QED BY <1>2, <1>3, <2>1 DEF Blocks, Block
<1>5. Sorted(sort') /\ \A u : In(sort', u) <=> In(sort, u) \/ u = i
  BY <1>1, <1>3, <1>4, SortStart
<1>6. /\ timer' \in [Timer -> Block]
      /\ \A u \in Timer : /\ timer'[u].state = timer[u].state
                          /\ timer'[u].id = timer[u].id /\ timer'[u].interval = timer[u].interval
  <2>1. /\ timer' \in [Timer -> Block]
        /\ \A u \in Timer : /\ timer'[u].state = IF u = i THEN "TICKING" ELSE timer[u].state
                            /\ timer'[u].id = timer[u].id /\ timer'[u].interval = timer[u].interval
    <3> HIDE DEF i
    <3> QED BY <1>1, <1>2, <1>3, StateSet
  <2> QED BY <1>3, <2>1
<1>7. Types'
  BY <1>1, <1>2, <1>6 DEF Types
<1>8. Listing'
  BY <1>1, <1>2, <1>3, <1>5, <1>6 DEF Listing, Outside
<1>9. Blocks'
  BY <1>1, <1>2, <1>6 DEF Blocks, Taken
<1>10. Living'
  <2>1. {timer'[u].id : u \in Timer} = {timer[u].id : u \in Timer}
    BY <1>6
  <2> QED BY <1>1, <1>2, <1>6, <2>1 DEF Living
<1>11. Aging'
  BY <1>1, <1>2, <1>6, AgingKept
<1>12. Counting'
  BY <1>1, <1>2 DEF Counting
<1> QED BY <1>1, <1>2, <1>7, <1>8, <1>9, <1>10, <1>11, <1>12 DEF SwtmrInv

LEMMA ScanEndsStep ==
  ASSUME SwtmrInv, ScanEnds
  PROVE  SwtmrInv'
<1>1. /\ scan = "loop" /\ (sort # <<>> => sort[1].count # 0) /\ scan' = "off"
      /\ UNCHANGED <<timer, free, sort, out, box, hq, node, made, asked, fault, live, past>>
  BY DEF ScanEnds
<1>2. Types /\ Listing
  BY DEF SwtmrInv
<1>3. NoneDue(sort)
  <2>1. sort \in Seq(Node) /\ Rising(sort)
    BY <1>2 DEF Listing, Sorted
  <2>2. sort # <<>> => sort[1].count \in Int /\ sort[1].count >= 0
    BY <2>1, FirstLeft DEF Rising
  <2> QED BY <1>1, <2>2 DEF NoneDue
<1>4. Types'
  BY <1>1, <1>2 DEF Types
<1>5. Listing'
  BY <1>1, <1>2, <1>3 DEF Listing, Outside
<1> QED BY <1>1, <1>4, <1>5, OthersKept

(* The software timer task. *)
LEMMA TaskSteps ==
  ASSUME SwtmrInv, TaskReads \/ TaskFrees
  PROVE  SwtmrInv'
<1>1. UNCHANGED <<timer, free, sort, scan, out, made, asked, fault, live, past>>
  BY DEF TaskReads, TaskFrees
<1>2. Types /\ Listing /\ Blocks /\ Living /\ Aging /\ Counting /\ fault = FALSE
  BY DEF SwtmrInv
<1>3. hq \in Seq(Timer) /\ box \in Nat /\ NoTimer \notin Timer
  BY <1>2, TimerFacts DEF Types
<1>4. hq' \in Seq(Timer) /\ box' \in Nat /\ node' \in Timer \cup {NoTimer} /\ Counting'
  <2>1. CASE TaskReads
    <3>1. /\ hq # <<>> /\ hq' = Tail(hq) /\ node' = Head(hq) /\ node = NoTimer /\ box' = box
      BY <2>1 DEF TaskReads
    <3>2. hq' \in Seq(Timer) /\ Len(hq') = Len(hq) - 1 /\ Len(hq) \in Nat /\ node' \in Timer
      BY <1>3, <3>1
    <3> QED BY <1>2, <1>3, <3>1, <3>2 DEF Counting
  <2>2. CASE TaskFrees
    <3>1. node # NoTimer /\ box' = box + 1 /\ node' = NoTimer /\ hq' = hq
      BY <2>2 DEF TaskFrees
    <3>2. Len(hq) \in Nat
      BY <1>3
    <3> QED BY <1>2, <1>3, <3>1, <3>2 DEF Counting
  <2> QED BY <2>1, <2>2
<1>5. Types'
  BY <1>1, <1>2, <1>4 DEF Types
<1>6. Listing' /\ Blocks' /\ Living' /\ Aging'
  BY <1>1, <1>2 DEF Listing, Outside, Blocks, Taken, Living, Aging
<1> QED BY <1>1, <1>2, <1>4, <1>5, <1>6 DEF SwtmrInv

LEMMA NextSwtmrInv ==
  ASSUME HandlersKeepOut
  PROVE  SwtmrInv /\ [Next]_vars => SwtmrInv'
<1> SUFFICES ASSUME SwtmrInv, [Next]_vars PROVE SwtmrInv'
  OBVIOUS
<1>1. ASSUME NEW id \in TimerID, LOS_SwtmrStart(id) PROVE SwtmrInv'
  <2>1. /\ scan = "off" /\ StartTimer(id) /\ Rest /\ asked' = asked
    BY <1>1, CallsOutside DEF LOS_SwtmrStart
  <2>2. State(id) # "UNUSED" /\ asked' \in [Client -> TimerID \cup {MAX_TIMERID}]
    <3>1. id % LIMIT \in Timer
      BY TimerFacts
    <3>2. asked \in [Client -> TimerID \cup {MAX_TIMERID}]
      BY DEF SwtmrInv, Types
    <3>3. State(id) = "CREATED" \/ State(id) = "TICKING"
      BY <2>1, <3>1, TickingListed, NotFaulting DEF StartTimer, State
    <3> QED BY <2>1, <3>2, <3>3
  <2> QED BY <2>1, <2>2, StartStep
<1>2. ASSUME NEW c \in Client,
             \/ TakeTimer(c) \/ osTimerStarts(c)
             \/ \E n \in 1 .. MaxInterval :
                  \/ \E mode \in {"ONCE", "PERIOD"} : LOS_SwtmrCreate(c, n, mode)
                  \/ \E i \in Timer : osTimerStart(c, i, n)
      PROVE  SwtmrInv'
  BY <1>2, TakeStep, TimerStartsStep, CreateStep, TimerStartStep
<1>3. CASE \E id \in TimerID : LOS_SwtmrStart(id) \/ LOS_SwtmrStop(id) \/ LOS_SwtmrDelete(id)
  BY <1>1, <1>3, StopStep, DeleteStep
<1>4. CASE Tick
  BY <1>4, ScanStep, TimesOutStep, TimesOutOnceStep, TimesOutPeriodStep, ScanEndsStep DEF Tick
<1>5. CASE TaskReads \/ TaskFrees
  BY <1>5, TaskSteps
<1>6. CASE UNCHANGED vars
  <2>1. Types /\ Listing
    BY DEF SwtmrInv
  <2>2. Types' /\ Listing'
    BY <1>6, <2>1 DEF vars, Types, Listing, Outside
  <2> QED BY <1>6, <2>2, OthersKept DEF vars
<1> QED BY <1>2, <1>3, <1>4, <1>5, <1>6 DEF Next

LEMMA SwtmrInvariance ==
  ASSUME HandlersKeepOut
  PROVE  Spec => []SwtmrInv
<1> QED BY InitSwtmrInv, NextSwtmrInv, PTL DEF Spec

(***************************************************************************)
(* The theorems.                                                           *)
(***************************************************************************)

(* Every variable keeps its type: no usTimerID reaches the limit that every call
   tests, and no uwCount wraps below 0 or exceeds the longest interval.    *)
THEOREM SwtmrTypeCorrect ==
  ASSUME HandlersKeepOut
  PROVE  Spec => []SwtmrTypeOK
<1>1. SwtmrInv => SwtmrTypeOK
  <2> SUFFICES ASSUME SwtmrInv PROVE SwtmrTypeOK
    OBVIOUS
  <2>1. Types /\ Counting /\ fault \in BOOLEAN /\ Sorted(sort) /\ sort \in Seq(Node)
    <3>1. Types /\ Counting /\ fault = FALSE /\ Sorted(sort)
      BY DEF SwtmrInv, Listing
    <3> QED BY <3>1 DEF Sorted
  <2>2. ASSUME NEW j \in 1 .. Len(sort) PROVE sort[j] \in [timer : Timer, count : 0 .. MaxInterval]
    <3>1. sort[j].count \in Int /\ sort[j].count >= 0 /\ Left(sort, j) = Left(sort, j - 1) + sort[j].count
      BY <2>1, Sums DEF Sorted, Rising
    <3>2. Left(sort, j - 1) \in Int /\ Left(sort, j - 1) >= 0 /\ Left(sort, j) <= MaxInterval
      <4>1. j - 1 \in 0 .. Len(sort)
        OBVIOUS
      <4> QED BY <2>1, <4>1, LeftType DEF Sorted
    <3>3. sort[j].count \in 0 .. MaxInterval
      BY <3>1, <3>2, TimerFacts
    <3>4. sort[j] \in Node
      BY <2>1
    <3> QED BY <3>3, <3>4 DEF Node
  <2> DEFINE Waiting == [timer : Timer, count : 0 .. MaxInterval]
  <2>3. sort \in Seq(Waiting)
    <3>1. \A j \in 1 .. Len(sort) : sort[j] \in Waiting
      BY <2>2
    <3>2. Len(sort) \in Nat /\ sort = [j \in 1 .. Len(sort) |-> sort[j]]
      BY <2>1
    <3> HIDE DEF Waiting
    <3> QED BY <3>1, <3>2, IsASeq
  <2>4. box \in 0 .. HANDLE_QUEUE_SIZE
    <3>1. box \in Nat /\ Len(hq) \in Nat /\ LIMIT \in Nat
      BY <2>1, TimerFacts DEF Types
    <3> QED BY <2>1, <3>1 DEF Counting, HANDLE_QUEUE_SIZE
  <2> QED BY <2>1, <2>3, <2>4 DEF SwtmrTypeOK, Types, Block
<1> QED BY <1>1, SwtmrInvariance, PTL

(* No list is searched in vain, no block is lost or owned twice, and the ids that
   clients hold are those of the blocks in use.                            *)
THEOREM BlocksAgree ==
  ASSUME HandlersKeepOut
  PROVE  Spec => []TimersAgree
<1>1. SwtmrInv => TimersAgree
  <2> SUFFICES ASSUME SwtmrInv PROVE TimersAgree
    OBVIOUS
  <2>1. /\ ~fault /\ IsInjective(free) /\ Listing /\ Blocks /\ Living /\ Aging
        /\ sort \in Seq(Node) /\ Once(sort)
    BY DEF SwtmrInv, Blocks, Listing, Sorted
  <2>2. \A j \in 1 .. Len(sort) : Place(sort, sort[j].timer) = j
    BY <2>1, PlaceOnce
  <2>3. \A i \in Timer : Listed(i) <=> In(sort, i)
    BY <2>1, PlaceIs DEF Listed, In
  <2>4. ASSUME NEW i \in Timer
        PROVE  /\ timer[i].id % LIMIT = i
               /\ timer[i].state = "UNUSED" <=> Contains(free, i) \/ \E c \in Client : made[c] = i
               /\ \A c, d \in Client : made[c] = i => ~Contains(free, i) /\ (made[d] = i => c = d)
               /\ timer[i].state = "TICKING" <=> Listed(i) \/ (scan = "out" /\ out = i)
               /\ timer[i].state # "UNUSED" <=> timer[i].id \in live
    <3>1. timer[i].id % LIMIT = i
      BY <2>1, OwnID
    <3>2. timer[i].state = "UNUSED" <=> Contains(free, i) \/ \E c \in Client : made[c] = i
      BY <2>1 DEF Blocks, Taken
    <3>3. \A c, d \in Client : made[c] = i => ~Contains(free, i) /\ (made[d] = i => c = d)
      BY <2>1 DEF Blocks, Taken
    <3>4. timer[i].state = "TICKING" <=> Listed(i) \/ (scan = "out" /\ out = i)
      BY <2>1, <2>3 DEF Listing, Outside
    <3>5. timer[i].state # "UNUSED" <=> timer[i].id \in live
      BY <2>1 DEF Living
    <3> QED BY <3>1, <3>2, <3>3, <3>4, <3>5
  <2>5. live \subseteq {timer[i].id : i \in Timer}
    BY <2>1 DEF Living
  <2> QED BY <2>1, <2>2, <2>4, <2>5 DEF TimersAgree
<1> QED BY <1>1, SwtmrInvariance, PTL

(* The id of a one-shot timer that has expired does not come back before the
   timer's other ids have been used.                                       *)
THEOREM StaleIdsRefused ==
  ASSUME HandlersKeepOut
  PROVE  Spec => []StaleIdRefused
<1>1. SwtmrInv => StaleIdRefused
  <2> SUFFICES ASSUME SwtmrInv, NEW i \in Timer PROVE \A j \in 1 .. Len(past[i]) : past[i][j] # timer[i].id
    BY DEF StaleIdRefused
  <2>1. PICK g \in 0 .. Generations - 1 : timer[i].id = ID(i, g) /\ History(i, past[i], g)
    BY DEF SwtmrInv, Aging
  <2>2. Len(past[i]) \in Nat
    <3>1. past[i] \in Seq(TimerID)
      BY DEF SwtmrInv, Types
    <3> QED BY <3>1
  <2> QED BY <2>1, <2>2, HistoryStale
<1> QED BY <1>1, SwtmrInvariance, PTL

(* More timers than there are cannot be recorded without one of them twice. *)
LEMMA TwiceRecorded ==
  ASSUME NEW s \in Seq(Timer), Len(s) > LIMIT
  PROVE  ~IsInjective(s)
<1>1. LIMIT \in Nat /\ Len(s) \in Nat
  BY TimerFacts
<1>2. /\ IsFiniteSet(Timer) /\ Cardinality(Timer) = LIMIT
      /\ IsFiniteSet(1 .. Len(s)) /\ Cardinality(1 .. Len(s)) = Len(s)
  <2>1. /\ IsFiniteSet(0 .. LIMIT - 1)
        /\ Cardinality(0 .. LIMIT - 1) = IF 0 > LIMIT - 1 THEN 0 ELSE LIMIT - 1 - 0 + 1
    <3>1. 0 \in Int /\ LIMIT - 1 \in Int
      BY <1>1
    <3> QED BY <3>1, FS_Interval
  <2>2. /\ IsFiniteSet(1 .. Len(s))
        /\ Cardinality(1 .. Len(s)) = IF 1 > Len(s) THEN 0 ELSE Len(s) - 1 + 1
    BY <1>1, FS_Interval
  <2> QED BY <1>1, <2>1, <2>2 DEF Timer
<1>3. s \in [1 .. Len(s) -> Timer]
  OBVIOUS
<1>4. \E l, m \in 1 .. Len(s) : l # m /\ s[l] = s[m]
  BY <1>1, <1>2, <1>3, FS_PigeonHole
<1> QED BY <1>4 DEF IsInjective

(* An expiry is dropped only when one timer has expired twice without its handler
   being called.                                                           *)
THEOREM DropsOnlyWhenBehind ==
  ASSUME HandlersKeepOut
  PROVE  Spec => DroppedOnlyWhenBehind
<1>1. SwtmrInv /\ [Next]_vars => [TimesOut /\ hq' = hq => ~IsInjective(Append(Recorded, out'))]_vars
  <2> SUFFICES ASSUME SwtmrInv, TimesOut, hq' = hq PROVE ~IsInjective(Append(Recorded, out'))
    OBVIOUS
  <2>1. Types /\ Counting /\ SwtmrInv'
    BY TimesOutStep DEF SwtmrInv
  <2>2. hq \in Seq(Timer) /\ Len(hq) \in Nat /\ box \in Nat /\ LIMIT \in Nat /\ out' \in Timer
    <3>1. scan' = "out"
      BY DEF TimesOut
    <3> QED BY <2>1, <3>1, TimerFacts DEF Types, SwtmrInv, Listing
  <2>3. ~(box > 0 /\ Len(hq) < LIMIT)
    <3>1. Append(hq, out') # hq
      <4>1. Len(Append(hq, out')) = Len(hq) + 1
        BY <2>2
      <4> QED BY <2>2, <4>1
    <3> QED BY <3>1 DEF TimesOut, HANDLE_QUEUE_SIZE
  <2>4. Recorded \in Seq(Timer) /\ Len(Recorded) >= LIMIT
    <3>1. CASE node = NoTimer
      <4>1. Recorded = hq
        BY <2>2, <3>1 DEF Recorded
      <4> QED BY <2>1, <2>2, <2>3, <3>1, <4>1 DEF Counting
    <3>2. CASE node # NoTimer
      <4>1. node \in Timer
        BY <2>1, <3>2 DEF Types
      <4>2. <<node>> \in Seq(Timer) /\ Len(<<node>>) = 1 /\ Recorded = <<node>> \o hq
        BY <3>2, <4>1 DEF Recorded
      <4>3. Recorded \in Seq(Timer) /\ Len(Recorded) = 1 + Len(hq)
        BY <2>2, <4>2
      <4> QED BY <2>1, <2>2, <2>3, <3>2, <4>3 DEF Counting
    <3> QED BY <3>1, <3>2
  <2>5. Append(Recorded, out') \in Seq(Timer) /\ Len(Append(Recorded, out')) > LIMIT
    BY <2>2, <2>4
  <2> QED BY <2>5, TwiceRecorded
<1> QED BY <1>1, SwtmrInvariance, PTL DEF Spec, DroppedOnlyWhenBehind

(***************************************************************************)
(* The refinement of Alarm.  Row is the list as Alarm shows it.            *)
(***************************************************************************)
RingAt == [timer : Timer, left : Int]
Row(s) == [j \in 1 .. Len(s) |-> [timer |-> s[j].timer, left |-> Left(s, j)]]

LEMMA RowType ==
  ASSUME NEW s \in Seq(Node)
  PROVE  /\ Row(s) \in Seq(RingAt) /\ Len(Row(s)) = Len(s)
         /\ \A m \in 1 .. Len(s) : /\ Row(s)[m] = [timer |-> s[m].timer, left |-> Left(s, m)]
                                   /\ Row(s)[m].timer = s[m].timer /\ Row(s)[m].left = Left(s, m)
<1>1. Len(s) \in Nat
  OBVIOUS
<1>2. ASSUME NEW m \in 1 .. Len(s) PROVE [timer |-> s[m].timer, left |-> Left(s, m)] \in RingAt
  <2>1. s[m] \in Node /\ m \in 0 .. Len(s)
    OBVIOUS
  <2>2. s[m].timer \in Timer /\ Left(s, m) \in Int
    BY <2>1, LeftType DEF Node
  <2> QED BY <2>2 DEF RingAt
<1>3. Row(s) \in Seq(RingAt) /\ Len(Row(s)) = Len(s)
  <2> DEFINE e(m) == [timer |-> s[m].timer, left |-> Left(s, m)]
  <2>1. \A m \in 1 .. Len(s) : e(m) \in RingAt
    BY <1>2
  <2>2. Row(s) = [m \in 1 .. Len(s) |-> e(m)]
    BY DEF Row
  <2> HIDE DEF e
  <2> QED BY <1>1, <2>1, <2>2
<1> QED BY <1>3 DEF Row

(* Two lists of one length whose places agree show the same row. *)
LEMMA SameRow ==
  ASSUME NEW s \in Seq(Node), NEW r \in Seq(RingAt), Len(r) = Len(s),
         \A m \in 1 .. Len(s) : r[m].timer = s[m].timer /\ r[m].left = Left(s, m)
  PROVE  r = Row(s)
<1>1. \A m \in 1 .. Len(s) : r[m] = Row(s)[m]
  <2> SUFFICES ASSUME NEW m \in 1 .. Len(s) PROVE r[m] = Row(s)[m]
    OBVIOUS
  <2>1. r[m] \in RingAt
    OBVIOUS
  <2>2. r[m] = [timer |-> s[m].timer, left |-> Left(s, m)]
    BY <2>1 DEF RingAt
  <2> QED BY <2>2, RowType
<1>2. Row(s) \in Seq(RingAt) /\ Len(Row(s)) = Len(s)
  BY RowType
<1> HIDE DEF Row
<1> QED BY <1>1, <1>2, SeqEqual

(* The row without a timer. *)
Without(r, i) == RemoveFirstMatch(r, LAMBDA a : a.timer = i)

LEMMA WithoutAbsent ==
  ASSUME NEW s \in Seq(Node), NEW i, ~In(s, i)
  PROVE  Without(Row(s), i) = Row(s)
<1>1. ~ \E m \in 1 .. Len(Row(s)) : Row(s)[m].timer = i
  BY RowType DEF In
<1> QED BY <1>1 DEF Without, RemoveFirstMatch

LEMMA WithoutListed ==
  ASSUME NEW s \in Seq(Node), Rising(s), NEW i, In(s, i)
  PROVE  Without(Row(s), i) = Row(osSwtmrStop(s, i))
<1> DEFINE r == Row(s)
           q == osSwtmrStop(s, i)
           I == {m \in 1 .. Len(r) : r[m].timer = i}
           J == {m \in 1 .. Len(s) : s[m].timer = i}
           j == Place(s, i)
<1>1. /\ r \in Seq(RingAt) /\ Len(r) = Len(s)
      /\ \A m \in 1 .. Len(s) : r[m].timer = s[m].timer /\ r[m].left = Left(s, m)
  BY RowType
<1>2. j \in 1 .. Len(s)
  <2>1. j \in 0 .. Len(s) /\ j # 0
    BY PlaceIs DEF In
  <2> QED BY <2>1
<1> HIDE DEF r
<1>3. I = J
  BY <1>1
<1>4. Without(r, i) = RemoveAt(r, j)
  <2>1. \E m \in 1 .. Len(r) : r[m].timer = i
    BY <1>1 DEF In
  <2>2. Without(r, i) = IF \E m \in 1 .. Len(r) : r[m].timer = i
                        THEN RemoveAt(r, IF I # {} THEN Min(I) ELSE 0) ELSE r
    BY DEF Without, RemoveFirstMatch, SelectInSeq
  <2>3. j = IF J # {} THEN Min(J) ELSE 0
    BY DEF Place, SelectInSeq
  <2> HIDE DEF j, I, J
  <2> QED BY <1>3, <2>1, <2>2, <2>3
<1>5. /\ q \in Seq(Node) /\ Len(q) = Len(s) - 1
      /\ \A m \in 1 .. Len(s) - 1 :
           /\ q[m].timer = IF m < j THEN s[m].timer ELSE s[m + 1].timer
           /\ Left(q, m) = IF m < j THEN Left(s, m) ELSE Left(s, m + 1)
  BY <1>2, StopRow
<1> HIDE DEF j, q
<1> DEFINE t == RemoveAt(r, j)
<1>6. /\ t \in Seq(RingAt) /\ Len(t) = Len(s) - 1
      /\ \A m \in 1 .. Len(s) - 1 : t[m] = IF m < j THEN r[m] ELSE r[m + 1]
  <2>1. r \in Seq(RingAt) /\ j \in 1 .. Len(r)
    BY <1>1, <1>2
  <2> QED BY <1>1, <2>1, RemoveAtList
<1> HIDE DEF t
<1>7. \A m \in 1 .. Len(q) : t[m].timer = q[m].timer /\ t[m].left = Left(q, m)
  <2> SUFFICES ASSUME NEW m \in 1 .. Len(s) - 1 PROVE t[m].timer = q[m].timer /\ t[m].left = Left(q, m)
    BY <1>5
  <2>1. m \in 1 .. Len(s) /\ m + 1 \in 1 .. Len(s)
    OBVIOUS
  <2>2. CASE m < j
    BY <1>1, <1>5, <1>6, <2>1, <2>2
  <2>3. CASE ~(m < j)
    BY <1>1, <1>5, <1>6, <2>1, <2>3
  <2> QED BY <2>2, <2>3
<1>8. t = Row(q)
  <2>1. Len(t) = Len(q)
    BY <1>5, <1>6
  <2> QED BY <1>5, <1>6, <1>7, <2>1, SameRow
<1> QED BY <1>4, <1>8 DEF q, r, t

LEMMA RowStart ==
  ASSUME NEW s \in Seq(Node), Rising(s), NEW i \in Timer, NEW n \in Nat
  PROVE  \E j \in 0 .. Len(Row(s)) :
           /\ \A m \in 1 .. j : Row(s)[m].left <= n
           /\ \A m \in j + 1 .. Len(Row(s)) : Row(s)[m].left > n
           /\ Row(osSwTmrStart(s, i, n)) = InsertAt(Row(s), j + 1, [timer |-> i, left |-> n])
<1> DEFINE q == osSwTmrStart(s, i, n)
           r == Row(s)
           e == [timer |-> i, left |-> n]
<1>1. PICK j \in 0 .. Len(s) : StartsAt(s, q, i, n, j)
  <2>1. s \in Seq(Node) /\ Rising(s) /\ n \in Nat
    OBVIOUS
  <2> QED BY <2>1, StartRow
<1> USE DEF StartsAt
<1>2. /\ r \in Seq(RingAt) /\ Len(r) = Len(s)
      /\ \A m \in 1 .. Len(s) : r[m].timer = s[m].timer /\ r[m].left = Left(s, m)
  BY RowType
<1>3. e \in RingAt /\ e.timer = i /\ e.left = n
  BY DEF RingAt
<1> HIDE DEF q, r, e
<1> DEFINE t == InsertAt(r, j + 1, e)
<1>4. /\ t \in Seq(RingAt) /\ Len(t) = Len(s) + 1
      /\ \A m \in 1 .. Len(s) + 1 :
           t[m] = IF m < j + 1 THEN r[m] ELSE IF m = j + 1 THEN e ELSE r[m - 1]
  <2>1. r \in Seq(RingAt) /\ j + 1 \in 1 .. Len(r) + 1 /\ e \in RingAt
    BY <1>2, <1>3
  <2>2. /\ t \in Seq(RingAt) /\ Len(t) = Len(r) + 1
        /\ \A m \in 1 .. Len(r) + 1 :
             t[m] = IF m < j + 1 THEN r[m] ELSE IF m = j + 1 THEN e ELSE r[m - 1]
    BY <2>1, InsertList
  <2> HIDE DEF t
  <2> QED BY <1>2, <2>2
<1> HIDE DEF t
<1>5. \A m \in 1 .. Len(q) : t[m].timer = q[m].timer /\ t[m].left = Left(q, m)
  <2> SUFFICES ASSUME NEW m \in 1 .. Len(s) + 1 PROVE t[m].timer = q[m].timer /\ t[m].left = Left(q, m)
    BY <1>1
  <2>1. CASE m <= j
    <3>1. m \in 1 .. Len(s) /\ m < j + 1
      BY <2>1
    <3> QED BY <1>1, <1>2, <1>4, <2>1, <3>1
  <2>2. CASE m = j + 1
    <3>1. t[m] = e
      BY <1>4, <2>2
    <3>2. q[m].timer = i /\ Left(q, m) = n
      BY <1>1, <2>2
    <3> QED BY <1>3, <3>1, <3>2
  <2>3. CASE m > j + 1
    <3>1. m - 1 \in 1 .. Len(s) /\ ~(m < j + 1) /\ ~(m <= j) /\ m # j + 1
      BY <2>3
    <3> QED BY <1>1, <1>2, <1>4, <3>1
  <2> QED BY <2>1, <2>2, <2>3
<1>6. t = Row(q)
  <2>1. Len(t) = Len(q)
    BY <1>1, <1>4
  <2> QED BY <1>1, <1>4, <1>5, <2>1, SameRow
<1>7. /\ j \in 0 .. Len(r)
      /\ \A m \in 1 .. j : r[m].left <= n
      /\ \A m \in j + 1 .. Len(r) : r[m].left > n
  <2>1. \A m \in 1 .. j : m \in 1 .. Len(s)
    OBVIOUS
  <2>2. \A m \in j + 1 .. Len(s) : m \in 1 .. Len(s)
    OBVIOUS
  <2> QED BY <1>1, <1>2, <2>1, <2>2
<1> QED BY <1>6, <1>7 DEF q, r, e, t

LEMMA RowTick ==
  ASSUME NEW s, Sorted(s), NoneDue(s), s # <<>>
  PROVE  /\ \A j \in 1 .. Len(Row(s)) : Row(s)[j].left > 0
         /\ Row(Plus(s, 1, -1)) = [j \in 1 .. Len(Row(s)) |-> [Row(s)[j] EXCEPT !.left = @ - 1]]
<1> DEFINE q == Plus(s, 1, -1)
           r == Row(s)
           t == [j \in 1 .. Len(r) |-> [r[j] EXCEPT !.left = @ - 1]]
<1>1. s \in Seq(Node) /\ Rising(s)
  BY DEF Sorted
<1>2. /\ q \in Seq(Node) /\ Len(q) = Len(s)
      /\ \A m \in 1 .. Len(s) : q[m].timer = s[m].timer /\ Left(q, m) = Left(s, m) - 1
  BY <1>1, TickRow
<1>3. /\ r \in Seq(RingAt) /\ Len(r) = Len(s)
      /\ \A m \in 1 .. Len(s) : r[m].timer = s[m].timer /\ r[m].left = Left(s, m)
  BY <1>1, RowType
<1> HIDE DEF q, r
<1>4. ASSUME NEW j \in 1 .. Len(s) PROVE Left(s, j) > 0
  <2>1. 1 \in 1 .. Len(s) /\ s[1].count = Left(s, 1) /\ s[1].count \in Int /\ s[1].count > 0
    BY <1>1, FirstLeft DEF NoneDue
  <2>2. 1 \in 0 .. Len(s) /\ j \in 0 .. Len(s) /\ 1 <= j
    BY <2>1
  <2>3. Left(s, 1) <= Left(s, j) /\ Left(s, j) \in Int
    BY <1>1, <2>2, LeftRises, LeftType
  <2> QED BY <2>1, <2>3
<1>5. ASSUME NEW j \in 1 .. Len(s)
      PROVE  LET e == [r[j] EXCEPT !.left = @ - 1]
             IN e \in RingAt /\ e.timer = r[j].timer /\ e.left = r[j].left - 1
  <2>1. r[j] \in RingAt
    BY <1>3
  <2> QED BY <2>1 DEF RingAt
<1>6. /\ t \in Seq(RingAt) /\ Len(t) = Len(s)
      /\ \A m \in 1 .. Len(s) : t[m].timer = r[m].timer /\ t[m].left = r[m].left - 1
  <2> DEFINE e(j) == [r[j] EXCEPT !.left = @ - 1]
  <2>1. \A j \in 1 .. Len(s) : e(j) \in RingAt /\ e(j).timer = r[j].timer /\ e(j).left = r[j].left - 1
    BY <1>5
  <2>2. t = [j \in 1 .. Len(s) |-> e(j)] /\ Len(s) \in Nat
    BY <1>1, <1>3
  <2> HIDE DEF e, t
  <2> QED BY <2>1, <2>2
<1> HIDE DEF t
<1>7. t = Row(q)
  <2>1. /\ t \in Seq(RingAt) /\ Len(t) = Len(q)
        /\ \A m \in 1 .. Len(q) : t[m].timer = q[m].timer /\ t[m].left = Left(q, m)
    BY <1>2, <1>3, <1>6
  <2> QED BY <1>2, <2>1, SameRow
<1> QED BY <1>3, <1>4, <1>7 DEF q, r, t

LEMMA RowTail ==
  ASSUME NEW s, Sorted(s), s # <<>>, s[1].count = 0
  PROVE  /\ Row(s) # <<>> /\ Row(s)[1].left = 0 /\ Row(s)[1].timer = s[1].timer
         /\ Row(Tail(s)) = Tail(Row(s))
<1> DEFINE q == Tail(s)
           r == Row(s)
<1>1. s \in Seq(Node) /\ Rising(s)
  BY DEF Sorted
<1>2. /\ q \in Seq(Node) /\ Len(q) = Len(s) - 1
      /\ \A m \in 1 .. Len(s) - 1 : q[m] = s[m + 1] /\ Left(q, m) = Left(s, m + 1)
  BY <1>1, TailRow
<1>3. /\ r \in Seq(RingAt) /\ Len(r) = Len(s)
      /\ \A m \in 1 .. Len(s) : r[m].timer = s[m].timer /\ r[m].left = Left(s, m)
  BY <1>1, RowType
<1>4. 1 \in 1 .. Len(s) /\ s[1].count = Left(s, 1)
  BY <1>1, FirstLeft
<1> HIDE DEF q, r
<1>5. r # <<>>
  BY <1>3, <1>4
<1>6. /\ Tail(r) \in Seq(RingAt) /\ Len(Tail(r)) = Len(s) - 1
      /\ \A m \in 1 .. Len(s) - 1 : Tail(r)[m] = r[m + 1]
  BY <1>3, <1>5
<1>7. \A m \in 1 .. Len(q) : Tail(r)[m].timer = q[m].timer /\ Tail(r)[m].left = Left(q, m)
  <2>1. \A m \in 1 .. Len(s) - 1 : m + 1 \in 1 .. Len(s)
    OBVIOUS
  <2> QED BY <1>2, <1>3, <1>6, <2>1
<1>8. Tail(r) = Row(q)
  <2>1. Len(Tail(r)) = Len(q)
    BY <1>2, <1>6
  <2> QED BY <1>2, <1>6, <1>7, <2>1, SameRow
<1> QED BY <1>3, <1>4, <1>5, <1>8 DEF q, r

(* What the steps of Alarm are when Row(sort) is its list. *)
LEMMA AlarmOthers ==
  ASSUME NEW i
  PROVE  A!Others(i) = Without(Row(sort), i)
BY DEF A!Others, A!RemoveFirstMatch, A!SelectInSeq, A!RemoveAt, A!Min,
       Without, RemoveFirstMatch, SelectInSeq, RemoveAt, Min, Row

LEMMA AlarmStart ==
  ASSUME NEW i \in Timer, NEW n \in 1 .. MaxInterval, NEW s \in Seq(Node), Rising(s),
         A!Others(i) = Row(s), sort' = osSwTmrStart(s, i, n), out' = out
  PROVE  A!Start(i, n)
<1>1. n \in Nat
  BY TimerFacts
<1>2. PICK j \in 0 .. Len(Row(s)) :
        /\ \A m \in 1 .. j : Row(s)[m].left <= n
        /\ \A m \in j + 1 .. Len(Row(s)) : Row(s)[m].left > n
        /\ Row(osSwTmrStart(s, i, n)) = InsertAt(Row(s), j + 1, [timer |-> i, left |-> n])
  BY <1>1, RowStart
<1>3. Row(sort)' = InsertAt(A!Others(i), j + 1, [timer |-> i, left |-> n])
  BY <1>2 DEF Row
<1>4. /\ j \in 0 .. Len(A!Others(i))
      /\ \A m \in 1 .. j : A!Others(i)[m].left <= n
      /\ \A m \in j + 1 .. Len(A!Others(i)) : A!Others(i)[m].left > n
  BY <1>2
<1>5. [k \in 1 .. Len(sort) |-> [timer |-> sort[k].timer, left |-> Left(sort, k)]]'
        = A!InsertAt(A!Others(i), j + 1, [timer |-> i, left |-> n])
  BY <1>3 DEF Row, InsertAt, A!InsertAt
<1> HIDE DEF Row
<1> QED BY <1>4, <1>5 DEF A!Start

LEMMA AlarmStop ==
  ASSUME NEW i \in Timer, A!Others(i) = Row(sort'), out' = out
  PROVE  A!Stop(i)
<1>1. Row(sort)' = A!Others(i)
  BY DEF Row
<1> QED BY <1>1 DEF A!Stop, Row

(* What a client's call does to the list is Start or Stop. *)
LEMMA OthersListed ==
  ASSUME SwtmrInv, scan = "off", NEW i \in Timer
  PROVE  /\ Sorted(sort) /\ sort \in Seq(Node) /\ Rising(sort)
         /\ timer[i].state = "TICKING" =>
              /\ A!Others(i) = Row(osSwtmrStop(sort, i))
              /\ osSwtmrStop(sort, i) \in Seq(Node) /\ Rising(osSwtmrStop(sort, i))
         /\ timer[i].state # "TICKING" => A!Others(i) = Row(sort)
         /\ Listed(i) <=> timer[i].state = "TICKING"
<1>1. /\ timer[i].state = "TICKING" <=> In(sort, i)
      /\ Listed(i) <=> In(sort, i)
      /\ Sorted(sort)
  BY TickingListed
<1>2. sort \in Seq(Node) /\ Rising(sort)
  BY <1>1 DEF Sorted
<1>3. ASSUME In(sort, i)
      PROVE  /\ A!Others(i) = Row(osSwtmrStop(sort, i))
             /\ osSwtmrStop(sort, i) \in Seq(Node) /\ Rising(osSwtmrStop(sort, i))
  <2>1. Sorted(osSwtmrStop(sort, i))
    BY <1>1, <1>3, SortStop
  <2> QED BY <1>2, <1>3, <2>1, AlarmOthers, WithoutListed DEF Sorted
<1>4. ASSUME ~In(sort, i) PROVE A!Others(i) = Row(sort)
  BY <1>2, <1>4, AlarmOthers, WithoutAbsent
<1> QED BY <1>1, <1>2, <1>3, <1>4

LEMMA StartRings ==
  ASSUME SwtmrInv, scan = "off", NEW id \in TimerID, StartTimer(id), State(id) # "UNUSED", out' = out
  PROVE  \E i \in Timer : \E n \in 1 .. MaxInterval : A!Start(i, n)
<1> DEFINE i == id % LIMIT
           q == IF State(id) = "TICKING" THEN osSwtmrStop(sort, i) ELSE sort
<1>1. i \in Timer
  BY TimerFacts
<1>2. sort' = osSwTmrStart(q, i, timer[i].interval)
  BY NotFaulting DEF StartTimer
<1>3. PICK n \in 1 .. MaxInterval : n = timer[i].interval
  <2>1. timer[i] \in Block /\ timer[i].state # "UNUSED" /\ Blocks
    BY <1>1 DEF SwtmrInv, Types, State
  <2> QED BY <1>1, <2>1 DEF Blocks, Block
<1>4. q \in Seq(Node) /\ Rising(q) /\ A!Others(i) = Row(q)
  BY <1>1, OthersListed DEF State
<1>5. PICK s \in Seq(Node) : s = q
  BY <1>4
<1> HIDE DEF i, q
<1>6. A!Start(i, n)
  <2>1. Rising(s) /\ A!Others(i) = Row(s) /\ sort' = osSwTmrStart(s, i, n)
    BY <1>2, <1>3, <1>4, <1>5
  <2> QED BY <1>1, <2>1, AlarmStart
<1> QED BY <1>1, <1>6

LEMMA ClientRings ==
  ASSUME SwtmrInv, NEW c \in Client, osTimerStarts(c)
  PROVE  (\E i \in Timer : \E n \in 1 .. MaxInterval : A!Start(i, n)) \/ UNCHANGED <<sort, out>>
<1>1. scan = "off" /\ asked[c] # MAX_TIMERID /\ out' = out
  BY DEF osTimerStarts, Rest
<1>2. asked[c] \in TimerID
  BY <1>1 DEF SwtmrInv, Types
<1>3. CASE Current(asked[c]) /\ State(asked[c]) # "UNUSED"
  <2>1. StartTimer(asked[c])
    BY <1>3 DEF osTimerStarts
  <2> QED BY <1>1, <1>2, <1>3, <2>1, StartRings
<1>4. CASE ~(Current(asked[c]) /\ State(asked[c]) # "UNUSED")
  BY <1>1, <1>4 DEF osTimerStarts
<1> QED BY <1>3, <1>4

LEMMA IdRings ==
  ASSUME SwtmrInv, HandlersKeepOut, NEW id \in TimerID,
         LOS_SwtmrStart(id) \/ LOS_SwtmrStop(id) \/ LOS_SwtmrDelete(id)
  PROVE  \/ \E i \in Timer : A!Stop(i) \/ \E n \in 1 .. MaxInterval : A!Start(i, n)
         \/ UNCHANGED <<sort, out>>
<1>1. scan = "off" /\ id % LIMIT \in Timer /\ ~Faults(id)
  <2>1. scan = "off"
    BY CallsOutside DEF LOS_SwtmrStart, LOS_SwtmrStop, LOS_SwtmrDelete
  <2> QED BY <2>1, TimerFacts, NotFaulting
<1>2. out' = out
  BY DEF LOS_SwtmrStart, LOS_SwtmrStop, LOS_SwtmrDelete, Rest
<1>3. /\ Listed(id % LIMIT) => A!Others(id % LIMIT) = Row(osSwtmrStop(sort, id % LIMIT))
      /\ Listed(id % LIMIT) <=> State(id) = "TICKING"
  BY <1>1, OthersListed DEF State
<1>4. CASE LOS_SwtmrStart(id)
  <2>1. StartTimer(id)
    BY <1>4 DEF LOS_SwtmrStart
  <2>2. State(id) # "UNUSED"
    BY <1>1, <1>3, <2>1 DEF StartTimer
  <2> QED BY <1>1, <1>2, <2>1, <2>2, StartRings
<1>5. CASE LOS_SwtmrStop(id)
  <2>1. Listed(id % LIMIT) /\ sort' = osSwtmrStop(sort, id % LIMIT)
    BY <1>1, <1>5 DEF LOS_SwtmrStop
  <2> QED BY <1>1, <1>2, <1>3, <2>1, AlarmStop
<1>6. CASE LOS_SwtmrDelete(id)
  <2>1. sort' = IF Listed(id % LIMIT) THEN osSwtmrStop(sort, id % LIMIT) ELSE sort
    BY <1>1, <1>6 DEF LOS_SwtmrDelete
  <2>2. CASE Listed(id % LIMIT)
    <3>1. sort' = osSwtmrStop(sort, id % LIMIT)
      BY <2>1, <2>2
    <3> QED BY <1>1, <1>2, <1>3, <2>2, <3>1, AlarmStop
  <2>3. CASE ~Listed(id % LIMIT)
    BY <1>2, <2>1, <2>3
  <2> QED BY <2>2, <2>3
<1> QED BY <1>4, <1>5, <1>6

LEMMA ScanTicks ==
  ASSUME SwtmrInv, osSwtmrScan
  PROVE  A!Tick
<1>1. scan = "off" /\ sort # <<>> /\ sort' = Plus(sort, 1, -1) /\ out' = out
  BY DEF osSwtmrScan
<1>2. Sorted(sort) /\ NoneDue(sort)
  BY <1>1 DEF SwtmrInv, Listing
<1>3. /\ \A j \in 1 .. Len(Row(sort)) : Row(sort)[j].left > 0
      /\ Row(Plus(sort, 1, -1)) = [j \in 1 .. Len(Row(sort)) |-> [Row(sort)[j] EXCEPT !.left = @ - 1]]
  BY <1>1, <1>2, RowTick
<1>4. Row(sort)' = Row(Plus(sort, 1, -1))
  BY <1>1 DEF Row
<1> QED BY <1>1, <1>3, <1>4 DEF A!Tick, Row

LEMMA TimesOutRings ==
  ASSUME SwtmrInv, TimesOut
  PROVE  A!Ring
<1>1. sort # <<>> /\ sort[1].count = 0 /\ sort' = Tail(sort) /\ out' = sort[1].timer
  BY DEF TimesOut
<1>2. Sorted(sort)
  BY DEF SwtmrInv, Listing
<1>3. /\ Row(sort) # <<>> /\ Row(sort)[1].left = 0 /\ Row(sort)[1].timer = sort[1].timer
      /\ Row(Tail(sort)) = Tail(Row(sort))
  BY <1>1, <1>2, RowTail
<1>4. Row(sort)' = Row(Tail(sort))
  BY <1>1 DEF Row
<1> QED BY <1>1, <1>3, <1>4 DEF A!Ring, Row

LEMMA PeriodRings ==
  ASSUME SwtmrInv, TimesOutPeriod
  PROVE  \E i \in Timer : \E n \in 1 .. MaxInterval : A!Start(i, n)
<1>1. scan = "out" /\ sort' = osSwTmrStart(sort, out, timer[out].interval) /\ out' = out
  BY DEF TimesOutPeriod
<1>2. Types /\ Listing /\ Blocks
  BY DEF SwtmrInv
<1>3. out \in Timer /\ ~In(sort, out) /\ timer[out].state = "TICKING" /\ Sorted(sort)
  BY <1>1, <1>2 DEF Listing, Outside
<1>4. PICK i \in Timer : i = out
  BY <1>3
<1>5. PICK n \in 1 .. MaxInterval : n = timer[out].interval
  <2>1. timer[out] \in Block
    BY <1>2, <1>3 DEF Types
  <2> QED BY <1>2, <1>3, <2>1 DEF Blocks, Block
<1>6. sort \in Seq(Node) /\ Rising(sort)
  BY <1>3 DEF Sorted
<1>7. PICK s \in Seq(Node) : s = sort
  BY <1>6
<1>8. A!Others(i) = Row(s)
  <2>1. ~In(sort, i)
    BY <1>3, <1>4
  <2> QED BY <1>6, <1>7, <2>1, AlarmOthers, WithoutAbsent
<1>9. A!Start(i, n)
  <2>1. Rising(s) /\ sort' = osSwTmrStart(s, i, n)
    BY <1>1, <1>4, <1>5, <1>6, <1>7
  <2> QED BY <1>1, <1>8, <2>1, AlarmStart
<1> QED BY <1>9

(* The relative list rings as Alarm does, as long as handlers leave the timers
   alone that the scan has unlinked: every operation on the counts keeps the
   deadline of every other timer, and timers of one tick ring first come,
   first served.  That what is due does ring is left to the runs.          *)
THEOREM RingsAsStarted ==
  ASSUME HandlersKeepOut
  PROVE  Spec => A!Rings
<1>1. Init => A!Init
  <2> SUFFICES ASSUME Init PROVE A!Init
    OBVIOUS
  <2>1. sort = <<>> /\ out = NoTimer
    BY DEF Init
  <2> QED BY <2>1 DEF A!Init
<1>2. SwtmrInv /\ [Next]_vars
        => [A!Next]_<<[j \in 1 .. Len(sort) |-> [timer |-> sort[j].timer, left |-> Left(sort, j)]], out>>
  <2> SUFFICES ASSUME SwtmrInv, [Next]_vars PROVE A!Next \/ UNCHANGED <<sort, out>>
    OBVIOUS
  <2>1. CASE \E c \in Client : osTimerStarts(c)
    BY <2>1, ClientRings DEF A!Next
  <2>2. CASE \E c \in Client :
               \/ TakeTimer(c)
               \/ \E n \in 1 .. MaxInterval :
                    \/ \E mode \in {"ONCE", "PERIOD"} : LOS_SwtmrCreate(c, n, mode)
                    \/ \E i \in Timer : osTimerStart(c, i, n)
    BY <2>2 DEF TakeTimer, LOS_SwtmrCreate, osTimerStart, Rest
  <2>3. CASE \E id \in TimerID : LOS_SwtmrStart(id) \/ LOS_SwtmrStop(id) \/ LOS_SwtmrDelete(id)
    BY <2>3, IdRings DEF A!Next
  <2>4. CASE osSwtmrScan
    BY <2>4, ScanTicks DEF A!Next
  <2>5. CASE TimesOut
    BY <2>5, TimesOutRings DEF A!Next
  <2>6. CASE TimesOutPeriod
    BY <2>6, PeriodRings DEF A!Next
  <2>7. CASE TimesOutOnce \/ ScanEnds \/ TaskReads \/ TaskFrees \/ UNCHANGED vars
    BY <2>7 DEF TimesOutOnce, ScanEnds, TaskReads, TaskFrees, vars
  <2> QED BY <2>1, <2>2, <2>3, <2>4, <2>5, <2>6, <2>7 DEF Next, Tick
<1> QED BY <1>1, <1>2, SwtmrInvariance, PTL DEF Spec, A!Rings
=============================================================================
