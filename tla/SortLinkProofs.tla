--------------------------- MODULE SortLinkProofs ---------------------------
(***************************************************************************)
(* The timing wheel serves what the calendar says, for every set of tasks, *)
(* every number of buckets and every longest timeout.                      *)
(*                                                                         *)
(* The calendar's list for tick n is a segment of one bucket: the tasks    *)
(* whose roll counts, summed from the head of the list, reach exactly the  *)
(* number of visits the cursor still pays to that bucket before tick n.    *)
(* So the proof goes from arithmetic (which tick is which visit of which   *)
(* bucket) over the row of sums along one list, its segments, and what     *)
(* inserting, removing and charging do to them, to the steps of the wheel, *)
(* each of which is a step of the calendar or none.                        *)
(***************************************************************************)
EXTENDS SortLink, ListLemmas, FiniteSetTheorems

(***************************************************************************)
(* Where the wheel puts a tick: bucket Slot, at the visit Turn.            *)
(***************************************************************************)
Slot(c, n) == (c + n) % LinkLen
Turn(c, now, n) == IF now /\ Slot(c, n) = c THEN n \div LinkLen ELSE RollNum(n)

LEMMA Division ==
  ASSUME NEW L \in Nat \ {0}, NEW n \in Nat
  PROVE  /\ n \div L \in Nat /\ n % L \in 0 .. L - 1
         /\ \E x \in Int : x = (n \div L) * L /\ n = x + (n % L)
         /\ n = 0 => n \div L = 0 /\ n % L = 0
OBVIOUS

LEMMA Multiples ==
  ASSUME NEW L \in Nat, NEW q \in Int, NEW x \in Int, x = q * L
  PROVE  (q + 1) * L = x + L /\ (q - 1) * L = x - L
OBVIOUS

LEMMA Previous ==
  ASSUME NEW L \in Nat \ {0}, NEW n \in Nat \ {0}
  PROVE  /\ n % L > 0 => (n - 1) % L = (n % L) - 1 /\ (n - 1) \div L = n \div L
         /\ n % L = 0 => (n - 1) % L = L - 1 /\ (n - 1) \div L = (n \div L) - 1
         /\ (n - 1) \div L \in Nat /\ (n - 1) % L \in 0 .. L - 1
<1> DEFINE q == n \div L
           d == n % L
           m == n - 1
<1>1. L \in Nat \ {0} /\ q \in Int /\ d \in 0 .. L - 1 /\ m \in Nat
  BY Division
<1>2. PICK x \in Int : x = q * L /\ n = x + d
  BY Division
<1>3. m \div L \in Nat /\ m % L \in 0 .. L - 1
  BY <1>1, Division
<1> HIDE DEF q, d
<1>4. m = x + d - 1
  BY <1>1, <1>2
<1> HIDE DEF m
<1>5. CASE d > 0
  <2>1. m = x + (d - 1) /\ d - 1 \in 0 .. L - 1
    BY <1>1, <1>2, <1>4, <1>5
  <2>2. m \div L = q /\ m % L = d - 1
    BY ONLY <1>1, <1>2, <2>1
  <2> QED BY <1>1, <1>3, <1>5, <2>2 DEF q, d, m
<1>6. CASE d = 0
  <2>1. q - 1 \in Int /\ L - 1 \in 0 .. L - 1 /\ x - L \in Int
    BY <1>1, <1>2
  <2>2. x - L = (q - 1) * L
    BY ONLY <1>1, <1>2, Multiples
  <2>3. m = (x - L) + (L - 1)
    BY <1>1, <1>2, <1>4, <1>6
  <2>4. m \div L = q - 1 /\ m % L = L - 1
    BY ONLY <1>1, <2>1, <2>2, <2>3
  <2> QED BY <1>1, <1>3, <1>6, <2>4 DEF q, d, m
<1>7. d > 0 \/ d = 0
  BY <1>1
<1> QED BY <1>5, <1>6, <1>7

LEMMA SlotIs ==
  ASSUME NEW c \in Index, NEW n \in Nat
  PROVE  /\ Slot(c, n) = IF c + (n % LinkLen) < LinkLen THEN c + (n % LinkLen)
                         ELSE c + (n % LinkLen) - LinkLen
         /\ Slot(c, n) \in Index
<1> DEFINE q == n \div LinkLen
           d == n % LinkLen
<1>1. LinkLen \in Nat \ {0} /\ LinkLen \in Nat /\ c \in 0 .. LinkLen - 1
  BY SortLinkAssumption DEF Index
<1>2. q \in Int /\ d \in 0 .. LinkLen - 1
  BY <1>1, Division
<1>3. PICK x \in Int : x = q * LinkLen /\ n = x + d
  BY <1>1, Division
<1> HIDE DEF q, d
<1>4. CASE c + d < LinkLen
  <2>1. c + n = x + (c + d) /\ c + d \in 0 .. LinkLen - 1
    BY <1>1, <1>2, <1>3, <1>4
  <2>2. (c + n) % LinkLen = c + d
    BY ONLY <1>1, <1>2, <1>3, <2>1
  <2> QED BY <1>4, <2>1, <2>2 DEF Slot, Index, d
<1>5. CASE ~(c + d < LinkLen)
  <2>1. x + LinkLen \in Int /\ q + 1 \in Int
    BY <1>1, <1>2, <1>3
  <2>2. x + LinkLen = (q + 1) * LinkLen
    BY ONLY <1>1, <1>2, <1>3, Multiples
  <2>3. c + n = (x + LinkLen) + (c + d - LinkLen) /\ c + d - LinkLen \in 0 .. LinkLen - 1
    BY <1>1, <1>2, <1>3, <1>5
  <2>4. (c + n) % LinkLen = c + d - LinkLen
    <3>1. PICK y \in Int : y = x + LinkLen
      BY <2>1
    <3>2. PICK p \in Int : p = q + 1
      BY <2>1
    <3>3. PICK e \in 0 .. LinkLen - 1 : e = c + d - LinkLen
      BY <2>3
    <3>4. PICK z \in Int : z = c + n
      BY <1>1
    <3>5. y \in Int /\ p \in Int /\ z \in Int /\ e \in 0 .. LinkLen - 1 /\ y = p * LinkLen /\ z = y + e
      BY <2>2, <2>3, <3>1, <3>2, <3>3, <3>4
    <3>6. LinkLen \in Nat \ {0}
      BY <1>1
    <3>7. z % LinkLen = e
      BY ONLY <3>5, <3>6
    <3> QED BY <3>3, <3>4, <3>7
  <2> QED BY <1>5, <2>3, <2>4 DEF Slot, Index, d
<1> QED BY <1>4, <1>5

LEMMA NextCursor ==
  ASSUME NEW c \in Index
  PROVE  /\ (c + 1) % LinkLen \in Index
         /\ (c + 1) % LinkLen = IF c + 1 < LinkLen THEN c + 1 ELSE 0
<1>1. LinkLen \in Nat \ {0} /\ c \in 0 .. LinkLen - 1
  BY SortLinkAssumption DEF Index
<1>2. CASE c + 1 < LinkLen
  <2>1. c + 1 = 0 + (c + 1) /\ c + 1 \in 0 .. LinkLen - 1 /\ 0 \in Int /\ 0 = 0 * LinkLen
    BY <1>1, <1>2
  <2>2. (c + 1) % LinkLen = c + 1
    BY ONLY <1>1, <2>1
  <2> QED BY <1>1, <1>2, <2>1, <2>2 DEF Index
<1>3. CASE ~(c + 1 < LinkLen)
  <2>1. /\ c + 1 = LinkLen + 0 /\ 0 \in 0 .. LinkLen - 1 /\ 1 \in Int
        /\ LinkLen \in Int /\ LinkLen = 1 * LinkLen
    BY <1>1, <1>3
  <2>2. (c + 1) % LinkLen = 0
    BY ONLY <1>1, <2>1
  <2> QED BY <1>1, <1>3, <2>1, <2>2 DEF Index
<1> QED BY <1>2, <1>3

(* No two ticks share a visit. *)
LEMMA OneVisit ==
  ASSUME NEW c \in Index, NEW now \in BOOLEAN, NEW n \in Nat, NEW m \in Nat,
         n = 0 \/ m = 0 => now,
         Slot(c, n) = Slot(c, m), Turn(c, now, n) = Turn(c, now, m)
  PROVE  n = m
<1>1. LinkLen \in Nat \ {0} /\ c \in 0 .. LinkLen - 1
  BY SortLinkAssumption DEF Index
<1>2. /\ n \div LinkLen \in Nat /\ n % LinkLen \in 0 .. LinkLen - 1
      /\ m \div LinkLen \in Nat /\ m % LinkLen \in 0 .. LinkLen - 1
      /\ \E x \in Int : x = (n \div LinkLen) * LinkLen /\ n = x + (n % LinkLen)
      /\ \E x \in Int : x = (m \div LinkLen) * LinkLen /\ m = x + (m % LinkLen)
  BY <1>1, Division
<1>3. n % LinkLen = m % LinkLen
  BY <1>1, <1>2, SlotIs
<1>4. n \div LinkLen = m \div LinkLen
  <2>1. CASE now /\ Slot(c, n) = c
    BY <2>1 DEF Turn
  <2>2. CASE ~(now /\ Slot(c, n) = c)
    <3>1. RollNum(n) = RollNum(m)
      BY <2>2 DEF Turn
    <3> QED BY <1>1, <1>2, <1>3, <3>1 DEF RollNum
  <2> QED BY <2>1, <2>2
<1> QED BY <1>2, <1>3, <1>4

(* The wheel turns by one bucket: every tick comes one nearer. *)
LEMMA Turns ==
  ASSUME NEW c \in Index, NEW n \in Nat \ {0}, NEW now \in BOOLEAN
  PROVE  LET d == (c + 1) % LinkLen
         IN /\ Slot(d, n - 1) = Slot(c, n)
            /\ Slot(c, n) = d => n \div LinkLen \in Nat /\ RollNum(n) = (n - 1) \div LinkLen
            /\ Slot(c, n) # d => n - 1 # 0 /\ RollNum(n - 1) = RollNum(n)
<1> DEFINE d == (c + 1) % LinkLen
<1>1. LinkLen \in Nat \ {0} /\ c \in 0 .. LinkLen - 1
  BY SortLinkAssumption DEF Index
<1>2. d \in Index /\ d = IF c + 1 < LinkLen THEN c + 1 ELSE 0
  BY NextCursor
<1> HIDE DEF d
<1> DEFINE a == n % LinkLen
           b == (n - 1) % LinkLen
           q == n \div LinkLen
           p == (n - 1) \div LinkLen
<1>3. /\ a \in 0 .. LinkLen - 1 /\ b \in 0 .. LinkLen - 1 /\ q \in Nat /\ p \in Nat
      /\ a > 0 => b = a - 1 /\ p = q
      /\ a = 0 => b = LinkLen - 1 /\ p = q - 1
  <2>1. a \in 0 .. LinkLen - 1 /\ q \in Nat
    BY <1>1, Division
  <2> QED BY <1>1, <2>1, Previous
<1>4. /\ Slot(c, n) = IF c + a < LinkLen THEN c + a ELSE c + a - LinkLen
      /\ Slot(d, n - 1) = IF d + b < LinkLen THEN d + b ELSE d + b - LinkLen
  BY <1>2, SlotIs
<1>5. RollNum(n) = p
  BY <1>1, <1>3 DEF RollNum
<1>6. RollNum(n - 1) = IF b > 0 THEN p ELSE p - 1
  BY DEF RollNum
<1>7. n - 1 = 0 => b = 0
  BY <1>1, Division
<1> HIDE DEF a, b, p, q
<1>8. Slot(d, n - 1) = Slot(c, n)
  BY <1>1, <1>2, <1>3, <1>4
<1>9. Slot(c, n) # d => b # 0
  BY <1>1, <1>2, <1>3, <1>4
<1> QED BY <1>1, <1>3, <1>5, <1>6, <1>7, <1>8, <1>9 DEF d, q, p

(* The roll of the visit is charged when the visit ends. *)
LEMMA VisitEnds ==
  ASSUME NEW c \in Index, NEW n \in Nat, Slot(c, n) = c
  PROVE  RollNum(n) = (n \div LinkLen) - 1 /\ n \div LinkLen \in Nat /\ (n = 0 <=> n \div LinkLen = 0)
<1>1. LinkLen \in Nat \ {0} /\ c \in 0 .. LinkLen - 1
  BY SortLinkAssumption DEF Index
<1>2. /\ n \div LinkLen \in Nat /\ n % LinkLen \in 0 .. LinkLen - 1
      /\ \E x \in Int : x = (n \div LinkLen) * LinkLen /\ n = x + (n % LinkLen)
      /\ n = 0 => n \div LinkLen = 0
  BY <1>1, Division
<1>3. n % LinkLen = 0
  BY <1>1, <1>2, SlotIs
<1>4. n \div LinkLen = 0 => n = 0
  BY <1>1, <1>2, <1>3
<1> QED BY <1>2, <1>3, <1>4 DEF RollNum

(* Types. *)
LEMMA TurnType ==
  ASSUME NEW c \in Index, NEW now \in BOOLEAN, NEW n \in Nat, n = 0 => now
  PROVE  /\ Slot(c, n) \in Index
         /\ n # 0 => RollNum(n) \in Nat
         /\ n # 0 \/ Slot(c, n) = c => Turn(c, now, n) \in Nat
<1>1. LinkLen \in Nat \ {0} /\ c \in 0 .. LinkLen - 1
  BY SortLinkAssumption DEF Index
<1>2. Slot(c, n) \in Index
  BY SlotIs
<1>3. n \div LinkLen \in Nat
  BY <1>1, Division
<1>4. n # 0 => RollNum(n) \in Nat
  <2>1. n # 0 => /\ n % LinkLen > 0 => (n - 1) \div LinkLen = n \div LinkLen
                 /\ n % LinkLen = 0 => (n - 1) \div LinkLen = (n \div LinkLen) - 1
                 /\ (n - 1) \div LinkLen \in Nat
    BY <1>1, Previous
  <2>3. n % LinkLen \in 0 .. LinkLen - 1
    BY <1>1, Division
  <2> QED BY <2>1, <2>3 DEF RollNum
<1> QED BY <1>2, <1>3, <1>4 DEF Turn

(* Two rows that begin alike and go on alike are alike. *)
LEMMA SameRows ==
  ASSUME NEW n \in Nat, NEW f, NEW g, f[0] = g[0],
         \A m \in 1 .. n : f[m - 1] = g[m - 1] => f[m] = g[m]
  PROVE  \A m \in 0 .. n : f[m] = g[m]
<1> DEFINE B == {m \in 0 .. n : f[m] # g[m]}
<1>1. SUFFICES ASSUME B # {} PROVE FALSE
  OBVIOUS
<1>2. PICK l \in B : \A i \in B : l <= i
  <2>1. B \in SUBSET Nat
    OBVIOUS
  <2> HIDE DEF B
  <2> QED BY <1>1, <2>1, LeastNatural
<1>3. l \in 1 .. n /\ l - 1 \in 0 .. n /\ ~(l <= l - 1)
  BY <1>2
<1>4. f[l - 1] = g[l - 1]
  BY <1>2, <1>3
<1> QED BY <1>2, <1>3, <1>4

(***************************************************************************)
(* The sums of the roll counts along a list: Rolls with the list and the   *)
(* counts as arguments.  Its recursion is unfolded into a row.             *)
(***************************************************************************)
Row(r, s, j) ==
  LET sum[i \in 0 .. j] == IF i = 0 THEN 0 ELSE sum[i - 1] + r[s[i]] IN sum[j]

LEMMA RowSums ==
  ASSUME NEW r, NEW s, NEW n \in Nat
  PROVE  \E g : /\ g[0] = 0 /\ Row(r, s, n) = g[n]
                /\ \A m \in 1 .. n : g[m] = g[m - 1] + r[s[m]]
<1> DEFINE Step(h, i) == IF i = 0 THEN 0 ELSE h[i - 1] + r[s[i]]
           Sum(h, m) == h = [i \in 0 .. m |-> Step(h, i)]
<1>1. Row(r, s, n) = (CHOOSE h : Sum(h, n))[n]
  BY DEF Row
<1>2. ASSUME NEW m \in Nat PROVE \E h : Sum(h, m)
  <2> DEFINE B == {l \in Nat : ~ \E h : Sum(h, l)}
  <2>1. SUFFICES ASSUME B # {} PROVE FALSE
    OBVIOUS
  <2>2. PICK l \in B : \A i \in B : l <= i
    BY <2>1, LeastNatural
  <2>3. CASE l = 0
    <3> DEFINE h == [i \in 0 .. 0 |-> 0]
    <3>1. h = [i \in 0 .. 0 |-> Step(h, i)]
      OBVIOUS
    <3> QED BY <2>2, <2>3, <3>1
  <2>4. CASE l # 0
    <3>1. l \in Nat /\ l - 1 \in Nat /\ l - 1 \notin B
      <4> HIDE DEF Sum
      <4>1. l \in Nat
        BY <2>2
      <4>2. l - 1 \in Nat /\ ~(l <= l - 1)
        BY <2>4, <4>1
      <4> QED BY <2>2, <4>1, <4>2
    <3>2. PICK h : Sum(h, l - 1)
      BY <3>1
    <3> DEFINE g == [i \in 0 .. l |-> IF i = l THEN h[l - 1] + r[s[l]] ELSE h[i]]
               f == [i \in 0 .. l |-> Step(g, i)]
    <3>3. ASSUME NEW i \in 0 .. l PROVE g[i] = f[i]
      <4>1. CASE i = l
        BY <2>4, <3>1, <4>1
      <4>2. CASE i # l
        <5>1. i \in 0 .. l - 1 /\ (i # 0 => i - 1 \in 0 .. l /\ i - 1 # l)
          BY <3>1, <4>2
        <5>2. h[i] = Step(h, i)
          BY <3>2, <5>1
        <5> QED BY <4>2, <5>1, <5>2
      <4> QED BY <4>1, <4>2
    <3>4. g = f
      <4>1. g = [i \in 0 .. l |-> g[i]] /\ f = [i \in 0 .. l |-> f[i]]
        OBVIOUS
      <4> HIDE DEF g, f
      <4> QED BY <3>3, <4>1
    <3>5. Sum(g, l)
      BY <3>4
    <3> QED BY <2>2, <3>5
  <2> QED BY <2>3, <2>4
<1> DEFINE g == CHOOSE h : Sum(h, n)
<1>3. Sum(g, n)
  BY <1>2
<1> HIDE DEF g
<1>4. \A i \in 0 .. n : g[i] = Step(g, i)
  BY <1>3
<1>5. g[0] = 0 /\ \A m \in 1 .. n : g[m] = g[m - 1] + r[s[m]]
  BY <1>4
<1>6. Row(r, s, n) = g[n]
  BY <1>1 DEF g
<1> QED BY <1>5, <1>6

LEMMA RowSteps ==
  ASSUME NEW r, NEW s, NEW n \in Nat
  PROVE  Row(r, s, 0) = 0 /\ \A m \in 1 .. n : Row(r, s, m) = Row(r, s, m - 1) + r[s[m]]
<1>1. Row(r, s, 0) = 0
  BY RowSums
<1>2. ASSUME NEW m \in 1 .. n PROVE Row(r, s, m) = Row(r, s, m - 1) + r[s[m]]
  <2>1. m \in Nat /\ m - 1 \in Nat /\ m - 1 \in 0 .. m - 1 /\ m \in 1 .. m
    OBVIOUS
  <2>2. PICK f : f[0] = 0 /\ Row(r, s, m) = f[m] /\ \A i \in 1 .. m : f[i] = f[i - 1] + r[s[i]]
    BY <2>1, RowSums
  <2>3. PICK g : /\ g[0] = 0 /\ Row(r, s, m - 1) = g[m - 1]
                 /\ \A i \in 1 .. m - 1 : g[i] = g[i - 1] + r[s[i]]
    BY <2>1, RowSums
  <2>4. \A i \in 1 .. m - 1 : f[i - 1] = g[i - 1] => f[i] = g[i]
    <3>1. \A i \in 1 .. m - 1 : i \in 1 .. m
      OBVIOUS
    <3> QED BY <2>2, <2>3, <3>1
  <2>5. \A i \in 0 .. m - 1 : f[i] = g[i]
    <3>1. m - 1 \in Nat /\ f[0] = g[0]
      BY <2>1, <2>2, <2>3
    <3> QED BY <2>4, <3>1, SameRows
  <2>6. f[m - 1] = g[m - 1] /\ f[m] = f[m - 1] + r[s[m]]
    BY <2>1, <2>2, <2>5
  <2> QED BY <2>2, <2>3, <2>6
<1> QED BY <1>1, <1>2

(* A row with these steps is Row. *)
IsRow(r, s, n, g) == g[0] = 0 /\ \A m \in 1 .. n : g[m] = g[m - 1] + r[s[m]]

LEMMA RowIs ==
  ASSUME NEW r, NEW s, NEW n \in Nat, NEW g, IsRow(r, s, n, g)
  PROVE  \A m \in 0 .. n : Row(r, s, m) = g[m]
<1>0. g[0] = 0 /\ \A m \in 1 .. n : g[m] = g[m - 1] + r[s[m]]
  BY DEF IsRow
<1>1. PICK f : \A m \in 0 .. n : f[m] = Row(r, s, m)
  <2>1. \A m \in 0 .. n : [l \in 0 .. n |-> Row(r, s, l)][m] = Row(r, s, m)
    OBVIOUS
  <2> QED BY <2>1
<1>2. f[0] = g[0]
  BY <1>0, <1>1, RowSteps
<1>3. \A m \in 1 .. n : f[m - 1] = g[m - 1] => f[m] = g[m]
  <2>1. \A m \in 1 .. n : m \in 0 .. n /\ m - 1 \in 0 .. n
    OBVIOUS
  <2> QED BY <1>0, <1>1, <2>1, RowSteps
<1>4. \A m \in 0 .. n : f[m] = g[m]
  BY ONLY <1>2, <1>3, SameRows, n \in Nat
<1> QED BY <1>1, <1>4

(* A list of members of S and their roll counts. *)
Rolled(S, r, s) == r \in [S -> Nat] /\ s \in Seq(S)

(* Counts that are not negative give a row of naturals that does not fall. *)
LEMMA RowRises ==
  ASSUME NEW S, NEW r, NEW s, Rolled(S, r, s)
  PROVE  /\ \A m \in 0 .. Len(s) : Row(r, s, m) \in Nat
         /\ \A l, m \in 0 .. Len(s) : l <= m => Row(r, s, l) <= Row(r, s, m)
<1>1. Len(s) \in Nat /\ \A m \in 1 .. Len(s) : r[s[m]] \in Nat
  BY DEF Rolled
<1>2. Row(r, s, 0) = 0 /\ \A m \in 1 .. Len(s) : Row(r, s, m) = Row(r, s, m - 1) + r[s[m]]
  BY <1>1, RowSteps
<1>3. \A m \in 0 .. Len(s) : Row(r, s, m) \in Nat
  <2> DEFINE B == {m \in 0 .. Len(s) : Row(r, s, m) \notin Nat}
  <2>1. SUFFICES ASSUME B # {} PROVE FALSE
    OBVIOUS
  <2>2. PICK l \in B : \A i \in B : l <= i
    <3>1. B \in SUBSET Nat
      OBVIOUS
    <3> HIDE DEF B
    <3> QED BY <2>1, <3>1, LeastNatural
  <2>3. l \in 1 .. Len(s) /\ l - 1 \in 0 .. Len(s) /\ ~(l <= l - 1)
    BY <1>2, <2>2
  <2>4. Row(r, s, l - 1) \in Nat
    BY <2>2, <2>3
  <2> QED BY <1>1, <1>2, <2>2, <2>3, <2>4
<1>4. ASSUME NEW l \in 0 .. Len(s), NEW m \in 0 .. Len(s), l <= m
      PROVE  Row(r, s, l) <= Row(r, s, m)
  <2> DEFINE B == {i \in l .. Len(s) : ~(Row(r, s, l) <= Row(r, s, i))}
  <2>1. SUFFICES ASSUME B # {} PROVE FALSE
    BY <1>4
  <2>2. PICK b \in B : \A i \in B : b <= i
    <3>1. B \in SUBSET Nat
      OBVIOUS
    <3> HIDE DEF B
    <3> QED BY <2>1, <3>1, LeastNatural
  <2>3. b # l
    BY <1>3, <2>2
  <2>4. /\ b \in 1 .. Len(s) /\ b - 1 \in l .. Len(s) /\ ~(b <= b - 1)
        /\ b - 1 \in 0 .. Len(s) /\ b \in 0 .. Len(s)
    BY <2>2, <2>3
  <2>5. Row(r, s, l) <= Row(r, s, b - 1)
    BY <2>2, <2>4
  <2>6. Row(r, s, b) = Row(r, s, b - 1) + r[s[b]] /\ r[s[b]] \in Nat
    BY <1>1, <1>2, <2>4
  <2>7. Row(r, s, l) \in Nat /\ Row(r, s, b) \in Nat /\ Row(r, s, b - 1) \in Nat
    BY <1>3, <2>4
  <2> QED BY <2>2, <2>5, <2>6, <2>7
<1> QED BY <1>3, <1>4

(***************************************************************************)
(* The tasks of a list that are served at one visit: the segment in which  *)
(* the row has one value.                                                  *)
(***************************************************************************)
Segment(r, s, v) ==
  LET js == {j \in 1 .. Len(s) : Row(r, s, j) = v}
  IN IF js = {} THEN <<>> ELSE SubSeq(s, Min(js), Max(js))

(* The segment of v is what lies behind lo and not behind hi. *)
Cut(r, s, v, lo, hi) ==
  /\ v \in Nat
  /\ lo \in 0 .. Len(s) /\ hi \in 0 .. Len(s) /\ lo <= hi
  /\ \A j \in 1 .. Len(s) : (Row(r, s, j) < v <=> j <= lo) /\ (Row(r, s, j) <= v <=> j <= hi)

LEMMA CutUpTo ==
  ASSUME NEW S, NEW r, NEW s, Rolled(S, r, s), NEW v \in Nat
  PROVE  \E h \in 0 .. Len(s) : \A j \in 1 .. Len(s) : Row(r, s, j) < v <=> j <= h
<1> DEFINE T == {0} \cup {j \in 1 .. Len(s) : Row(r, s, j) < v}
           h == Max(T)
<1>1. h \in T /\ \A j \in T : j <= h
  <2>0. Len(s) \in Nat
    BY DEF Rolled
  <2>1. T \in SUBSET Nat /\ T # {} /\ \A j \in T : j <= Len(s)
    BY <2>0
  <2> HIDE DEF T
  <2> QED BY <2>0, <2>1, MaxFacts
<1> HIDE DEF h
<1>2. h \in 0 .. Len(s)
  BY <1>1
<1>3. ASSUME NEW j \in 1 .. Len(s) PROVE Row(r, s, j) < v <=> j <= h
  <2>1. Row(r, s, j) < v => j <= h
    BY <1>1
  <2>2. ASSUME j <= h PROVE Row(r, s, j) < v
    <3>1. h # 0 /\ Row(r, s, h) < v
      BY <1>1, <2>2
    <3>2. j \in 0 .. Len(s)
      OBVIOUS
    <3>3. Row(r, s, j) <= Row(r, s, h) /\ Row(r, s, j) \in Nat /\ Row(r, s, h) \in Nat
      BY <1>2, <2>2, <3>2, RowRises
    <3> QED BY <3>1, <3>3
  <2> QED BY <2>1, <2>2
<1> QED BY <1>2, <1>3

LEMMA CutExists ==
  ASSUME NEW S, NEW r, NEW s, Rolled(S, r, s), NEW v \in Nat
  PROVE  \E lo, hi : Cut(r, s, v, lo, hi)
<1>1. PICK lo \in 0 .. Len(s) : \A j \in 1 .. Len(s) : Row(r, s, j) < v <=> j <= lo
  BY CutUpTo
<1>2. PICK hi \in 0 .. Len(s) : \A j \in 1 .. Len(s) : Row(r, s, j) < v + 1 <=> j <= hi
  <2>1. v + 1 \in Nat
    OBVIOUS
  <2> QED BY <2>1, CutUpTo
<1>3. \A j \in 1 .. Len(s) : Row(r, s, j) \in Nat
  <2>1. \A j \in 1 .. Len(s) : j \in 0 .. Len(s)
    OBVIOUS
  <2> QED BY <2>1, RowRises
<1>4. \A j \in 1 .. Len(s) : Row(r, s, j) <= v <=> j <= hi
  BY <1>2, <1>3
<1>5. lo <= hi
  <2>1. CASE lo = 0
    BY <2>1
  <2>2. CASE lo # 0
    <3>1. lo \in 1 .. Len(s)
      BY <2>2
    <3>2. Row(r, s, lo) < v /\ Row(r, s, lo) \in Nat
      BY <1>1, <1>3, <3>1
    <3> QED BY <1>4, <3>1, <3>2
  <2> QED BY <2>1, <2>2
<1> QED BY <1>1, <1>4, <1>5 DEF Cut

LEMMA CutTypes ==
  ASSUME NEW S, NEW r, NEW s, Rolled(S, r, s), NEW v, NEW lo, NEW hi, Cut(r, s, v, lo, hi)
  PROVE  /\ v \in Nat /\ Len(s) \in Nat /\ lo \in 0 .. Len(s) /\ hi \in 0 .. Len(s) /\ lo <= hi
         /\ \A j \in 1 .. Len(s) :
              (Row(r, s, j) < v <=> j <= lo) /\ (Row(r, s, j) <= v <=> j <= hi)
         /\ \A j \in 1 .. Len(s) : Row(r, s, j) \in Nat
         /\ \A j \in 1 .. Len(s) : Row(r, s, j) = v <=> lo < j /\ j <= hi
<1>1. /\ v \in Nat /\ lo \in 0 .. Len(s) /\ hi \in 0 .. Len(s) /\ lo <= hi
      /\ \A j \in 1 .. Len(s) :
           (Row(r, s, j) < v <=> j <= lo) /\ (Row(r, s, j) <= v <=> j <= hi)
  BY DEF Cut
<1>2. Len(s) \in Nat
  BY DEF Rolled
<1>3. \A j \in 1 .. Len(s) : Row(r, s, j) \in Nat
  <2>1. \A j \in 1 .. Len(s) : j \in 0 .. Len(s)
    BY <1>2
  <2> QED BY <2>1, RowRises
<1>4. \A j \in 1 .. Len(s) : Row(r, s, j) = v <=> lo < j /\ j <= hi
  BY <1>1, <1>2, <1>3
<1> QED BY <1>1, <1>2, <1>3, <1>4

(* e is what lies behind lo and not behind hi in s. *)
Holds(S, e, s, lo, hi) ==
  e \in Seq(S) /\ Len(e) = hi - lo /\ \A j \in 1 .. hi - lo : e[j] = s[lo + j]

LEMMA SegmentHolds ==
  ASSUME NEW S, NEW r, NEW s, Rolled(S, r, s), NEW v, NEW lo, NEW hi, Cut(r, s, v, lo, hi)
  PROVE  Holds(S, Segment(r, s, v), s, lo, hi)
<1> DEFINE js == {j \in 1 .. Len(s) : Row(r, s, j) = v}
<1>1. /\ Len(s) \in Nat /\ lo \in 0 .. Len(s) /\ hi \in 0 .. Len(s) /\ lo <= hi
      /\ \A j \in 1 .. Len(s) : Row(r, s, j) = v <=> lo < j /\ j <= hi
  BY CutTypes
<1>2. s \in Seq(S)
  BY DEF Rolled
<1>3. \A j \in 1 .. Len(s) : Row(r, s, j) = v <=> j \in lo + 1 .. hi
  BY <1>1
<1>4. js = lo + 1 .. hi
  BY <1>1, <1>3
<1> HIDE DEF js
<1>5. CASE lo = hi
  <2>1. js = {}
    BY <1>1, <1>4, <1>5
  <2>2. Segment(r, s, v) = <<>>
    BY <2>1 DEF Segment, js
  <2>3. Holds(S, <<>>, s, lo, hi)
    BY <1>1, <1>5 DEF Holds
  <2> QED BY <2>2, <2>3
<1>6. CASE lo < hi
  <2>0. lo \in Nat /\ hi \in Nat /\ lo + 1 <= hi
    BY <1>1, <1>6
  <2>1. lo + 1 \in js /\ hi \in js /\ \A j \in js : j \in Nat /\ lo + 1 <= j /\ j <= hi
    BY <1>4, <2>0
  <2>2. js \in SUBSET Nat /\ js # {}
    BY <2>1
  <2>3. Min(js) \in js /\ Min(js) <= lo + 1
    BY ONLY <2>1, <2>2, MinFacts
  <2>4. Max(js) \in js /\ hi <= Max(js)
    BY ONLY <2>0, <2>1, <2>2, MaxFacts
  <2>5. PICK a \in Nat : a = Min(js) /\ lo + 1 <= a
    BY ONLY <2>1, <2>3
  <2>6. PICK b \in Nat : b = Max(js) /\ b <= hi
    BY ONLY <2>1, <2>4
  <2>7. a = lo + 1 /\ b = hi
    BY ONLY <2>0, <2>3, <2>4, <2>5, <2>6, a \in Nat, b \in Nat
  <2>8. Segment(r, s, v) = SubSeq(s, a, b)
    BY <2>2, <2>5, <2>6 DEF Segment, js
  <2>9. PICK e : e = SubSeq(s, a, b)
    OBVIOUS
  <2>10. e \in Seq(S) /\ Len(e) = b - a + 1 /\ \A j \in 1 .. b - a + 1 : e[j] = s[a + j - 1]
    BY <1>1, <1>2, <2>0, <2>7, <2>9
  <2>11. b - a + 1 = hi - lo /\ \A j \in 1 .. hi - lo : a + j - 1 = lo + j
    BY <2>0, <2>7
  <2>12. Holds(S, e, s, lo, hi)
    BY <2>10, <2>11 DEF Holds
  <2> QED BY <2>8, <2>9, <2>12
<1> QED BY <1>1, <1>5, <1>6

LEMMA SegmentIs ==
  ASSUME NEW S, NEW r, NEW s, Rolled(S, r, s), NEW v, NEW lo, NEW hi, Cut(r, s, v, lo, hi),
         NEW e, Holds(S, e, s, lo, hi)
  PROVE  Segment(r, s, v) = e
<1>1. PICK f : f = Segment(r, s, v)
  OBVIOUS
<1>2. Holds(S, f, s, lo, hi)
  BY <1>1, SegmentHolds
<1>3. f \in Seq(S) /\ e \in Seq(S) /\ Len(f) = Len(e)
  BY <1>2 DEF Holds
<1>4. \A j \in 1 .. Len(e) : f[j] = e[j]
  BY <1>2 DEF Holds
<1>5. f = e
  BY ONLY <1>3, <1>4
<1> QED BY <1>1, <1>5

(* Two segments that agree. *)
Agree(s, lo, hi, q, a, b) == b - a = hi - lo /\ \A j \in 1 .. hi - lo : q[a + j] = s[lo + j]

LEMMA SegmentsAgree ==
  ASSUME NEW S, NEW r, NEW s, Rolled(S, r, s), NEW v, NEW lo, NEW hi, Cut(r, s, v, lo, hi),
         NEW z, NEW q, Rolled(S, z, q), NEW w, NEW a, NEW b, Cut(z, q, w, a, b),
         Agree(s, lo, hi, q, a, b)
  PROVE  Segment(z, q, w) = Segment(r, s, v)
<1>1. PICK e : e = Segment(r, s, v)
  OBVIOUS
<1>2. Holds(S, e, s, lo, hi)
  BY ONLY <1>1, SegmentHolds, Rolled(S, r, s), Cut(r, s, v, lo, hi)
<1>3. Holds(S, e, q, a, b)
  BY ONLY <1>2, Agree(s, lo, hi, q, a, b) DEF Holds, Agree
<1>4. Segment(z, q, w) = e
  BY ONLY <1>3, SegmentIs, Rolled(S, z, q), Cut(z, q, w, a, b)
<1> QED BY <1>1, <1>4

(* What is in a segment is in the list, and is there for its row. *)
LEMMA SegmentHas ==
  ASSUME NEW S, NEW r, NEW s, Rolled(S, r, s), NEW v \in Nat
  PROVE  /\ Segment(r, s, v) \in Seq(S)
         /\ \A u : Contains(Segment(r, s, v), u) <=> \E j \in 1 .. Len(s) : s[j] = u /\ Row(r, s, j) = v
<1>1. PICK lo, hi : Cut(r, s, v, lo, hi)
  BY CutExists
<1>2. /\ Len(s) \in Nat /\ lo \in 0 .. Len(s) /\ hi \in 0 .. Len(s) /\ lo <= hi
      /\ \A j \in 1 .. Len(s) : Row(r, s, j) = v <=> lo < j /\ j <= hi
  BY <1>1, CutTypes
<1>3. PICK e : e = Segment(r, s, v)
  OBVIOUS
<1>4. e \in Seq(S) /\ Len(e) = hi - lo /\ \A j \in 1 .. hi - lo : e[j] = s[lo + j]
  <2>1. Holds(S, e, s, lo, hi)
    BY <1>1, <1>3, SegmentHolds
  <2> QED BY <2>1 DEF Holds
<1>5. ASSUME NEW u, Contains(e, u)
      PROVE  \E j \in 1 .. Len(s) : s[j] = u /\ Row(r, s, j) = v
  <2>1. PICK i \in 1 .. hi - lo : e[i] = u
    BY <1>4, <1>5 DEF Contains
  <2>2. lo + i \in 1 .. Len(s) /\ lo < lo + i /\ lo + i <= hi
    BY <1>2, <2>1
  <2> QED BY <1>2, <1>4, <2>1, <2>2
<1>6. ASSUME NEW j \in 1 .. Len(s), Row(r, s, j) = v
      PROVE  Contains(e, s[j])
  <2>1. j - lo \in 1 .. hi - lo /\ lo + (j - lo) = j
    BY <1>2, <1>6
  <2> QED BY <1>4, <2>1 DEF Contains
<1> QED BY <1>3, <1>4, <1>5, <1>6

(* A list whose own counts do not change keeps its row and its segments. *)
SameRolls(r, z, s) == \A j \in 1 .. Len(s) : z[s[j]] = r[s[j]]

LEMMA SameSegments ==
  ASSUME NEW S, NEW r, NEW s, Rolled(S, r, s), NEW z, SameRolls(r, z, s)
  PROVE  /\ \A j \in 0 .. Len(s) : Row(z, s, j) = Row(r, s, j)
         /\ \A v : Segment(z, s, v) = Segment(r, s, v)
<1>1. PICK n \in Nat : n = Len(s)
  BY DEF Rolled
<1>2. PICK g : \A m \in 0 .. n : g[m] = Row(r, s, m)
  <2>1. \A m \in 0 .. n : [l \in 0 .. n |-> Row(r, s, l)][m] = Row(r, s, m)
    OBVIOUS
  <2> QED BY <2>1
<1>3. IsRow(z, s, n, g)
  <2>1. 0 \in 0 .. n /\ \A m \in 1 .. n : m \in 0 .. n /\ m - 1 \in 0 .. n
    OBVIOUS
  <2>2. \A m \in 1 .. n : z[s[m]] = r[s[m]]
    BY <1>1 DEF SameRolls
  <2>3. Row(r, s, 0) = 0 /\ \A m \in 1 .. n : Row(r, s, m) = Row(r, s, m - 1) + r[s[m]]
    BY RowSteps
  <2> QED BY <1>2, <2>1, <2>2, <2>3 DEF IsRow
<1>4. \A m \in 0 .. n : Row(z, s, m) = g[m]
  BY <1>3, RowIs
<1>5. \A j \in 0 .. n : Row(z, s, j) = Row(r, s, j)
  BY <1>2, <1>4
<1>6. ASSUME NEW v PROVE Segment(z, s, v) = Segment(r, s, v)
  <2>1. {j \in 1 .. Len(s) : Row(z, s, j) = v} = {j \in 1 .. Len(s) : Row(r, s, j) = v}
    <3>1. \A j \in 1 .. Len(s) : j \in 0 .. n
      BY <1>1
    <3> QED BY <1>5, <3>1
  <2> QED BY <2>1 DEF Segment
<1> QED BY <1>1, <1>5, <1>6

(***************************************************************************)
(* What the operations on a list do to its segments.                       *)
(***************************************************************************)

(* q is s with t at p + 1, and its row has the value v there. *)
PutAt(r, s, z, q, t, p, v) ==
  /\ Len(q) = Len(s) + 1
  /\ \A j \in 1 .. Len(s) + 1 :
       /\ q[j] = IF j <= p THEN s[j] ELSE IF j = p + 1 THEN t ELSE s[j - 1]
       /\ Row(z, q, j) = IF j <= p THEN Row(r, s, j)
                         ELSE IF j = p + 1 THEN v ELSE Row(r, s, j - 1)

LEMMA PutSegments ==
  ASSUME NEW S, NEW r, NEW s, Rolled(S, r, s), NEW z, NEW q, Rolled(S, z, q),
         NEW t \in S, NEW v, NEW a, NEW p, Cut(r, s, v, a, p), PutAt(r, s, z, q, t, p, v)
  PROVE  /\ Segment(z, q, v) = Append(Segment(r, s, v), t)
         /\ \A w \in Nat : w # v => Segment(z, q, w) = Segment(r, s, w)
<1>1. PICK n \in Nat : n = Len(s)
  BY DEF Rolled
<1>2. /\ Len(q) = n + 1
      /\ \A j \in 1 .. n + 1 :
           q[j] = IF j <= p THEN s[j] ELSE IF j = p + 1 THEN t ELSE s[j - 1]
      /\ \A j \in 1 .. n + 1 :
           Row(z, q, j) = IF j <= p THEN Row(r, s, j)
                          ELSE IF j = p + 1 THEN v ELSE Row(r, s, j - 1)
  BY <1>1 DEF PutAt
<1>3. /\ v \in Nat /\ a \in 0 .. n /\ p \in 0 .. n /\ a <= p
      /\ \A j \in 1 .. n : (Row(r, s, j) < v <=> j <= a) /\ (Row(r, s, j) <= v <=> j <= p)
  BY <1>1 DEF Cut
<1>4. \A j \in 1 .. n : Row(r, s, j) \in Nat
  BY <1>1, CutTypes
<1>5. Segment(z, q, v) = Append(Segment(r, s, v), t)
  <2>1. Cut(z, q, v, a, p + 1)
    <3>1. a \in 0 .. Len(q) /\ p + 1 \in 0 .. Len(q) /\ a <= p + 1
      BY <1>2, <1>3
    <3>2. ASSUME NEW j \in 1 .. n + 1
          PROVE  (Row(z, q, j) < v <=> j <= a) /\ (Row(z, q, j) <= v <=> j <= p + 1)
      <4>1. CASE j <= p
        <5>1. j \in 1 .. n /\ Row(z, q, j) = Row(r, s, j)
          BY <1>2, <1>3, <4>1
        <5> QED BY <1>3, <4>1, <5>1
      <4>2. CASE j = p + 1
        <5>1. Row(z, q, j) = v
          BY <1>2, <1>3, <4>2
        <5> QED BY <1>3, <4>2, <5>1
      <4>3. CASE j > p + 1
        <5>1. j - 1 \in 1 .. n /\ Row(z, q, j) = Row(r, s, j - 1)
          BY <1>2, <1>3, <4>3
        <5>2. ~(Row(r, s, j - 1) <= v) /\ ~(Row(r, s, j - 1) < v)
          BY <1>3, <4>3, <5>1
        <5> QED BY <1>3, <4>3, <5>1, <5>2
      <4> QED BY <1>3, <4>1, <4>2, <4>3
    <3> QED BY <1>2, <1>3, <3>1, <3>2 DEF Cut
  <2>2. PICK e : e = Segment(r, s, v)
    OBVIOUS
  <2>3. e \in Seq(S) /\ Len(e) = p - a /\ \A j \in 1 .. p - a : e[j] = s[a + j]
    <3>1. Holds(S, e, s, a, p)
      BY <2>2, SegmentHolds
    <3> QED BY <3>1 DEF Holds
  <2>4. PICK f : f = Append(e, t)
    OBVIOUS
  <2>5. f \in Seq(S) /\ Len(f) = (p + 1) - a
    BY <1>3, <2>3, <2>4
  <2>6. f[p - a + 1] = t /\ \A j \in 1 .. p - a : f[j] = s[a + j]
    BY <1>3, <2>3, <2>4
  <2>7. ASSUME NEW j \in 1 .. (p + 1) - a PROVE f[j] = q[a + j]
    <3>1. CASE j = p + 1 - a
      <4>1. a + j = p + 1 /\ p + 1 \in 1 .. n + 1 /\ j = p - a + 1 /\ ~(p + 1 <= p)
        BY <1>3, <3>1
      <4>2. q[p + 1] = t
        BY <1>2, <4>1
      <4> QED BY <2>6, <4>1, <4>2
    <3>2. CASE j # p + 1 - a
      <4>1. j \in 1 .. p - a /\ a + j \in 1 .. n + 1 /\ a + j <= p
        BY <1>3, <3>2
      <4> QED BY <1>2, <2>6, <4>1
    <3> QED BY <3>1, <3>2
  <2>8. Holds(S, f, q, a, p + 1)
    BY ONLY <2>5, <2>7 DEF Holds
  <2>9. Segment(z, q, v) = f
    <3>1. PICK h : h = p + 1
      OBVIOUS
    <3>2. Cut(z, q, v, a, h) /\ Holds(S, f, q, a, h)
      BY <2>1, <2>8, <3>1
    <3> QED BY ONLY <3>2, SegmentIs, Rolled(S, z, q)
  <2> QED BY <2>2, <2>4, <2>9
<1>6. ASSUME NEW w \in Nat, w # v PROVE Segment(z, q, w) = Segment(r, s, w)
  <2>1. PICK lo, hi : Cut(r, s, w, lo, hi)
    BY CutExists
  <2>2. /\ lo \in 0 .. n /\ hi \in 0 .. n /\ lo <= hi
        /\ \A j \in 1 .. n : (Row(r, s, j) < w <=> j <= lo) /\ (Row(r, s, j) <= w <=> j <= hi)
    BY <1>1, <2>1 DEF Cut
  <2>4. CASE w < v
    <3>1. hi <= p
      <4>1. CASE hi = 0
        BY <1>3, <4>1
      <4>2. CASE hi # 0
        <5>1. hi \in 1 .. n /\ Row(r, s, hi) <= w /\ Row(r, s, hi) \in Nat
          BY <1>4, <2>2, <4>2
        <5> QED BY <1>3, <2>4, <5>1
      <4> QED BY <4>1, <4>2
    <3>2. Cut(z, q, w, lo, hi)
      <4>1. lo \in 0 .. Len(q) /\ hi \in 0 .. Len(q)
        BY <1>2, <2>2
      <4>2. ASSUME NEW j \in 1 .. n + 1
            PROVE  (Row(z, q, j) < w <=> j <= lo) /\ (Row(z, q, j) <= w <=> j <= hi)
        <5>1. CASE j <= p
          <6>1. j \in 1 .. n /\ Row(z, q, j) = Row(r, s, j)
            BY <1>2, <1>3, <5>1
          <6> QED BY <2>2, <6>1
        <5>2. CASE j = p + 1
          <6>1. Row(z, q, j) = v
            BY <1>2, <1>3, <5>2
          <6> QED BY <1>3, <2>2, <2>4, <3>1, <5>2, <6>1
        <5>3. CASE j > p + 1
          <6>1. j - 1 \in 1 .. n /\ Row(z, q, j) = Row(r, s, j - 1)
            BY <1>2, <1>3, <5>3
          <6>2. ~(Row(r, s, j - 1) <= w) /\ ~(Row(r, s, j - 1) < w)
            BY <1>3, <2>2, <3>1, <5>3, <6>1
          <6> QED BY <1>3, <2>2, <3>1, <5>3, <6>1, <6>2
        <5> QED BY <1>3, <5>1, <5>2, <5>3
      <4> QED BY <1>2, <2>2, <4>1, <4>2 DEF Cut
    <3>4. \A j \in 1 .. hi - lo : q[lo + j] = s[lo + j]
      <4>1. \A j \in 1 .. hi - lo : lo + j \in 1 .. n + 1 /\ lo + j <= p
        BY <1>3, <2>2, <3>1
      <4> QED BY <1>2, <4>1
    <3>5. Agree(s, lo, hi, q, lo, hi)
      BY <3>4 DEF Agree
    <3> QED BY ONLY <2>1, <3>2, <3>5, SegmentsAgree, Rolled(S, r, s), Rolled(S, z, q)
  <2>5. CASE w > v
    <3>1. p <= lo
      <4>1. CASE p = 0
        BY <2>2, <4>1
      <4>2. CASE p # 0
        <5>1. p \in 1 .. n /\ Row(r, s, p) <= v /\ Row(r, s, p) \in Nat
          BY <1>3, <1>4, <4>2
        <5> QED BY <1>3, <2>2, <2>5, <5>1
      <4> QED BY <4>1, <4>2
    <3>2. Cut(z, q, w, lo + 1, hi + 1)
      <4>1. lo + 1 \in 0 .. Len(q) /\ hi + 1 \in 0 .. Len(q) /\ lo + 1 <= hi + 1
        BY <1>2, <2>2
      <4>2. ASSUME NEW j \in 1 .. n + 1
            PROVE  (Row(z, q, j) < w <=> j <= lo + 1) /\ (Row(z, q, j) <= w <=> j <= hi + 1)
        <5>1. CASE j <= p
          <6>1. j \in 1 .. n /\ Row(z, q, j) = Row(r, s, j) /\ j <= lo /\ j <= hi
            BY <1>2, <1>3, <2>2, <3>1, <5>1
          <6> QED BY <2>2, <6>1
        <5>2. CASE j = p + 1
          <6>1. Row(z, q, j) = v
            BY <1>2, <1>3, <5>2
          <6> QED BY <1>3, <2>2, <2>5, <3>1, <5>2, <6>1
        <5>3. CASE j > p + 1
          <6>1. j - 1 \in 1 .. n /\ Row(z, q, j) = Row(r, s, j - 1)
            BY <1>2, <1>3, <5>3
          <6> QED BY <2>2, <6>1
        <5> QED BY <1>3, <5>1, <5>2, <5>3
      <4> QED BY <1>2, <4>1, <4>2 DEF Cut
    <3>3. PICK b, d : b = lo + 1 /\ d = hi + 1
      OBVIOUS
    <3>4. \A j \in 1 .. hi - lo : q[(lo + 1) + j] = s[lo + j]
      <4>1. \A j \in 1 .. hi - lo : /\ (lo + 1) + j \in 1 .. n + 1 /\ ~((lo + 1) + j <= p)
                                   /\ (lo + 1) + j # p + 1 /\ ((lo + 1) + j) - 1 = lo + j
        BY <1>3, <2>2, <3>1
      <4> QED BY <1>2, <4>1
    <3>5. Agree(s, lo, hi, q, b, d) /\ Cut(z, q, w, b, d)
      <4>1. d - b = hi - lo
        BY <2>2, <3>3
      <4>2. \A j \in 1 .. hi - lo : q[b + j] = s[lo + j]
        BY <3>3, <3>4
      <4>3. Agree(s, lo, hi, q, b, d)
        BY ONLY <4>1, <4>2 DEF Agree
      <4> QED BY <3>2, <3>3, <4>3
    <3> QED BY ONLY <2>1, <3>5, SegmentsAgree, Rolled(S, r, s), Rolled(S, z, q)
  <2> QED BY <1>3, <1>6, <2>4, <2>5
<1> QED BY <1>5, <1>6

(* q is s without its p-th task, and the others keep their rows. *)
DropAt(r, s, z, q, p) ==
  /\ Len(q) = Len(s) - 1
  /\ \A j \in 1 .. Len(s) - 1 :
       /\ q[j] = IF j < p THEN s[j] ELSE s[j + 1]
       /\ Row(z, q, j) = IF j < p THEN Row(r, s, j) ELSE Row(r, s, j + 1)

LEMMA DropSegments ==
  ASSUME NEW S, NEW r, NEW s, Rolled(S, r, s), NEW z, NEW q, Rolled(S, z, q),
         NEW p \in 1 .. Len(s), DropAt(r, s, z, q, p)
  PROVE  /\ \A w \in Nat : w # Row(r, s, p) => Segment(z, q, w) = Segment(r, s, w)
         /\ LET e == Segment(r, s, Row(r, s, p))
                f == Segment(z, q, Row(r, s, p))
            IN \E i \in 1 .. Len(e) :
                 /\ e[i] = s[p] /\ Len(f) = Len(e) - 1
                 /\ \A j \in 1 .. Len(e) - 1 : f[j] = IF j < i THEN e[j] ELSE e[j + 1]
<1>1. PICK n \in Nat : n = Len(s)
  BY DEF Rolled
<1>2. /\ Len(q) = n - 1
      /\ \A j \in 1 .. n - 1 : q[j] = IF j < p THEN s[j] ELSE s[j + 1]
      /\ \A j \in 1 .. n - 1 : Row(z, q, j) = IF j < p THEN Row(r, s, j) ELSE Row(r, s, j + 1)
  BY <1>1 DEF DropAt
<1>3. p \in 1 .. n /\ \A j \in 1 .. n : Row(r, s, j) \in Nat
  <2>1. \A j \in 1 .. n : j \in 0 .. Len(s)
    BY <1>1
  <2> QED BY <1>1, <2>1, RowRises
<1>0. PICK v : v = Row(r, s, p)
  OBVIOUS
<1>4. ASSUME NEW w \in Nat, NEW lo, NEW hi, Cut(r, s, w, lo, hi)
      PROVE  \E a \in 0 .. n - 1, b \in 0 .. n - 1 :
               /\ lo \in 0 .. n /\ hi \in 0 .. n /\ lo <= hi /\ a <= b
               /\ Cut(z, q, w, a, b)
               /\ p <= lo <=> v < w
               /\ p <= hi <=> v <= w
               /\ a = IF p <= lo THEN lo - 1 ELSE lo
               /\ b = IF p <= hi THEN hi - 1 ELSE hi
  <2>1. /\ lo \in 0 .. n /\ hi \in 0 .. n /\ lo <= hi
        /\ \A j \in 1 .. n : (Row(r, s, j) < w <=> j <= lo) /\ (Row(r, s, j) <= w <=> j <= hi)
    BY <1>1, <1>4 DEF Cut
  <2>3. (p <= lo <=> v < w) /\ (p <= hi <=> v <= w)
    BY <1>0, <1>3, <2>1
  <2>4. PICK a, b : /\ a = IF p <= lo THEN lo - 1 ELSE lo
                    /\ b = IF p <= hi THEN hi - 1 ELSE hi
    OBVIOUS
  <2>40. v \in Nat
    BY <1>0, <1>3
  <2>41. v < w => v <= w
    BY <2>40
  <2>42. p <= lo => p <= hi
    BY <2>3, <2>41
  <2>43. p <= n /\ p >= 1 /\ n \in Nat /\ p \in Int /\ lo \in Int /\ hi \in Int
    BY <1>3, <2>1
  <2>44. p > lo /\ p <= hi => lo <= hi - 1
    BY <2>43
  <2>45. a \in 0 .. n - 1 /\ b \in 0 .. n - 1 /\ a <= b
    BY <2>1, <2>4, <2>42, <2>43, <2>44
  <2>5. ASSUME NEW j \in 1 .. n - 1
        PROVE  (Row(z, q, j) < w <=> j <= a) /\ (Row(z, q, j) <= w <=> j <= b)
    <3>1. CASE j < p
      <4>1. j \in 1 .. n /\ Row(z, q, j) = Row(r, s, j)
        BY <1>2, <3>1
      <4>2. (Row(z, q, j) < w <=> j <= lo) /\ (Row(z, q, j) <= w <=> j <= hi)
        BY <2>1, <4>1
      <4>3. (j <= lo <=> j <= a) /\ (j <= hi <=> j <= b)
        BY <1>3, <2>1, <2>4, <3>1
      <4> QED BY <4>2, <4>3
    <3>2. CASE ~(j < p)
      <4>1. j + 1 \in 1 .. n /\ Row(z, q, j) = Row(r, s, j + 1)
        BY <1>2, <3>2
      <4>2. (Row(z, q, j) < w <=> j + 1 <= lo) /\ (Row(z, q, j) <= w <=> j + 1 <= hi)
        BY <2>1, <4>1
      <4>3. (j + 1 <= lo <=> j <= a) /\ (j + 1 <= hi <=> j <= b)
        BY <1>3, <2>1, <2>4, <3>2
      <4> QED BY <4>2, <4>3
    <3> QED BY <3>1, <3>2
  <2>6. Cut(z, q, w, a, b)
    BY <1>2, <1>4, <2>45, <2>5 DEF Cut
  <2> QED BY <2>1, <2>3, <2>4, <2>45, <2>6
<1>5. ASSUME NEW w \in Nat, w # v PROVE Segment(z, q, w) = Segment(r, s, w)
  <2>1. PICK lo, hi : Cut(r, s, w, lo, hi)
    BY ONLY <1>5, CutExists, Rolled(S, r, s)
  <2>3. PICK a \in 0 .. n - 1, b \in 0 .. n - 1 :
          /\ lo \in 0 .. n /\ hi \in 0 .. n /\ lo <= hi /\ a <= b
          /\ Cut(z, q, w, a, b)
          /\ p <= lo <=> v < w
          /\ p <= hi <=> v <= w
          /\ a = IF p <= lo THEN lo - 1 ELSE lo
          /\ b = IF p <= hi THEN hi - 1 ELSE hi
    BY ONLY <1>4, <1>5, <2>1
  <2>2. CASE p <= lo
    <3>1. /\ lo \in 0 .. n /\ hi \in 0 .. n /\ lo <= hi /\ p <= hi
          /\ a = lo - 1 /\ b = hi - 1
      <4>1. v < w /\ v <= w
        BY <1>0, <1>3, <1>5, <2>2, <2>3
      <4> QED BY <2>2, <2>3, <4>1
    <3>2. \A j \in 1 .. hi - lo : q[a + j] = s[lo + j]
      <4>1. \A j \in 1 .. hi - lo :
              a + j \in 1 .. n - 1 /\ ~(a + j < p) /\ (a + j) + 1 = lo + j
        BY <1>3, <2>2, <3>1
      <4> QED BY <1>2, <4>1
    <3>3. b - a = hi - lo
      BY <3>1
    <3>4. Agree(s, lo, hi, q, a, b)
      BY ONLY <3>2, <3>3 DEF Agree
    <3> QED BY ONLY <2>1, <2>3, <3>4, SegmentsAgree, Rolled(S, r, s), Rolled(S, z, q)
  <2>4. CASE ~(p <= lo)
    <3>1. ~(p <= hi)
      <4>1. v \in Nat /\ ~(v < w)
        BY <1>0, <1>3, <2>3, <2>4
      <4>2. ~(v <= w)
        BY <1>5, <4>1
      <4> QED BY <2>3, <4>2
    <3>2. lo \in 0 .. n - 1 /\ hi \in 0 .. n - 1 /\ lo <= hi /\ a = lo /\ b = hi
      BY <2>3, <2>4, <3>1
    <3>3. \A j \in 1 .. hi - lo : q[a + j] = s[lo + j]
      <4>1. \A j \in 1 .. hi - lo : a + j \in 1 .. n - 1 /\ a + j < p /\ a + j = lo + j
        BY <1>3, <3>1, <3>2
      <4> QED BY <1>2, <4>1
    <3>4. b - a = hi - lo
      BY <3>2
    <3>5. Agree(s, lo, hi, q, a, b)
      BY ONLY <3>3, <3>4 DEF Agree
    <3> QED BY ONLY <2>1, <2>3, <3>5, SegmentsAgree, Rolled(S, r, s), Rolled(S, z, q)
  <2> QED BY <2>2, <2>4
<1>6. \E i \in 1 .. Len(Segment(r, s, v)) :
        /\ Segment(r, s, v)[i] = s[p] /\ Len(Segment(z, q, v)) = Len(Segment(r, s, v)) - 1
        /\ \A j \in 1 .. Len(Segment(r, s, v)) - 1 :
             Segment(z, q, v)[j] = IF j < i THEN Segment(r, s, v)[j] ELSE Segment(r, s, v)[j + 1]
  <2>0. v \in Nat
    BY <1>0, <1>3
  <2>1. PICK lo, hi : Cut(r, s, v, lo, hi)
    BY ONLY <2>0, CutExists, Rolled(S, r, s)
  <2>10. PICK a \in 0 .. n - 1, b \in 0 .. n - 1 :
          /\ lo \in 0 .. n /\ hi \in 0 .. n /\ lo <= hi /\ a <= b
          /\ Cut(z, q, v, a, b)
          /\ p <= lo <=> v < v
          /\ p <= hi <=> v <= v
          /\ a = IF p <= lo THEN lo - 1 ELSE lo
          /\ b = IF p <= hi THEN hi - 1 ELSE hi
    BY ONLY <1>4, <2>0, <2>1
  <2>2. ~(p <= lo) /\ p <= hi
    BY <2>0, <2>10
  <2>3. /\ lo \in 0 .. n - 1 /\ hi \in 0 .. n /\ lo <= hi /\ hi - 1 \in 0 .. n - 1 /\ lo <= hi - 1
        /\ a = lo /\ b = hi - 1
    BY <2>2, <2>10
  <2>30. PICK e : e = Segment(r, s, v)
    OBVIOUS
  <2>31. PICK f : f = Segment(z, q, v)
    OBVIOUS
  <2>4. Len(e) = hi - lo /\ \A j \in 1 .. hi - lo : e[j] = s[lo + j]
    <3>1. Holds(S, e, s, lo, hi)
      BY ONLY <2>1, <2>30, SegmentHolds, Rolled(S, r, s)
    <3> QED BY ONLY <3>1 DEF Holds
  <2>5. Len(f) = hi - 1 - lo /\ \A j \in 1 .. hi - 1 - lo : f[j] = q[lo + j]
    <3>1. Holds(S, f, q, a, b)
      BY ONLY <2>10, <2>31, SegmentHolds, Rolled(S, z, q)
    <3>2. Len(f) = b - a /\ \A j \in 1 .. b - a : f[j] = q[a + j]
      BY ONLY <3>1 DEF Holds
    <3> QED BY <2>3, <3>2
  <2>50. PICK i : i = p - lo
    OBVIOUS
  <2>6. i \in 1 .. hi - lo /\ lo + i = p
    BY <1>3, <2>2, <2>3, <2>50
  <2>7. ASSUME NEW j \in 1 .. hi - lo - 1 PROVE f[j] = IF j < i THEN e[j] ELSE e[j + 1]
    <3>1. /\ lo + j \in 1 .. n - 1 /\ j \in 1 .. hi - 1 - lo /\ j \in 1 .. hi - lo
          /\ j + 1 \in 1 .. hi - lo /\ lo + (j + 1) = (lo + j) + 1
          /\ j < i <=> lo + j < p
      BY <1>3, <2>3, <2>50
    <3> QED BY <1>2, <2>4, <2>5, <3>1
  <2>8. /\ i \in 1 .. Len(e) /\ e[i] = s[p] /\ Len(f) = Len(e) - 1
        /\ \A j \in 1 .. Len(e) - 1 : f[j] = IF j < i THEN e[j] ELSE e[j + 1]
    BY <2>3, <2>4, <2>5, <2>6, <2>7
  <2>9. Segment(r, s, v) = e /\ Segment(z, q, v) = f
    BY <2>30, <2>31
  <2> QED BY <2>8, <2>9
<1> QED BY <1>0, <1>5, <1>6

(***************************************************************************)
(* What the operations on a list do to its row.                            *)
(***************************************************************************)
Inserted(r, s, t, v, p) ==
  [u \in DOMAIN r |-> IF u = t THEN v - Row(r, s, p)
                      ELSE IF p < Len(s) /\ u = s[p + 1] THEN r[u] - (v - Row(r, s, p))
                      ELSE r[u]]

LEMMA InsertRow ==
  ASSUME NEW S, NEW r, NEW s, Rolled(S, r, s), IsInjective(s), NEW t \in S, ~Contains(s, t),
         NEW v, NEW a, NEW p, Cut(r, s, v, a, p)
  PROVE  /\ Rolled(S, Inserted(r, s, t, v, p), InsertAt(s, p + 1, t))
         /\ PutAt(r, s, Inserted(r, s, t, v, p), InsertAt(s, p + 1, t), t, p, v)
<1>0. r \in [S -> Nat] /\ s \in Seq(S)
  BY DEF Rolled
<1>1. PICK n \in Nat : n = Len(s)
  BY <1>0
<1>2. /\ v \in Nat /\ p \in 0 .. n
      /\ \A j \in 1 .. n : Row(r, s, j) <= v <=> j <= p
  BY <1>1 DEF Cut
<1>3. \A j \in 0 .. n : Row(r, s, j) \in Nat
  BY <1>1, RowRises
<1>4. Row(r, s, 0) = 0 /\ \A j \in 1 .. n : Row(r, s, j) = Row(r, s, j - 1) + r[s[j]]
  BY RowSteps
<1>5. Row(r, s, p) <= v /\ Row(r, s, p) \in Nat
  <2>1. p = 0 \/ p \in 1 .. n
    BY <1>2
  <2> QED BY <1>2, <1>3, <1>4, <2>1
<1>6. PICK l \in Nat : l = v - Row(r, s, p)
  <2>1. v - Row(r, s, p) \in Nat
    BY <1>2, <1>5
  <2> QED BY <2>1
<1>7. PICK z : z = Inserted(r, s, t, v, p)
  OBVIOUS
<1>8. DOMAIN r = S /\ \A u \in S : r[u] \in Nat
  BY <1>0
<1>9. /\ z = [u \in S |-> z[u]]
      /\ \A u \in S : z[u] = IF u = t THEN l ELSE IF p < n /\ u = s[p + 1] THEN r[u] - l ELSE r[u]
  BY <1>1, <1>6, <1>7, <1>8 DEF Inserted
<1>10. \A i, j \in 1 .. n : s[i] = s[j] => i = j
  BY <1>0, <1>1 DEF IsInjective
<1>11. \A j \in 1 .. n : s[j] \in S /\ s[j] # t
  BY <1>0, <1>1 DEF Contains
<1>12. p < n => r[s[p + 1]] - l \in Nat /\ Row(r, s, p + 1) = v + (r[s[p + 1]] - l)
  <2>1. SUFFICES ASSUME p < n PROVE r[s[p + 1]] - l \in Nat /\ Row(r, s, p + 1) = v + (r[s[p + 1]] - l)
    OBVIOUS
  <2>2. p + 1 \in 1 .. n /\ (p + 1) - 1 = p /\ p + 1 \in 0 .. n /\ ~(p + 1 <= p)
    BY <1>2, <2>1
  <2>3. Row(r, s, p + 1) = Row(r, s, p) + r[s[p + 1]]
    <3>1. Row(r, s, p + 1) = Row(r, s, (p + 1) - 1) + r[s[p + 1]]
      BY ONLY <1>4, <2>2
    <3> QED BY ONLY <2>2, <3>1
  <2>4. ~(Row(r, s, p + 1) <= v) /\ Row(r, s, p + 1) \in Nat
    BY <1>2, <1>3, <2>2
  <2>5. r[s[p + 1]] \in Nat
    BY <1>8, <1>11, <2>2
  <2> QED BY ONLY <1>2, <1>5, <1>6, <2>3, <2>4, <2>5
<1>13. z \in [S -> Nat]
  <2>1. \A u \in S : z[u] \in Nat
    BY <1>8, <1>9, <1>12, l \in Nat
  <2> QED BY <1>9, <2>1
<1>14. PICK q : q = InsertAt(s, p + 1, t)
  OBVIOUS
<1>15. /\ q \in Seq(S) /\ Len(q) = n + 1
       /\ \A j \in 1 .. n + 1 : q[j] = IF j <= p THEN s[j] ELSE IF j = p + 1 THEN t ELSE s[j - 1]
  <2>1. p + 1 \in 1 .. Len(s) + 1
    BY <1>1, <1>2
  <2>2. /\ InsertAt(s, p + 1, t) \in Seq(S) /\ Len(InsertAt(s, p + 1, t)) = Len(s) + 1
        /\ \A j \in 1 .. Len(s) + 1 : InsertAt(s, p + 1, t)[j] =
             IF j < p + 1 THEN s[j] ELSE IF j = p + 1 THEN t ELSE s[j - 1]
    <3>1. PICK k : k = p + 1
      OBVIOUS
    <3>2. k \in 1 .. Len(s) + 1
      BY <2>1, <3>1
    <3>3. /\ InsertAt(s, k, t) \in Seq(S) /\ Len(InsertAt(s, k, t)) = Len(s) + 1
          /\ \A j \in 1 .. Len(s) + 1 : InsertAt(s, k, t)[j] =
               IF j < k THEN s[j] ELSE IF j = k THEN t ELSE s[j - 1]
      BY ONLY <1>0, <3>2, InsertList, t \in S
    <3> QED BY <3>1, <3>3
  <2>3. \A j \in 1 .. n + 1 : j < p + 1 <=> j <= p
    BY <1>2
  <2> QED BY <1>1, <1>14, <2>2, <2>3
<1>16. PICK g : \A j \in 0 .. n + 1 :
                  g[j] = IF j <= p THEN Row(r, s, j) ELSE IF j = p + 1 THEN v ELSE Row(r, s, j - 1)
  <2>1. \A j \in 0 .. n + 1 :
          [i \in 0 .. n + 1 |-> IF i <= p THEN Row(r, s, i) ELSE IF i = p + 1 THEN v
                                ELSE Row(r, s, i - 1)][j]
          = IF j <= p THEN Row(r, s, j) ELSE IF j = p + 1 THEN v ELSE Row(r, s, j - 1)
    OBVIOUS
  <2> QED BY <2>1
<1>17. IsRow(z, q, n + 1, g)
  <2>1. g[0] = 0
    <3>1. 0 \in 0 .. n + 1 /\ 0 <= p
      BY <1>2
    <3> QED BY <1>4, <1>16, <3>1
  <2>2. ASSUME NEW m \in 1 .. n + 1 PROVE g[m] = g[m - 1] + z[q[m]]
    <3>0. m \in 0 .. n + 1 /\ m - 1 \in 0 .. n + 1
      OBVIOUS
    <3>1. CASE m <= p
      <4>1. m \in 1 .. n /\ m - 1 <= p /\ (p < n => p + 1 \in 1 .. n /\ m # p + 1)
        BY <1>2, <3>1
      <4>2. q[m] = s[m] /\ g[m] = Row(r, s, m) /\ g[m - 1] = Row(r, s, m - 1)
        BY <1>15, <1>16, <3>0, <3>1, <4>1
      <4>3. z[s[m]] = r[s[m]]
        BY <1>9, <1>10, <1>11, <4>1
      <4> QED BY <1>4, <4>1, <4>2, <4>3
    <3>2. CASE m = p + 1
      <4>1. m - 1 = p /\ ~(m <= p) /\ p <= p
        BY <1>2, <3>2
      <4>2. q[m] = t /\ g[m] = v /\ g[m - 1] = Row(r, s, p)
        BY <1>15, <1>16, <3>0, <3>2, <4>1
      <4>3. z[t] = l
        BY <1>9
      <4> QED BY <1>2, <1>5, <1>6, <4>2, <4>3
    <3>3. CASE m = (p + 1) + 1
      <4>1. m - 1 = p + 1 /\ ~(m <= p) /\ m # p + 1 /\ p < n /\ ~(p + 1 <= p) /\ p + 1 \in 1 .. n
        BY <1>2, <3>3
      <4>2. q[m] = s[p + 1] /\ g[m] = Row(r, s, p + 1) /\ g[m - 1] = v
        BY <1>15, <1>16, <3>0, <4>1
      <4>3. z[s[p + 1]] = r[s[p + 1]] - l
        BY <1>9, <1>11, <4>1
      <4> QED BY <1>12, <4>1, <4>2, <4>3
    <3>4. CASE m > (p + 1) + 1
      <4>1. /\ ~(m <= p) /\ m # p + 1 /\ ~(m - 1 <= p) /\ m - 1 # p + 1 /\ m - 1 \in 1 .. n
            /\ (p < n => p + 1 \in 1 .. n)
        BY <1>2, <3>4
      <4>2. q[m] = s[m - 1] /\ g[m] = Row(r, s, m - 1) /\ g[m - 1] = Row(r, s, (m - 1) - 1)
        BY <1>15, <1>16, <3>0, <4>1
      <4>3. z[s[m - 1]] = r[s[m - 1]]
        BY <1>9, <1>10, <1>11, <4>1
      <4> QED BY <1>4, <4>1, <4>2, <4>3
    <3> QED BY <1>2, <3>1, <3>2, <3>3, <3>4
  <2> QED BY <2>1, <2>2 DEF IsRow
<1>18. \A j \in 0 .. n + 1 : Row(z, q, j) = g[j]
  <2>1. n + 1 \in Nat
    OBVIOUS
  <2> QED BY ONLY <1>17, <2>1, RowIs
<1>19. PutAt(r, s, z, q, t, p, v)
  <2>1. \A j \in 1 .. n + 1 : j \in 0 .. n + 1
    OBVIOUS
  <2>2. \A j \in 1 .. n + 1 :
          Row(z, q, j) = IF j <= p THEN Row(r, s, j) ELSE IF j = p + 1 THEN v ELSE Row(r, s, j - 1)
    BY <1>16, <1>18, <2>1
  <2> QED BY <1>1, <1>15, <2>2 DEF PutAt
<1>20. Rolled(S, z, q)
  BY <1>13, <1>15 DEF Rolled
<1> QED BY <1>7, <1>14, <1>19, <1>20

Removed(r, s, p) == IF p < Len(s) THEN [r EXCEPT ![s[p + 1]] = @ + r[s[p]]] ELSE r

LEMMA RemoveRow ==
  ASSUME NEW S, NEW r, NEW s, Rolled(S, r, s), IsInjective(s), NEW p \in 1 .. Len(s)
  PROVE  /\ Rolled(S, Removed(r, s, p), RemoveAt(s, p))
         /\ DropAt(r, s, Removed(r, s, p), RemoveAt(s, p), p)
<1>0. r \in [S -> Nat] /\ s \in Seq(S)
  BY DEF Rolled
<1>1. PICK n \in Nat : n = Len(s)
  BY <1>0
<1>2. p \in 1 .. n
  BY <1>1
<1>3. Row(r, s, 0) = 0 /\ \A j \in 1 .. n : Row(r, s, j) = Row(r, s, j - 1) + r[s[j]]
  BY RowSteps
<1>4. \A j \in 0 .. n : Row(r, s, j) \in Nat
  BY <1>1, RowRises
<1>5. \A u \in S : r[u] \in Nat
  BY <1>0
<1>6. \A j \in 1 .. n : s[j] \in S
  BY <1>0, <1>1
<1>7. PICK z : z = Removed(r, s, p)
  OBVIOUS
<1>8. p < n => p + 1 \in 1 .. n
  BY <1>2
<1>9. z \in [S -> Nat] /\ \A u \in S : z[u] = IF p < n /\ u = s[p + 1] THEN r[u] + r[s[p]] ELSE r[u]
  <2>1. CASE p < n
    <3>1. s[p + 1] \in S /\ r[s[p + 1]] + r[s[p]] \in Nat
      BY <1>2, <1>5, <1>6, <1>8, <2>1
    <3>2. z = [r EXCEPT ![s[p + 1]] = @ + r[s[p]]]
      BY <1>1, <1>7, <2>1 DEF Removed
    <3> QED BY <1>0, <2>1, <3>1, <3>2
  <2>2. CASE ~(p < n)
    BY <1>0, <1>1, <1>7, <2>2 DEF Removed
  <2> QED BY <2>1, <2>2
<1>10. \A i, j \in 1 .. n : s[i] = s[j] => i = j
  BY <1>0, <1>1 DEF IsInjective
<1>11. PICK q : q = RemoveAt(s, p)
  OBVIOUS
<1>12. q \in Seq(S) /\ Len(q) = n - 1 /\ \A j \in 1 .. n - 1 : q[j] = IF j < p THEN s[j] ELSE s[j + 1]
  BY <1>0, <1>1, <1>11, RemoveAtList
<1> DEFINE Left(j) == IF j < p THEN Row(r, s, j) ELSE Row(r, s, j + 1)
<1> HIDE DEF Left
<1>120. PICK g : \A j \in 0 .. n - 1 : g[j] = Left(j)
  <2>1. \A j \in 0 .. n - 1 : [i \in 0 .. n - 1 |-> Left(i)][j] = Left(j)
    OBVIOUS
  <2> QED BY <2>1
<1>13. \A j \in 0 .. n - 1 : g[j] = IF j < p THEN Row(r, s, j) ELSE Row(r, s, j + 1)
  BY <1>120 DEF Left
<1>14. IsRow(z, q, n - 1, g)
  <2>1. g[0] = 0
    <3>1. 0 \in 0 .. n - 1 /\ 0 < p
      BY <1>2
    <3> QED BY <1>3, <1>13, <3>1
  <2>2. ASSUME NEW m \in 1 .. n - 1 PROVE g[m] = g[m - 1] + z[q[m]]
    <3>0. m \in 0 .. n - 1 /\ m - 1 \in 0 .. n - 1 /\ m \in 1 .. n /\ m + 1 \in 1 .. n
      OBVIOUS
    <3>1. CASE m < p
      <4>1. m - 1 < p /\ m # p + 1
        BY <1>2, <3>1
      <4>2. q[m] = s[m] /\ g[m] = Row(r, s, m) /\ g[m - 1] = Row(r, s, m - 1)
        BY <1>12, <1>13, <3>0, <3>1, <4>1
      <4>3. z[s[m]] = r[s[m]]
        BY <1>6, <1>8, <1>9, <1>10, <3>0, <4>1
      <4> QED BY <1>3, <3>0, <4>2, <4>3
    <3>2. CASE m = p
      <4>1. ~(m < p) /\ m - 1 < p /\ p < n /\ (p + 1) - 1 = p /\ m - 1 = p - 1
        BY <1>2, <3>2
      <4>2. q[m] = s[p + 1] /\ g[m] = Row(r, s, p + 1) /\ g[m - 1] = Row(r, s, p - 1)
        BY <1>12, <1>13, <3>0, <3>2, <4>1
      <4>3. z[s[p + 1]] = r[s[p + 1]] + r[s[p]]
        BY <1>6, <1>8, <1>9, <4>1
      <4>4. Row(r, s, p + 1) = Row(r, s, p) + r[s[p + 1]] /\ Row(r, s, p) = Row(r, s, p - 1) + r[s[p]]
        <5>1. Row(r, s, p + 1) = Row(r, s, (p + 1) - 1) + r[s[p + 1]]
          BY ONLY <1>3, <1>8, <4>1
        <5>2. Row(r, s, p) = Row(r, s, p - 1) + r[s[p]]
          BY ONLY <1>2, <1>3
        <5> QED BY ONLY <4>1, <5>1, <5>2
      <4>5. r[s[p + 1]] \in Nat /\ r[s[p]] \in Nat /\ Row(r, s, p - 1) \in Nat
        <5>1. p - 1 \in 0 .. n
          BY <1>2
        <5> QED BY <1>2, <1>4, <1>5, <1>6, <1>8, <4>1, <5>1
      <4> QED BY ONLY <4>2, <4>3, <4>4, <4>5
    <3>3. CASE m > p
      <4>1. ~(m < p) /\ ~(m - 1 < p) /\ (m - 1) + 1 = m /\ m + 1 # p + 1 /\ (m + 1) - 1 = m
        BY <1>2, <3>3
      <4>2. q[m] = s[m + 1] /\ g[m] = Row(r, s, m + 1) /\ g[m - 1] = Row(r, s, m)
        <5>1. g[m - 1] = Row(r, s, (m - 1) + 1)
          BY <1>13, <3>0, <4>1
        <5> QED BY <1>12, <1>13, <3>0, <4>1, <5>1
      <4>3. z[s[m + 1]] = r[s[m + 1]]
        BY <1>6, <1>8, <1>9, <1>10, <3>0, <4>1
      <4>4. Row(r, s, m + 1) = Row(r, s, m) + r[s[m + 1]]
        <5>1. Row(r, s, m + 1) = Row(r, s, (m + 1) - 1) + r[s[m + 1]]
          BY ONLY <1>3, <3>0
        <5> QED BY ONLY <4>1, <5>1
      <4> QED BY <4>2, <4>3, <4>4
    <3> QED BY <1>2, <3>1, <3>2, <3>3
  <2> QED BY <2>1, <2>2 DEF IsRow
<1>15. \A j \in 0 .. n - 1 : Row(z, q, j) = g[j]
  <2>1. n - 1 \in Nat
    BY <1>2
  <2> QED BY ONLY <1>14, <2>1, RowIs
<1>16. DropAt(r, s, z, q, p)
  <2>1. \A j \in 1 .. n - 1 : j \in 0 .. n - 1
    OBVIOUS
  <2>2. \A j \in 1 .. n - 1 : Row(z, q, j) = IF j < p THEN Row(r, s, j) ELSE Row(r, s, j + 1)
    BY <1>13, <1>15, <2>1
  <2> QED BY <1>1, <1>12, <2>2 DEF DropAt
<1>17. Rolled(S, z, q)
  BY <1>9, <1>12 DEF Rolled
<1> QED BY <1>7, <1>11, <1>16, <1>17

(* A visit that charges the first task charges every task. *)
Charged(r, s) == [r EXCEPT ![Head(s)] = @ - 1]

LEMMA ChargeRow ==
  ASSUME NEW S, NEW r, NEW s, Rolled(S, r, s), IsInjective(s), s # <<>>, r[Head(s)] > 0,
         NEW z, z = Charged(r, s)
  PROVE  /\ Rolled(S, z, s)
         /\ \A j \in 1 .. Len(s) : Row(r, s, j) > 0 /\ Row(z, s, j) = Row(r, s, j) - 1
         /\ Segment(r, s, 0) = <<>>
         /\ \A v \in Nat : Segment(z, s, v) = Segment(r, s, v + 1)
<1>0. r \in [S -> Nat] /\ s \in Seq(S)
  BY DEF Rolled
<1>1. PICK n \in Nat : n = Len(s)
  BY <1>0
<1>2. n > 0 /\ Head(s) = s[1] /\ 1 \in 1 .. n
  BY <1>0, <1>1
<1>3. Row(r, s, 0) = 0 /\ \A j \in 1 .. n : Row(r, s, j) = Row(r, s, j - 1) + r[s[j]]
  BY RowSteps
<1>4. \A j \in 0 .. n : Row(r, s, j) \in Nat
  BY <1>1, RowRises
<1>5. \A l, m \in 0 .. n : l <= m => Row(r, s, l) <= Row(r, s, m)
  BY <1>1, RowRises
<1>6. \A j \in 1 .. n : s[j] \in S
  BY <1>0, <1>1
<1>7. \A j \in 1 .. n : s[1] = s[j] => 1 = j
  BY <1>0, <1>1, <1>2 DEF IsInjective
<1>8. /\ z \in [S -> Nat] /\ z[s[1]] = r[s[1]] - 1 /\ r[s[1]] \in Nat /\ r[s[1]] > 0
      /\ \A u \in S : u # s[1] => z[u] = r[u]
  <2>1. s[1] \in S /\ r[s[1]] - 1 \in Nat
    BY <1>0, <1>2, <1>6
  <2> QED BY <1>0, <1>2, <2>1 DEF Charged
<1>9. Row(r, s, 1) = r[s[1]]
  <2>1. Row(r, s, 1) = Row(r, s, 1 - 1) + r[s[1]]
    BY ONLY <1>2, <1>3
  <2> QED BY <1>3, <1>8, <2>1
<1>10. \A j \in 1 .. n : Row(r, s, j) > 0 /\ Row(r, s, j) \in Nat
  <2>1. \A j \in 1 .. n : j \in 0 .. n /\ 1 \in 0 .. n /\ 1 <= j
    BY <1>2
  <2> QED BY <1>4, <1>5, <1>8, <1>9, <2>1
<1>11. PICK g : \A j \in 0 .. n : g[j] = IF j = 0 THEN 0 ELSE Row(r, s, j) - 1
  <2>1. \A j \in 0 .. n : [i \in 0 .. n |-> IF i = 0 THEN 0 ELSE Row(r, s, i) - 1][j]
                          = IF j = 0 THEN 0 ELSE Row(r, s, j) - 1
    OBVIOUS
  <2> QED BY <2>1
<1>12. IsRow(z, s, n, g)
  <2>1. g[0] = 0
    <3>1. 0 \in 0 .. n
      OBVIOUS
    <3> QED BY <1>11, <3>1
  <2>2. ASSUME NEW m \in 1 .. n PROVE g[m] = g[m - 1] + z[s[m]]
    <3>1. CASE m = 1
      <4>1. m - 1 = 0 /\ m \in 0 .. n /\ m # 0
        BY <3>1
      <4>2. g[m] = Row(r, s, 1) - 1
        BY <1>11, <3>1, <4>1
      <4> QED BY <1>8, <1>9, <2>1, <3>1, <4>1, <4>2
    <3>2. CASE m # 1
      <4>1. m \in 0 .. n /\ m - 1 \in 0 .. n /\ m # 0 /\ m - 1 # 0
        BY <3>2
      <4>2. g[m] = Row(r, s, m) - 1 /\ g[m - 1] = Row(r, s, m - 1) - 1
        BY <1>11, <4>1
      <4>3. z[s[m]] = r[s[m]] /\ r[s[m]] \in Nat
        BY <1>6, <1>7, <1>8, <3>2
      <4>4. Row(r, s, m) = Row(r, s, m - 1) + r[s[m]] /\ Row(r, s, m - 1) \in Nat
        BY <1>3, <1>4, <4>1
      <4> QED BY ONLY <4>2, <4>3, <4>4
    <3> QED BY <3>1, <3>2
  <2> QED BY <2>1, <2>2 DEF IsRow
<1>13. \A j \in 0 .. n : Row(z, s, j) = g[j]
  BY ONLY <1>12, RowIs, n \in Nat
<1>14. \A j \in 1 .. n : Row(z, s, j) = Row(r, s, j) - 1
  <2>1. \A j \in 1 .. n : j \in 0 .. n /\ j # 0
    OBVIOUS
  <2> QED BY <1>11, <1>13, <2>1
<1>15. Segment(r, s, 0) = <<>>
  <2>1. {j \in 1 .. Len(s) : Row(r, s, j) = 0} = {}
    BY <1>1, <1>10
  <2> QED BY <2>1 DEF Segment
<1>16. ASSUME NEW v \in Nat PROVE Segment(z, s, v) = Segment(r, s, v + 1)
  <2>1. ASSUME NEW j \in 1 .. n PROVE Row(z, s, j) = v <=> Row(r, s, j) = v + 1
    <3>1. Row(z, s, j) = Row(r, s, j) - 1
      BY <1>14
    <3>2. Row(r, s, j) \in Nat
      BY <1>10
    <3> QED BY ONLY <3>1, <3>2, v \in Nat
  <2>2. {j \in 1 .. Len(s) : Row(z, s, j) = v} = {j \in 1 .. Len(s) : Row(r, s, j) = v + 1}
    BY <1>1, <2>1
  <2> QED BY <2>2 DEF Segment
<1>17. Rolled(S, z, s)
  BY <1>0, <1>8 DEF Rolled
<1> QED BY <1>1, <1>10, <1>14, <1>15, <1>16, <1>17

(* Removing what is there once. *)
LEMMA RemoveFirstIs ==
  ASSUME NEW S, NEW e \in Seq(S), IsInjective(e), NEW f \in Seq(S), NEW i \in 1 .. Len(e),
         Len(f) = Len(e) - 1, \A j \in 1 .. Len(e) - 1 : f[j] = IF j < i THEN e[j] ELSE e[j + 1]
  PROVE  f = RemoveFirst(e, e[i])
<1>1. PICK t : t = e[i]
  OBVIOUS
<1>2. PICK r : r = RemoveFirst(e, t)
  OBVIOUS
<1>3. \E j \in 1 .. Len(e) : e[j] = t
  BY <1>1
<1>4. PICK k \in 1 .. Len(e) :
        /\ e[k] = t
        /\ RemoveFirst(e, t) \in Seq(S) /\ Len(RemoveFirst(e, t)) = Len(e) - 1
        /\ \A j \in 1 .. Len(e) - 1 : RemoveFirst(e, t)[j] = IF j < k THEN e[j] ELSE e[j + 1]
  BY ONLY <1>3, RemoveFirstAt, e \in Seq(S)
<1>5. k = i
  BY <1>1, <1>4 DEF IsInjective
<1>6. r \in Seq(S) /\ Len(r) = Len(f) /\ \A j \in 1 .. Len(f) : r[j] = f[j]
  BY <1>2, <1>4, <1>5
<1>7. r = f
  BY ONLY <1>6, f \in Seq(S)
<1> QED BY <1>1, <1>2, <1>7

LEMMA SegmentInjective ==
  ASSUME NEW S, NEW r, NEW s, Rolled(S, r, s), IsInjective(s), NEW v \in Nat
  PROVE  IsInjective(Segment(r, s, v))
<1>1. PICK lo, hi : Cut(r, s, v, lo, hi)
  BY CutExists
<1>2. Len(s) \in Nat /\ lo \in 0 .. Len(s) /\ hi \in 0 .. Len(s) /\ lo <= hi
  BY <1>1, CutTypes
<1>3. PICK e : e = Segment(r, s, v)
  OBVIOUS
<1>4. e \in Seq(S) /\ Len(e) = hi - lo /\ \A j \in 1 .. hi - lo : e[j] = s[lo + j]
  <2>1. Holds(S, e, s, lo, hi)
    BY <1>1, <1>3, SegmentHolds
  <2> QED BY <2>1 DEF Holds
<1>5. \A i, j \in 1 .. Len(s) : s[i] = s[j] => i = j
  <2>1. DOMAIN s = 1 .. Len(s)
    BY DEF Rolled
  <2> QED BY <2>1 DEF IsInjective
<1>6. ASSUME NEW i \in 1 .. hi - lo, NEW j \in 1 .. hi - lo, e[i] = e[j] PROVE i = j
  <2>1. lo + i \in 1 .. Len(s) /\ lo + j \in 1 .. Len(s) /\ s[lo + i] = s[lo + j]
    BY <1>2, <1>4, <1>6
  <2>2. lo + i = lo + j
    BY <1>5, <2>1
  <2> QED BY <1>2, <2>2
<1>7. DOMAIN e = 1 .. hi - lo
  BY <1>4
<1>8. IsInjective(e)
  BY <1>6, <1>7 DEF IsInjective
<1> QED BY <1>3, <1>8

(* What the first visit serves begins with the first task. *)
LEMMA SegmentFirst ==
  ASSUME NEW S, NEW r, NEW s, Rolled(S, r, s), s # <<>>, r[Head(s)] = 0
  PROVE  Segment(r, s, 0) # <<>> /\ Segment(r, s, 0)[1] = Head(s) /\ Row(r, s, 1) = 0
<1>1. 1 \in 1 .. Len(s) /\ Head(s) = s[1] /\ Len(s) \in Nat
  BY DEF Rolled
<1>2. Row(r, s, 1) = 0
  <2>1. Row(r, s, 0) = 0 /\ Row(r, s, 1) = Row(r, s, 1 - 1) + r[s[1]]
    BY <1>1, RowSteps
  <2> QED BY <1>1, <2>1
<1>3. PICK lo, hi : Cut(r, s, 0, lo, hi)
  BY CutExists
<1>4. /\ lo \in 0 .. Len(s) /\ hi \in 0 .. Len(s) /\ lo <= hi
      /\ \A j \in 1 .. Len(s) : (Row(r, s, j) < 0 <=> j <= lo) /\ (Row(r, s, j) <= 0 <=> j <= hi)
      /\ \A j \in 1 .. Len(s) : Row(r, s, j) \in Nat
  BY <1>3, CutTypes
<1>5. lo = 0 /\ hi >= 1
  <2>1. hi >= 1
    BY <1>1, <1>2, <1>4
  <2>2. CASE lo >= 1
    <3>1. lo \in 1 .. Len(s) /\ Row(r, s, lo) < 0
      BY <1>1, <1>4, <2>2
    <3> QED BY <1>4, <3>1
  <2> QED BY <1>4, <2>1, <2>2
<1>6. PICK e : e = Segment(r, s, 0)
  OBVIOUS
<1>7. e \in Seq(S) /\ Len(e) = hi - lo /\ \A j \in 1 .. hi - lo : e[j] = s[lo + j]
  <2>1. Holds(S, e, s, lo, hi)
    BY <1>3, <1>6, SegmentHolds
  <2> QED BY <2>1 DEF Holds
<1>8. e # <<>> /\ e[1] = s[1]
  BY <1>4, <1>5, <1>7
<1> QED BY <1>1, <1>2, <1>6, <1>8

(***************************************************************************)
(* The inductive invariant: of the values c, b, r, x, now of cursor,       *)
(* bucket, roll, index and scan.  A task is in one bucket at most, once,   *)
(* index knows which, and every entry of the wheel is there for a tick.    *)
(***************************************************************************)
Ticks == 0 .. MaxTimeout

Dated(c, now, i, v) ==
  \E n \in Ticks : (n = 0 => now) /\ Slot(c, n) = i /\ Turn(c, now, n) = v

Wheel(c, b, r, x, now) ==
  /\ c \in Index /\ b \in [Index -> Seq(Task)] /\ r \in [Task -> Nat] /\ x \in [Task -> Index]
  /\ now \in BOOLEAN
  /\ \A i \in Index : IsInjective(b[i])
  /\ \A i \in Index, t \in Task : Contains(b[i], t) => x[t] = i
  /\ \A i \in Index : \A j \in 1 .. Len(b[i]) : Dated(c, now, i, Row(r, b[i], j))

(* What is served in n ticks. *)
Served(c, b, r, now, n) ==
  IF n = 0 /\ ~now THEN <<>> ELSE Segment(r, b[Slot(c, n)], Turn(c, now, n))

(* Counts differ only in bucket i, or of tasks that are in no bucket. *)
Elsewhere(b, r, z, i) ==
  \A u \in Task : z[u] = r[u] \/ Contains(b[i], u) \/ \A k \in Index : ~Contains(b[k], u)

LEMMA OtherBuckets ==
  ASSUME NEW c, NEW b, NEW r, NEW x, NEW now, Wheel(c, b, r, x, now), NEW i \in Index, NEW z,
         Elsewhere(b, r, z, i), NEW k \in Index, k # i
  PROVE  /\ \A j \in 0 .. Len(b[k]) : Row(z, b[k], j) = Row(r, b[k], j)
         /\ \A v : Segment(z, b[k], v) = Segment(r, b[k], v)
<1>1. PICK s : s = b[k]
  OBVIOUS
<1>2. s \in Seq(Task)
  BY <1>1 DEF Wheel
<1>3. ASSUME NEW j \in 1 .. Len(s) PROVE z[s[j]] = r[s[j]]
  <2>1. s[j] \in Task /\ Contains(b[k], s[j])
    BY <1>1, <1>2 DEF Contains
  <2>2. x[s[j]] = k
    BY <2>1 DEF Wheel
  <2>3. ~Contains(b[i], s[j])
    BY <2>1, <2>2 DEF Wheel
  <2> QED BY <2>1, <2>3 DEF Elsewhere
<1>4. Rolled(Task, r, s) /\ SameRolls(r, z, s)
  BY <1>2, <1>3 DEF Rolled, SameRolls, Wheel
<1>5. /\ \A j \in 0 .. Len(s) : Row(z, s, j) = Row(r, s, j)
      /\ \A v : Segment(z, s, v) = Segment(r, s, v)
  BY ONLY <1>4, SameSegments
<1> QED BY <1>1, <1>5

LEMMA WheelTypes ==
  ASSUME NEW c, NEW b, NEW r, NEW x, NEW now, Wheel(c, b, r, x, now)
  PROVE  /\ c \in Index /\ r \in [Task -> Nat] /\ now \in BOOLEAN
         /\ \A n \in Nat : Slot(c, n) \in Index
         /\ \A n \in Nat : n # 0 => RollNum(n) \in Nat
         /\ \A n \in Nat : (n = 0 => now) => Turn(c, now, n) \in Nat
         /\ \A i \in Index : b[i] \in Seq(Task) /\ IsInjective(b[i])
<1>1. c \in Index /\ now \in BOOLEAN
  BY DEF Wheel
<1>2. ASSUME NEW n \in Nat PROVE Slot(c, n) \in Index
  BY <1>1, SlotIs
<1>3. ASSUME NEW n \in Nat, n # 0 PROVE RollNum(n) \in Nat
  BY <1>1, <1>3, TurnType
<1>4. ASSUME NEW n \in Nat, n = 0 => now PROVE Turn(c, now, n) \in Nat
  <2>1. LinkLen \in Nat \ {0}
    BY SortLinkAssumption
  <2>2. n \div LinkLen \in Nat
    BY <2>1, Division
  <2>3. n = 0 => now /\ Slot(c, n) = c
    <3>1. SUFFICES ASSUME n = 0 PROVE Slot(c, n) = c
      BY <1>4
    <3>2. n % LinkLen = 0 /\ c \in 0 .. LinkLen - 1
      BY <1>1, <2>1, <3>1, Division DEF Index
    <3> QED BY <1>1, <2>1, <3>2, SlotIs
  <2> QED BY <1>3, <2>2, <2>3 DEF Turn
<1> QED BY <1>1, <1>2, <1>3, <1>4 DEF Wheel

(* Outside the scan, and inside. *)
IsOff(now) == now = FALSE
IsOn(now) == now = TRUE

NotIn(b, t) == \A k \in Index : ~Contains(b[k], t)
With(b, i, p, t) == [b EXCEPT ![i] = InsertAt(b[i], p + 1, t)]
Moved(x, t, i) == [x EXCEPT ![t] = i]

(* What osTaskAdd2TimerList does to the values of the state. *)
Adding(c, b, r, x, now, n, t, i, v, a, p, e, z, y) ==
  /\ IsOff(now) /\ Wheel(c, b, r, x, now)
  /\ n \in Ticks /\ n # 0 /\ t \in Task /\ NotIn(b, t)
  /\ i = Slot(c, n) /\ v = RollNum(n) /\ Cut(r, b[i], v, a, p)
  /\ e = With(b, i, p, t) /\ z = Inserted(r, b[i], t, v, p) /\ y = Moved(x, t, i)

LEMMA AddValues ==
  ASSUME NEW c, NEW b, NEW r, NEW x, NEW now, NEW n, NEW t, NEW i, NEW v, NEW a, NEW p,
         NEW e, NEW z, NEW y, Adding(c, b, r, x, now, n, t, i, v, a, p, e, z, y)
  PROVE  /\ Wheel(c, e, z, y, now)
         /\ \A m \in Ticks : Served(c, e, z, now, m) =
              IF m = n THEN Append(Served(c, b, r, now, n), t) ELSE Served(c, b, r, now, m)
<1> now = FALSE
  BY DEF IsOff, Adding
<1> Wheel(c, b, r, x, now)
  BY DEF Adding
<1> n \in Ticks /\ n # 0
  BY DEF Adding
<1> t \in Task
  BY DEF Adding
<1> NotIn(b, t)
  BY DEF Adding
<1> i = Slot(c, n) /\ v = RollNum(n) /\ Cut(r, b[i], v, a, p)
  BY DEF Adding
<1> e = With(b, i, p, t) /\ z = Inserted(r, b[i], t, v, p) /\ y = Moved(x, t, i)
  BY DEF Adding
<1>1. /\ c \in Index /\ b \in [Index -> Seq(Task)] /\ r \in [Task -> Nat] /\ x \in [Task -> Index]
      /\ n \in Nat /\ n # 0 /\ now \in BOOLEAN
  BY DEF Wheel, Ticks
<1>2. i \in Index /\ v \in Nat
  BY <1>1, WheelTypes
<1>3. PICK s : s = b[i]
  OBVIOUS
<1>4. s \in Seq(Task) /\ IsInjective(s) /\ ~Contains(s, t)
  BY <1>2, <1>3 DEF Wheel, NotIn
<1>5. PICK q : q = InsertAt(s, p + 1, t)
  OBVIOUS
<1>60. Rolled(Task, r, s) /\ Cut(r, s, v, a, p)
  BY <1>1, <1>3, <1>4 DEF Rolled
<1>61. Rolled(Task, z, q) /\ PutAt(r, s, z, q, t, p, v)
  <2>1. /\ Rolled(Task, Inserted(r, s, t, v, p), InsertAt(s, p + 1, t))
        /\ PutAt(r, s, Inserted(r, s, t, v, p), InsertAt(s, p + 1, t), t, p, v)
    BY ONLY <1>4, <1>60, InsertRow, t \in Task
  <2> QED BY <1>3, <1>5, <2>1
<1>6. z \in [Task -> Nat] /\ q \in Seq(Task)
  BY <1>61 DEF Rolled
<1>7. p \in 0 .. Len(s)
  BY <1>3 DEF Cut
<1>8. IsInjective(q) /\ \A u : Contains(q, u) <=> Contains(s, u) \/ u = t
  <2>1. p + 1 \in 1 .. Len(s) + 1
    BY <1>4, <1>7
  <2> QED BY <1>4, <1>5, <2>1, InsertList
<1>9. e \in [Index -> Seq(Task)] /\ e[i] = q /\ \A k \in Index : k # i => e[k] = b[k]
  BY <1>1, <1>2, <1>3, <1>5, <1>6 DEF With
<1>10. y \in [Task -> Index] /\ y[t] = i /\ \A u \in Task : u # t => y[u] = x[u]
  BY <1>1, <1>2 DEF Moved
<1>11. Elsewhere(b, r, z, i)
  <2>1. ASSUME NEW u \in Task, u # t, ~Contains(s, u) PROVE z[u] = r[u]
    <3>1. p < Len(s) => u # s[p + 1]
      <4>1. p < Len(s) => p + 1 \in 1 .. Len(s)
        BY <1>4, <1>7
      <4> QED BY <2>1, <4>1 DEF Contains
    <3>2. DOMAIN r = Task
      BY <1>1
    <3> QED BY <1>3, <2>1, <3>1, <3>2 DEF Inserted
  <2> QED BY <1>3, <2>1 DEF Elsewhere, NotIn
<1>12. ASSUME NEW k \in Index, k # i
       PROVE  /\ \A j \in 0 .. Len(b[k]) : Row(z, b[k], j) = Row(r, b[k], j)
              /\ \A w : Segment(z, b[k], w) = Segment(r, b[k], w)
  BY ONLY <1>2, <1>11, <1>12, OtherBuckets, Wheel(c, b, r, x, now)
<1>13. Wheel(c, e, z, y, now)
  <2>1. \A k \in Index : IsInjective(e[k])
    <3>1. \A k \in Index : IsInjective(b[k])
      BY DEF Wheel
    <3> QED BY <1>8, <1>9, <3>1
  <2>2. ASSUME NEW k \in Index, NEW u \in Task, Contains(e[k], u) PROVE y[u] = k
    <3>1. \A l \in Index, w \in Task : Contains(b[l], w) => x[w] = l
      BY DEF Wheel
    <3>2. CASE k = i
      <4>1. Contains(s, u) \/ u = t
        BY <1>8, <1>9, <2>2, <3>2
      <4> QED BY <1>2, <1>3, <1>10, <3>1, <3>2, <4>1
    <3>3. CASE k # i
      <4>1. Contains(b[k], u) /\ u # t
        BY <1>9, <2>2, <3>3 DEF NotIn
      <4> QED BY <1>10, <3>1, <4>1
    <3> QED BY <3>2, <3>3
  <2>3. ASSUME NEW k \in Index, NEW j \in 1 .. Len(e[k]) PROVE Dated(c, now, k, Row(z, e[k], j))
    <3>1. \A l \in Index : \A h \in 1 .. Len(b[l]) : Dated(c, now, l, Row(r, b[l], h))
      BY DEF Wheel
    <3>2. CASE k = i
      <4>1. /\ Len(q) = Len(s) + 1 /\ j \in 1 .. Len(s) + 1
            /\ Row(z, q, j) = IF j <= p THEN Row(r, s, j) ELSE IF j = p + 1 THEN v ELSE Row(r, s, j - 1)
        <5>1. Len(q) = Len(s) + 1
          BY <1>61 DEF PutAt
        <5>2. j \in 1 .. Len(s) + 1
          BY <1>9, <2>3, <3>2, <5>1
        <5> QED BY <1>61, <5>1, <5>2 DEF PutAt
      <4>2. CASE j <= p
        <5>1. j \in 1 .. Len(s)
          BY <1>4, <1>7, <4>1, <4>2
        <5>2. Dated(c, now, i, Row(r, s, j))
          BY <1>2, <1>3, <3>1, <5>1
        <5> QED BY <1>9, <3>2, <4>1, <4>2, <5>2
      <4>3. CASE j = p + 1
        <5>1. Row(z, q, j) = v
          BY <1>7, <4>1, <4>3
        <5>2. Dated(c, now, i, v)
          <6>1. Turn(c, now, n) = v /\ Slot(c, n) = i
            BY DEF Turn
          <6> QED BY <1>1, <6>1 DEF Dated
        <5> QED BY <1>9, <3>2, <5>1, <5>2
      <4>4. CASE j > p + 1
        <5>1. j - 1 \in 1 .. Len(s)
          BY <1>4, <1>7, <4>1, <4>4
        <5>2. Dated(c, now, i, Row(r, s, j - 1))
          BY <1>2, <1>3, <3>1, <5>1
        <5>3. Row(z, q, j) = Row(r, s, j - 1)
          BY <1>7, <4>1, <4>4
        <5> QED BY <1>9, <3>2, <5>2, <5>3
      <4>5. j \in Int /\ p \in Int
        BY <1>4, <1>7, <4>1
      <4> QED BY ONLY <4>2, <4>3, <4>4, <4>5
    <3>3. CASE k # i
      <4>1. e[k] = b[k] /\ j \in 0 .. Len(b[k]) /\ j \in 1 .. Len(b[k])
        BY <1>9, <2>3, <3>3
      <4>2. Row(z, b[k], j) = Row(r, b[k], j)
        BY <1>12, <3>3, <4>1
      <4> QED BY <3>1, <4>1, <4>2
    <3> QED BY <3>2, <3>3
  <2> QED BY <1>1, <1>6, <1>9, <1>10, <2>1, <2>2, <2>3 DEF Wheel
<1>14. ASSUME NEW m \in Ticks
       PROVE  Served(c, e, z, now, m) =
                IF m = n THEN Append(Served(c, b, r, now, n), t) ELSE Served(c, b, r, now, m)
  <2>1. CASE m = 0
    BY <1>1, <2>1 DEF Served
  <2>2. CASE m # 0
    <3>1. m \in Nat /\ Turn(c, now, m) = RollNum(m) /\ Slot(c, m) \in Index /\ RollNum(m) \in Nat
      <4>1. m \in Nat /\ Turn(c, now, m) = RollNum(m)
        BY DEF Turn, Ticks
      <4> QED BY <2>2, <4>1, WheelTypes
    <3>2. /\ Served(c, e, z, now, m) = Segment(z, e[Slot(c, m)], RollNum(m))
          /\ Served(c, b, r, now, m) = Segment(r, b[Slot(c, m)], RollNum(m))
      BY <2>2, <3>1 DEF Served
    <3>3. CASE Slot(c, m) # i
      <4>1. Segment(z, e[Slot(c, m)], RollNum(m)) = Segment(r, b[Slot(c, m)], RollNum(m))
        BY <1>9, <1>12, <3>1, <3>3
      <4> QED BY <3>2, <3>3, <4>1
    <3>4. CASE Slot(c, m) = i
      <4>1. /\ Segment(z, q, v) = Append(Segment(r, s, v), t)
            /\ \A w \in Nat : w # v => Segment(z, q, w) = Segment(r, s, w)
        BY ONLY <1>60, <1>61, PutSegments, t \in Task
      <4>2. m # n => RollNum(m) # v
        <5>1. SUFFICES ASSUME RollNum(m) = v PROVE m = n
          OBVIOUS
        <5>2. Turn(c, now, m) = Turn(c, now, n) /\ Slot(c, m) = Slot(c, n)
          BY <3>1, <3>4, <5>1 DEF Turn
        <5> QED BY ONLY <1>1, <2>2, <3>1, <5>2, OneVisit
      <4> QED BY <1>3, <1>9, <3>1, <3>2, <3>4, <4>1, <4>2
    <3> QED BY <3>3, <3>4
  <2> QED BY <2>1, <2>2
<1> QED BY <1>13, <1>14

(* t is the p-th task of bucket i, and the buckets without it. *)
Stands(b, i, p, t) == p \in 1 .. Len(b[i]) /\ t = b[i][p]
Without(b, i, p) == [b EXCEPT ![i] = RemoveAt(b[i], p)]

LEMMA RemoveValues ==
  ASSUME NEW c, NEW b, NEW r, NEW x, NEW now, Wheel(c, b, r, x, now), NEW i \in Index,
         NEW p, NEW t, Stands(b, i, p, t), NEW e, e = Without(b, i, p), NEW z, z = Removed(r, b[i], p)
  PROVE  /\ Wheel(c, e, z, x, now)
         /\ \E m \in Ticks : Contains(Served(c, b, r, now, m), t)
         /\ \A m \in Ticks :
              Served(c, e, z, now, m) = RemoveFirst(Served(c, b, r, now, m), t)
<1>1. /\ c \in Index /\ b \in [Index -> Seq(Task)] /\ r \in [Task -> Nat] /\ x \in [Task -> Index]
      /\ now \in BOOLEAN
  BY DEF Wheel
<1>2. PICK s : s = b[i]
  OBVIOUS
<1>3. s \in Seq(Task) /\ IsInjective(s) /\ p \in 1 .. Len(s) /\ t = s[p] /\ t \in Task
  BY <1>2 DEF Wheel, Stands
<1>4. PICK q : q = RemoveAt(s, p)
  OBVIOUS
<1>50. Rolled(Task, r, s)
  BY <1>1, <1>3 DEF Rolled
<1>51. Rolled(Task, z, q) /\ DropAt(r, s, z, q, p)
  <2>1. /\ Rolled(Task, Removed(r, s, p), RemoveAt(s, p))
        /\ DropAt(r, s, Removed(r, s, p), RemoveAt(s, p), p)
    BY ONLY <1>3, <1>50, RemoveRow
  <2> QED BY <1>2, <1>4, <2>1
<1>5. z \in [Task -> Nat] /\ q \in Seq(Task)
  BY <1>51 DEF Rolled
<1>6. /\ Len(q) = Len(s) - 1
      /\ \A j \in 1 .. Len(s) - 1 : q[j] = IF j < p THEN s[j] ELSE s[j + 1]
      /\ \A j \in 1 .. Len(s) - 1 : Row(z, q, j) = IF j < p THEN Row(r, s, j) ELSE Row(r, s, j + 1)
  BY <1>51 DEF DropAt
<1>7. e \in [Index -> Seq(Task)] /\ e[i] = q /\ \A k \in Index : k # i => e[k] = b[k]
  BY <1>1, <1>2, <1>4, <1>5 DEF Without
<1>8. q = RemoveFirst(s, t)
  BY ONLY <1>3, <1>5, <1>6, RemoveFirstIs
<1>9. IsInjective(q) /\ \A u : Contains(q, u) <=> Contains(s, u) /\ u # t
  BY <1>3, <1>8, RemoveFirstList
<1>10. Elsewhere(b, r, z, i)
  <2>1. ASSUME NEW u \in Task, ~Contains(s, u) PROVE z[u] = r[u]
    <3>1. p < Len(s) => p + 1 \in 1 .. Len(s) /\ u # s[p + 1]
      <4>1. p < Len(s) => p + 1 \in 1 .. Len(s)
        BY <1>3
      <4> QED BY <2>1, <4>1 DEF Contains
    <3>2. z = IF p < Len(s) THEN [r EXCEPT ![s[p + 1]] = @ + r[s[p]]] ELSE r
      BY <1>2 DEF Removed
    <3> QED BY <1>1, <3>1, <3>2
  <2> QED BY <1>2, <2>1 DEF Elsewhere
<1>11. ASSUME NEW k \in Index, k # i
       PROVE  /\ \A j \in 0 .. Len(b[k]) : Row(z, b[k], j) = Row(r, b[k], j)
              /\ \A w : Segment(z, b[k], w) = Segment(r, b[k], w)
  BY ONLY <1>10, <1>11, OtherBuckets, Wheel(c, b, r, x, now), i \in Index
<1>12. \A l \in Index : \A h \in 1 .. Len(b[l]) : Dated(c, now, l, Row(r, b[l], h))
  BY DEF Wheel
<1>13. Wheel(c, e, z, x, now)
  <2>1. \A k \in Index : IsInjective(e[k])
    <3>1. \A k \in Index : IsInjective(b[k])
      BY DEF Wheel
    <3> QED BY <1>7, <1>9, <3>1
  <2>2. ASSUME NEW k \in Index, NEW u \in Task, Contains(e[k], u) PROVE x[u] = k
    <3>1. \A l \in Index, w \in Task : Contains(b[l], w) => x[w] = l
      BY DEF Wheel
    <3>2. Contains(b[k], u)
      BY <1>2, <1>7, <1>9, <2>2
    <3> QED BY <3>1, <3>2
  <2>3. ASSUME NEW k \in Index, NEW j \in 1 .. Len(e[k]) PROVE Dated(c, now, k, Row(z, e[k], j))
    <3>2. CASE k = i
      <4>1. j \in 1 .. Len(s) - 1
        BY <1>6, <1>7, <2>3, <3>2
      <4>2. j \in 1 .. Len(s) /\ j + 1 \in 1 .. Len(s)
        BY <1>3, <4>1
      <4>3. Dated(c, now, i, Row(r, s, j)) /\ Dated(c, now, i, Row(r, s, j + 1))
        BY <1>2, <1>12, <4>2
      <4> QED BY <1>6, <1>7, <3>2, <4>1, <4>3
    <3>3. CASE k # i
      <4>1. e[k] = b[k] /\ j \in 0 .. Len(b[k]) /\ j \in 1 .. Len(b[k])
        BY <1>7, <2>3, <3>3
      <4>2. Row(z, b[k], j) = Row(r, b[k], j)
        BY <1>11, <3>3, <4>1
      <4> QED BY <1>12, <4>1, <4>2
    <3> QED BY <3>2, <3>3
  <2> QED BY <1>1, <1>5, <1>7, <2>1, <2>2, <2>3 DEF Wheel
<1>14. PICK w : w = Row(r, s, p)
  OBVIOUS
<1>15. PICK d \in Ticks : (d = 0 => now) /\ Slot(c, d) = i /\ Turn(c, now, d) = w
  BY <1>2, <1>3, <1>12, <1>14 DEF Dated
<1>16. d \in Nat /\ w \in Nat
  <2>1. d \in Nat
    BY DEF Ticks
  <2> QED BY <1>15, <2>1, WheelTypes
<1>17. Contains(Segment(r, s, w), t)
  <2>1. \A u : Contains(Segment(r, s, w), u) <=> \E j \in 1 .. Len(s) : s[j] = u /\ Row(r, s, j) = w
    BY ONLY <1>16, <1>50, SegmentHas
  <2> QED BY <1>3, <1>14, <2>1
<1>18. Served(c, b, r, now, d) = Segment(r, s, w)
  BY <1>2, <1>15 DEF Served
<1>19. ASSUME NEW m \in Ticks
       PROVE  Served(c, e, z, now, m) = RemoveFirst(Served(c, b, r, now, m), t)
  <2>1. CASE m = 0 /\ ~now
    <3>1. RemoveFirst(<<>>, t) = <<>>
      BY DEF RemoveFirst
    <3> QED BY <2>1, <3>1 DEF Served
  <2>2. CASE ~(m = 0 /\ ~now)
    <3>1. m \in Nat /\ Slot(c, m) \in Index /\ Turn(c, now, m) \in Nat
      <4>1. m \in Nat /\ (m = 0 => now)
        BY <1>1, <2>2 DEF Ticks
      <4> QED BY ONLY <4>1, WheelTypes, Wheel(c, b, r, x, now)
    <3>2. PICK k, y : k = Slot(c, m) /\ y = Turn(c, now, m)
      OBVIOUS
    <3>3. /\ Served(c, e, z, now, m) = Segment(z, e[k], y)
          /\ Served(c, b, r, now, m) = Segment(r, b[k], y)
      BY <2>2, <3>2 DEF Served
    <3>4. k \in Index /\ y \in Nat /\ b[k] \in Seq(Task)
      BY <1>1, <3>1, <3>2
    <3>5. PICK l : l = b[k]
      OBVIOUS
    <3>6. Rolled(Task, r, l)
      BY <1>1, <3>4, <3>5 DEF Rolled
    <3>7. Segment(r, l, y) \in Seq(Task) /\ \A u : Contains(Segment(r, l, y), u) <=>
            \E j \in 1 .. Len(l) : l[j] = u /\ Row(r, l, j) = y
      <4>1. y \in Nat
        BY <3>4
      <4> QED BY ONLY <3>6, <4>1, SegmentHas
    <3>8. CASE k # i
      <4>1. Segment(z, e[k], y) = Segment(r, l, y)
        BY <1>7, <1>11, <3>4, <3>5, <3>8
      <4>2. ~Contains(Segment(r, l, y), t)
        <5>1. SUFFICES ASSUME NEW j \in 1 .. Len(l), l[j] = t PROVE FALSE
          BY <3>7
        <5>2. Contains(b[k], t) /\ Contains(b[i], t)
          BY <1>2, <1>3, <3>5, <5>1 DEF Contains
        <5>3. x[t] = k /\ x[t] = i
          BY <1>3, <3>4, <5>2 DEF Wheel
        <5> QED BY <3>8, <5>3
      <4>3. RemoveFirst(Segment(r, l, y), t) = Segment(r, l, y)
        BY ONLY <3>7, <4>2, RemoveFirstAbsent
      <4> QED BY <3>3, <3>5, <4>1, <4>3
    <3>9. CASE k = i /\ y # w
      <4>1. l = s
        BY <1>2, <3>5, <3>9
      <4>2. Segment(z, q, y) = Segment(r, s, y)
        <5>1. \A g \in Nat : g # Row(r, s, p) => Segment(z, q, g) = Segment(r, s, g)
          BY ONLY <1>3, <1>50, <1>51, DropSegments
        <5> QED BY <1>14, <3>4, <3>9, <5>1
      <4>3. ~Contains(Segment(r, l, y), t)
        <5>1. SUFFICES ASSUME NEW j \in 1 .. Len(s), s[j] = t, Row(r, s, j) = y PROVE FALSE
          BY <3>7, <4>1
        <5>2. j = p
          BY <1>3, <5>1 DEF IsInjective
        <5> QED BY <1>14, <3>9, <5>1, <5>2
      <4>4. RemoveFirst(Segment(r, l, y), t) = Segment(r, l, y)
        BY ONLY <3>7, <4>3, RemoveFirstAbsent
      <4> QED BY <1>7, <3>3, <3>5, <3>9, <4>1, <4>2, <4>4
    <3>10. CASE k = i /\ y = w
      <4>1. PICK f, g : f = Segment(r, s, w) /\ g = Segment(z, q, w)
        OBVIOUS
      <4>2. PICK h \in 1 .. Len(f) :
              /\ f[h] = s[p] /\ Len(g) = Len(f) - 1
              /\ \A j \in 1 .. Len(f) - 1 : g[j] = IF j < h THEN f[j] ELSE f[j + 1]
        <5>1. LET f1 == Segment(r, s, Row(r, s, p))
                  g1 == Segment(z, q, Row(r, s, p))
              IN \E h \in 1 .. Len(f1) :
                   /\ f1[h] = s[p] /\ Len(g1) = Len(f1) - 1
                   /\ \A j \in 1 .. Len(f1) - 1 : g1[j] = IF j < h THEN f1[j] ELSE f1[j + 1]
          BY ONLY <1>3, <1>50, <1>51, DropSegments
        <5> QED BY <1>14, <4>1, <5>1
      <4>3. f \in Seq(Task) /\ g \in Seq(Task) /\ IsInjective(f)
        <5>1. f \in Seq(Task)
          BY ONLY <1>16, <1>50, <4>1, SegmentHas
        <5>2. g \in Seq(Task)
          BY ONLY <1>16, <1>51, <4>1, SegmentHas
        <5>3. IsInjective(Segment(r, s, w))
          BY ONLY <1>3, <1>16, <1>50, SegmentInjective
        <5> QED BY <4>1, <5>1, <5>2, <5>3
      <4>4. g = RemoveFirst(f, f[h])
        BY ONLY <4>2, <4>3, RemoveFirstIs
      <4> QED BY <1>2, <1>3, <1>7, <3>3, <3>10, <4>1, <4>2, <4>4
    <3> QED BY <3>8, <3>9, <3>10
  <2> QED BY <2>1, <2>2
<1> QED BY <1>13, <1>15, <1>17, <1>18, <1>19

(* The first task of the bucket under the cursor has no rolls left. *)
Ready(b, r, c) == b[c] # <<>> /\ r[Head(b[c])] = 0
Behind(b, c) == [b EXCEPT ![c] = Tail(b[c])]

LEMMA ServeValues ==
  ASSUME NEW c, NEW b, NEW r, NEW x, NEW now, IsOn(now), Wheel(c, b, r, x, now), Ready(b, r, c),
         NEW e, e = Behind(b, c)
  PROVE  /\ Wheel(c, e, r, x, now)
         /\ Served(c, b, r, now, 0) # <<>>
         /\ \A m \in Ticks :
              Served(c, e, r, now, m) =
                IF m = 0 THEN Tail(Served(c, b, r, now, 0)) ELSE Served(c, b, r, now, m)
<1> now = TRUE
  BY DEF IsOn
<1>0. now \in BOOLEAN
  OBVIOUS
<1>1. /\ c \in Index /\ b \in [Index -> Seq(Task)] /\ r \in [Task -> Nat]
      /\ \A l \in Index : IsInjective(b[l])
  BY DEF Wheel
<1>2. PICK s : s = b[c]
  OBVIOUS
<1>3. s \in Seq(Task) /\ IsInjective(s) /\ s # <<>> /\ r[Head(s)] = 0
  BY <1>1, <1>2 DEF Ready
<1>4. 1 \in 1 .. Len(s) /\ Head(s) = s[1] /\ s[1] \in Task
  BY <1>3
<1>40. Rolled(Task, r, s)
  BY <1>1, <1>3 DEF Rolled
<1>5. PICK t : t = s[1]
  OBVIOUS
<1>6. RemoveAt(s, 1) = Tail(s)
  <2>1. /\ RemoveAt(s, 1) \in Seq(Task) /\ Len(RemoveAt(s, 1)) = Len(s) - 1
        /\ \A j \in 1 .. Len(s) - 1 : RemoveAt(s, 1)[j] = IF j < 1 THEN s[j] ELSE s[j + 1]
    BY ONLY <1>3, <1>4, RemoveAtList
  <2>2. PICK q : q = RemoveAt(s, 1)
    OBVIOUS
  <2>3. PICK l : l = Tail(s)
    OBVIOUS
  <2>4. l \in Seq(Task) /\ Len(l) = Len(s) - 1 /\ \A j \in 1 .. Len(s) - 1 : l[j] = s[j + 1]
    BY <1>3, <2>3
  <2>20. PICK m : m = Len(s) - 1
    OBVIOUS
  <2>21. q \in Seq(Task) /\ Len(q) = m /\ \A j \in 1 .. m : q[j] = IF j < 1 THEN s[j] ELSE s[j + 1]
    BY ONLY <2>1, <2>2, <2>20
  <2>22. l \in Seq(Task) /\ Len(l) = m /\ \A j \in 1 .. m : l[j] = s[j + 1]
    BY ONLY <2>4, <2>20
  <2>23. \A j \in 1 .. m : q[j] = s[j + 1]
    BY ONLY <2>21, <1>3, <2>20
  <2>5. q \in Seq(Task) /\ Len(q) = Len(l) /\ \A j \in 1 .. Len(l) : q[j] = l[j]
    BY ONLY <2>21, <2>22, <2>23
  <2>6. q = l
    BY ONLY <2>4, <2>5
  <2> QED BY <2>2, <2>3, <2>6
<1>7. r = Removed(r, s, 1)
  <2>1. CASE 1 < Len(s)
    <3>1. 1 + 1 \in 1 .. Len(s)
      BY <2>1
    <3>2. s[1 + 1] \in Task /\ r[s[1 + 1]] \in Nat /\ r[s[1]] = 0
      BY <1>1, <1>3, <1>4, <3>1
    <3>3. r[s[1 + 1]] + r[s[1]] = r[s[1 + 1]]
      BY <3>2
    <3> QED BY <1>1, <2>1, <3>2, <3>3 DEF Removed
  <2>2. CASE ~(1 < Len(s))
    BY <2>2 DEF Removed
  <2> QED BY <2>1, <2>2
<1>8. /\ Wheel(c, e, r, x, now)
      /\ \A m \in Ticks :
           Served(c, e, r, now, m) = RemoveFirst(Served(c, b, r, now, m), t)
  <2>1. PICK p, z : p = 1 /\ z = r
    OBVIOUS
  <2>2. Stands(b, c, p, t)
    BY <1>2, <1>4, <1>5, <2>1 DEF Stands
  <2>4. z = Removed(r, b[c], p)
    BY <1>2, <1>7, <2>1
  <2>5. e = Without(b, c, p)
    BY <1>2, <1>6, <2>1 DEF Without, Behind
  <2>6. c \in Index
    BY <1>1
  <2>7. /\ Wheel(c, e, z, x, now)
        /\ \A m \in Ticks :
             Served(c, e, z, now, m) = RemoveFirst(Served(c, b, r, now, m), t)
    BY ONLY <2>2, <2>4, <2>5, <2>6, RemoveValues, Wheel(c, b, r, x, now)
  <2> QED BY <2>1, <2>7
<1>9. 0 \in Nat /\ Slot(c, 0) = c /\ Turn(c, now, 0) = 0
  <2>1. LinkLen \in Nat \ {0} /\ c \in 0 .. LinkLen - 1
    BY <1>1, SortLinkAssumption DEF Index
  <2>2. 0 \div LinkLen = 0 /\ 0 % LinkLen = 0
    BY <2>1, Division
  <2>3. Slot(c, 0) = c
    BY <1>1, <2>1, <2>2, SlotIs
  <2> QED BY <2>2, <2>3 DEF Turn
<1>10. PICK f : f = Segment(r, s, 0)
  OBVIOUS
<1>11. Served(c, b, r, now, 0) = f
  BY <1>2, <1>9, <1>10 DEF Served
<1>12. /\ f \in Seq(Task) /\ IsInjective(f) /\ f # <<>> /\ f[1] = t /\ Row(r, s, 1) = 0
       /\ \A u : Contains(f, u) <=> \E j \in 1 .. Len(s) : s[j] = u /\ Row(r, s, j) = 0
  <2>1. Segment(r, s, 0) # <<>> /\ Segment(r, s, 0)[1] = Head(s) /\ Row(r, s, 1) = 0
    BY ONLY <1>3, <1>40, SegmentFirst
  <2>2. IsInjective(Segment(r, s, 0))
    BY ONLY <1>3, <1>9, <1>40, SegmentInjective
  <2>3. /\ Segment(r, s, 0) \in Seq(Task)
        /\ \A u : Contains(Segment(r, s, 0), u) <=> \E j \in 1 .. Len(s) : s[j] = u /\ Row(r, s, j) = 0
    BY ONLY <1>9, <1>40, SegmentHas
  <2> QED BY <1>4, <1>5, <1>10, <2>1, <2>2, <2>3
<1>13. RemoveFirst(f, t) = Tail(f)
  <2>1. PICK l : l = Tail(f)
    OBVIOUS
  <2>2. /\ 1 \in 1 .. Len(f) /\ l \in Seq(Task) /\ Len(l) = Len(f) - 1
        /\ \A j \in 1 .. Len(f) - 1 : l[j] = f[j + 1]
    BY <1>12, <2>1
  <2>3. \A j \in 1 .. Len(f) - 1 : l[j] = IF j < 1 THEN f[j] ELSE f[j + 1]
    BY <2>2
  <2>4. l = RemoveFirst(f, f[1])
    BY ONLY <1>12, <2>2, <2>3, RemoveFirstIs
  <2> QED BY <1>12, <2>1, <2>4
<1>14. ASSUME NEW m \in Ticks, m # 0
       PROVE  RemoveFirst(Served(c, b, r, now, m), t) = Served(c, b, r, now, m)
  <2>1. m \in Nat /\ Slot(c, m) \in Index /\ Turn(c, now, m) \in Nat
    <3>1. m \in Nat
      BY DEF Ticks
    <3> QED BY <1>14, <3>1, WheelTypes
  <2>2. PICK k, y : k = Slot(c, m) /\ y = Turn(c, now, m)
    OBVIOUS
  <2>3. PICK l : l = b[k]
    OBVIOUS
  <2>4. k \in Index /\ y \in Nat /\ l \in Seq(Task)
    BY <1>1, <2>1, <2>2, <2>3
  <2>40. y \in Nat /\ Rolled(Task, r, l)
    BY <1>1, <2>4 DEF Rolled
  <2>5. Served(c, b, r, now, m) = Segment(r, l, y)
    BY <1>14, <2>2, <2>3 DEF Served
  <2>6. Segment(r, l, y) \in Seq(Task) /\ \A u : Contains(Segment(r, l, y), u) <=>
          \E j \in 1 .. Len(l) : l[j] = u /\ Row(r, l, j) = y
    BY ONLY <2>40, SegmentHas
  <2>7. ~Contains(Segment(r, l, y), t)
    <3>1. SUFFICES ASSUME NEW j \in 1 .. Len(l), l[j] = t, Row(r, l, j) = y PROVE FALSE
      BY <2>6
    <3>2. Contains(b[k], t) /\ Contains(b[c], t)
      BY <1>2, <1>4, <1>5, <2>3, <3>1 DEF Contains
    <3>3. x[t] = k /\ x[t] = c
      BY <1>1, <1>4, <1>5, <2>4, <3>2 DEF Wheel
    <3>4. l = s /\ k = c
      BY <1>2, <2>3, <3>3
    <3>5. j = 1
      BY <1>3, <1>4, <1>5, <3>1, <3>4 DEF IsInjective
    <3>6. y = 0
      BY <1>12, <3>1, <3>4, <3>5
    <3>7. Slot(c, m) = Slot(c, 0) /\ Turn(c, now, m) = Turn(c, now, 0)
      BY <1>9, <2>2, <3>4, <3>6
    <3>8. m = 0
      <4>1. m = 0 \/ 0 = 0 => now
        OBVIOUS
      <4> QED BY ONLY <1>0, <1>1, <1>9, <2>1, <3>7, <4>1, OneVisit
    <3> QED BY <1>14, <3>8
  <2> QED BY ONLY <2>5, <2>6, <2>7, RemoveFirstAbsent
<1>15. ASSUME NEW m \in Ticks
       PROVE  Served(c, e, r, now, m) =
                IF m = 0 THEN Tail(Served(c, b, r, now, 0)) ELSE Served(c, b, r, now, m)
  <2>1. CASE m = 0
    BY <1>8, <1>11, <1>13, <2>1
  <2>2. CASE m # 0
    BY <1>8, <1>14, <2>2
  <2> QED BY <2>1, <2>2
<1> QED BY <1>8, <1>11, <1>12, <1>15

(* The wheel turns: every task is due one tick sooner. *)
Turned(b, c, d, now) == d = (c + 1) % LinkLen /\ now = (b[d] # <<>>)

LEMMA TurnValues ==
  ASSUME NEW c, NEW b, NEW r, NEW x, NEW off, IsOff(off), Wheel(c, b, r, x, off),
         NEW d, NEW now, Turned(b, c, d, now)
  PROVE  /\ Wheel(d, b, r, x, now)
         /\ \A m \in Ticks :
              Served(d, b, r, now, m) =
                IF m < MaxTimeout THEN Served(c, b, r, off, m + 1) ELSE <<>>
<1> off = FALSE
  BY DEF IsOff
<1>0. d = (c + 1) % LinkLen /\ now = (b[d] # <<>>)
  BY DEF Turned
<1>1. /\ c \in Index /\ b \in [Index -> Seq(Task)] /\ r \in [Task -> Nat] /\ now \in BOOLEAN
      /\ MaxTimeout \in Nat
  BY <1>0, SortLinkAssumption DEF Wheel
<1>2. d \in Index
  BY <1>0, <1>1, NextCursor
<1>3. ASSUME NEW m \in Nat \ {0}
      PROVE  /\ m - 1 \in Nat /\ m \in Nat /\ Slot(d, m - 1) = Slot(c, m) /\ Turn(c, off, m) = RollNum(m)
             /\ Slot(c, m) \in Index /\ RollNum(m) \in Nat
             /\ b[Slot(c, m)] # <<>> => (m - 1 = 0 => now) /\ Turn(d, now, m - 1) = RollNum(m)
  <2>1. /\ Slot(d, m - 1) = Slot(c, m)
        /\ Slot(c, m) = d => RollNum(m) = (m - 1) \div LinkLen
        /\ Slot(c, m) # d => m - 1 # 0 /\ RollNum(m - 1) = RollNum(m)
    BY ONLY <1>0, <1>1, Turns, m \in Nat \ {0}
  <2>2. Turn(c, off, m) = RollNum(m)
    BY DEF Turn
  <2>3. Slot(c, m) \in Index /\ RollNum(m) \in Nat
    BY WheelTypes
  <2>4. ASSUME b[Slot(c, m)] # <<>> PROVE (m - 1 = 0 => now) /\ Turn(d, now, m - 1) = RollNum(m)
    <3>1. CASE Slot(c, m) = d
      <4>1. now = TRUE
        BY <1>0, <2>4, <3>1
      <4> QED BY <2>1, <3>1, <4>1 DEF Turn
    <3>2. CASE Slot(c, m) # d
      BY <2>1, <3>2 DEF Turn
    <3> QED BY <3>1, <3>2
  <2> QED BY <2>1, <2>2, <2>3, <2>4
<1>4. Wheel(d, b, r, x, now)
  <2>1. ASSUME NEW i \in Index, NEW j \in 1 .. Len(b[i]) PROVE Dated(d, now, i, Row(r, b[i], j))
    <3>1. Dated(c, off, i, Row(r, b[i], j))
      BY DEF Wheel
    <3>2. PICK m \in Ticks : /\ m # 0
                              /\ Slot(c, m) = i /\ Turn(c, off, m) = Row(r, b[i], j)
      BY <3>1 DEF Dated
    <3>3. m \in Nat \ {0} /\ m - 1 \in Ticks
      BY <1>1, <3>2 DEF Ticks
    <3>4. b[i] # <<>>
      BY <1>1
    <3>5. (m - 1 = 0 => now) /\ Slot(d, m - 1) = i /\ Turn(d, now, m - 1) = Row(r, b[i], j)
      BY <1>3, <3>2, <3>3, <3>4
    <3> QED BY <3>3, <3>5 DEF Dated
  <2> QED BY <1>1, <1>2, <2>1 DEF Wheel
<1>5. ASSUME NEW m \in Ticks
      PROVE  Served(d, b, r, now, m) = IF m < MaxTimeout THEN Served(c, b, r, off, m + 1) ELSE <<>>
  <2>1. PICK n : n = m + 1
    OBVIOUS
  <2>2. n \in Nat \ {0} /\ n - 1 = m /\ n \in Nat /\ n # 0
    BY <1>1, <2>1 DEF Ticks
  <2>3. PICK i, v : i = Slot(c, n) /\ v = RollNum(n)
    OBVIOUS
  <2>4. /\ i \in Index /\ v \in Nat /\ Slot(d, m) = i /\ Turn(c, off, n) = v
        /\ b[i] # <<>> => (m = 0 => now) /\ Turn(d, now, m) = v
    BY <1>3, <2>2, <2>3
  <2>5. Served(c, b, r, off, n) = Segment(r, b[i], v)
    BY <2>2, <2>3, <2>4 DEF Served
  <2>6. CASE b[i] = <<>>
    <3>1. \A w : Segment(r, b[i], w) = <<>>
      <4>1. Len(b[i]) = 0
        BY <2>6
      <4>2. \A w : {j \in 1 .. Len(b[i]) : Row(r, b[i], j) = w} = {}
        BY <4>1
      <4> QED BY <4>2 DEF Segment
    <3>2. Served(d, b, r, now, m) = <<>>
      BY <2>4, <3>1 DEF Served
    <3> QED BY <2>1, <2>5, <3>1, <3>2
  <2>7. CASE b[i] # <<>>
    <3>1. Served(d, b, r, now, m) = Segment(r, b[i], v)
      BY <2>4, <2>7 DEF Served
    <3>2. ASSUME ~(m < MaxTimeout) PROVE Segment(r, b[i], v) = <<>>
      <4>1. ASSUME NEW j \in 1 .. Len(b[i]), Row(r, b[i], j) = v PROVE FALSE
        <5>1. Dated(c, off, i, v)
          BY <2>4, <4>1 DEF Wheel
        <5>2. PICK l \in Ticks : l # 0 /\ Slot(c, l) = i /\ Turn(c, off, l) = v
          BY <5>1 DEF Dated
        <5>3. l \in Nat /\ l # 0 /\ off \in BOOLEAN
          <6>1. l \in Nat
            BY DEF Ticks
          <6>2. off \in BOOLEAN
            OBVIOUS
          <6> QED BY <5>2, <6>1, <6>2
        <5>5. Slot(c, l) = Slot(c, n) /\ Turn(c, off, l) = Turn(c, off, n)
          BY <2>3, <2>4, <5>2
        <5>4. l = n
          BY ONLY <1>1, <2>2, <5>3, <5>5, OneVisit
        <5> QED BY <1>1, <2>1, <3>2, <5>2, <5>4 DEF Ticks
      <4>2. {j \in 1 .. Len(b[i]) : Row(r, b[i], j) = v} = {}
        BY <4>1
      <4> QED BY <4>2 DEF Segment
    <3> QED BY <2>1, <2>5, <3>1, <3>2
  <2> QED BY <2>6, <2>7
<1> QED BY <1>4, <1>5

(* The visit ends and charges who stays: nothing that will be served changes. *)
Ended(b, r, c, z) ==
  \/ b[c] = <<>> /\ z = r
  \/ b[c] # <<>> /\ r[Head(b[c])] > 0 /\ z = Charged(r, b[c])

LEMMA EndValues ==
  ASSUME NEW c, NEW b, NEW r, NEW x, NEW on, IsOn(on), NEW off, IsOff(off),
         Wheel(c, b, r, x, on), NEW z, Ended(b, r, c, z)
  PROVE  /\ Wheel(c, b, z, x, off)
         /\ \A m \in Ticks : Served(c, b, z, off, m) = Served(c, b, r, on, m)
<1> on = TRUE /\ off = FALSE
  BY DEF IsOn, IsOff
<1>1. /\ c \in Index /\ b \in [Index -> Seq(Task)] /\ r \in [Task -> Nat]
      /\ \A l \in Index : IsInjective(b[l])
  BY DEF Wheel
<1>2. PICK s : s = b[c]
  OBVIOUS
<1>3. s \in Seq(Task) /\ IsInjective(s) /\ Rolled(Task, r, s)
  BY <1>1, <1>2 DEF Rolled
<1>4. /\ z \in [Task -> Nat]
      /\ \A j \in 1 .. Len(s) : Row(r, s, j) > 0 /\ Row(z, s, j) = Row(r, s, j) - 1
      /\ Segment(r, s, 0) = <<>>
      /\ \A v \in Nat : Segment(z, s, v) = Segment(r, s, v + 1)
      /\ Elsewhere(b, r, z, c)
  <2>1. CASE s = <<>> /\ z = r
    <3>1. Len(s) = 0
      BY <2>1
    <3>2. \A q, w : {j \in 1 .. Len(s) : Row(q, s, j) = w} = {}
      BY <3>1
    <3>3. \A q, w : Segment(q, s, w) = <<>>
      BY <3>2 DEF Segment
    <3>4. Elsewhere(b, r, z, c)
      BY <2>1 DEF Elsewhere
    <3> QED BY <1>1, <2>1, <3>1, <3>3, <3>4
  <2>2. CASE s # <<>> /\ r[Head(s)] > 0 /\ z = [r EXCEPT ![Head(s)] = @ - 1]
    <3>1. /\ Rolled(Task, z, s)
          /\ \A j \in 1 .. Len(s) : Row(r, s, j) > 0 /\ Row(z, s, j) = Row(r, s, j) - 1
          /\ Segment(r, s, 0) = <<>>
          /\ \A v \in Nat : Segment(z, s, v) = Segment(r, s, v + 1)
      <4>1. z = Charged(r, s)
        BY <2>2 DEF Charged
      <4>2. s # <<>> /\ r[Head(s)] > 0
        BY <2>2
      <4> QED BY ONLY <1>3, <4>1, <4>2, ChargeRow
    <3>2. Elsewhere(b, r, z, c)
      <4>1. Contains(b[c], Head(s))
        BY <1>2, <1>3, <2>2 DEF Contains
      <4>2. \A u \in Task : u # Head(s) => z[u] = r[u]
        BY <1>1, <2>2
      <4> QED BY <4>1, <4>2 DEF Elsewhere
    <3> QED BY <3>1, <3>2 DEF Rolled
  <2> QED BY <1>2, <2>1, <2>2 DEF Ended, Charged
<1>5. ASSUME NEW k \in Index, k # c
      PROVE  /\ \A j \in 0 .. Len(b[k]) : Row(z, b[k], j) = Row(r, b[k], j)
             /\ \A w : Segment(z, b[k], w) = Segment(r, b[k], w)
  <2>1. c \in Index /\ Elsewhere(b, r, z, c)
    BY <1>1, <1>4
  <2> QED BY ONLY <1>5, <2>1, OtherBuckets, Wheel(c, b, r, x, on)
<1>6. ASSUME NEW m \in Nat
      PROVE  /\ Slot(c, m) # c => Turn(c, off, m) = Turn(c, on, m) /\ m # 0
             /\ Slot(c, m) = c => /\ Turn(c, off, m) = Turn(c, on, m) - 1
                                  /\ Turn(c, on, m) \in Nat
                                  /\ m = 0 <=> Turn(c, on, m) = 0
  <2>1. CASE Slot(c, m) # c
    <3>1. m # 0
      <4>1. SUFFICES ASSUME m = 0 PROVE FALSE
        OBVIOUS
      <4>2. LinkLen \in Nat \ {0} /\ c \in 0 .. LinkLen - 1
        BY <1>1, SortLinkAssumption DEF Index
      <4>3. m % LinkLen = 0
        BY <4>1, <4>2, Division
      <4> QED BY <1>1, <2>1, <4>2, <4>3, SlotIs
    <3> QED BY <2>1, <3>1 DEF Turn
  <2>2. CASE Slot(c, m) = c
    <3>1. RollNum(m) = (m \div LinkLen) - 1 /\ m \div LinkLen \in Nat /\ (m = 0 <=> m \div LinkLen = 0)
      BY ONLY <1>1, <2>2, VisitEnds, m \in Nat
    <3> QED BY <2>2, <3>1 DEF Turn
  <2> QED BY <2>1, <2>2
<1>7. Wheel(c, b, z, x, off)
  <2>1. ASSUME NEW i \in Index, NEW j \in 1 .. Len(b[i]) PROVE Dated(c, off, i, Row(z, b[i], j))
    <3>1. Dated(c, on, i, Row(r, b[i], j))
      BY DEF Wheel
    <3>2. PICK m \in Ticks : Slot(c, m) = i /\ Turn(c, on, m) = Row(r, b[i], j)
      BY <3>1 DEF Dated
    <3>3. m \in Nat
      BY DEF Ticks
    <3>4. CASE i = c
      <4>1. Row(r, s, j) > 0 /\ Row(z, s, j) = Row(r, s, j) - 1
        BY <1>2, <1>4, <3>4
      <4>2. m # 0 /\ Turn(c, off, m) = Row(z, s, j)
        <5>1. PICK y, g : y = Turn(c, on, m) /\ g = Turn(c, off, m)
          OBVIOUS
        <5>2. y \in Nat /\ g = y - 1 /\ (m = 0 <=> y = 0)
          BY <1>6, <3>2, <3>3, <3>4, <5>1
        <5>3. y = Row(r, s, j)
          BY <1>2, <3>2, <3>4, <5>1
        <5> QED BY ONLY <4>1, <5>1, <5>2, <5>3
      <4> QED BY <1>2, <3>2, <3>4, <4>2 DEF Dated
    <3>5. CASE i # c
      <4>1. j \in 0 .. Len(b[i])
        OBVIOUS
      <4>2. Row(z, b[i], j) = Row(r, b[i], j)
        BY <1>5, <3>5, <4>1
      <4>3. m # 0 /\ Turn(c, off, m) = Turn(c, on, m)
        BY <1>6, <3>2, <3>3, <3>5
      <4> QED BY <3>2, <4>2, <4>3 DEF Dated
    <3> QED BY <3>4, <3>5
  <2>2. /\ x \in [Task -> Index] /\ \A i \in Index, t \in Task : Contains(b[i], t) => x[t] = i
        /\ off \in BOOLEAN
    BY DEF Wheel
  <2> QED BY ONLY <1>1, <1>4, <2>1, <2>2 DEF Wheel
<1>8. ASSUME NEW m \in Ticks PROVE Served(c, b, z, off, m) = Served(c, b, r, on, m)
  <2>1. m \in Nat /\ Slot(c, m) \in Index
    <3>1. m \in Nat
      BY DEF Ticks
    <3> QED BY <3>1, WheelTypes
  <2>2. CASE Slot(c, m) # c
    <3>1. Turn(c, off, m) = Turn(c, on, m) /\ m # 0
      BY <1>6, <2>1, <2>2
    <3>2. Segment(z, b[Slot(c, m)], Turn(c, on, m)) = Segment(r, b[Slot(c, m)], Turn(c, on, m))
      BY <1>5, <2>1, <2>2
    <3> QED BY <3>1, <3>2 DEF Served
  <2>3. CASE Slot(c, m) = c
    <3>1. PICK v : v = Turn(c, on, m)
      OBVIOUS
    <3>2. v \in Nat /\ Turn(c, off, m) = v - 1 /\ (m = 0 <=> v = 0)
      BY <1>6, <2>1, <2>3, <3>1
    <3>3. Served(c, b, r, on, m) = Segment(r, s, v)
      BY <1>2, <2>3, <3>1 DEF Served
    <3>4. CASE m = 0
      BY <1>4, <3>2, <3>3, <3>4 DEF Served
    <3>5. CASE m # 0
      <4>1. v - 1 \in Nat /\ (v - 1) + 1 = v
        BY <3>2, <3>5
      <4>2. Segment(z, s, v - 1) = Segment(r, s, v)
        <5>1. Segment(z, s, v - 1) = Segment(r, s, (v - 1) + 1)
          BY ONLY <1>4, <4>1
        <5> QED BY ONLY <4>1, <5>1
      <4> QED BY <1>2, <2>3, <3>2, <3>3, <3>5, <4>2 DEF Served
    <3> QED BY <3>4, <3>5
  <2> QED BY <2>2, <2>3
<1> QED BY <1>7, <1>8

(***************************************************************************)
(* The steps of the wheel, and the calendar.                               *)
(***************************************************************************)
(* The inductive invariant of the wheel, and what it puts in the calendar. *)
WheelInv == Wheel(cursor, bucket, roll, index, scan)

due == [n \in 0 .. MaxTimeout |-> DueIn(n)]

LEMMA DueIs ==
  ASSUME NEW n \in Nat
  PROVE  DueIn(n) = Served(cursor, bucket, roll, scan, n)
<1>1. \A s, j : Rolls(s, j) = Row(roll, s, j)
  BY DEF Rolls, Row
<1>2. PICK i, v : i = Slot(cursor, n) /\ v = Turn(cursor, scan, n)
  OBVIOUS
<1>3. /\ (cursor + n) % LinkLen = i
      /\ (IF scan /\ i = cursor THEN n \div LinkLen ELSE RollNum(n)) = v
  BY <1>2 DEF Slot, Turn
<1>4. {j \in 1 .. Len(bucket[i]) : Rolls(bucket[i], j) = v}
        = {j \in 1 .. Len(bucket[i]) : Row(roll, bucket[i], j) = v}
  BY <1>1
<1>5. Served(cursor, bucket, roll, scan, n) =
        IF n = 0 /\ ~scan THEN <<>> ELSE Segment(roll, bucket[i], v)
  BY <1>2 DEF Served
<1>6. DueIn(n) = LET js == {j \in 1 .. Len(bucket[i]) : Rolls(bucket[i], j) = v}
                 IN IF js = {} \/ (n = 0 /\ ~scan) THEN <<>> ELSE SubSeq(bucket[i], Min(js), Max(js))
  BY <1>3 DEF DueIn
<1> QED BY <1>4, <1>5, <1>6 DEF Segment

LEMMA TicksAre == Ticks = 0 .. MaxTimeout /\ 0 \in Ticks /\ \A m \in Ticks : m \in Nat
BY SortLinkAssumption DEF Ticks

LEMMA DueValues ==
  ASSUME NEW c, NEW b, NEW r, NEW now, cursor = c, bucket = b, roll = r, scan = now
  PROVE  due = [n \in Ticks |-> Served(c, b, r, now, n)]
<1>1. \A n \in Ticks : DueIn(n) = Served(c, b, r, now, n)
  BY DueIs, TicksAre
<1> QED BY <1>1, TicksAre DEF due

LEMMA DueAre == \A n \in Nat : DueIn(n) = Served(cursor, bucket, roll, scan, n)
BY DueIs

LEMMA DueNext ==
  ASSUME NEW c, NEW b, NEW r, NEW now, cursor' = c, bucket' = b, roll' = r, scan' = now
  PROVE  due' = [n \in Ticks |-> Served(c, b, r, now, n)]
<1>1. (\A n \in Nat : DueIn(n) = Served(cursor, bucket, roll, scan, n))'
  BY DueAre, PTL
<1>2. \A n \in Ticks : DueIn(n)' = Served(c, b, r, now, n)
  <2>1. \A n \in Nat : DueIn(n)' = Served(c, b, r, now, n)
    BY <1>1
  <2> QED BY <2>1, TicksAre
<1> QED BY <1>2, TicksAre DEF due

(* Calendar's operators, of constants. *)
AddDue(f, g, t, n) ==
  /\ f[0] = <<>> /\ \A m \in Ticks : ~Contains(f[m], t)
  /\ g = [f EXCEPT ![n] = Append(@, t)]
CancelDue(f, g, t) ==
  /\ \E m \in Ticks : Contains(f[m], t)
  /\ g = [m \in Ticks |-> RemoveFirst(f[m], t)]
TickDue(f, g) ==
  /\ f[0] = <<>>
  /\ g = [m \in Ticks |-> IF m < MaxTimeout THEN f[m + 1] ELSE <<>>]
ServeDue(f, g) == f[0] # <<>> /\ g = [f EXCEPT ![0] = Tail(@)]

LEMMA Dues ==
  /\ \A t \in Task, n \in 1 .. MaxTimeout : AddDue(due, due', t, n) => Timers!Add(t, n)
  /\ \A t \in Task : CancelDue(due, due', t) => Timers!Cancel(t)
  /\ TickDue(due, due') => Timers!Tick
  /\ ServeDue(due, due') => Timers!Serve
<1>1. \A t \in Task, n \in 1 .. MaxTimeout : AddDue(due, due', t, n) => Timers!Add(t, n)
  BY TicksAre DEF AddDue, Timers!Add, Timers!Pending, Timers!Contains, Contains, due
<1>2. \A t \in Task : CancelDue(due, due', t) => Timers!Cancel(t)
  BY TicksAre DEF CancelDue, Timers!Cancel, Timers!Pending, Timers!Contains, Contains, due,
         Timers!RemoveFirst, RemoveFirst, Timers!RemoveAt, RemoveAt,
         Timers!SelectInSeq, SelectInSeq, Timers!Min, Min
<1>3. TickDue(due, due') => Timers!Tick
  BY TicksAre DEF TickDue, Timers!Tick, due
<1>4. ServeDue(due, due') => Timers!Serve
  BY TicksAre DEF ServeDue, Timers!Serve, due
<1> QED BY <1>1, <1>2, <1>3, <1>4

LEMMA AddStep ==
  ASSUME WheelInv, NEW t \in Task, NEW n, n \in 1 .. MaxTimeout, osTaskAdd2TimerList(t, n)
  PROVE  WheelInv' /\ Timers!Add(t, n)
<1>1. PICK c, b, r, x : c = cursor /\ b = bucket /\ r = roll /\ x = index
  OBVIOUS
<1>0. PICK now : now = FALSE
  OBVIOUS
<1>2. scan = now /\ Wheel(c, b, r, x, now)
  BY <1>0, <1>1 DEF WheelInv, Wheel, osTaskAdd2TimerList
<1>3. PICK i, v : i = Slot(c, n) /\ v = RollNum(n)
  OBVIOUS
<1>4. /\ c \in Index /\ b \in [Index -> Seq(Task)] /\ r \in [Task -> Nat] /\ x \in [Task -> Index]
      /\ i \in Index /\ v \in Nat /\ DOMAIN r = Task
  <2>1. n \in Nat /\ n # 0
    OBVIOUS
  <2>2. i \in Index /\ v \in Nat
    BY <1>2, <1>3, <2>1, WheelTypes
  <2> QED BY <1>2, <2>2 DEF Wheel
<1>40. n \in Ticks /\ n # 0
  BY DEF Ticks
<1>5. PICK s : s = b[i]
  OBVIOUS
<1>6. s \in Seq(Task)
  BY <1>4, <1>5
<1>60. Rolled(Task, r, s)
  BY <1>4, <1>6 DEF Rolled
<1>7. PICK a, p : Cut(r, s, v, a, p)
  BY ONLY <1>4, <1>60, CutExists
<1>8. p \in 0 .. Len(s) /\ \A j \in 1 .. Len(s) : Row(r, s, j) <= v <=> j <= p
  BY <1>7 DEF Cut
<1>9. \A l, j : Rolls(l, j) = Row(r, l, j)
  BY <1>1 DEF Rolls, Row
<1>10. Cardinality({j \in 1 .. Len(s) : Rolls(s, j) <= v}) = p
  <2>1. {j \in 1 .. Len(s) : Rolls(s, j) <= v} = 1 .. p
    BY <1>6, <1>8, <1>9
  <2>2. Cardinality(1 .. p) = p
    <3>1. p \in Int /\ 1 \in Int
      BY <1>6, <1>8
    <3>2. Cardinality(1 .. p) = IF 1 > p THEN 0 ELSE p - 1 + 1
      BY ONLY <3>1, FS_Interval
    <3> QED BY <1>6, <1>8, <3>1, <3>2
  <2> QED BY <2>1, <2>2
<1>11. (n + cursor) % LinkLen = i
  <2>1. n \in Int /\ c \in Int /\ c + n = n + c
    BY <1>4 DEF Index
  <2> QED BY <1>1, <1>3, <2>1 DEF Slot
<1>12. /\ ~InWheel(t)
       /\ bucket' = [b EXCEPT ![i] = InsertAt(s, p + 1, t)]
       /\ index' = [x EXCEPT ![t] = i]
       /\ roll' = [u \in Task |-> IF u = t THEN v - Row(r, s, p)
                                  ELSE IF p < Len(s) /\ u = s[p + 1] THEN r[u] - (v - Row(r, s, p))
                                  ELSE r[u]]
       /\ cursor' = c /\ scan' = now
  BY <1>1, <1>2, <1>3, <1>5, <1>9, <1>10, <1>11 DEF osTaskAdd2TimerList
<1>13. roll' = Inserted(r, s, t, v, p)
  BY <1>4, <1>12 DEF Inserted
<1>14. PICK e, z, y : e = bucket' /\ z = roll' /\ y = index'
  OBVIOUS
<1>15. \A k \in Index : ~Contains(b[k], t)
  BY <1>1, <1>12 DEF InWheel
<1>16. /\ Wheel(c, e, z, y, now)
       /\ \A m \in Ticks : Served(c, e, z, now, m) =
            IF m = n THEN Append(Served(c, b, r, now, n), t) ELSE Served(c, b, r, now, m)
  <2>1. Cut(r, b[i], v, a, p)
    BY <1>5, <1>7
  <2>2. e = With(b, i, p, t)
    BY <1>5, <1>12, <1>14 DEF With
  <2>3. z = Inserted(r, b[i], t, v, p)
    BY <1>5, <1>13, <1>14
  <2>4. y = Moved(x, t, i)
    BY <1>12, <1>14 DEF Moved
  <2>5. NotIn(b, t)
    BY <1>15 DEF NotIn
  <2>6. n \in Ticks
    BY <1>40
  <2>7. n # 0
    BY <1>40
  <2>8. Wheel(c, b, r, x, now)
    BY <1>2
  <2>9. IsOff(now)
    BY <1>0 DEF IsOff
  <2>10. i = Slot(c, n)
    BY <1>3
  <2>11. v = RollNum(n)
    BY <1>3
  <2>12. Adding(c, b, r, x, now, n, t, i, v, a, p, e, z, y)
    BY <2>1, <2>2, <2>3, <2>4, <2>5, <2>6, <2>7, <2>8, <2>9, <2>10, <2>11 DEF Adding
  <2> QED BY ONLY <2>12, AddValues
<1>17. WheelInv'
  BY <1>12, <1>14, <1>16 DEF WheelInv
<1>18. PICK f, g : f = due /\ g = due'
  OBVIOUS
<1>19. f = [m \in Ticks |-> Served(c, b, r, now, m)]
  BY <1>1, <1>2, <1>18, DueValues
<1>20. g = [m \in Ticks |-> Served(c, e, z, now, m)]
  <2>1. cursor' = c
    BY <1>12
  <2>2. bucket' = e
    BY <1>14
  <2>3. roll' = z
    BY <1>14
  <2>4. scan' = now
    BY <1>12
  <2>5. due' = [m \in Ticks |-> Served(c, e, z, now, m)]
    BY ONLY <2>1, <2>2, <2>3, <2>4, DueNext
  <2> QED BY <1>18, <2>5
<1>21. AddDue(f, g, t, n)
  <2>1. 0 \in Ticks /\ n \in Ticks
    BY <1>40, TicksAre
  <2>2. f[0] = <<>>
    BY <1>0, <1>19, <2>1 DEF Served
  <2>3. ASSUME NEW m \in Ticks PROVE ~Contains(f[m], t)
    <3>1. CASE m = 0
      BY <2>2, <3>1 DEF Contains
    <3>2. CASE m # 0
      <4>1. m \in Nat /\ RollNum(m) \in Nat /\ Slot(c, m) \in Index /\ Turn(c, now, m) = RollNum(m)
        <5>1. m \in Nat
          BY TicksAre
        <5> QED BY <1>0, <1>2, <3>2, <5>1, WheelTypes DEF Turn
      <4>2. PICK l, w : l = b[Slot(c, m)] /\ w = RollNum(m)
        OBVIOUS
      <4>3. f[m] = Segment(r, l, w)
        BY <1>19, <3>2, <4>1, <4>2 DEF Served
      <4>4. w \in Nat /\ ~Contains(l, t)
        BY <1>15, <4>1, <4>2
      <4>40. w \in Nat /\ Rolled(Task, r, l)
        BY <1>4, <4>1, <4>2 DEF Rolled
      <4>5. \A u : Contains(Segment(r, l, w), u) <=> \E j \in 1 .. Len(l) : l[j] = u /\ Row(r, l, j) = w
        BY ONLY <4>40, SegmentHas
      <4> QED BY <4>3, <4>4, <4>5 DEF Contains
    <3> QED BY <3>1, <3>2
  <2>4. g = [f EXCEPT ![n] = Append(f[n], t)]
    BY <1>16, <1>19, <1>20, <2>1
  <2> QED BY <2>2, <2>3, <2>4 DEF AddDue
<1>22. AddDue(due, due', t, n)
  BY <1>18, <1>21
<1> QED BY <1>17, <1>22, Dues

LEMMA DeleteStep ==
  ASSUME ~Nesting, WheelInv, NEW t \in Task, osTimerListDelete(t)
  PROVE  WheelInv' /\ Timers!Cancel(t)
<1>1. PICK c, b, r, x, now : c = cursor /\ b = bucket /\ r = roll /\ x = index /\ now = scan
  OBVIOUS
<1>2. Wheel(c, b, r, x, now)
  BY <1>1 DEF WheelInv
<1>3. PICK i \in Index : Contains(b[i], t)
  BY <1>1 DEF osTimerListDelete, InWheel
<1>4. index[t] = i /\ b \in [Index -> Seq(Task)] /\ IsInjective(b[i])
  BY <1>1, <1>2, <1>3 DEF Wheel
<1>5. PICK s : s = b[i]
  OBVIOUS
<1>6. s \in Seq(Task) /\ IsInjective(s) /\ Contains(s, t)
  BY <1>3, <1>4, <1>5
<1>7. PICK p : p = SelectInSeq(s, LAMBDA u : u = t)
  OBVIOUS
<1>8. p \in 1 .. Len(s) /\ s[p] = t
  <2> DEFINE T == {j \in 1 .. Len(s) : s[j] = t}
  <2>1. T \in SUBSET Nat /\ T # {}
    BY <1>6 DEF Contains
  <2>2. p = Min(T)
    BY <1>7, <2>1 DEF SelectInSeq
  <2>3. Min(T) \in T
    <3> HIDE DEF T
    <3> QED BY <2>1, MinFacts
  <2> QED BY <2>2, <2>3
<1>9. /\ bucket' = [b EXCEPT ![i] = RemoveAt(s, p)]
      /\ roll' = IF p < Len(s) THEN [r EXCEPT ![s[p + 1]] = @ + r[t]] ELSE r
      /\ cursor' = c /\ index' = x /\ scan' = now
  BY <1>1, <1>4, <1>5, <1>7 DEF osTimerListDelete, ChargeFallsOn
<1>10. PICK e, z : e = bucket' /\ z = roll'
  OBVIOUS
<1>11. z = Removed(r, s, p)
  BY <1>8, <1>9, <1>10 DEF Removed
<1>12. /\ Wheel(c, e, z, x, now)
       /\ \E m \in Ticks : Contains(Served(c, b, r, now, m), t)
       /\ \A m \in Ticks : Served(c, e, z, now, m) = RemoveFirst(Served(c, b, r, now, m), t)
  <2>1. Stands(b, i, p, t)
    BY <1>5, <1>8 DEF Stands
  <2>2. e = Without(b, i, p)
    BY <1>5, <1>9, <1>10 DEF Without
  <2>3. z = Removed(r, b[i], p)
    BY <1>5, <1>11
  <2> QED BY ONLY <1>2, <2>1, <2>2, <2>3, RemoveValues, i \in Index
<1>13. WheelInv'
  BY <1>9, <1>10, <1>12 DEF WheelInv
<1>14. PICK f, g : f = due /\ g = due'
  OBVIOUS
<1>15. f = [m \in Ticks |-> Served(c, b, r, now, m)]
  BY <1>1, <1>14, DueValues
<1>16. g = [m \in Ticks |-> Served(c, e, z, now, m)]
  <2>1. cursor' = c
    BY <1>9
  <2>2. bucket' = e
    BY <1>10
  <2>3. roll' = z
    BY <1>10
  <2>4. scan' = now
    BY <1>9
  <2>5. due' = [m \in Ticks |-> Served(c, e, z, now, m)]
    BY ONLY <2>1, <2>2, <2>3, <2>4, DueNext
  <2> QED BY <1>14, <2>5
<1>17. CancelDue(f, g, t)
  BY <1>12, <1>15, <1>16 DEF CancelDue
<1>18. CancelDue(due, due', t)
  BY <1>14, <1>17
<1> QED BY <1>13, <1>18, Dues

LEMMA TurnStep ==
  ASSUME WheelInv, ScanBegins
  PROVE  WheelInv' /\ Timers!Tick
<1>1. PICK c, b, r, x : c = cursor /\ b = bucket /\ r = roll /\ x = index
  OBVIOUS
<1>0. PICK off : off = FALSE
  OBVIOUS
<1>2. scan = off /\ Wheel(c, b, r, x, off)
  BY <1>0, <1>1 DEF WheelInv, Wheel, ScanBegins
<1>3. PICK d, now : d = cursor' /\ now = scan'
  OBVIOUS
<1>4. d = (c + 1) % LinkLen /\ now = (b[d] # <<>>) /\ bucket' = b /\ roll' = r /\ index' = x
  BY <1>1, <1>3 DEF ScanBegins
<1>5. /\ Wheel(d, b, r, x, now)
      /\ \A m \in Ticks :
           Served(d, b, r, now, m) = IF m < MaxTimeout THEN Served(c, b, r, off, m + 1) ELSE <<>>
  <2>1. Turned(b, c, d, now)
    BY <1>4 DEF Turned
  <2>2. Wheel(c, b, r, x, off)
    BY <1>2
  <2>3. IsOff(off)
    BY <1>0 DEF IsOff
  <2> QED BY ONLY <2>1, <2>2, <2>3, TurnValues
<1>6. WheelInv'
  BY <1>3, <1>4, <1>5 DEF WheelInv
<1>7. PICK f, g : f = due /\ g = due'
  OBVIOUS
<1>8. f = [m \in Ticks |-> Served(c, b, r, off, m)]
  BY <1>1, <1>2, <1>7, DueValues
<1>9. g = [m \in Ticks |-> Served(d, b, r, now, m)]
  BY <1>3, <1>4, <1>7, DueNext
<1>10. TickDue(f, g)
  <2>1. MaxTimeout \in Nat /\ 0 \in Ticks
    BY SortLinkAssumption, TicksAre
  <2>2. f[0] = <<>>
    BY <1>0, <1>8, <2>1 DEF Served
  <2>3. \A m \in Ticks : m < MaxTimeout => m + 1 \in Ticks
    BY <2>1, TicksAre
  <2>4. \A m \in Ticks : m < MaxTimeout => Served(c, b, r, off, m + 1) = f[m + 1]
    BY <1>8, <2>3
  <2>5. g = [m \in Ticks |-> IF m < MaxTimeout THEN f[m + 1] ELSE <<>>]
    BY <1>5, <1>9, <2>4
  <2> QED BY <2>2, <2>5 DEF TickDue
<1>11. TickDue(due, due')
  BY <1>7, <1>10
<1> QED BY <1>6, <1>11, Dues

LEMMA ServeStep ==
  ASSUME WheelInv, ScanServes
  PROVE  WheelInv' /\ Timers!Serve
<1>1. PICK c, b, r, x : c = cursor /\ b = bucket /\ r = roll /\ x = index
  OBVIOUS
<1>0. PICK on : on = TRUE
  OBVIOUS
<1>2. scan = on /\ Wheel(c, b, r, x, on)
  BY <1>0, <1>1 DEF WheelInv, Wheel, ScanServes
<1>3. PICK e : e = bucket'
  OBVIOUS
<1>4. /\ b[c] # <<>> /\ r[Head(b[c])] = 0
      /\ cursor' = c /\ roll' = r /\ index' = x /\ scan' = on
  BY <1>1, <1>2 DEF ScanServes
<1>5. e = [b EXCEPT ![c] = Tail(b[c])]
  BY <1>1, <1>3 DEF ScanServes
<1>6. /\ Wheel(c, e, r, x, on)
      /\ Served(c, b, r, on, 0) # <<>>
      /\ \A m \in Ticks : Served(c, e, r, on, m) =
           IF m = 0 THEN Tail(Served(c, b, r, on, 0)) ELSE Served(c, b, r, on, m)
  <2>1. Ready(b, r, c)
    BY <1>4 DEF Ready
  <2>2. e = Behind(b, c)
    BY <1>5 DEF Behind
  <2>3. Wheel(c, b, r, x, on)
    BY <1>2
  <2>4. IsOn(on)
    BY <1>0 DEF IsOn
  <2> QED BY ONLY <2>1, <2>2, <2>3, <2>4, ServeValues
<1>7. WheelInv'
  BY <1>3, <1>4, <1>6 DEF WheelInv
<1>8. PICK f, g : f = due /\ g = due'
  OBVIOUS
<1>9. f = [m \in Ticks |-> Served(c, b, r, on, m)]
  BY <1>1, <1>2, <1>8, DueValues
<1>10. g = [m \in Ticks |-> Served(c, e, r, on, m)]
  BY <1>3, <1>4, <1>8, DueNext
<1>11. ServeDue(f, g)
  <2>1. 0 \in Ticks
    BY TicksAre
  <2>2. f[0] # <<>> /\ f[0] = Served(c, b, r, on, 0)
    BY <1>6, <1>9, <2>1
  <2>3. g = [f EXCEPT ![0] = Tail(f[0])]
    BY <1>6, <1>9, <1>10, <2>1, <2>2
  <2> QED BY <2>2, <2>3 DEF ServeDue
<1>12. ServeDue(due, due')
  BY <1>8, <1>11
<1> QED BY <1>7, <1>12, Dues

LEMMA EndStep ==
  ASSUME WheelInv, ScanEnds
  PROVE  WheelInv' /\ due' = due
<1>1. PICK c, b, r, x : c = cursor /\ b = bucket /\ r = roll /\ x = index
  OBVIOUS
<1>0. PICK on, off : on = TRUE /\ off = FALSE
  OBVIOUS
<1>2. scan = on /\ Wheel(c, b, r, x, on)
  BY <1>0, <1>1 DEF WheelInv, Wheel, ScanEnds
<1>3. PICK z : z = roll'
  OBVIOUS
<1>4. cursor' = c /\ bucket' = b /\ index' = x /\ scan' = off
  BY <1>0, <1>1 DEF ScanEnds
<1>5. \/ b[c] = <<>> /\ z = r
      \/ b[c] # <<>> /\ r[Head(b[c])] > 0 /\ z = [r EXCEPT ![Head(b[c])] = @ - 1]
  BY <1>1, <1>3 DEF ScanEnds
<1>6. /\ Wheel(c, b, z, x, off)
      /\ \A m \in Ticks : Served(c, b, z, off, m) = Served(c, b, r, on, m)
  <2>1. Ended(b, r, c, z)
    BY <1>5 DEF Ended, Charged
  <2>2. Wheel(c, b, r, x, on)
    BY <1>2
  <2>3. IsOn(on)
    BY <1>0 DEF IsOn
  <2>4. IsOff(off)
    BY <1>0 DEF IsOff
  <2> QED BY ONLY <2>1, <2>2, <2>3, <2>4, EndValues
<1>7. WheelInv'
  BY <1>3, <1>4, <1>6 DEF WheelInv
<1>8. due = [m \in Ticks |-> Served(c, b, r, on, m)]
  BY <1>1, <1>2, DueValues
<1>9. due' = [m \in Ticks |-> Served(c, b, z, off, m)]
  BY <1>3, <1>4, DueNext
<1> QED BY <1>6, <1>7, <1>8, <1>9

LEMMA InitWheel ==
  Init => WheelInv /\ Timers!Init
<1> SUFFICES ASSUME Init PROVE WheelInv /\ Timers!Init
  OBVIOUS
<1>1. /\ cursor = 0 /\ scan = FALSE
      /\ bucket = [i \in Index |-> <<>>] /\ roll = [t \in Task |-> 0] /\ index = [t \in Task |-> 0]
  BY DEF Init
<1>2. 0 \in Index
  BY SortLinkAssumption DEF Index
<1>3. WheelInv
  <2>1. \A i \in Index : bucket[i] = <<>> /\ Len(bucket[i]) = 0
    BY <1>1
  <2>2. \A i \in Index : IsInjective(bucket[i]) /\ \A t : ~Contains(bucket[i], t)
    BY <2>1, EmptyList
  <2>3. bucket \in [Index -> Seq(Task)] /\ roll \in [Task -> Nat] /\ index \in [Task -> Index]
    BY <1>1, <1>2, EmptyList
  <2> QED BY <1>1, <1>2, <2>1, <2>2, <2>3 DEF WheelInv, Wheel
<1>4. \A n \in Ticks : DueIn(n) = <<>>
  <2>1. ASSUME NEW n \in Ticks PROVE DueIn(n) = <<>>
    <3>1. n \in Nat
      BY TicksAre
    <3>2. Slot(cursor, n) \in Index
      BY <1>1, <1>2, <3>1, SlotIs
    <3>3. Len(bucket[Slot(cursor, n)]) = 0
      BY <1>1, <3>2
    <3>4. Segment(roll, bucket[Slot(cursor, n)], Turn(cursor, scan, n)) = <<>>
      BY <3>3 DEF Segment
    <3> QED BY <3>1, <3>4, DueIs DEF Served
  <2> QED BY <2>1
<1> QED BY <1>3, <1>4, TicksAre DEF Timers!Init

LEMMA NextWheel ==
  ASSUME ~Nesting
  PROVE  WheelInv /\ [Next]_vars => WheelInv' /\ [Timers!Next]_due
<1> SUFFICES ASSUME WheelInv, [Next]_vars PROVE WheelInv' /\ [Timers!Next]_due
  OBVIOUS
<1>1. ASSUME NEW t \in Task, NEW n \in 1 .. MaxTimeout, osTaskAdd2TimerList(t, n)
      PROVE  WheelInv' /\ [Timers!Next]_due
  BY <1>1, AddStep DEF Timers!Next
<1>2. ASSUME NEW t \in Task, osTimerListDelete(t)
      PROVE  WheelInv' /\ [Timers!Next]_due
  BY <1>2, DeleteStep DEF Timers!Next
<1>3. CASE ScanBegins
  BY <1>3, TurnStep DEF Timers!Next
<1>4. CASE ScanServes
  BY <1>4, ServeStep DEF Timers!Next
<1>5. CASE ScanEnds
  BY <1>5, EndStep
<1>6. CASE UNCHANGED vars
  BY <1>6 DEF vars, WheelInv, due, DueIn, Rolls
<1> QED BY <1>1, <1>2, <1>3, <1>4, <1>5, <1>6 DEF Next

(* A task is in one bucket of the wheel at most, and once; its sort index names
   that bucket, so osTimerListDelete looks in the right list; and the row of
   every task is the visit of a tick in the calendar's range.  No handler deletes
   a timer inside a round of osTaskScan (v_wheel.cfg shows what happens then). *)
THEOREM WheelInvariant == ASSUME ~Nesting PROVE Spec => []WheelInv
<1>1. Init => WheelInv
  BY InitWheel
<1>2. WheelInv /\ [Next]_vars => WheelInv'
  BY NextWheel
<1> QED BY <1>1, <1>2, PTL DEF Spec

(* The safety part of ImplementsCalendar: whatever is added to and deleted from
   its bucket before, between and after the rounds of osTaskScan, osTaskScan serves
   a task exactly in the tick it asked osTaskAdd2TimerList for, and the tasks of
   one tick in order of arrival.                                           *)
THEOREM WheelServesInTime == ASSUME ~Nesting PROVE Spec => Timers!Serves
<1>1. Init => Timers!Init
  BY InitWheel
<1>2. WheelInv /\ [Next]_vars => [Timers!Next]_[n \in 0 .. MaxTimeout |-> DueIn(n)]
  BY NextWheel DEF due
<1>3. Spec => []WheelInv
  BY WheelInvariant
<1> QED BY <1>1, <1>2, <1>3, PTL DEF Spec, Timers!Serves
=============================================================================
