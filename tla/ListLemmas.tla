----------------------------- MODULE ListLemmas -----------------------------
(***************************************************************************)
(* What the list operations of the kernel (kernel/include/los_list.h) do   *)
(* to the membership of a list without repetitions.                        *)
(***************************************************************************)
EXTENDS Integers, SequencesExt, SequenceTheorems, WellFoundedInduction, TLAPS

(* A set of naturals that is not empty has a least element. *)
LEMMA LeastNatural ==
  ASSUME NEW T \in SUBSET Nat, T # {}
  PROVE  \E m \in T : \A n \in T : m <= n
<1> DEFINE R == OpToRel(<, Nat)
<1>1. IsWellFoundedOn(R, Nat)
  BY NatLessThanWellFounded
<1>2. ASSUME NEW m \in T, NEW n \in T, n < m PROVE <<n, m>> \in R
  BY <1>2, Zenon DEF OpToRel
<1> HIDE DEF R
<1>3. PICK m \in T : \A n \in T : ~ (<<n, m>> \in R)
  BY <1>1, WFMin
<1>4. ASSUME NEW n \in T PROVE m <= n
  <2>1. ~ (n < m)
    BY <1>2, <1>3
  <2> QED BY <2>1
<1> QED BY <1>4

(* The least element of a set of naturals that is not empty. *)
LEMMA MinFacts ==
  ASSUME NEW T \in SUBSET Nat, T # {}
  PROVE  Min(T) \in T /\ \A n \in T : Min(T) <= n
BY LeastNatural DEF Min

(* The greatest element of a set of naturals with a bound. *)
LEMMA MaxFacts ==
  ASSUME NEW T \in SUBSET Nat, T # {}, NEW N \in Nat, \A n \in T : n <= N
  PROVE  Max(T) \in T /\ \A n \in T : n <= Max(T)
<1> DEFINE K == {k \in Nat : N - k \in T}
<1>1. K \in SUBSET Nat /\ K # {}
  <2>1. PICK n \in T : TRUE
    OBVIOUS
  <2>2. N - n \in Nat /\ N - (N - n) = n
    OBVIOUS
  <2> QED BY <2>1, <2>2
<1>2. PICK k \in K : \A l \in K : k <= l
  BY <1>1, LeastNatural
<1>3. ASSUME NEW n \in T PROVE n <= N - k
  <2>1. N - n \in Nat /\ N - (N - n) = n
    OBVIOUS
  <2>2. N - n \in K
    BY <2>1
  <2>3. k <= N - n
    BY <1>2, <2>2
  <2> QED BY <1>2, <2>3
<1>4. N - k \in T
  BY <1>2
<1> QED BY <1>3, <1>4 DEF Max

(* Taking an element out of a list. *)
LEMMA RemoveAtList ==
  ASSUME NEW S, NEW s \in Seq(S), NEW i \in 1 .. Len(s)
  PROVE  LET r == RemoveAt(s, i)
         IN /\ r \in Seq(S) /\ Len(r) = Len(s) - 1
            /\ \A j \in 1 .. Len(s) - 1 : r[j] = IF j < i THEN s[j] ELSE s[j + 1]
<1> DEFINE h == SubSeq(s, 1, i - 1)
           l == SubSeq(s, i + 1, Len(s))
<1>1. /\ h \in Seq(S) /\ Len(h) = i - 1
      /\ \A j \in 1 .. i - 1 : h[j] = s[j]
  <2>1. \A j \in 1 .. i - 1 : s[j] \in S
    OBVIOUS
  <2> QED BY <2>1, SubSeqProperties
<1>2. /\ l \in Seq(S) /\ Len(l) = Len(s) - i
      /\ \A j \in 1 .. Len(s) - i : l[j] = s[j + i]
  <2>1. \A j \in i + 1 .. Len(s) : s[j] \in S
    OBVIOUS
  <2> QED BY <2>1, SubSeqProperties
<1> HIDE DEF h, l
<1>3. /\ h \o l \in Seq(S) /\ Len(h \o l) = Len(s) - 1
      /\ \A j \in 1 .. Len(s) - 1 :
           (h \o l)[j] = IF j <= i - 1 THEN h[j] ELSE l[j - (i - 1)]
  <2>1. Len(h) + Len(l) = Len(s) - 1
    BY <1>1, <1>2
  <2>2. h \in Seq(S) /\ l \in Seq(S)
    BY <1>1, <1>2
  <2>3. /\ h \o l \in Seq(S) /\ Len(h \o l) = Len(h) + Len(l)
        /\ \A j \in 1 .. Len(h) + Len(l) :
             (h \o l)[j] = IF j <= Len(h) THEN h[j] ELSE l[j - Len(h)]
    BY ONLY <2>2, ConcatProperties
  <2> QED BY <1>1, <2>1, <2>3
<1>4. \A j \in 1 .. Len(s) - 1 : (h \o l)[j] = IF j < i THEN s[j] ELSE s[j + 1]
  <2>1. SUFFICES ASSUME NEW j \in 1 .. Len(s) - 1
                 PROVE  (h \o l)[j] = IF j < i THEN s[j] ELSE s[j + 1]
    OBVIOUS
  <2>2. CASE j < i
    BY <1>1, <1>3, <2>2
  <2>3. CASE ~(j < i)
    <3>1. /\ j - (i - 1) \in 1 .. Len(s) - i
          /\ j - (i - 1) + i = j + 1 /\ ~(j <= i - 1)
      BY <2>3
    <3>2. (h \o l)[j] = l[j - (i - 1)]
      BY <1>3, <3>1
    <3> QED BY <1>2, <2>3, <3>1, <3>2
  <2> QED BY <2>2, <2>3
<1> QED BY <1>3, <1>4 DEF h, l, RemoveAt

(* Where the element is, RemoveFirst takes one position out. *)
LEMMA RemoveFirstAt ==
  ASSUME NEW S, NEW s \in Seq(S), NEW e, \E j \in 1 .. Len(s) : s[j] = e
  PROVE  \E i \in 1 .. Len(s) :
           LET r == RemoveFirst(s, e)
           IN /\ s[i] = e
              /\ r \in Seq(S) /\ Len(r) = Len(s) - 1
              /\ \A j \in 1 .. Len(s) - 1 : r[j] = IF j < i THEN s[j] ELSE s[j + 1]
<1> DEFINE I == {j \in 1 .. Len(s) : s[j] = e}
<1>1. PICK i \in I : \A j \in I : i <= j
  <2>1. I \in SUBSET Nat /\ I # {}
    OBVIOUS
  <2> QED BY <2>1, LeastNatural
<1>2. Min(I) = i
  BY <1>1 DEF Min
<1> DEFINE r == SubSeq(s, 1, i - 1) \o SubSeq(s, i + 1, Len(s))
<1>3. RemoveFirst(s, e) = r
  BY <1>1, <1>2 DEF RemoveFirst, RemoveAt, SelectInSeq
<1>4. i \in 1 .. Len(s) /\ s[i] = e
  BY <1>1
<1> HIDE DEF I
<1>5. /\ r \in Seq(S) /\ Len(r) = Len(s) - 1
      /\ \A j \in 1 .. Len(s) - 1 : r[j] = IF j < i THEN s[j] ELSE s[j + 1]
  BY <1>4, RemoveAtList DEF RemoveAt
<1> HIDE DEF r
<1> QED BY <1>3, <1>4, <1>5

(* LOS_ListDelete takes one occurrence out and nothing else. *)
LEMMA RemoveFirstType ==
  ASSUME NEW S, NEW s \in Seq(S), NEW e
  PROVE  /\ RemoveFirst(s, e) \in Seq(S)
         /\ \A u : Contains(s, u) /\ u # e => Contains(RemoveFirst(s, e), u)
<1>1. CASE ~ \E i \in 1 .. Len(s) : s[i] = e
  BY <1>1 DEF RemoveFirst, Contains
<1>2. CASE \E i \in 1 .. Len(s) : s[i] = e
  <2> DEFINE r == RemoveFirst(s, e)
  <2>1. PICK i \in 1 .. Len(s) :
          /\ s[i] = e
          /\ r \in Seq(S) /\ Len(r) = Len(s) - 1
          /\ \A j \in 1 .. Len(s) - 1 : r[j] = IF j < i THEN s[j] ELSE s[j + 1]
    BY <1>2, RemoveFirstAt
  <2> HIDE DEF r
  <2>2. ASSUME NEW u, Contains(s, u), u # e PROVE Contains(r, u)
    <3>1. PICK j \in 1 .. Len(s) : s[j] = u
      BY <2>2 DEF Contains
    <3>2. CASE j < i
      BY <3>1, <3>2, <2>1 DEF Contains
    <3>3. CASE j > i
      <4>1. j - 1 \in 1 .. Len(r) /\ r[j - 1] = u
        BY <3>1, <3>3, <2>1
      <4> QED BY <4>1 DEF Contains
    <3> QED BY <3>1, <3>2, <3>3, <2>1, <2>2
  <2> QED BY <2>1, <2>2 DEF r
<1> QED BY <1>1, <1>2

(* A list without the element is as before. *)
LEMMA RemoveFirstAbsent ==
  ASSUME NEW S, NEW s \in Seq(S), NEW e, ~Contains(s, e)
  PROVE  RemoveFirst(s, e) = s
BY DEF RemoveFirst, Contains

(* Nothing enters the list. *)
LEMMA RemoveFirstMembers ==
  ASSUME NEW S, NEW s \in Seq(S), NEW e
  PROVE  \A u : Contains(RemoveFirst(s, e), u) => Contains(s, u)
<1>1. CASE ~ \E i \in 1 .. Len(s) : s[i] = e
  BY <1>1 DEF RemoveFirst, Contains
<1>2. CASE \E i \in 1 .. Len(s) : s[i] = e
  <2> DEFINE r == RemoveFirst(s, e)
  <2>1. PICK i \in 1 .. Len(s) :
          /\ s[i] = e
          /\ r \in Seq(S) /\ Len(r) = Len(s) - 1
          /\ \A j \in 1 .. Len(s) - 1 : r[j] = IF j < i THEN s[j] ELSE s[j + 1]
    BY <1>2, RemoveFirstAt
  <2> HIDE DEF r
  <2>2. ASSUME NEW u, Contains(r, u) PROVE Contains(s, u)
    <3>1. PICK j \in 1 .. Len(s) - 1 : r[j] = u
      BY <2>1, <2>2 DEF Contains
    <3>2. j \in 1 .. Len(s) /\ j + 1 \in 1 .. Len(s)
      OBVIOUS
    <3>3. s[j] = u \/ s[j + 1] = u
      BY <2>1, <3>1
    <3> QED BY <3>2, <3>3 DEF Contains
  <2> QED BY <2>2 DEF r
<1> QED BY <1>1, <1>2

(* Another element at the head stays there. *)
LEMMA RemoveFirstHead ==
  ASSUME NEW S, NEW s \in Seq(S), NEW e, s # <<>>, Head(s) # e
  PROVE  RemoveFirst(s, e) # <<>> /\ Head(RemoveFirst(s, e)) = Head(s)
<1>1. CASE ~ \E i \in 1 .. Len(s) : s[i] = e
  BY <1>1 DEF RemoveFirst, Contains
<1>2. CASE \E i \in 1 .. Len(s) : s[i] = e
  <2> DEFINE r == RemoveFirst(s, e)
  <2>1. PICK i \in 1 .. Len(s) :
          /\ s[i] = e
          /\ r \in Seq(S) /\ Len(r) = Len(s) - 1
          /\ \A j \in 1 .. Len(s) - 1 : r[j] = IF j < i THEN s[j] ELSE s[j + 1]
    BY <1>2, RemoveFirstAt
  <2> HIDE DEF r
  <2>2. Len(s) \in Nat /\ Head(s) = s[1] /\ i # 1
    BY <2>1
  <2>3. Len(r) >= 1 /\ r[1] = s[1]
    BY <2>1, <2>2
  <2>4. r # <<>> /\ Head(r) = r[1]
    BY <2>1, <2>3
  <2> QED BY <2>2, <2>3, <2>4 DEF r
<1> QED BY <1>1, <1>2

(* LOS_ListDelete in a list without repetitions: the element is gone. *)
LEMMA RemoveFirstList ==
  ASSUME NEW S, NEW s \in Seq(S), IsInjective(s), NEW e
  PROVE  /\ IsInjective(RemoveFirst(s, e))
         /\ \A u : Contains(RemoveFirst(s, e), u) <=> Contains(s, u) /\ u # e
<1>1. CASE ~ \E i \in 1 .. Len(s) : s[i] = e
  BY <1>1 DEF RemoveFirst, Contains
<1>2. CASE \E i \in 1 .. Len(s) : s[i] = e
  <2> DEFINE r == RemoveFirst(s, e)
  <2>1. PICK i \in 1 .. Len(s) :
          /\ s[i] = e
          /\ r \in Seq(S) /\ Len(r) = Len(s) - 1
          /\ \A j \in 1 .. Len(s) - 1 : r[j] = IF j < i THEN s[j] ELSE s[j + 1]
    BY <1>2, RemoveFirstAt
  <2> HIDE DEF r
  <2>2. IsInjective(r)
    BY <2>1 DEF IsInjective
  <2>3. ASSUME NEW u, Contains(r, u) PROVE Contains(s, u) /\ u # e
    <3>1. PICK j \in 1 .. Len(r) : r[j] = u
      BY <2>3 DEF Contains
    <3> DEFINE n == IF j < i THEN j ELSE j + 1
    <3>2. n \in 1 .. Len(s) /\ n # i /\ s[n] = u
      BY <3>1, <2>1
    <3> HIDE DEF n
    <3>3. Contains(s, u)
      BY <3>2 DEF Contains
    <3>4. s[n] # s[i]
      BY <3>2, <2>1 DEF IsInjective
    <3> QED BY <3>2, <3>3, <3>4, <2>1
  <2> QED BY <2>2, <2>3, RemoveFirstType DEF r
<1> QED BY <1>1, <1>2

(* LOS_ListTailInsert of a new element. *)
LEMMA AppendList ==
  ASSUME NEW S, NEW s \in Seq(S), NEW e \in S
  PROVE  /\ Append(s, e) \in Seq(S)
         /\ IsInjective(s) /\ ~Contains(s, e) => IsInjective(Append(s, e))
         /\ \A u : Contains(Append(s, e), u) <=> Contains(s, u) \/ u = e
<1>1. /\ Append(s, e) \in Seq(S) /\ Len(Append(s, e)) = Len(s) + 1
      /\ \A j \in 1 .. Len(s) : Append(s, e)[j] = s[j]
      /\ Append(s, e)[Len(s) + 1] = e
  OBVIOUS
<1>2. IsInjective(s) /\ ~Contains(s, e) => IsInjective(Append(s, e))
  BY <1>1 DEF IsInjective, Contains
<1>3. ASSUME NEW u PROVE Contains(Append(s, e), u) <=> Contains(s, u) \/ u = e
  BY <1>1 DEF Contains
<1> QED BY <1>1, <1>2, <1>3

(* LOS_ListAdd of a new element. *)
LEMMA PushList ==
  ASSUME NEW S, NEW s \in Seq(S), NEW e \in S
  PROVE  /\ <<e>> \o s \in Seq(S)
         /\ IsInjective(s) /\ ~Contains(s, e) => IsInjective(<<e>> \o s)
         /\ \A u : Contains(<<e>> \o s, u) <=> Contains(s, u) \/ u = e
<1> DEFINE r == <<e>> \o s
<1>1. r \in Seq(S) /\ Len(r) = Len(s) + 1
  OBVIOUS
<1>2. \A j \in 1 .. Len(r) : r[j] = IF j = 1 THEN e ELSE s[j - 1]
  OBVIOUS
<1>3. 1 \in 1 .. Len(r) /\ \A j \in 1 .. Len(s) : j + 1 \in 1 .. Len(r) /\ r[j + 1] = s[j]
  BY <1>1, <1>2
<1> HIDE DEF r
<1>4. ASSUME NEW u PROVE Contains(r, u) <=> Contains(s, u) \/ u = e
  <2>1. ASSUME Contains(r, u) PROVE Contains(s, u) \/ u = e
    BY <1>1, <1>2, <2>1 DEF Contains
  <2>2. ASSUME Contains(s, u) PROVE Contains(r, u)
    BY <1>3, <2>2 DEF Contains
  <2>3. Contains(r, e)
    BY <1>2, <1>3 DEF Contains
  <2> QED BY <2>1, <2>2, <2>3
<1>5. ASSUME IsInjective(s), ~Contains(s, e) PROVE IsInjective(r)
  <2>1. ASSUME NEW i \in 1 .. Len(r), NEW j \in 1 .. Len(r), r[i] = r[j] PROVE i = j
    <3>1. CASE i = 1
      BY <1>1, <1>2, <1>5, <2>1, <3>1 DEF Contains
    <3>2. CASE j = 1
      BY <1>1, <1>2, <1>5, <2>1, <3>2 DEF Contains
    <3>3. CASE i # 1 /\ j # 1
      <4>1. /\ i - 1 \in 1 .. Len(s) /\ j - 1 \in 1 .. Len(s)
            /\ s[i - 1] = s[j - 1]
        BY <1>1, <1>2, <2>1, <3>3
      <4>2. i - 1 = j - 1
        BY <1>5, <4>1 DEF IsInjective
      <4> QED BY <4>2
    <3> QED BY <3>1, <3>2, <3>3
  <2> QED BY <2>1 DEF IsInjective
<1> QED BY <1>1, <1>4, <1>5 DEF r

(* Removing the first element of a list. *)
LEMMA TailList ==
  ASSUME NEW S, NEW s \in Seq(S), s # <<>>
  PROVE  /\ Head(s) \in S /\ Contains(s, Head(s)) /\ Tail(s) \in Seq(S)
         /\ \A u : Contains(Tail(s), u) => Contains(s, u)
         /\ IsInjective(s) =>
              /\ IsInjective(Tail(s))
              /\ \A u : Contains(Tail(s), u) <=> Contains(s, u) /\ u # Head(s)
<1>1. /\ Tail(s) \in Seq(S) /\ Len(Tail(s)) = Len(s) - 1 /\ Len(s) >= 1
      /\ \A j \in 1 .. Len(s) - 1 : Tail(s)[j] = s[j + 1]
      /\ Head(s) = s[1] /\ Head(s) \in S
  OBVIOUS
<1>2. Contains(s, Head(s)) /\ \A u : Contains(Tail(s), u) => Contains(s, u)
  BY <1>1 DEF Contains
<1>3. ASSUME IsInjective(s)
      PROVE  /\ IsInjective(Tail(s))
             /\ \A u : Contains(Tail(s), u) <=> Contains(s, u) /\ u # Head(s)
  <2>1. IsInjective(Tail(s))
    BY <1>1, <1>3 DEF IsInjective
  <2>2. ASSUME NEW u, Contains(Tail(s), u) PROVE u # Head(s)
    BY <1>1, <1>3, <2>2 DEF IsInjective, Contains
  <2>3. ASSUME NEW u, Contains(s, u), u # Head(s) PROVE Contains(Tail(s), u)
    <3>1. PICK j \in 1 .. Len(s) : s[j] = u
      BY <2>3 DEF Contains
    <3>2. j - 1 \in 1 .. Len(Tail(s)) /\ Tail(s)[j - 1] = u
      BY <1>1, <2>3, <3>1
    <3> QED BY <3>2 DEF Contains
  <2> QED BY <1>2, <2>1, <2>2, <2>3
<1> QED BY <1>1, <1>2, <1>3

(* Moving a whole list in reverse. *)
LEMMA ReverseList ==
  ASSUME NEW S, NEW s \in Seq(S), NEW r \in Seq(S)
  PROVE  /\ Reverse(s) \o r \in Seq(S)
         /\ IsInjective(s) /\ IsInjective(r) /\ (\A u : ~(Contains(s, u) /\ Contains(r, u)))
              => IsInjective(Reverse(s) \o r)
         /\ \A u : Contains(Reverse(s) \o r, u) <=> Contains(s, u) \/ Contains(r, u)
<1> DEFINE v == Reverse(s)
           w == v \o r
<1>1. v \in Seq(S) /\ Len(v) = Len(s) /\ \A j \in 1 .. Len(s) : v[j] = s[Len(s) - j + 1]
  BY DEF Reverse
<1> HIDE DEF v
<1>2. /\ w \in Seq(S) /\ Len(w) = Len(v) + Len(r)
      /\ \A j \in 1 .. Len(v) + Len(r) : w[j] = IF j <= Len(v) THEN v[j] ELSE r[j - Len(v)]
  <2>1. v \in Seq(S) /\ r \in Seq(S)
    BY <1>1
  <2>2. w \in Seq(S)
    BY <2>1, ConcatProperties
  <2>3. Len(w) = Len(v) + Len(r)
    BY <2>1, ConcatProperties
  <2>4. \A j \in 1 .. Len(v) + Len(r) : w[j] = IF j <= Len(v) THEN v[j] ELSE r[j - Len(v)]
    BY <2>1, ConcatProperties
  <2> QED BY <2>2, <2>3, <2>4
<1> HIDE DEF w
<1>3. ASSUME NEW u, Contains(w, u) PROVE Contains(s, u) \/ Contains(r, u)
  <2>1. PICK j \in 1 .. Len(w) : w[j] = u
    BY <1>3 DEF Contains
  <2>2. CASE j <= Len(v)
    <3>1. Len(s) - j + 1 \in 1 .. Len(s) /\ s[Len(s) - j + 1] = u
      BY <1>1, <1>2, <2>1, <2>2
    <3> QED BY <3>1 DEF Contains
  <2>3. CASE j > Len(v)
    <3>1. j - Len(v) \in 1 .. Len(r) /\ r[j - Len(v)] = u
      BY <1>1, <1>2, <2>1, <2>3
    <3> QED BY <3>1 DEF Contains
  <2> QED BY <1>1, <1>2, <2>2, <2>3
<1>4. ASSUME NEW u, Contains(s, u) PROVE Contains(w, u)
  <2>1. PICK j \in 1 .. Len(s) : s[j] = u
    BY <1>4 DEF Contains
  <2>2. v[Len(s) - j + 1] = s[j]
    <3>1. Len(s) - j + 1 \in 1 .. Len(s) /\ Len(s) - (Len(s) - j + 1) + 1 = j
      OBVIOUS
    <3> QED BY <1>1, <3>1
  <2>3. Len(s) - j + 1 \in 1 .. Len(w) /\ w[Len(s) - j + 1] = u
    BY <1>1, <1>2, <2>1, <2>2
  <2> QED BY <2>3 DEF Contains
<1>5. ASSUME NEW u, Contains(r, u) PROVE Contains(w, u)
  <2>1. PICK j \in 1 .. Len(r) : r[j] = u
    BY <1>5 DEF Contains
  <2>2. /\ j + Len(v) \in 1 .. Len(w) /\ j + Len(v) > Len(v)
        /\ j + Len(v) - Len(v) = j
    BY <1>1, <1>2
  <2>3. w[j + Len(v)] = u
    <3>1. w[j + Len(v)] = r[j + Len(v) - Len(v)]
      <4> DEFINE k == j + Len(v)
      <4>1. k \in 1 .. Len(v) + Len(r) /\ ~(k <= Len(v))
        BY <1>1, <1>2, <2>2
      <4> HIDE DEF k
      <4>2. w[k] = r[k - Len(v)]
        BY <1>2, <4>1
      <4> QED BY <4>2 DEF k
    <3> QED BY <2>1, <2>2, <3>1
  <2> QED BY <2>2, <2>3 DEF Contains
<1>6. ASSUME IsInjective(s), IsInjective(r), \A u : ~(Contains(s, u) /\ Contains(r, u))
      PROVE  IsInjective(w)
  <2>0. Len(s) \in Nat /\ Len(r) \in Nat /\ Len(v) = Len(s) /\ Len(w) = Len(s) + Len(r)
    BY <1>1, <1>2
  <2>1. ASSUME NEW j \in 1 .. Len(w), j <= Len(s)
        PROVE  Len(s) - j + 1 \in 1 .. Len(s) /\ w[j] = s[Len(s) - j + 1]
    <3>1. w[j] = v[j]
      BY <1>2, <2>0, <2>1
    <3> QED BY <1>1, <2>0, <2>1, <3>1
  <2>2. ASSUME NEW j \in 1 .. Len(w), j > Len(s)
        PROVE  j - Len(s) \in 1 .. Len(r) /\ w[j] = r[j - Len(s)]
    BY <1>2, <2>0, <2>2
  <2>3. ASSUME NEW i \in 1 .. Len(w), NEW j \in 1 .. Len(w), w[i] = w[j] PROVE i = j
    <3> DEFINE m == Len(s) - i + 1
               n == Len(s) - j + 1
               o == i - Len(s)
               q == j - Len(s)
    <3>0. /\ i <= Len(s) => m \in 1 .. Len(s) /\ w[i] = s[m]
          /\ i > Len(s) => o \in 1 .. Len(r) /\ w[i] = r[o]
          /\ j <= Len(s) => n \in 1 .. Len(s) /\ w[j] = s[n]
          /\ j > Len(s) => q \in 1 .. Len(r) /\ w[j] = r[q]
      BY <2>1, <2>2
    <3>5. /\ \A c, d \in 1 .. Len(s) : s[c] = s[d] => c = d
          /\ \A c, d \in 1 .. Len(r) : r[c] = r[d] => c = d
          /\ \A c \in 1 .. Len(s), d \in 1 .. Len(r) : s[c] # r[d]
      <4>1. \A c \in 1 .. Len(s), d \in 1 .. Len(r) : s[c] # r[d]
        BY <1>6 DEF Contains
      <4> QED BY <1>6, <4>1 DEF IsInjective
    <3>6. (m = n => i = j) /\ (o = q => i = j)
      BY <2>0
    <3> HIDE DEF m, n, o, q
    <3>1. CASE i <= Len(s) /\ j <= Len(s)
      BY <2>3, <3>0, <3>1, <3>5, <3>6
    <3>2. CASE i > Len(s) /\ j > Len(s)
      BY <2>3, <3>0, <3>2, <3>5, <3>6
    <3>3. CASE i <= Len(s) /\ j > Len(s)
      BY <2>3, <3>0, <3>3, <3>5
    <3>4. CASE i > Len(s) /\ j <= Len(s)
      BY <2>3, <3>0, <3>4, <3>5
    <3> QED BY <2>0, <3>1, <3>2, <3>3, <3>4
  <2>4. w \in Seq(S)
    BY <1>2
  <2> QED BY <2>3, <2>4 DEF IsInjective
<1> QED BY <1>2, <1>3, <1>4, <1>5, <1>6 DEF w, v

(* The empty list. *)
LEMMA EmptyList ==
  ASSUME NEW S
  PROVE  <<>> \in Seq(S) /\ IsInjective(<<>>) /\ \A u : ~Contains(<<>>, u)
BY DEF IsInjective, Contains

(* Inserting into a list. *)
LEMMA InsertList ==
  ASSUME NEW S, NEW s \in Seq(S), NEW e \in S, NEW i \in 1 .. Len(s) + 1
  PROVE  LET r == InsertAt(s, i, e)
         IN /\ r \in Seq(S) /\ Len(r) = Len(s) + 1
            /\ \A j \in 1 .. Len(s) + 1 :
                 r[j] = IF j < i THEN s[j] ELSE IF j = i THEN e ELSE s[j - 1]
            /\ IsInjective(s) /\ ~Contains(s, e) => IsInjective(r)
            /\ \A u : Contains(r, u) <=> Contains(s, u) \/ u = e
<1> DEFINE a == SubSeq(s, 1, i - 1)
           b == SubSeq(s, i, Len(s))
           r == InsertAt(s, i, e)
<1>1. /\ a \in Seq(S) /\ Len(a) = i - 1 /\ \A j \in 1 .. i - 1 : a[j] = s[j]
      /\ b \in Seq(S) /\ Len(b) = Len(s) - i + 1
      /\ \A j \in 1 .. Len(s) - i + 1 : b[j] = s[i + j - 1]
  OBVIOUS
<1>2. r = (a \o <<e>>) \o b
  BY DEF InsertAt
<1> HIDE DEF a, b, r
<1>3. /\ a \o <<e>> \in Seq(S) /\ Len(a \o <<e>>) = i
      /\ \A j \in 1 .. i : (a \o <<e>>)[j] = IF j = i THEN e ELSE s[j]
  BY <1>1
<1> DEFINE c == a \o <<e>>
<1> HIDE DEF c
<1>4. c \in Seq(S) /\ Len(c) = i /\ \A j \in 1 .. i : c[j] = IF j = i THEN e ELSE s[j]
  BY <1>3 DEF c
<1>5. r \in Seq(S) /\ Len(r) = Len(s) + 1
  <2>1. c \in Seq(S) /\ b \in Seq(S) /\ Len(c) + Len(b) = Len(s) + 1
    BY <1>1, <1>4
  <2>2. r = c \o b
    BY <1>2 DEF c
  <2>3. c \o b \in Seq(S) /\ Len(c \o b) = Len(c) + Len(b)
    BY ONLY <2>1, ConcatProperties
  <2> QED BY <2>1, <2>2, <2>3
<1>6. \A j \in 1 .. Len(s) + 1 : r[j] = IF j < i THEN s[j] ELSE IF j = i THEN e ELSE s[j - 1]
  <2>1. r = c \o b
    BY <1>2 DEF c
  <2>2. \A j \in 1 .. Len(s) + 1 : r[j] = IF j <= i THEN c[j] ELSE b[j - i]
    BY <1>1, <1>4, <2>1
  <2> QED BY <1>1, <1>4, <2>2
<1>7. ASSUME NEW u PROVE Contains(r, u) <=> Contains(s, u) \/ u = e
  <2>1. ASSUME Contains(r, u) PROVE Contains(s, u) \/ u = e
    <3>1. PICK j \in 1 .. Len(s) + 1 : r[j] = u
      BY <1>5, <2>1 DEF Contains
    <3>2. u = e \/ (j \in 1 .. Len(s) /\ s[j] = u) \/ (j - 1 \in 1 .. Len(s) /\ s[j - 1] = u)
      BY <1>6, <3>1
    <3> QED BY <3>2 DEF Contains
  <2>2. ASSUME Contains(s, u) PROVE Contains(r, u)
    <3>1. PICK j \in 1 .. Len(s) : s[j] = u
      BY <2>2 DEF Contains
    <3>2. CASE j < i
      <4>1. j \in 1 .. Len(s) + 1 /\ r[j] = u
        BY <1>6, <3>1, <3>2
      <4> QED BY <1>5, <4>1 DEF Contains
    <3>3. CASE j >= i
      <4>1. j + 1 \in 1 .. Len(s) + 1 /\ r[j + 1] = u
        BY <1>6, <3>1, <3>3
      <4> QED BY <1>5, <4>1 DEF Contains
    <3> QED BY <3>2, <3>3
  <2>3. Contains(r, e)
    <3>1. i \in 1 .. Len(s) + 1 /\ r[i] = e
      BY <1>6
    <3> QED BY <1>5, <3>1 DEF Contains
  <2> QED BY <2>1, <2>2, <2>3
<1>8. ASSUME IsInjective(s), ~Contains(s, e) PROVE IsInjective(r)
  <2>1. \A j \in 1 .. Len(s) : s[j] # e
    BY <1>8 DEF Contains
  <2>2. \A m, n \in 1 .. Len(s) : s[m] = s[n] => m = n
    BY <1>8 DEF IsInjective
  <2>3. ASSUME NEW m \in 1 .. Len(s) + 1, NEW n \in 1 .. Len(s) + 1, r[m] = r[n] PROVE m = n
    <3> DEFINE at(j) == IF j < i THEN j ELSE j - 1
    <3>1. \A j \in 1 .. Len(s) + 1 : j # i => at(j) \in 1 .. Len(s) /\ r[j] = s[at(j)]
      BY <1>6
    <3>2. r[i] = e
      BY <1>6
    <3>3. m = i <=> n = i
      BY <2>1, <2>3, <3>1, <3>2
    <3>4. m # i => at(m) = at(n)
      BY <2>2, <2>3, <3>1, <3>3
    <3> QED BY <3>3, <3>4
  <2> QED BY <1>5, <2>3 DEF IsInjective
<1> QED BY <1>5, <1>6, <1>7, <1>8 DEF r

(* The greatest of some of the numbers up to m. *)
LEMMA MaxUpTo ==
  ASSUME NEW m \in Nat, NEW T \in SUBSET (1 .. m)
  PROVE  /\ m \in T => Max(T) = m /\ T \ {m} \in SUBSET (1 .. m - 1)
         /\ m \notin T => T \in SUBSET (1 .. m - 1)
<1>1. m \in T => Max(T) \in T /\ m <= Max(T)
  <2>1. T \in SUBSET Nat /\ \A n \in T : n <= m
    OBVIOUS
  <2> QED BY <2>1, MaxFacts
<1>2. \A n \in T : n \in Nat /\ n <= m
  OBVIOUS
<1>3. ASSUME m \in T PROVE Max(T) = m
  <2>1. Max(T) \in Nat /\ Max(T) <= m /\ m <= Max(T)
    BY <1>1, <1>2, <1>3
  <2> QED BY <2>1
<1> QED BY <1>3
=============================================================================
