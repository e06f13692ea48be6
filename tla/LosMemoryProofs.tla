-------------------------- MODULE LosMemoryProofs ---------------------------
(***************************************************************************)
(* Theorems about the memory pool, for every size of the pool, of its node *)
(* headers and of the requests, every boundary and every set of clients.   *)
(***************************************************************************)
EXTENDS LosMemory, ListLemmas, FiniteSetTheorems

(***************************************************************************)
(* Nodes.                                                                  *)
(***************************************************************************)
Addr   == 0 .. END_NODE
Header == [size : Nat, used : BOOLEAN, pre : Int]
Nodes  == UNION {[D -> Header] : D \in SUBSET Addr}

(* Behind each node but the last lies the next, which knows it. *)
Tiled(n) ==
  /\ 0 \in DOMAIN n /\ END_NODE \in DOMAIN n
  /\ n[0].pre = NoNode /\ n[END_NODE].used /\ n[END_NODE].size = HEAD_SIZE
  /\ \A a \in DOMAIN n \ {END_NODE} :
       /\ n[a].size > HEAD_SIZE
       /\ a + n[a].size \in DOMAIN n /\ n[a + n[a].size].pre = a
       /\ \A b \in DOMAIN n : b <= a \/ a + n[a].size <= b
  /\ \A b \in DOMAIN n \ {0} :
       n[b].pre \in DOMAIN n \ {END_NODE} /\ n[b].pre + n[n[b].pre].size = b

LEMMA PoolFacts ==
  /\ HEAD_SIZE \in Nat /\ HEAD_SIZE >= 1 /\ END_NODE \in Nat /\ END_NODE > 2 * HEAD_SIZE
  /\ 0 \in Addr /\ END_NODE \in Addr /\ 0 # END_NODE /\ NoNode \notin Addr /\ NoNode \in Int
  /\ Addr \subseteq Nat
BY MemoryAssumption DEF END_NODE, Addr, NoNode

LEMMA NodesType ==
  ASSUME NEW n
  PROVE  n \in Nodes <=> n \in [DOMAIN n -> Header] /\ DOMAIN n \subseteq Addr
BY DEF Nodes

(* What is known of a node and of its neighbours. *)
LEMMA NodeFacts ==
  ASSUME NEW n \in Nodes, Tiled(n), NEW a \in DOMAIN n
  PROVE  /\ a \in Int /\ a >= 0 /\ a <= END_NODE
         /\ n[a].size \in Nat /\ n[a].size >= HEAD_SIZE /\ n[a].used \in BOOLEAN /\ n[a].pre \in Int
         /\ a # END_NODE => /\ n[a].size > HEAD_SIZE /\ a + n[a].size \in DOMAIN n
                            /\ a + n[a].size # 0 /\ a + n[a].size # a
                            /\ n[a + n[a].size].pre = a
                            /\ a < END_NODE /\ a + n[a].size <= END_NODE
         /\ a # 0 => /\ n[a].pre \in DOMAIN n \ {END_NODE} /\ n[a].pre < a /\ n[a].pre >= 0
                     /\ n[a].pre + n[n[a].pre].size = a
<1>1. n \in [DOMAIN n -> Header] /\ DOMAIN n \subseteq Addr
  BY NodesType
<1>2. \A b \in DOMAIN n : /\ b \in Int /\ b >= 0 /\ b <= END_NODE
                          /\ n[b].size \in Nat /\ n[b].used \in BOOLEAN /\ n[b].pre \in Int
  BY <1>1, PoolFacts DEF Addr, Header
<1>3. a # END_NODE => /\ n[a].size > HEAD_SIZE /\ a + n[a].size \in DOMAIN n
                      /\ a + n[a].size # 0 /\ a + n[a].size # a
                      /\ n[a + n[a].size].pre = a
                      /\ a < END_NODE /\ a + n[a].size <= END_NODE
  BY <1>2, PoolFacts DEF Tiled
<1>4. n[a].size >= HEAD_SIZE
  BY <1>2, PoolFacts DEF Tiled
<1>5. a # 0 => /\ n[a].pre \in DOMAIN n \ {END_NODE} /\ n[a].pre < a /\ n[a].pre >= 0
               /\ n[a].pre + n[n[a].pre].size = a
  BY <1>2, PoolFacts DEF Tiled
<1> QED BY <1>2, <1>3, <1>4, <1>5

(* osMemMergeNode on the headers: a becomes a part of the node before it. *)
Merged(n, a) ==
  [b \in DOMAIN n \ {a} |->
     IF b = n[a].pre THEN [n[b] EXCEPT !.size = @ + n[a].size]
     ELSE IF b = a + n[a].size THEN [n[b] EXCEPT !.pre = n[a].pre]
     ELSE n[b]]

LEMMA MergedFacts ==
  ASSUME NEW n \in Nodes, Tiled(n), NEW a \in DOMAIN n \ {0, END_NODE},
         NEW m, m = Merged(n, a), NEW p, p = n[a].pre, NEW s, s = n[p].size + n[a].size
  PROVE  /\ m \in Nodes /\ Tiled(m) /\ \A b : b \in DOMAIN m <=> b \in DOMAIN n /\ b # a
         /\ p \in DOMAIN m /\ p # END_NODE /\ m[p].size = s
         /\ \A b \in DOMAIN m : m[b].used <=> n[b].used
         /\ \A b \in DOMAIN m : b # p => m[b].size = n[b].size
<1> DEFINE q == a + n[a].size
<1>1. /\ p \in DOMAIN n \ {END_NODE} /\ p # a /\ p < a /\ p + n[p].size = a
      /\ q \in DOMAIN n /\ q # a /\ q # p /\ q > a /\ q # 0 /\ n[q].pre = a
      /\ a \in Int /\ n[a].size \in Nat /\ p \in Int /\ n[p].size \in Nat /\ n[p].used \in BOOLEAN
      /\ n[p].pre \in Int
      /\ n[q].size \in Nat /\ n[q].used \in BOOLEAN
      /\ n[a].size > HEAD_SIZE /\ n[p].size > HEAD_SIZE
  BY NodeFacts, PoolFacts
<1> HIDE DEF q
<1>2. n \in [DOMAIN n -> Header] /\ DOMAIN n \subseteq Addr
  BY NodesType
<1>3. /\ DOMAIN m = DOMAIN n \ {a}
      /\ \A b \in DOMAIN m : m[b] = IF b = p THEN [n[b] EXCEPT !.size = @ + n[a].size]
                                    ELSE IF b = q THEN [n[b] EXCEPT !.pre = p]
                                    ELSE n[b]
      /\ m = [b \in DOMAIN m |-> m[b]]
  BY DEF Merged, q
<1>4. /\ m[p] = [size |-> n[p].size + n[a].size, used |-> n[p].used, pre |-> n[p].pre]
      /\ m[q] = [size |-> n[q].size, used |-> n[q].used, pre |-> p]
      /\ \A b \in DOMAIN m \ {p, q} : m[b] = n[b]
  BY <1>1, <1>2, <1>3 DEF Header
<1>5. m \in Nodes
  <2>1. \A b \in DOMAIN m : m[b] \in Header
    BY <1>1, <1>2, <1>3, <1>4 DEF Header
  <2> QED BY <1>2, <1>3, <2>1, NodesType
<1>6. /\ p \in DOMAIN m /\ q \in DOMAIN m /\ m[p].size = n[p].size + n[a].size
      /\ \A b \in DOMAIN m : /\ (m[b].used <=> n[b].used)
                             /\ b # p => m[b].size = n[b].size
                             /\ b # q => m[b].pre = n[b].pre
      /\ m[q].pre = p
  BY <1>1, <1>3, <1>4
<1>7. Tiled(m)
  <2>1. /\ 0 \in DOMAIN m /\ END_NODE \in DOMAIN m
        /\ m[0].pre = NoNode /\ m[END_NODE].used /\ m[END_NODE].size = HEAD_SIZE
    BY <1>1, <1>3, <1>6, PoolFacts DEF Tiled
  <2>2. ASSUME NEW b \in DOMAIN m \ {END_NODE}
        PROVE  /\ m[b].size > HEAD_SIZE
               /\ b + m[b].size \in DOMAIN m /\ m[b + m[b].size].pre = b
               /\ \A c \in DOMAIN m : c <= b \/ b + m[b].size <= c
    <3>0. b \in DOMAIN n \ {a, END_NODE}
      BY <1>3
    <3>1. CASE b = p
      <4>1. b + m[b].size = q
        BY <1>1, <1>6, <3>1 DEF q
      <4>2. \A c \in DOMAIN n : (c <= p \/ a <= c) /\ (c <= a \/ q <= c)
        BY <1>1 DEF Tiled, q
      <4>3. \A c \in DOMAIN m : c <= p \/ q <= c
        <5>1. \A c \in DOMAIN m : c \in DOMAIN n /\ c # a /\ c \in Int
          BY <1>2, <1>3, PoolFacts
        <5> QED BY <1>1, <4>2, <5>1
      <4>4. m[b].size > HEAD_SIZE
        BY <1>1, <1>6, <3>1, PoolFacts
      <4> QED BY <1>6, <3>1, <4>1, <4>3, <4>4
    <3>2. CASE b # p
      <4>1. m[b].size = n[b].size
        BY <1>6, <3>2
      <4>2. b + n[b].size # a
        BY <3>0, <3>2, <1>1 DEF Tiled
      <4>3. b + n[b].size # q
        BY <3>0, <1>1 DEF Tiled
      <4> QED BY <1>3, <1>6, <3>0, <4>1, <4>2, <4>3 DEF Tiled
    <3> QED BY <3>1, <3>2
  <2>3. ASSUME NEW b \in DOMAIN m \ {0}
        PROVE  m[b].pre \in DOMAIN m \ {END_NODE} /\ m[b].pre + m[m[b].pre].size = b
    <3>1. CASE b = q
      BY <1>1, <1>6, <3>1 DEF q
    <3>2. CASE b # q
      <4>1. m[b].pre = n[b].pre /\ n[b].pre \in DOMAIN n \ {END_NODE}
            /\ n[b].pre + n[n[b].pre].size = b
        BY <1>3, <1>6, <3>2 DEF Tiled
      <4>2. n[b].pre # a
        BY <3>2, <4>1 DEF q
      <4>3. n[b].pre # p
        BY <1>1, <1>3, <3>2, <4>1
      <4> QED BY <1>3, <1>6, <4>1, <4>2, <4>3
    <3> QED BY <3>1, <3>2
  <2> QED BY <2>1, <2>2, <2>3 DEF Tiled
<1> QED BY <1>1, <1>3, <1>5, <1>6, <1>7

(* osMemSpitNode on the headers: a keeps k words, the rest is a new free node. *)
CutNode(n, a, k) ==
  [b \in DOMAIN n \cup {a + k} |->
     IF b = a + k THEN [size |-> n[a].size - k, used |-> FALSE, pre |-> a]
     ELSE IF b = a THEN [n[a] EXCEPT !.size = k]
     ELSE IF b = a + n[a].size THEN [n[b] EXCEPT !.pre = a + k]
     ELSE n[b]]

LEMMA CutFacts ==
  ASSUME NEW n \in Nodes, Tiled(n), NEW a \in DOMAIN n \ {END_NODE},
         NEW k \in Nat, k > HEAD_SIZE, n[a].size - k > HEAD_SIZE,
         NEW b, b = a + k, NEW m, m = CutNode(n, a, k)
  PROVE  /\ m \in Nodes /\ Tiled(m) /\ b \notin DOMAIN n
         /\ \A c : c \in DOMAIN m <=> c \in DOMAIN n \/ c = b
         /\ b # END_NODE /\ b # a /\ m[a].size = k /\ (m[a].used <=> n[a].used)
         /\ ~m[b].used /\ m[b].pre = a /\ m[b].size \in Nat /\ m[b].size > HEAD_SIZE
         /\ \A c \in DOMAIN n : c # a => (m[c].used <=> n[c].used)
         /\ \A c \in DOMAIN n : c # a => m[c].size = n[c].size
<1> DEFINE q == a + n[a].size
<1>1. /\ a \in Int /\ a >= 0 /\ n[a].size \in Nat /\ n[a].used \in BOOLEAN /\ n[a].pre \in Int
      /\ q \in DOMAIN n /\ q # 0 /\ q # a /\ n[q].pre = a /\ q <= END_NODE
      /\ q \in Int /\ n[q].size \in Nat /\ n[q].used \in BOOLEAN
      /\ HEAD_SIZE \in Nat /\ HEAD_SIZE >= 1 /\ END_NODE \in Nat
  BY NodeFacts, PoolFacts
<1>2. b \in Int /\ a < b /\ b < q /\ b # q /\ b # a /\ b + (n[a].size - k) = q /\ n[a].size - k \in Nat
  BY <1>1
<1>3. b \notin DOMAIN n
  BY <1>1, <1>2 DEF Tiled
<1>4. n \in [DOMAIN n -> Header] /\ DOMAIN n \subseteq Addr
  BY NodesType
<1> HIDE DEF q
<1>5. /\ DOMAIN m = DOMAIN n \cup {b}
      /\ \A c \in DOMAIN m : m[c] = IF c = b THEN [size |-> n[a].size - k, used |-> FALSE, pre |-> a]
                                    ELSE IF c = a THEN [n[a] EXCEPT !.size = k]
                                    ELSE IF c = q THEN [n[c] EXCEPT !.pre = b]
                                    ELSE n[c]
      /\ m = [c \in DOMAIN m |-> m[c]]
  BY DEF CutNode, q
<1>6. /\ m[b] = [size |-> n[a].size - k, used |-> FALSE, pre |-> a]
      /\ m[a] = [size |-> k, used |-> n[a].used, pre |-> n[a].pre]
      /\ m[q] = [size |-> n[q].size, used |-> n[q].used, pre |-> b]
      /\ \A c \in DOMAIN n \ {a, q} : m[c] = n[c]
  <2>0. a \in DOMAIN m /\ b \in DOMAIN m /\ q \in DOMAIN m /\ n[a] \in Header /\ n[q] \in Header
    BY <1>1, <1>4, <1>5
  <2>1. m[b] = [size |-> n[a].size - k, used |-> FALSE, pre |-> a]
    BY <1>5, <2>0
  <2>2. m[a] = [n[a] EXCEPT !.size = k]
    BY <1>2, <1>5, <2>0
  <2>3. m[q] = [n[q] EXCEPT !.pre = b]
    BY <1>1, <1>2, <1>5, <2>0
  <2>4. \A c \in DOMAIN n \ {a, q} : m[c] = n[c]
    BY <1>3, <1>5
  <2> QED BY <2>0, <2>1, <2>2, <2>3, <2>4 DEF Header
<1>7. m \in Nodes
  <2>0. /\ [size |-> n[a].size - k, used |-> FALSE, pre |-> a] \in Header
        /\ [size |-> k, used |-> n[a].used, pre |-> n[a].pre] \in Header
        /\ [size |-> n[q].size, used |-> n[q].used, pre |-> b] \in Header
    BY <1>1, <1>2 DEF Header
  <2>1. \A c \in DOMAIN m : m[c] \in Header
    <3>1. \A c \in DOMAIN n : n[c] \in Header
      BY <1>4
    <3>2. m[b] \in Header /\ m[a] \in Header /\ m[q] \in Header
      BY <1>6, <2>0
    <3> QED BY <1>5, <1>6, <3>1, <3>2
  <2>2. DOMAIN m \subseteq Addr
    BY <1>1, <1>2, <1>4, <1>5 DEF Addr
  <2> QED BY <1>5, <2>1, <2>2, NodesType
<1>8. /\ \A c \in DOMAIN n : (m[c].used <=> n[c].used) /\ (c # a => m[c].size = n[c].size)
                            /\ (c # q => m[c].pre = n[c].pre)
      /\ m[a].size = k /\ ~m[b].used /\ m[b].size = n[a].size - k /\ m[b].pre = a /\ m[q].pre = b
  BY <1>1, <1>6
<1>9. b # END_NODE /\ b # 0
  BY <1>1, <1>2
<1>10. Tiled(m)
  <2>1. /\ 0 \in DOMAIN m /\ END_NODE \in DOMAIN m
        /\ m[0].pre = NoNode /\ m[END_NODE].used /\ m[END_NODE].size = HEAD_SIZE
    BY <1>1, <1>5, <1>8, PoolFacts DEF Tiled
  <2>2. ASSUME NEW c \in DOMAIN m \ {END_NODE}
        PROVE  /\ m[c].size > HEAD_SIZE
               /\ c + m[c].size \in DOMAIN m /\ m[c + m[c].size].pre = c
               /\ \A d \in DOMAIN m : d <= c \/ c + m[c].size <= d
    <3>0. \A d \in DOMAIN n : d \in Int /\ (d <= a \/ q <= d)
      BY <1>4, PoolFacts DEF Tiled, q
    <3>1. CASE c = a
      <4>1. c + m[c].size = b
        BY <1>8, <3>1
      <4>2. \A d \in DOMAIN m : d <= a \/ b <= d
        BY <1>1, <1>2, <1>5, <3>0
      <4> QED BY <1>5, <1>8, <3>1, <4>1, <4>2
    <3>2. CASE c = b
      <4>1. c + m[c].size = q
        BY <1>2, <1>8, <3>2
      <4>2. \A d \in DOMAIN m : d <= b \/ q <= d
        BY <1>1, <1>2, <1>5, <3>0
      <4> QED BY <1>1, <1>5, <1>8, <3>2, <4>1, <4>2
    <3>3. CASE c # a /\ c # b
      <4>1. c \in DOMAIN n \ {a, END_NODE} /\ m[c].size = n[c].size /\ c \in Int /\ n[c].size \in Nat
        BY <1>4, <1>5, <1>8, <3>0, <3>3 DEF Header
      <4>2. /\ n[c].size > HEAD_SIZE /\ c + n[c].size \in DOMAIN n /\ n[c + n[c].size].pre = c
            /\ \A d \in DOMAIN n : d <= c \/ c + n[c].size <= d
        BY <4>1 DEF Tiled
      <4>3. c + n[c].size # q
        BY <1>1, <3>3, <4>2
      <4>4. b <= c \/ c + n[c].size <= b
        <5>1. CASE c <= a
          BY <1>1, <1>2, <4>1, <4>2, <5>1
        <5>2. CASE q <= c
          BY <1>1, <1>2, <4>1, <5>2
        <5> QED BY <3>0, <4>1, <5>1, <5>2
      <4>5. m[c + n[c].size].pre = c
        BY <1>8, <4>2, <4>3
      <4> QED BY <1>5, <4>1, <4>2, <4>4, <4>5
    <3> QED BY <3>1, <3>2, <3>3
  <2>3. ASSUME NEW c \in DOMAIN m \ {0}
        PROVE  m[c].pre \in DOMAIN m \ {END_NODE} /\ m[c].pre + m[m[c].pre].size = c
    <3>1. CASE c = b
      BY <1>1, <1>5, <1>8, <3>1
    <3>2. CASE c = q
      BY <1>2, <1>5, <1>8, <1>9, <3>2
    <3>3. CASE c # b /\ c # q
      <4>1. c \in DOMAIN n \ {0} /\ m[c].pre = n[c].pre /\ n[c].pre \in DOMAIN n \ {END_NODE}
            /\ n[c].pre + n[n[c].pre].size = c
        BY <1>5, <1>8, <3>3 DEF Tiled
      <4>2. n[c].pre # a
        BY <3>3, <4>1 DEF q
      <4> QED BY <1>3, <1>5, <1>8, <4>1, <4>2
    <3> QED BY <3>1, <3>2, <3>3
  <2> QED BY <2>1, <2>2, <2>3 DEF Tiled
<1> QED BY <1>2, <1>3, <1>5, <1>7, <1>8, <1>9, <1>10

(* What is merged with a node that a free neighbour must not be left at: the nodes
   in T may have a free one behind them though they are free themselves. *)
Coalesced(n, T) ==
  \A a \in DOMAIN n \ ({END_NODE} \cup T) : n[a].used \/ n[a + n[a].size].used

(***************************************************************************)
(* The free lists.                                                         *)
(***************************************************************************)
Pools == [node : Nodes, head : [Classes -> Seq(Addr)]]

(* a is a free node that belongs into the list of class c. *)
Belongs(h, a, c) == a \in DOMAIN h.node /\ ~h.node[a].used /\ Class(h.node[a].size) = c

(* Each list holds the free nodes of its class once; nothing is said of the nodes
   in S, which are on their way from one list to another. *)
Listing(h, S) ==
  \A c \in Classes :
    /\ IsInjective(h.head[c])
    /\ \A a \in Addr \ S : Contains(h.head[c], a) <=> Belongs(h, a, c)

Unlisted(h, a) == \A c \in Classes : ~Contains(h.head[c], a)

Tidy(h, S, T) == h \in Pools /\ Tiled(h.node) /\ Listing(h, S) /\ Coalesced(h.node, T)

Has(h, a)   == a \in DOMAIN h.node
InUse(h, a) == Has(h, a) /\ ~Free(h, a)

(* The used nodes of h and k are the same but for a. *)
SameUsed(h, k, a) ==
  \A b \in Addr \ {a} :
    /\ InUse(h, b) <=> InUse(k, b)
    /\ InUse(h, b) => Size(h, b) = Size(k, b)

(***************************************************************************)
(* The inductive invariant: between two calls the pool is tidy, and the    *)
(* pointers in use are one for each used node, which has room for what was *)
(* asked for.                                                              *)
(***************************************************************************)
PointerType ==
  /\ DOMAIN block \subseteq Int
  /\ \A p \in DOMAIN block : block[p] \in [size : Nat \ {0}, gap : Nat, shift : Nat]

Pointers ==
  /\ \A p \in DOMAIN block :
       /\ InUse(Pool, Base(p)) /\ Base(p) # END_NODE
       /\ p + block[p].size <= NextNode(Pool, Base(p))
  /\ \A a \in Addr \ {END_NODE} : InUse(Pool, a) => \E p \in DOMAIN block : Base(p) = a
  /\ \A p, q \in DOMAIN block : Base(p) = Base(q) => p = q

MemInv ==
  /\ Tidy(Pool, {}, {})
  /\ PointerType /\ Pointers
  /\ memUsed \in [Client -> 0 .. UintSize - 1]

(***************************************************************************)
(* The size classes.                                                       *)
(***************************************************************************)
LEMMA Log2Facts ==
  ASSUME NEW n \in Nat, n >= 1
  PROVE  LET L == {i \in 2 .. MAX_LOG2 : 2 ^ (i - 2) \in 1 .. n}
         IN L \in SUBSET Nat /\ Log2(n) \in L /\ \A i \in L : i <= Log2(n)
<1> DEFINE L == {i \in 2 .. MAX_LOG2 : 2 ^ (i - 2) \in 1 .. n}
<1>1. L \in SUBSET Nat /\ \A i \in L : i <= MAX_LOG2
  BY MemoryAssumption
<1>2. 2 \in L
  <2>1. 2 ^ (2 - 2) = 1
    OBVIOUS
  <2>2. 2 \in 2 .. MAX_LOG2
    BY MemoryAssumption
  <2> QED BY <2>1, <2>2
<1>3. Log2(n) = Max(L)
  BY DEF Log2
<1> HIDE DEF L
<1>4. Max(L) \in L /\ \A i \in L : i <= Max(L)
  BY <1>1, <1>2, MaxFacts, MemoryAssumption
<1> QED BY <1>1, <1>3, <1>4 DEF L

(* Every size has a class, and a larger size no smaller one. *)
LEMMA ClassFacts ==
  ASSUME NEW n \in Nat, n >= 1
  PROVE  /\ Class(n) \in Classes
         /\ \A k \in Nat : n <= k => Class(n) <= Class(k)
<1>1. Log2(n) \in 2 .. MAX_LOG2
  BY Log2Facts
<1>2. Class(n) \in Classes
  BY <1>1, MemoryAssumption DEF Class, Classes
<1>3. ASSUME NEW k \in Nat, n <= k PROVE Class(n) <= Class(k)
  <2> DEFINE L(x) == {i \in 2 .. MAX_LOG2 : 2 ^ (i - 2) \in 1 .. x}
  <2>1. L(n) \subseteq L(k)
    BY <1>3
  <2>2. Log2(n) \in L(n)
    BY Log2Facts
  <2>3. Log2(k) \in L(k) /\ \A i \in L(k) : i <= Log2(k)
    BY <1>3, Log2Facts
  <2>4. Log2(n) <= Log2(k) /\ Log2(k) \in Int
    BY <2>1, <2>2, <2>3
  <2> QED BY <1>1, <2>4 DEF Class
<1> QED BY <1>2, <1>3

(***************************************************************************)
(* The helpers on the pool.                                                *)
(***************************************************************************)
LEMMA PoolFields ==
  ASSUME NEW h \in Pools
  PROVE  /\ h.node \in Nodes /\ h.head \in [Classes -> Seq(Addr)]
         /\ \A n \in Nodes : LET x == [h EXCEPT !.node = n]
                              IN x \in Pools /\ x.node = n /\ x.head = h.head
         /\ \A l \in [Classes -> Seq(Addr)] :
              LET x == [h EXCEPT !.head = l]
              IN x \in Pools /\ x.head = l /\ x.node = h.node
BY DEF Pools

(* LOS_ListDelete takes a node out of all lists and moves nothing else. *)
LEMMA ListDeleteFacts ==
  ASSUME NEW h, NEW S, NEW T, Tidy(h, S, T), NEW a
  PROVE  LET x == LOS_ListDelete(h, a)
         IN /\ Tidy(x, S \cup {a}, T) /\ x.node = h.node /\ Unlisted(x, a)
            /\ \A b : Unlisted(h, b) => Unlisted(x, b)
<1> DEFINE x == LOS_ListDelete(h, a)
           l == [c \in Classes |-> RemoveFirst(h.head[c], a)]
<1>1. h \in Pools /\ Tiled(h.node) /\ Coalesced(h.node, T) /\ Listing(h, S)
      /\ h.head \in [Classes -> Seq(Addr)]
  BY PoolFields DEF Tidy
<1>2. ASSUME NEW c \in Classes
      PROVE  /\ RemoveFirst(h.head[c], a) \in Seq(Addr)
             /\ IsInjective(RemoveFirst(h.head[c], a))
             /\ \A b : Contains(RemoveFirst(h.head[c], a), b) <=> Contains(h.head[c], b) /\ b # a
  <2>1. h.head[c] \in Seq(Addr) /\ IsInjective(h.head[c])
    BY <1>1 DEF Listing
  <2> QED BY <2>1, RemoveFirstType, RemoveFirstList
<1>3. l \in [Classes -> Seq(Addr)]
  BY <1>2
<1>4. x \in Pools /\ x.head = l /\ x.node = h.node
  BY <1>1, <1>3, PoolFields DEF LOS_ListDelete
<1> HIDE DEF x
<1>5. \A c \in Classes : /\ IsInjective(x.head[c])
                         /\ \A b : Contains(x.head[c], b) <=> Contains(h.head[c], b) /\ b # a
  BY <1>2, <1>4
<1>6. Listing(x, S \cup {a})
  BY <1>1, <1>4, <1>5 DEF Listing, Belongs
<1>7. Unlisted(x, a) /\ \A b : Unlisted(h, b) => Unlisted(x, b)
  BY <1>5 DEF Unlisted
<1> QED BY <1>1, <1>4, <1>6, <1>7 DEF Tidy, x

(* LOS_ListAdd puts a free node that is in no list where it belongs. *)
LEMMA ListAddFacts ==
  ASSUME NEW h, NEW S, NEW T, NEW R, NEW a, NEW x,
         Tidy(h, R, T), R = S \cup {a}, a \notin S, Has(h, a), Unlisted(h, a), Free(h, a),
         x = LOS_ListAdd(h, a)
  PROVE  /\ Tidy(x, S, T) /\ x.node = h.node
         /\ \A b \in S : Unlisted(h, b) => Unlisted(x, b)
<1> DEFINE k == Class(h.node[a].size)
           l == [h.head EXCEPT ![k] = <<a>> \o @]
<1>1. /\ h \in Pools /\ Tiled(h.node) /\ Coalesced(h.node, T) /\ Listing(h, S \cup {a})
      /\ h.head \in [Classes -> Seq(Addr)] /\ h.node \in Nodes
  BY PoolFields DEF Tidy
<1>2. h.node[a].size \in Nat /\ h.node[a].size >= 1 /\ a \in Addr /\ ~h.node[a].used
  <2>1. h.node[a].size \in Nat /\ h.node[a].size >= HEAD_SIZE
    BY <1>1, NodeFacts DEF Has
  <2> QED BY <1>1, <2>1, PoolFacts, NodesType DEF Free, Has
<1>3. k \in Classes
  BY <1>2, ClassFacts
<1>4. /\ <<a>> \o h.head[k] \in Seq(Addr) /\ IsInjective(<<a>> \o h.head[k])
      /\ \A b : Contains(<<a>> \o h.head[k], b) <=> Contains(h.head[k], b) \/ b = a
  <2>1. h.head[k] \in Seq(Addr) /\ IsInjective(h.head[k]) /\ ~Contains(h.head[k], a)
    BY <1>1, <1>3 DEF Listing, Unlisted
  <2> QED BY <1>2, <2>1, PushList
<1>5. x = [h EXCEPT !.head = l]
  BY <1>1, <1>3 DEF LOS_ListAdd, Pools
<1>6. /\ l \in [Classes -> Seq(Addr)] /\ l[k] = <<a>> \o h.head[k]
      /\ \A c \in Classes \ {k} : l[c] = h.head[c]
  BY <1>1, <1>3, <1>4
<1> HIDE DEF l
<1>7. x \in Pools /\ x.head = l /\ x.node = h.node
  BY <1>1, <1>5, <1>6 DEF Pools
<1>8. \A c \in Classes :
        /\ IsInjective(x.head[c])
        /\ \A b : Contains(x.head[c], b) <=> Contains(h.head[c], b) \/ (b = a /\ c = k)
  BY <1>1, <1>4, <1>6, <1>7 DEF Listing
<1>9. Belongs(x, a, k) /\ \A c \in Classes : Belongs(x, a, c) <=> c = k
  BY <1>2, <1>7 DEF Belongs, Has
<1>10. \A b \in Addr, c \in Classes : Belongs(x, b, c) <=> Belongs(h, b, c)
  BY <1>7 DEF Belongs
<1>11. \A b \in Addr \ (S \cup {a}), c \in Classes : Contains(h.head[c], b) <=> Belongs(h, b, c)
  BY <1>1 DEF Listing
<1> HIDE DEF k
<1>12. ASSUME NEW b \in Addr \ S, NEW c \in Classes
       PROVE  Contains(x.head[c], b) <=> Belongs(x, b, c)
  <2>1. CASE b = a
    <3>1. ~Contains(h.head[c], a)
      BY DEF Unlisted
    <3> QED BY <1>8, <1>9, <2>1, <3>1
  <2>2. CASE b # a
    BY <1>8, <1>10, <1>11, <2>2
  <2> QED BY <2>1, <2>2
<1>13. Listing(x, S)
  BY <1>8, <1>12 DEF Listing
<1>14. \A b \in S : Unlisted(h, b) => Unlisted(x, b)
  BY <1>8 DEF Unlisted
<1> QED BY <1>1, <1>7, <1>13, <1>14 DEF Tidy

(* Less is known of more nodes. *)
LEMMA Looser ==
  ASSUME NEW h, NEW S, NEW T, Tidy(h, S, T), NEW R, NEW U
  PROVE  Tidy(h, S \cup R, T \cup U)
BY DEF Tidy, Listing, Coalesced

(* A used node that is in no list is where it should be, and needs no merging. *)
LEMMA Settled ==
  ASSUME NEW h, NEW S, NEW T, NEW a, Tidy(h, S \cup {a}, T \cup {a}), Unlisted(h, a), InUse(h, a)
  PROVE  Tidy(h, S, T)
<1>1. Listing(h, S)
  BY DEF Tidy, Listing, Unlisted, Belongs, InUse, Has, Free
<1>2. Coalesced(h.node, T)
  BY DEF Tidy, Coalesced, InUse, Has, Free
<1> QED BY <1>1, <1>2 DEF Tidy

(* A used node is in no list. *)
LEMMA UsedUnlisted ==
  ASSUME NEW h, NEW S, NEW T, Tidy(h, S, T), NEW a \in Addr \ S, ~Free(h, a)
  PROVE  Unlisted(h, a)
BY DEF Tidy, Listing, Unlisted, Belongs, Free

(* osMemMergeNode, of a free node that has been taken out of its list. *)
LEMMA MergeNodeFacts ==
  ASSUME NEW h, NEW S, NEW T, NEW a \in DOMAIN h.node \ {0, END_NODE},
         NEW R, R = S \cup {a}, Tidy(h, R, T), Unlisted(h, a), Free(h, a),
         NEW p \in S, p = h.node[a].pre, NEW x, x = osMemMergeNode(h, a)
  PROVE  /\ x \in Pools /\ Tiled(x.node) /\ Listing(x, S)
         /\ x.node = Merged(h.node, a) /\ x.head = h.head
         /\ p \in DOMAIN x.node /\ p # END_NODE /\ (x.node[p].used <=> h.node[p].used)
         /\ SameUsed(h, x, p)
<1> DEFINE m == Merged(h.node, a)
           s == h.node[p].size + h.node[a].size
<1>1. /\ h \in Pools /\ Tiled(h.node) /\ Listing(h, S \cup {a}) /\ h.node \in Nodes
      /\ h.node[a].size \in Nat
  BY PoolFields, NodeFacts DEF Tidy
<1>2. /\ m \in Nodes /\ Tiled(m) /\ \A b : b \in DOMAIN m <=> b \in DOMAIN h.node /\ b # a
      /\ p \in DOMAIN m /\ p # END_NODE /\ m[p].size = s
      /\ \A b \in DOMAIN m : m[b].used <=> h.node[b].used
      /\ \A b \in DOMAIN m : b # p => m[b].size = h.node[b].size
  <2>1. m = Merged(h.node, a) /\ p = h.node[a].pre /\ s = h.node[p].size + h.node[a].size
    OBVIOUS
  <2> HIDE DEF m, s
  <2> QED BY <1>1, <2>1, MergedFacts
<1>3. x = [h EXCEPT !.node = m]
  BY DEF osMemMergeNode, Merged, NextNode
<1> HIDE DEF m
<1>4. x \in Pools /\ x.node = m /\ x.head = h.head
  BY <1>1, <1>2, <1>3, PoolFields
<1>6. Listing(x, S)
  <2>1. SUFFICES ASSUME NEW c \in Classes, NEW b \in Addr \ S
                 PROVE  Contains(x.head[c], b) <=> Belongs(x, b, c)
    BY <1>1, <1>4 DEF Listing
  <2>2. CASE b = a
    BY <1>2, <1>4, <2>2 DEF Belongs, Unlisted
  <2>3. CASE b # a
    <3>1. Belongs(x, b, c) <=> Belongs(h, b, c)
      BY <1>2, <1>4, <2>1, <2>3 DEF Belongs
    <3> QED BY <1>1, <1>4, <2>3, <3>1 DEF Listing
  <2> QED BY <2>2, <2>3
<1>7. SameUsed(h, x, p)
  <2>1. ASSUME NEW b \in Addr \ {p}
        PROVE  (InUse(h, b) <=> InUse(x, b)) /\ (InUse(h, b) => Size(h, b) = Size(x, b))
    <3>1. CASE b = a
      BY <1>2, <1>4, <3>1 DEF InUse, Has, Free
    <3>2. CASE b # a
      BY <1>2, <1>4, <2>1, <3>2 DEF InUse, Has, Free, Size
    <3> QED BY <3>1, <3>2
  <2> QED BY <2>1 DEF SameUsed
<1> QED BY <1>2, <1>3, <1>4, <1>6, <1>7 DEF m

(* Merging a node leaves only its predecessor at a new neighbour. *)
LEMMA MergedCoalesced ==
  ASSUME NEW n \in Nodes, Tiled(n), NEW a \in DOMAIN n \ {0, END_NODE}, NEW T,
         Coalesced(n, T \cup {a, n[a].pre})
  PROVE  /\ Coalesced(Merged(n, a), T \cup {n[a].pre})
         /\ Coalesced(n, T \cup {n[a].pre}) /\ a \notin T /\ ~n[a].used => Coalesced(Merged(n, a), T)
<1> DEFINE m == Merged(n, a)
           p == n[a].pre
           q == a + n[a].size
<1>1. /\ m \in Nodes /\ Tiled(m) /\ \A b : b \in DOMAIN m <=> b \in DOMAIN n /\ b # a
      /\ p \in DOMAIN m /\ p # END_NODE /\ m[p].size = n[p].size + n[a].size
      /\ \A b \in DOMAIN m : m[b].used <=> n[b].used
      /\ \A b \in DOMAIN m : b # p => m[b].size = n[b].size
  <2> DEFINE s == n[p].size + n[a].size
  <2>1. m = Merged(n, a) /\ p = n[a].pre /\ s = n[p].size + n[a].size
    OBVIOUS
  <2> HIDE DEF p, m, s
  <2>2. /\ m \in Nodes /\ Tiled(m) /\ \A b : b \in DOMAIN m <=> b \in DOMAIN n /\ b # a
        /\ p \in DOMAIN m /\ p # END_NODE /\ m[p].size = s
        /\ \A b \in DOMAIN m : m[b].used <=> n[b].used
        /\ \A b \in DOMAIN m : b # p => m[b].size = n[b].size
    BY <2>1, MergedFacts
  <2> QED BY <2>2 DEF s
<1>2. p + n[p].size = a /\ p \in Int /\ n[p].size \in Int /\ n[a].size \in Int
      /\ q \in DOMAIN n /\ q # a
  BY <1>1, NodeFacts
<1>3. p + m[p].size = q /\ q \in DOMAIN m
  BY <1>1, <1>2
<1> HIDE DEF m
<1>4. ASSUME NEW b \in DOMAIN m \ {END_NODE}, b # p
      PROVE  /\ (m[b].used <=> n[b].used) /\ m[b].size = n[b].size
             /\ (m[b + m[b].size].used <=> n[b + n[b].size].used)
  <2>1. b + n[b].size \in DOMAIN n /\ n[b + n[b].size].pre = b
    BY <1>1 DEF Tiled
  <2>2. b + n[b].size \in DOMAIN m
    BY <1>1, <1>4, <2>1
  <2> QED BY <1>1, <1>4, <2>2
<1> HIDE DEF p, q
<1>5. Coalesced(m, T \cup {p})
  <2>1. SUFFICES ASSUME NEW b \in DOMAIN m \ ({END_NODE} \cup (T \cup {p}))
                 PROVE  m[b].used \/ m[b + m[b].size].used
    BY DEF Coalesced
  <2>2. b \in DOMAIN n \ ({END_NODE} \cup (T \cup {a, p}))
    BY <1>1, <2>1
  <2>3. n[b].used \/ n[b + n[b].size].used
    BY <2>2 DEF Coalesced, p
  <2> QED BY <1>4, <2>3
<1>6. ASSUME Coalesced(n, T \cup {p}), a \notin T, ~n[a].used PROVE Coalesced(m, T)
  <2>1. n[q].used
    BY <1>1, <1>2, <1>6 DEF Coalesced, q
  <2>2. m[p + m[p].size].used
    BY <1>1, <1>3, <2>1
  <2> QED BY <1>5, <2>2 DEF Coalesced
<1> QED BY <1>5, <1>6 DEF m, p

(* Marking a node that is on its way as used or as free. *)
Mark(h, a, u) == [h EXCEPT !.node[a].used = u]

LEMMA MarkFacts ==
  ASSUME NEW h, NEW S, NEW T, NEW a, NEW u \in BOOLEAN, NEW x,
         Tidy(h, S, T), Has(h, a), a # END_NODE, a \in S, x = Mark(h, a, u)
  PROVE  /\ x \in Pools /\ Tiled(x.node) /\ Listing(x, S) /\ x.head = h.head
         /\ DOMAIN x.node = DOMAIN h.node
         /\ \A b : Has(x, b) <=> Has(h, b)
         /\ \A b : Has(h, b) => Size(x, b) = Size(h, b) /\ (b # a => (Free(x, b) <=> Free(h, b)))
         /\ (Free(x, a) <=> ~u)
         /\ SameUsed(h, x, a)
<1> DEFINE n == h.node
           m == [n EXCEPT ![a].used = u]
<1>1. h \in Pools /\ Tiled(n) /\ Listing(h, S) /\ n \in Nodes
      /\ n \in [DOMAIN n -> Header] /\ DOMAIN n \subseteq Addr
  BY PoolFields, NodesType DEF Tidy
<1>2. /\ DOMAIN m = DOMAIN n
      /\ \A b \in DOMAIN n : /\ m[b].size = n[b].size /\ m[b].pre = n[b].pre
                             /\ b # a => m[b] = n[b]
      /\ (m[a].used <=> u)
  BY <1>1 DEF Header, Has
<1>3. m \in Nodes
  <2>1. m \in [DOMAIN n -> Header]
    BY <1>1 DEF Header
  <2> QED BY <1>1, <1>2, <2>1, NodesType
<1>4. x = [h EXCEPT !.node = m]
  BY <1>1 DEF Pools, Mark
<1> HIDE DEF m, n
<1>5. x \in Pools /\ x.node = m /\ x.head = h.head
  BY <1>1, <1>3, <1>4, PoolFields
<1>6. Tiled(m)
  <2>1. \A b \in DOMAIN n : m[b].size = n[b].size /\ m[b].pre = n[b].pre
    BY <1>2
  <2>2. m[END_NODE].used
    BY <1>1, <1>2 DEF Tiled, n
  <2>3. /\ 0 \in DOMAIN m /\ END_NODE \in DOMAIN m
        /\ m[0].pre = NoNode /\ m[END_NODE].size = HEAD_SIZE
    BY <1>1, <1>2 DEF Tiled
  <2>4. ASSUME NEW b \in DOMAIN m \ {END_NODE}
        PROVE  /\ m[b].size > HEAD_SIZE
               /\ b + m[b].size \in DOMAIN m /\ m[b + m[b].size].pre = b
               /\ \A c \in DOMAIN m : c <= b \/ b + m[b].size <= c
    BY <1>1, <1>2, <2>1 DEF Tiled
  <2>5. ASSUME NEW b \in DOMAIN m \ {0}
        PROVE  m[b].pre \in DOMAIN m \ {END_NODE} /\ m[b].pre + m[m[b].pre].size = b
    BY <1>1, <1>2, <2>1 DEF Tiled
  <2> QED BY <2>2, <2>3, <2>4, <2>5 DEF Tiled
<1>7. \A b \in Addr \ S, c \in Classes : Belongs(x, b, c) <=> Belongs(h, b, c)
  BY <1>2, <1>5 DEF Belongs, n
<1>8. Listing(x, S)
  BY <1>1, <1>5, <1>7 DEF Listing
<1>9. SameUsed(h, x, a)
  <2>1. \A b \in DOMAIN n \ {a} : m[b] = n[b]
    BY <1>2
  <2> QED BY <1>2, <1>5, <2>1 DEF SameUsed, InUse, Has, Free, Size, n
<1>10. DOMAIN m = DOMAIN n /\ \A b \in DOMAIN n : b # a => (m[b].used <=> n[b].used)
  BY <1>2
<1> QED BY <1>2, <1>5, <1>6, <1>8, <1>9, <1>10 DEF n, Has, Size, Free

(* MergeNext, of a node whose size may change and which may be at a free one. *)
LEMMA MergeNextFacts ==
  ASSUME NEW h, NEW S, NEW T, NEW U, NEW a, NEW n, NEW x,
         Tidy(h, S, U), U = T \cup {a}, Has(h, a), a # END_NODE, a \in S,
         n = NextNode(h, a), n \notin S, n \notin T, x = MergeNext(h, a)
  PROVE  /\ Tidy(x, S, T) /\ Has(x, a) /\ (Free(x, a) <=> Free(h, a))
         /\ SameUsed(h, x, a)
         /\ \A b : Unlisted(h, b) => Unlisted(x, b)
         /\ \A b : Has(h, b) /\ b # a /\ b # n =>
              Has(x, b) /\ (Free(x, b) <=> Free(h, b)) /\ Size(x, b) = Size(h, b)
<1> DEFINE y == LOS_ListDelete(h, n)
<1>1. /\ Tiled(h.node) /\ h.node \in Nodes /\ Coalesced(h.node, T \cup {a})
      /\ h.node[a].size \in Nat /\ h.node[a].size >= HEAD_SIZE /\ a \in Int
      /\ n \in DOMAIN h.node /\ n # 0 /\ n # a /\ h.node[n].pre = a /\ n \in Int /\ n > a
      /\ n <= END_NODE
  <2>1. h.node \in Nodes
    BY PoolFields DEF Tidy
  <2>2. n = a + h.node[a].size
    BY DEF NextNode
  <2>3. Tiled(h.node) /\ Coalesced(h.node, T \cup {a})
    BY DEF Tidy
  <2>4. a \in DOMAIN h.node
    BY DEF Has
  <2>5. /\ a \in Int /\ h.node[a].size \in Nat /\ h.node[a].size > HEAD_SIZE /\ h.node[a].size >= HEAD_SIZE
        /\ n \in DOMAIN h.node /\ n # 0 /\ n # a /\ h.node[n].pre = a /\ n <= END_NODE
    BY <2>1, <2>2, <2>3, <2>4, NodeFacts
  <2>6. n > a
    BY <2>2, <2>5, PoolFacts
  <2> QED BY <2>1, <2>2, <2>3, <2>5, <2>6
<1>3. CASE ~Free(h, n)
  <2>1. x = h
    BY <1>3 DEF MergeNext
  <2>2. Coalesced(h.node, T)
    BY <1>1, <1>3 DEF Coalesced, Free, NextNode
  <2> QED BY <1>1, <2>1, <2>2 DEF Tidy, SameUsed, Has
<1>4. CASE Free(h, n)
  <2>1. x = osMemMergeNode(y, n)
    BY <1>4 DEF MergeNext
  <2>2. /\ Tidy(y, S \cup {n}, T \cup {a}) /\ y.node = h.node /\ Unlisted(y, n)
        /\ \A b : Unlisted(h, b) => Unlisted(y, b)
    BY ListDeleteFacts
  <2> HIDE DEF y
  <2>3. n \in DOMAIN y.node \ {0, END_NODE} /\ Free(y, n) /\ y.node[n].pre = a
    BY <1>1, <1>4, <2>2 DEF Tiled, Free
  <2>4. /\ x \in Pools /\ Tiled(x.node) /\ Listing(x, S)
        /\ x.node = Merged(y.node, n) /\ x.head = y.head
        /\ a \in DOMAIN x.node /\ a # END_NODE /\ (x.node[a].used <=> y.node[a].used)
        /\ SameUsed(y, x, a)
    <3> DEFINE R == S \cup {n}
    <3>1. R = S \cup {n} /\ Tidy(y, R, U)
      BY <2>2
    <3> HIDE DEF R
    <3> QED BY <2>1, <2>2, <2>3, <3>1, MergeNodeFacts
  <2>5. Coalesced(x.node, T)
    <3>1. Coalesced(h.node, T \cup {n, a}) /\ ~h.node[n].used
      BY <1>1, <1>4 DEF Coalesced, Free
    <3> QED BY <1>1, <2>2, <2>3, <2>4, <3>1, MergedCoalesced
  <2>6. SameUsed(h, x, a)
    BY <2>2, <2>4 DEF SameUsed, InUse, Has, Free, Size
  <2>7. \A b : Unlisted(y, b) => Unlisted(x, b)
    BY <2>4 DEF Unlisted
  <2>8. ASSUME NEW b, Has(h, b), b # a, b # n
        PROVE  Has(x, b) /\ (Free(x, b) <=> Free(h, b)) /\ Size(x, b) = Size(h, b)
    <3>2. n \in DOMAIN h.node \ {0, END_NODE} /\ x.node = Merged(h.node, n)
      BY <2>2, <2>3, <2>4
    <3> DEFINE m == x.node
               p == h.node[n].pre
               s == h.node[p].size + h.node[n].size
    <3>4. m = Merged(h.node, n) /\ p = h.node[n].pre /\ s = h.node[p].size + h.node[n].size
      BY <3>2
    <3> HIDE DEF m, p, s
    <3>3. /\ \A c : c \in DOMAIN m <=> c \in DOMAIN h.node /\ c # n
          /\ \A c \in DOMAIN m : m[c].used <=> h.node[c].used
          /\ \A c \in DOMAIN m : c # p => m[c].size = h.node[c].size
      BY <1>1, <3>2, <3>4, MergedFacts
    <3> QED BY <1>1, <2>8, <3>3 DEF m, p, Has, Free, Size
  <2>9. Has(x, a) /\ (Free(x, a) <=> Free(h, a))
    BY <2>2, <2>4 DEF Has, Free
  <2>10. Tidy(x, S, T)
    BY <2>4, <2>5 DEF Tidy
  <2> QED BY <2>2, <2>6, <2>7, <2>8, <2>9, <2>10
<1> QED BY <1>3, <1>4

(* osMemSpitNode. *)
LEMMA SplitFacts ==
  ASSUME NEW h, Tidy(h, {}, {}), NEW a \in DOMAIN h.node \ {END_NODE},
         NEW k \in Nat, k > HEAD_SIZE, Splits(k, Size(h, a)), NEW x, x = osMemSpitNode(h, a, k)
  PROVE  /\ Tidy(x, {a}, {a}) /\ Has(x, a) /\ Size(x, a) = k
         /\ (Free(x, a) <=> Free(h, a)) /\ SameUsed(h, x, a)
         /\ Unlisted(h, a) => Unlisted(x, a)
<1> DEFINE b == a + k
           m == CutNode(h.node, a, k)
           y == [h EXCEPT !.node = m]
           z == MergeNext(y, b)
<1>1. /\ h \in Pools /\ Tiled(h.node) /\ Listing(h, {}) /\ Coalesced(h.node, {})
      /\ h.node \in Nodes /\ DOMAIN h.node \subseteq Addr
      /\ h.node[a].size \in Nat /\ h.node[a].size - k > HEAD_SIZE /\ a \in Int
  <2>1. h \in Pools /\ h.node \in Nodes /\ Tiled(h.node)
    BY PoolFields DEF Tidy
  <2>2. h.node[a].size \in Nat /\ a \in Int
    BY <2>1, NodeFacts
  <2> QED BY <2>1, <2>2, NodesType, PoolFacts DEF Tidy, Splits, Size
<1>2. /\ m \in Nodes /\ Tiled(m) /\ b \notin DOMAIN h.node
      /\ \A c : c \in DOMAIN m <=> c \in DOMAIN h.node \/ c = b
      /\ b # END_NODE /\ b # a /\ m[a].size = k /\ (m[a].used <=> h.node[a].used)
      /\ ~m[b].used /\ m[b].pre = a /\ m[b].size \in Nat /\ m[b].size > HEAD_SIZE
      /\ \A c \in DOMAIN h.node : c # a => (m[c].used <=> h.node[c].used)
      /\ \A c \in DOMAIN h.node : c # a => m[c].size = h.node[c].size
  <2>1. m = CutNode(h.node, a, k) /\ b = a + k
    OBVIOUS
  <2> HIDE DEF y, z, m, b
  <2> QED BY <1>1, <2>1, CutFacts
<1>3. x = LOS_ListAdd(z, b)
  BY DEF osMemSpitNode, CutNode, NextNode
<1> HIDE DEF m
<1>4. y \in Pools /\ y.node = m /\ y.head = h.head
  BY <1>1, <1>2, PoolFields
<1> HIDE DEF y
<1>5. b \in Addr /\ b \in Int /\ a < b
  <2>1. b \in Addr
    BY <1>2, NodesType
  <2> QED BY <1>1, <2>1, PoolFacts
<1> HIDE DEF b
<1>6. Listing(y, {a, b})
  <2>1. SUFFICES ASSUME NEW c \in Classes, NEW d \in Addr \ {a, b}
                 PROVE  Contains(y.head[c], d) <=> Belongs(y, d, c)
    BY <1>1, <1>4 DEF Listing
  <2>2. Belongs(y, d, c) <=> Belongs(h, d, c)
    BY <1>2, <1>4 DEF Belongs
  <2> QED BY <1>1, <1>4, <2>2 DEF Listing
<1>7. Unlisted(y, b)
  BY <1>1, <1>2, <1>4, <1>5 DEF Unlisted, Listing, Belongs
<1>8. Coalesced(m, {a, b})
  <2>1. SUFFICES ASSUME NEW c \in DOMAIN h.node \ {END_NODE, a}
                 PROVE  m[c].used \/ m[c + m[c].size].used
    BY <1>2 DEF Coalesced
  <2>2. (m[c].used <=> h.node[c].used) /\ m[c].size = h.node[c].size /\ c + h.node[c].size \in DOMAIN h.node
    BY <1>1, <1>2 DEF Tiled
  <2>3. h.node[c].used \/ h.node[c + h.node[c].size].used
    BY <1>1 DEF Coalesced
  <2>4. (m[c + h.node[c].size].used <=> h.node[c + h.node[c].size].used)
    BY <1>2, <2>2
  <2> QED BY <2>2, <2>3, <2>4
<1>9. Tidy(y, {a, b}, {a} \cup {b})
  BY <1>2, <1>4, <1>6, <1>8 DEF Tidy
<1>10. b \in DOMAIN y.node \ {END_NODE} /\ NextNode(y, b) \notin {a, b} \cup {a}
  <2>1. b + m[b].size # a /\ b + m[b].size # b
    BY <1>1, <1>2, <1>5, PoolFacts
  <2> QED BY <1>2, <1>4, <2>1 DEF NextNode
<1>11. /\ Tidy(z, {a, b}, {a}) /\ Has(z, b) /\ (Free(z, b) <=> Free(y, b))
       /\ SameUsed(y, z, b) /\ (\A c : Unlisted(y, c) => Unlisted(z, c))
       /\ Has(z, a) /\ (Free(z, a) <=> Free(y, a)) /\ Size(z, a) = Size(y, a)
  <2>1. a \in DOMAIN y.node /\ a # b /\ a # NextNode(y, b)
    BY <1>2, <1>4, <1>5, <1>10
  <2> DEFINE R == {a, b}
             Q == {a}
             U == Q \cup {b}
             n == NextNode(y, b)
  <2>2. Tidy(y, R, U) /\ b \in R /\ n \notin R /\ n \notin Q /\ U = Q \cup {b}
    BY <1>9, <1>10
  <2> HIDE DEF R, Q, U, n, z
  <2>3. z = MergeNext(y, b) /\ n = NextNode(y, b)
    BY DEF z, n
  <2>4. Has(y, b) /\ b # END_NODE
    BY <1>10 DEF Has
  <2>5. /\ Tidy(z, R, Q) /\ Has(z, b) /\ (Free(z, b) <=> Free(y, b))
        /\ SameUsed(y, z, b)
        /\ \A c : Unlisted(y, c) => Unlisted(z, c)
        /\ \A c : Has(y, c) /\ c # b /\ c # n =>
             Has(z, c) /\ (Free(z, c) <=> Free(y, c)) /\ Size(z, c) = Size(y, c)
    BY <2>2, <2>3, <2>4, MergeNextFacts
  <2> QED BY <2>1, <2>3, <2>5 DEF R, Q, Has
<1> HIDE DEF z
<1>12. Tidy(z, {a} \cup {b}, {a}) /\ Unlisted(z, b) /\ Free(z, b) /\ b \notin {a}
  <2>1. {a, b} = {a} \cup {b}
    OBVIOUS
  <2> QED BY <1>2, <1>4, <1>7, <1>11, <2>1 DEF Free
<1>13. Tidy(x, {a}, {a}) /\ x.node = z.node /\ (Unlisted(z, a) => Unlisted(x, a))
  <2> DEFINE R == {a}
             U == R \cup {b}
  <2>1. Tidy(z, U, R) /\ b \notin R /\ Has(z, b) /\ U = R \cup {b}
    BY <1>11, <1>12
  <2> HIDE DEF R, U
  <2>2. Tidy(x, R, R) /\ x.node = z.node /\ \A c \in R : Unlisted(z, c) => Unlisted(x, c)
    BY <1>3, <1>12, <2>1, ListAddFacts
  <2> QED BY <2>2 DEF R
<1>14. SameUsed(h, x, a)
  <2>1. ASSUME NEW c \in Addr \ {a}
        PROVE  (InUse(h, c) <=> InUse(x, c)) /\ (InUse(h, c) => Size(h, c) = Size(x, c))
    <3>1. CASE c = b
      BY <1>2, <1>4, <1>11, <1>13, <3>1 DEF InUse, Has, Free
    <3>2. CASE c # b
      <4>1. (InUse(h, c) <=> InUse(y, c)) /\ (InUse(h, c) => Size(h, c) = Size(y, c))
        BY <1>2, <1>4, <2>1, <3>2 DEF InUse, Has, Free, Size
      <4>2. (InUse(y, c) <=> InUse(z, c)) /\ (InUse(y, c) => Size(y, c) = Size(z, c))
        BY <1>11, <3>2 DEF SameUsed
      <4> QED BY <1>13, <4>1, <4>2 DEF InUse, Has, Free, Size
    <3> QED BY <3>1, <3>2
  <2> QED BY <2>1 DEF SameUsed
<1>15. Unlisted(h, a) => Unlisted(x, a)
  <2>1. Unlisted(h, a) => Unlisted(y, a)
    BY <1>4 DEF Unlisted
  <2> QED BY <1>11, <1>13, <2>1
<1>16. Has(x, a) /\ Size(x, a) = k /\ (Free(x, a) <=> Free(h, a))
  BY <1>2, <1>4, <1>11, <1>13 DEF Has, Size, Free
<1> QED BY <1>13, <1>14, <1>15, <1>16

(* AllocNode, of a free node that is large enough. *)
LEMMA AllocNodeFacts ==
  ASSUME NEW h, NEW a, NEW k \in Nat, NEW x,
         Tidy(h, {}, {}), Has(h, a), a # END_NODE, Free(h, a), Size(h, a) >= k, k > HEAD_SIZE,
         x = AllocNode(h, a, k)
  PROVE  /\ Tidy(x, {}, {}) /\ InUse(x, a) /\ Size(x, a) >= k /\ Size(x, a) \in Nat
         /\ SameUsed(h, x, a)
<1> DEFINE y == IF Splits(k, Size(h, a)) THEN osMemSpitNode(h, a, k) ELSE h
           z == LOS_ListDelete(y, a)
<1>1. x = Mark(z, a, TRUE)
  BY DEF AllocNode, Size, Mark
<1>2. /\ Tidy(y, {a}, {a}) /\ Has(y, a) /\ Size(y, a) >= k /\ Size(y, a) \in Nat
      /\ SameUsed(h, y, a)
  <2>1. Size(h, a) \in Nat
    BY PoolFields, NodeFacts DEF Tidy, Has, Size
  <2>2. CASE Splits(k, Size(h, a))
    <3>1. a \in DOMAIN h.node \ {END_NODE}
      BY DEF Has
    <3> QED BY <2>2, <3>1, SplitFacts
  <2>3. CASE ~Splits(k, Size(h, a))
    <3>1. y = h
      BY <2>3
    <3>2. Tidy(h, {} \cup {a}, {} \cup {a}) /\ {} \cup {a} = {a}
      BY Looser
    <3>3. Tidy(h, {a}, {a})
      BY <3>2
    <3> QED BY <2>1, <3>1, <3>3 DEF SameUsed
  <2> QED BY <2>2, <2>3
<1> HIDE DEF y
<1>3. Tidy(z, {a}, {a}) /\ z.node = y.node /\ Unlisted(z, a)
  <2>1. Tidy(z, {a} \cup {a}, {a}) /\ z.node = y.node /\ Unlisted(z, a)
    BY <1>2, ListDeleteFacts
  <2>2. {a} \cup {a} = {a}
    OBVIOUS
  <2> QED BY <2>1, <2>2
<1> HIDE DEF z
<1>4. Has(z, a) /\ TRUE \in BOOLEAN
  BY <1>2, <1>3 DEF Has
<1>5. /\ x \in Pools /\ Tiled(x.node) /\ Listing(x, {a}) /\ x.head = z.head
      /\ \A b : Has(x, b) <=> Has(z, b)
      /\ \A b : Has(z, b) => Size(x, b) = Size(z, b) /\ (b # a => (Free(x, b) <=> Free(z, b)))
      /\ ~Free(x, a)
      /\ SameUsed(z, x, a)
  <2> DEFINE S == {a}
  <2>1. Tidy(z, S, S) /\ a \in S
    BY <1>3
  <2> HIDE DEF S
  <2>2. /\ x \in Pools /\ Tiled(x.node) /\ Listing(x, S) /\ x.head = z.head
        /\ \A b : Has(x, b) <=> Has(z, b)
        /\ \A b : Has(z, b) => Size(x, b) = Size(z, b) /\ (b # a => (Free(x, b) <=> Free(z, b)))
        /\ ~Free(x, a)
        /\ SameUsed(z, x, a)
    BY <1>1, <1>4, <2>1, MarkFacts
  <2> QED BY <2>2 DEF S
<1>6. Coalesced(x.node, {a})
  <2>1. SUFFICES ASSUME NEW b \in DOMAIN z.node \ {END_NODE, a}
                 PROVE  x.node[b].used \/ x.node[b + x.node[b].size].used
    BY <1>5 DEF Coalesced, Has
  <2>2. z.node[b].used \/ z.node[b + z.node[b].size].used
    BY <1>3 DEF Tidy, Coalesced
  <2>3. b + z.node[b].size \in DOMAIN z.node
    BY <1>3 DEF Tidy, Tiled
  <2>4. x.node[b].size = z.node[b].size /\ (x.node[b].used <=> z.node[b].used)
    BY <1>5 DEF Has, Size, Free
  <2> DEFINE c == b + z.node[b].size
  <2>5. z.node[c].used => x.node[c].used
    BY <1>5, <2>3 DEF Has, Free
  <2> QED BY <2>2, <2>4, <2>5
<1>7. InUse(x, a) /\ Size(x, a) = Size(y, a)
  <2>1. Size(z, a) = Size(y, a)
    BY <1>3 DEF Size
  <2> QED BY <1>4, <1>5, <2>1 DEF InUse
<1>8. Unlisted(x, a)
  BY <1>3, <1>5 DEF Unlisted
<1>9. Tidy(x, {}, {})
  <2>1. Tidy(x, {} \cup {a}, {} \cup {a})
    <3>1. {} \cup {a} = {a}
      OBVIOUS
    <3> QED BY <1>5, <1>6, <3>1 DEF Tidy
  <2> QED BY <1>7, <1>8, <2>1, Settled
<1>10. SameUsed(h, x, a)
  <2>1. \A b : (InUse(y, b) <=> InUse(z, b)) /\ Size(y, b) = Size(z, b)
    BY <1>3 DEF InUse, Has, Free, Size
  <2> QED BY <1>2, <1>5, <2>1 DEF SameUsed
<1> QED BY <1>2, <1>7, <1>9, <1>10

(* osMemFreeNode, of a used node. *)
LEMMA FreeNodeFacts ==
  ASSUME NEW h, NEW a, NEW x, Tidy(h, {}, {}), InUse(h, a), a # END_NODE, x = osMemFreeNode(h, a)
  PROVE  Tidy(x, {}, {}) /\ ~InUse(x, a) /\ SameUsed(h, x, a)
<1> DEFINE y == Mark(h, a, FALSE)
           p == y.node[a].pre
<1>1. /\ a \in DOMAIN h.node /\ a \in Addr /\ ~Free(h, a) /\ h.node \in Nodes /\ Tiled(h.node)
  BY PoolFields, NodesType DEF Tidy, InUse, Has
<1>2. Unlisted(h, a)
  BY <1>1, UsedUnlisted
<1>3. Tidy(h, {a}, {})
  BY Looser
<1> HIDE DEF y
<1>5. /\ y \in Pools /\ Tiled(y.node) /\ Listing(y, {a}) /\ y.head = h.head
      /\ DOMAIN y.node = DOMAIN h.node
      /\ \A b \in DOMAIN h.node : y.node[b].size = h.node[b].size
      /\ \A b \in DOMAIN h.node : b # a => (y.node[b].used <=> h.node[b].used)
      /\ ~y.node[a].used
      /\ SameUsed(h, y, a)
  <2> DEFINE S == {a}
             T == {}
             u == FALSE
  <2>1. Tidy(h, S, T) /\ a \in S /\ Has(h, a) /\ u \in BOOLEAN /\ ~u
    BY <1>1, <1>3 DEF Has
  <2>3. y = Mark(h, a, u)
    BY DEF y
  <2> HIDE DEF S, T, u
  <2>2. /\ y \in Pools /\ Tiled(y.node) /\ Listing(y, S) /\ y.head = h.head
        /\ DOMAIN y.node = DOMAIN h.node
        /\ \A b : Has(y, b) <=> Has(h, b)
        /\ \A b : Has(h, b) => Size(y, b) = Size(h, b) /\ (b # a => (Free(y, b) <=> Free(h, b)))
        /\ Free(y, a)
        /\ SameUsed(h, y, a)
    BY <2>1, <2>3, MarkFacts
  <2> QED BY <2>2 DEF S, Has, Size, Free
<1>6. Unlisted(y, a) /\ Has(y, a) /\ Free(y, a) /\ y.node \in Nodes
  BY <1>1, <1>2, <1>5, PoolFields DEF Unlisted, Has, Free
<1>7. Coalesced(y.node, {a, p})
  <2>1. SUFFICES ASSUME NEW b \in DOMAIN y.node \ {END_NODE, a, p}
                 PROVE  y.node[b].used \/ y.node[b + y.node[b].size].used
    BY DEF Coalesced
  <2>2. h.node[b].used \/ h.node[b + h.node[b].size].used
    BY <1>5 DEF Tidy, Coalesced
  <2>3. b + y.node[b].size \in DOMAIN y.node /\ y.node[b + y.node[b].size].pre = b
    BY <1>5 DEF Tiled
  <2>4. b + y.node[b].size # a
    BY <2>3
  <2> QED BY <1>5, <2>2, <2>3, <2>4
<1>8. CASE p # NoNode /\ Free(y, p)
  <2> DEFINE m == osMemMergeNode(y, a)
             w == MergeNext(m, p)
             z == LOS_ListDelete(w, p)
  <2>1. x = LOS_ListAdd(z, p)
    BY <1>8 DEF osMemFreeNode, y, Mark
  <2>2. a # 0 /\ p \in DOMAIN y.node /\ p # a /\ p # END_NODE /\ p \in Addr
    <3>1. a # 0
      BY <1>5, <1>8 DEF Tiled
    <3> QED BY <1>1, <1>5, <1>6, <3>1, NodeFacts, NodesType
  <2>3. Tidy(y, {p} \cup {a}, {a, p}) /\ a \in DOMAIN y.node \ {0, END_NODE} /\ p \in {p}
    <3>1. Listing(y, {p} \cup {a})
      BY <1>5 DEF Listing
    <3> QED BY <1>1, <1>5, <1>7, <2>2, <3>1 DEF Tidy
  <2>4. /\ m \in Pools /\ Tiled(m.node) /\ Listing(m, {p})
        /\ m.node = Merged(y.node, a) /\ m.head = y.head
        /\ p \in DOMAIN m.node /\ p # END_NODE /\ (m.node[p].used <=> y.node[p].used)
        /\ SameUsed(y, m, p)
    <3> DEFINE R == {p} \cup {a}
               S == {p}
    <3>1. Tidy(y, R, {a, p}) /\ R = S \cup {a} /\ p \in S
      BY <2>3
    <3>2. p = y.node[a].pre /\ m = osMemMergeNode(y, a)
      OBVIOUS
    <3> HIDE DEF R, S, p, m
    <3>3. /\ m \in Pools /\ Tiled(m.node) /\ Listing(m, S)
          /\ m.node = Merged(y.node, a) /\ m.head = y.head
          /\ p \in DOMAIN m.node /\ p # END_NODE /\ (m.node[p].used <=> y.node[p].used)
          /\ SameUsed(y, m, p)
      BY <1>6, <2>3, <3>1, <3>2, MergeNodeFacts
    <3> QED BY <3>3 DEF S
  <2>5. Coalesced(m.node, {p})
    <3>1. Coalesced(y.node, {} \cup {a, y.node[a].pre}) /\ {} \cup {y.node[a].pre} = {p}
      BY <1>7
    <3>2. Coalesced(Merged(y.node, a), {} \cup {y.node[a].pre})
      BY <1>5, <1>6, <2>3, <3>1, MergedCoalesced
    <3> QED BY <2>4, <3>1, <3>2
  <2> HIDE DEF m
  <2>6. /\ Tidy(w, {p}, {}) /\ Has(w, p) /\ (Free(w, p) <=> Free(m, p)) /\ SameUsed(m, w, p)
    <3> DEFINE S == {p}
               n == NextNode(m, p)
               T == {}
    <3>1. Tidy(m, S, S) /\ p \in S /\ S = T \cup {p} /\ n \notin T
      BY <2>4, <2>5 DEF Tidy
    <3>2. n \notin S
      <4>1. m.node \in Nodes
        BY <2>4, PoolFields
      <4>2. p + m.node[p].size # p
        BY <2>4, <4>1, NodeFacts
      <4> QED BY <4>2 DEF NextNode
    <3>3. Has(m, p) /\ w = MergeNext(m, p) /\ n = NextNode(m, p)
      BY <2>4 DEF Has
    <3> HIDE DEF S, n, T, w, p
    <3>4. /\ Tidy(w, S, T) /\ Has(w, p) /\ (Free(w, p) <=> Free(m, p)) /\ SameUsed(m, w, p)
      BY <2>4, <3>1, <3>2, <3>3, MergeNextFacts
    <3> QED BY <3>4 DEF S, T
  <2> HIDE DEF w
  <2>7. Tidy(z, {} \cup {p}, {}) /\ z.node = w.node /\ Unlisted(z, p)
    <3>1. Tidy(z, {p} \cup {p}, {}) /\ z.node = w.node /\ Unlisted(z, p)
      BY <2>6, ListDeleteFacts
    <3>2. {p} \cup {p} = {} \cup {p}
      OBVIOUS
    <3> QED BY <3>1, <3>2
  <2> HIDE DEF z
  <2>8. Free(z, p) /\ Has(z, p)
    BY <1>8, <2>4, <2>6, <2>7 DEF Free, Has
  <2>9. Tidy(x, {}, {}) /\ x.node = z.node
    <3> DEFINE S == {}
               R == S \cup {p}
               T == {}
    <3>1. Tidy(z, R, T) /\ R = S \cup {p} /\ p \notin S /\ Unlisted(z, p)
      BY <2>7
    <3> HIDE DEF S, R, T, p
    <3>2. Tidy(x, S, T) /\ x.node = z.node
      BY <2>1, <2>8, <3>1, ListAddFacts
    <3> QED BY <3>2 DEF S, T
  <2>10. ASSUME NEW b \in Addr \ {a}
         PROVE  (InUse(h, b) <=> InUse(x, b)) /\ (InUse(h, b) => Size(h, b) = Size(x, b))
    <3>1. CASE b = p
      BY <1>5, <1>8, <2>2, <2>8, <2>9, <3>1 DEF InUse, Has, Free
    <3>2. CASE b # p
      <4>1. (InUse(h, b) <=> InUse(y, b)) /\ (InUse(h, b) => Size(h, b) = Size(y, b))
        BY <1>5, <2>10 DEF SameUsed
      <4>2. (InUse(y, b) <=> InUse(m, b)) /\ (InUse(y, b) => Size(y, b) = Size(m, b))
        BY <2>4, <2>10, <3>2 DEF SameUsed
      <4>3. (InUse(m, b) <=> InUse(w, b)) /\ (InUse(m, b) => Size(m, b) = Size(w, b))
        BY <2>6, <2>10, <3>2 DEF SameUsed
      <4>4. (InUse(w, b) <=> InUse(x, b)) /\ Size(w, b) = Size(x, b)
        BY <2>7, <2>9 DEF InUse, Has, Free, Size
      <4> QED BY <4>1, <4>2, <4>3, <4>4
    <3> QED BY <3>1, <3>2
  <2>11. ~InUse(x, a)
    <3>1. (InUse(y, a) <=> InUse(m, a)) /\ (InUse(m, a) <=> InUse(w, a)) /\ ~InUse(y, a)
      BY <1>1, <1>6, <2>2, <2>4, <2>6 DEF SameUsed, InUse
    <3> QED BY <2>7, <2>9, <3>1 DEF InUse, Has, Free
  <2> QED BY <2>9, <2>10, <2>11 DEF SameUsed
<1>9. CASE ~(p # NoNode /\ Free(y, p))
  <2> DEFINE w == MergeNext(y, a)
  <2>1. x = LOS_ListAdd(w, a)
    BY <1>9 DEF osMemFreeNode, y, Mark
  <2>2. Coalesced(y.node, {a})
    <3>1. p = NoNode \/ y.node[p].used
      BY <1>9 DEF Free
    <3>2. p = NoNode => p \notin DOMAIN y.node
      BY <1>6, NodesType, PoolFacts
    <3> QED BY <1>7, <3>1, <3>2 DEF Coalesced
  <2>3. Tidy(w, {a}, {}) /\ Has(w, a) /\ (Free(w, a) <=> Free(y, a)) /\ SameUsed(y, w, a)
        /\ Unlisted(w, a)
    <3> DEFINE S == {a}
               n == NextNode(y, a)
               T == {}
    <3>1. Tidy(y, S, S) /\ a \in S /\ S = T \cup {a} /\ n \notin T
      BY <1>5, <2>2 DEF Tidy
    <3>2. n \notin S
      <4>1. a + y.node[a].size # a
        BY <1>5, <1>6, NodeFacts DEF Has
      <4> QED BY <4>1 DEF NextNode
    <3>3. w = MergeNext(y, a) /\ n = NextNode(y, a)
      OBVIOUS
    <3> HIDE DEF S, n, T, w
    <3>4. /\ Tidy(w, S, T) /\ Has(w, a) /\ (Free(w, a) <=> Free(y, a)) /\ SameUsed(y, w, a)
          /\ \A b : Unlisted(y, b) => Unlisted(w, b)
      BY <1>6, <3>1, <3>2, <3>3, MergeNextFacts
    <3> QED BY <1>6, <3>4 DEF S, T
  <2> HIDE DEF w
  <2>4. Free(w, a)
    BY <1>6, <2>3
  <2>5. Tidy(x, {}, {}) /\ x.node = w.node
    <3> DEFINE S == {}
               R == {a}
               T == {}
    <3>1. Tidy(w, R, T) /\ R = S \cup {a} /\ a \notin S
      BY <2>3
    <3> HIDE DEF S, R, T
    <3>2. Tidy(x, S, T) /\ x.node = w.node
      BY <2>1, <2>3, <2>4, <3>1, ListAddFacts
    <3> QED BY <3>2 DEF S, T
  <2>6. SameUsed(h, x, a)
    BY <1>5, <2>3, <2>5 DEF SameUsed, InUse, Has, Free, Size
  <2>7. ~InUse(x, a)
    BY <2>4, <2>5 DEF InUse, Free
  <2> QED BY <2>5, <2>6, <2>7
<1> QED BY <1>8, <1>9

(* osMemFindSuitableFreeBlock finds a free node that is large enough, or there is none. *)
LEMMA FindFacts ==
  ASSUME NEW h, NEW k \in Nat, NEW a,
         Tidy(h, {}, {}), k >= 1, a = osMemFindSuitableFreeBlock(h, k)
  PROVE  /\ a # NoNode => /\ Has(h, a) /\ Free(h, a) /\ a # END_NODE /\ a \in Addr
                          /\ Size(h, a) \in Nat /\ Size(h, a) >= k
         /\ a = NoNode => \A b : Has(h, b) /\ Free(h, b) => Size(h, b) \in Nat /\ Size(h, b) < k
<1> DEFINE fitting(c) == {i \in 1 .. Len(h.head[c]) : Size(h, h.head[c][i]) >= k}
           classes == {c \in Class(k) .. MAX_LOG2 : fitting(c) # {}}
           first == Min(classes)
<1>1. /\ h.head \in [Classes -> Seq(Addr)] /\ Listing(h, {}) /\ Tiled(h.node)
      /\ h.node \in [DOMAIN h.node -> Header] /\ DOMAIN h.node \subseteq Addr
  BY PoolFields, NodesType DEF Tidy
<1>2. Class(k) \in Classes /\ MAX_LOG2 \in Nat
  BY ClassFacts, MemoryAssumption
<1>3. \A b : Has(h, b) => Size(h, b) \in Nat
  BY <1>1 DEF Has, Size, Header
<1>4. ASSUME classes # {}
      PROVE  Has(h, a) /\ Free(h, a) /\ a # END_NODE /\ a \in Addr /\ Size(h, a) >= k
  <2>1. classes \in SUBSET Nat
    BY <1>2 DEF Classes
  <2> HIDE DEF classes
  <2>2. first \in classes
    BY <1>4, <2>1, MinFacts
  <2> HIDE DEF first
  <2>3. first \in Classes /\ fitting(first) # {}
    BY <1>2, <2>2 DEF Classes, classes
  <2>4. fitting(first) \in SUBSET Nat
    <3>1. h.head[first] \in Seq(Addr)
      BY <1>1, <2>3
    <3> QED BY <3>1
  <2> DEFINE i == Min(fitting(first))
  <2>5. a = h.head[first][i]
    BY <1>4 DEF osMemFindSuitableFreeBlock, classes, first
  <2>6. i \in fitting(first)
    BY <2>3, <2>4, MinFacts
  <2> HIDE DEF i
  <2>7. i \in 1 .. Len(h.head[first]) /\ Size(h, a) >= k
    BY <2>5, <2>6
  <2>8. h.head[first] \in Seq(Addr)
    BY <1>1, <2>3
  <2>9. a \in Addr /\ Contains(h.head[first], a)
    BY <2>5, <2>7, <2>8 DEF Contains
  <2>10. Belongs(h, a, first)
    BY <1>1, <2>3, <2>9 DEF Listing
  <2> QED BY <1>1, <2>7, <2>9, <2>10 DEF Belongs, Has, Free, Tiled
<1>5. ASSUME classes = {} PROVE a = NoNode
  BY <1>5 DEF osMemFindSuitableFreeBlock
<1>6. ASSUME classes = {}, NEW b, Has(h, b), Free(h, b) PROVE Size(h, b) < k
  <2>1. SUFFICES ASSUME Size(h, b) >= k PROVE FALSE
    BY <1>3, <1>6
  <2> DEFINE c == Class(Size(h, b))
  <2>2. Size(h, b) \in Nat
    BY <1>3, <1>6
  <2>3. c \in Classes /\ Class(k) <= c
    BY <2>1, <2>2, ClassFacts
  <2>4. Belongs(h, b, c) /\ b \in Addr
    BY <1>1, <1>6 DEF Belongs, Has, Free, Size
  <2> HIDE DEF c
  <2>5. Contains(h.head[c], b)
    BY <1>1, <2>3, <2>4 DEF Listing
  <2>6. PICK i \in 1 .. Len(h.head[c]) : h.head[c][i] = b
    BY <2>5 DEF Contains
  <2>7. i \in fitting(c)
    BY <2>1, <2>6
  <2>8. c \in Class(k) .. MAX_LOG2
    BY <1>2, <2>3 DEF Classes
  <2> QED BY <1>6, <2>7, <2>8
<1>7. NoNode \notin Addr
  BY PoolFacts
<1> QED BY <1>3, <1>4, <1>5, <1>6, <1>7

(***************************************************************************)
(* The pointers.                                                           *)
(***************************************************************************)

(* Stretches behind the headers of two nodes do not overlap. *)
LEMMA Apart ==
  ASSUME NEW n, NEW c, NEW d, NEW p \in Int, NEW q \in Int, NEW s \in Nat, NEW t \in Nat,
         n \in Nodes, Tiled(n), c \in DOMAIN n, d \in DOMAIN n, c # END_NODE, d # END_NODE, c # d,
         c < p, p + s <= c + n[c].size, d < q, q + t <= d + n[d].size
  PROVE  p + s <= q \/ q + t <= p
<1>1. c \in Int /\ d \in Int /\ n[c].size \in Nat /\ n[d].size \in Nat
  BY NodeFacts
<1>2. (d <= c \/ c + n[c].size <= d) /\ (c <= d \/ d + n[d].size <= c)
  BY DEF Tiled
<1> QED BY <1>1, <1>2

LEMMA BecomesFacts ==
  ASSUME NEW h, h \in Pools, Becomes(h)
  PROVE  Pool' = h
BY DEF Pools, Becomes, Pool

LEMMA PointerFacts ==
  ASSUME MemInv, NEW p \in DOMAIN block
  PROVE  /\ p \in Int /\ block[p].size \in Nat /\ block[p].size >= 1 /\ block[p].gap \in Nat
         /\ block[p].shift \in Nat
         /\ Base(p) \in Int /\ Base(p) + HEAD_SIZE <= p /\ Base(p) < p
         /\ InUse(Pool, Base(p)) /\ Base(p) # END_NODE /\ Base(p) \in Addr
         /\ Size(Pool, Base(p)) \in Nat
         /\ p + block[p].size <= Base(p) + Size(Pool, Base(p))
<1>1. block[p] \in [size : Nat \ {0}, gap : Nat, shift : Nat] /\ p \in Int
  BY DEF MemInv, PointerType
<1>2. /\ InUse(Pool, Base(p)) /\ Base(p) # END_NODE
      /\ p + block[p].size <= Base(p) + Size(Pool, Base(p))
  BY DEF MemInv, Pointers, NextNode, Size
<1>3. Base(p) \in Int /\ Base(p) + HEAD_SIZE <= p /\ Base(p) < p
  BY <1>1, PoolFacts DEF Base
<1>4. Pool.node \in Nodes
  BY PoolFields DEF MemInv, Tidy
<1>5. Base(p) \in Addr /\ Size(Pool, Base(p)) \in Nat
  BY <1>2, <1>4, NodesType DEF InUse, Has, Size, Header
<1> QED BY <1>1, <1>2, <1>3, <1>5

(* A pointer p into node a takes the place of the pointers old, whose nodes are no
   longer in use unless one of them is a. *)
LEMMA Giving ==
  ASSUME NEW old \in SUBSET DOMAIN block, NEW a, NEW p, NEW b,
         MemInv, Tidy(Pool', {}, {}), InUse(Pool', a), a # END_NODE,
         InUse(Pool, a) => \E q \in old : Base(q) = a,
         \A c \in Addr : c # a =>
           /\ InUse(Pool', c) <=> InUse(Pool, c) /\ \A q \in old : Base(q) # c
           /\ InUse(Pool', c) => Size(Pool', c) = Size(Pool, c),
         Given(old, p, b), b \in [size : Nat \ {0}, gap : Nat, shift : Nat],
         p = a + HEAD_SIZE + b.gap, p + b.size <= a + Size(Pool', a)
  PROVE  PointerType' /\ Pointers' /\ (\A q \in DOMAIN block \ old : p # q)
<1>1. /\ Pool'.node \in Nodes /\ Tiled(Pool'.node) /\ a \in Addr /\ a \in Int /\ p \in Int /\ a < p
      /\ b.size \in Nat /\ b.size >= 1 /\ b.gap \in Nat /\ Size(Pool', a) \in Nat
      /\ a + HEAD_SIZE <= p
  <2>1. Pool'.node \in Nodes /\ Tiled(Pool'.node)
    BY PoolFields DEF Tidy
  <2>2. a \in Addr /\ Size(Pool', a) \in Nat
    BY <2>1, NodesType DEF InUse, Has, Size, Header
  <2>3. a \in Int /\ b.size \in Nat /\ b.size >= 1 /\ b.gap \in Nat
    BY <2>2, PoolFacts
  <2> QED BY <2>1, <2>2, <2>3, PoolFacts
<1>2. ASSUME NEW q \in DOMAIN block \ old
      PROVE  InUse(Pool', Base(q)) /\ Base(q) # a /\ Size(Pool', Base(q)) = Size(Pool, Base(q))
  <2>1. InUse(Pool, Base(q)) /\ Base(q) \in Addr
    BY PointerFacts
  <2>2. \A o \in old : Base(o) # Base(q)
    BY DEF MemInv, Pointers
  <2>3. Base(q) # a
    BY <2>1, <2>2
  <2> QED BY <2>1, <2>2, <2>3
<1>3. ASSUME NEW q \in DOMAIN block \ old PROVE p # q
  <2> DEFINE n == Pool'.node
             c == Base(q)
             s == b.size
             t == block[q].size
  <2>1. /\ q \in Int /\ t \in Nat /\ t >= 1 /\ c < q /\ q + t <= c + n[c].size
        /\ c \in DOMAIN n /\ c # END_NODE /\ c # a
    BY <1>2, PointerFacts DEF Size, InUse, Has
  <2>2. /\ s \in Nat /\ s >= 1 /\ a \in DOMAIN n /\ p + s <= a + n[a].size
        /\ n \in Nodes /\ Tiled(n)
    BY <1>1 DEF Size, InUse, Has
  <2> HIDE DEF n, c, s, t
  <2>3. p + s <= q \/ q + t <= p
    BY <1>1, <2>1, <2>2, Apart
  <2> QED BY <1>1, <2>1, <2>2, <2>3
<1>4. /\ DOMAIN block' = (DOMAIN block \ old) \cup {p}
      /\ block'[p] = b
      /\ \A q \in DOMAIN block \ old : block'[q] = block[q]
  BY <1>3 DEF Given
<1>5. Base(p)' = a /\ \A q \in DOMAIN block \ old : Base(q)' = Base(q)
  BY <1>1, <1>4, PoolFacts DEF Base
<1>6. PointerType'
  BY <1>1, <1>4 DEF MemInv, PointerType
<1>7. ASSUME NEW q \in DOMAIN block'
      PROVE  /\ InUse(Pool', Base(q)') /\ Base(q)' # END_NODE
             /\ q + block'[q].size <= NextNode(Pool', Base(q)')
  <2>1. CASE q = p
    BY <1>4, <1>5, <2>1 DEF NextNode, Size
  <2>2. CASE q # p
    <3>1. q \in DOMAIN block \ old
      BY <1>4, <2>2
    <3>2. /\ Base(q) # END_NODE /\ q + block[q].size <= Base(q) + Size(Pool, Base(q))
      BY <3>1, PointerFacts
    <3> QED BY <1>2, <1>4, <1>5, <3>1, <3>2 DEF NextNode, Size
  <2> QED BY <2>1, <2>2
<1>8. ASSUME NEW c \in Addr \ {END_NODE}, InUse(Pool', c)
      PROVE  \E q \in DOMAIN block' : Base(q)' = c
  <2>1. CASE c = a
    BY <1>4, <1>5, <2>1
  <2>2. CASE c # a
    <3>1. InUse(Pool, c) /\ \A q \in old : Base(q) # c
      BY <1>8, <2>2
    <3>2. PICK q \in DOMAIN block : Base(q) = c
      BY <3>1 DEF MemInv, Pointers
    <3> QED BY <1>4, <1>5, <3>1, <3>2
  <2> QED BY <2>1, <2>2
<1>9. ASSUME NEW q \in DOMAIN block', NEW r \in DOMAIN block', Base(q)' = Base(r)' PROVE q = r
  <2>1. \A x \in DOMAIN block' : x = p \/ x \in DOMAIN block \ old
    BY <1>4
  <2>2. \A x \in DOMAIN block \ old : Base(x)' # a
    BY <1>2, <1>5
  <2>3. CASE q = p \/ r = p
    BY <1>5, <1>9, <2>1, <2>2, <2>3
  <2>4. CASE q # p /\ r # p
    <3>1. q \in DOMAIN block \ old /\ r \in DOMAIN block \ old
      BY <2>1, <2>4
    <3>2. Base(q) = Base(r)
      BY <1>5, <1>9, <3>1
    <3> QED BY <3>1, <3>2 DEF MemInv, Pointers
  <2> QED BY <2>3, <2>4
<1>10. Pointers'
  BY <1>7, <1>8, <1>9 DEF Pointers
<1> QED BY <1>3, <1>6, <1>10

(* To the clients it looks as the abstract heap does: what p points to lies in the
   pool and apart from what all others point to.                           *)
LEMMA GivingImplements ==
  ASSUME NEW old \in SUBSET DOMAIN block, NEW o, NEW p, NEW b,
         PointerType', Pointers', Tidy(Pool', {}, {}),
         MemInv, Given(old, p, b), b.size \in Sizes,
         \A q \in DOMAIN block \ old : p # q,
         (old = {} /\ o = p /\ p \notin DOMAIN block) \/ (old = {o} /\ o \in DOMAIN block)
  PROVE  H!Next
<1> DEFINE given == [q \in DOMAIN block |-> block[q].size]
           n == b.size
<1>1. /\ DOMAIN block' = (DOMAIN block \ old) \cup {p} /\ block'[p] = b
      /\ \A q \in DOMAIN block \ old : block'[q] = block[q]
  BY DEF Given
<1>2. DOMAIN block \ old = DOMAIN block \ {o}
  OBVIOUS
<1>3. ASSUME NEW q \in DOMAIN block'
      PROVE  /\ q \in Int /\ block'[q].size \in Nat /\ block'[q].size >= 1
             /\ Base(q)' \in Int /\ Base(q)' < q /\ Base(q)' >= 0 /\ Base(q)' # END_NODE
             /\ Base(q)' \in DOMAIN Pool'.node
             /\ q + block'[q].size <= Base(q)' + Pool'.node[Base(q)'].size
             /\ q + block'[q].size <= END_NODE
  <2>1. block'[q] \in [size : Nat \ {0}, gap : Nat, shift : Nat] /\ q \in Int
    BY DEF PointerType
  <2>2. /\ InUse(Pool', Base(q)') /\ Base(q)' # END_NODE
        /\ q + block'[q].size <= NextNode(Pool', Base(q)')
    BY DEF Pointers
  <2>3. Base(q)' = q - block'[q].gap - HEAD_SIZE
    BY DEF Base
  <2>4. Pool'.node \in Nodes /\ Tiled(Pool'.node)
    BY PoolFields DEF Tidy
  <2>5. Base(q)' \in DOMAIN Pool'.node /\ Pool'.node \in [DOMAIN Pool'.node -> Header]
    BY <2>2, <2>4, NodesType DEF InUse, Has
  <2>6. /\ Base(q)' \in Int /\ Base(q)' >= 0 /\ Pool'.node[Base(q)'].size \in Nat
        /\ Base(q)' + Pool'.node[Base(q)'].size <= END_NODE
    <3> DEFINE c == Base(q)'
               m == Pool'.node
    <3>1. m \in Nodes /\ Tiled(m) /\ c \in DOMAIN m /\ c # END_NODE
      BY <2>2, <2>4, <2>5
    <3> HIDE DEF c, m
    <3>2. c \in Int /\ c >= 0 /\ m[c].size \in Nat /\ c + m[c].size <= END_NODE
      BY <3>1, NodeFacts
    <3> QED BY <3>2 DEF c, m
  <2>7. Base(q)' < q
    BY <2>1, <2>3, PoolFacts
  <2>8. q + block'[q].size <= Base(q)' + Pool'.node[Base(q)'].size
    BY <2>2 DEF NextNode
  <2>9. block'[q].size \in Nat /\ block'[q].size >= 1
    BY <2>1
  <2> HIDE DEF Base
  <2>10. q + block'[q].size <= END_NODE
    BY <2>1, <2>6, <2>8, <2>9, PoolFacts
  <2> QED BY <2>1, <2>2, <2>5, <2>6, <2>7, <2>8, <2>9, <2>10
<1>4. /\ p \in DOMAIN block' /\ p \in Int /\ n \in Nat /\ n >= 1 /\ p >= 0 /\ p + n <= END_NODE
      /\ n \in Sizes /\ END_NODE \in Int
  <2>1. p \in DOMAIN block' /\ block'[p].size = n
    BY <1>1
  <2>2. p \in Int /\ n \in Nat /\ n >= 1 /\ p + n <= END_NODE
    BY <1>3, <2>1
  <2>3. p >= 0
    BY <1>3, <2>1
  <2> QED BY <2>1, <2>2, <2>3, PoolFacts
<1>5. ASSUME NEW q \in DOMAIN block \ {o}
      PROVE  p .. p + n - 1 \cap q .. q + block[q].size - 1 = {}
  <2> DEFINE m == Pool'.node
             c == Base(p)'
             d == Base(q)'
             t == block'[q].size
  <2>1. q \in DOMAIN block' /\ block'[q] = block[q] /\ q # p
    BY <1>1, <1>2
  <2>2. /\ q \in Int /\ t \in Nat /\ d \in DOMAIN m /\ d # END_NODE /\ d < q /\ q + t <= d + m[d].size
    BY <1>3, <2>1
  <2>3. /\ c \in DOMAIN m /\ c # END_NODE /\ c < p /\ p + n <= c + m[c].size
    BY <1>1, <1>3, <1>4
  <2>4. c # d
    BY <1>4, <2>1 DEF Pointers
  <2>5. m \in Nodes /\ Tiled(m)
    BY PoolFields DEF Tidy
  <2>6. t = block[q].size
    BY <2>1
  <2> HIDE DEF m, c, d, t, n
  <2>7. p + n <= q \/ q + t <= p
    BY <1>4, <2>2, <2>3, <2>4, <2>5, Apart
  <2> QED BY <1>4, <2>2, <2>6, <2>7
<1>6. p .. p + n - 1 \subseteq 0 .. END_NODE - 1
  BY <1>4
<1>7. H!Give(o, p, n)
  <2>1. [q \in DOMAIN block' |-> block'[q].size] =
          [q \in (DOMAIN given \ {o}) \cup {p} |-> IF q = p THEN n ELSE given[q]]
    BY <1>1, <1>2
  <2>2. p .. p + n - 1 \subseteq
          (0 .. END_NODE - 1) \ UNION {q .. q + given[q] - 1 : q \in DOMAIN given \ {o}}
    <3> SUFFICES ASSUME NEW w \in p .. p + n - 1, NEW q \in DOMAIN given \ {o},
                        w \in q .. q + given[q] - 1
                 PROVE  FALSE
      BY <1>6
    <3>1. q \in DOMAIN block \ {o} /\ given[q] = block[q].size
      OBVIOUS
    <3> QED BY <1>5, <3>1
  <2> QED BY <2>1, <2>2 DEF H!Give, H!Extent, H!Others
<1>8. p \in 0 .. END_NODE - 1
  BY <1>4
<1>9. CASE o = p /\ p \notin DOMAIN block
  BY <1>4, <1>7, <1>8, <1>9 DEF H!Next
<1>10. CASE o \in DOMAIN block
  BY <1>4, <1>7, <1>8, <1>10 DEF H!Next
<1> QED BY <1>9, <1>10

(***************************************************************************)
(* The calls.                                                              *)
(***************************************************************************)
LEMMA ChargeType ==
  ASSUME MemInv, NEW t \in Client, NEW n \in Int, Charge(t, n)
  PROVE  memUsed' \in [Client -> 0 .. UintSize - 1]
<1>1. UintSize \in Nat /\ UintSize > 0
  BY MemoryAssumption, PoolFacts
<1>2. memUsed \in [Client -> 0 .. UintSize - 1]
  BY DEF MemInv
<1>3. \A x \in Int : x % UintSize \in 0 .. UintSize - 1
  BY <1>1
<1>4. memUsed[t] + n \in Int
  BY <1>1, <1>2
<1> QED BY <1>2, <1>3, <1>4 DEF Charge

(* A call that gives out the pointer p and leaves the pool h behind keeps the
   invariant and is a step of the abstract heap.                           *)
LEMMA GivingStep ==
  ASSUME NEW old \in SUBSET DOMAIN block, NEW o, NEW a, NEW p, NEW b, NEW h,
         NEW t \in Client, NEW n \in Int,
         MemInv, Tidy(h, {}, {}), Becomes(h), Charge(t, n), InUse(h, a), a # END_NODE,
         InUse(Pool, a) => \E q \in old : Base(q) = a,
         \A c \in Addr : c # a =>
           /\ InUse(h, c) <=> InUse(Pool, c) /\ \A q \in old : Base(q) # c
           /\ InUse(h, c) => Size(h, c) = Size(Pool, c),
         Given(old, p, b), b \in [size : Nat \ {0}, gap : Nat, shift : Nat], b.size \in Sizes,
         p = a + HEAD_SIZE + b.gap, p + b.size <= a + Size(h, a),
         (old = {} /\ o = p) \/ (old = {o} /\ o \in DOMAIN block)
  PROVE  MemInv' /\ H!Next
<1>1. Pool' = h
  BY BecomesFacts DEF Tidy
<1>2. PointerType' /\ Pointers' /\ (\A q \in DOMAIN block \ old : p # q)
  BY <1>1, Giving
<1>3. Tidy(Pool', {}, {})
  BY <1>1
<1>4. (old = {} /\ o = p /\ p \notin DOMAIN block) \/ (old = {o} /\ o \in DOMAIN block)
  BY <1>2
<1>5. H!Next
  BY <1>2, <1>3, <1>4, GivingImplements
<1>6. memUsed' \in [Client -> 0 .. UintSize - 1]
  BY ChargeType
<1> QED BY <1>2, <1>3, <1>5, <1>6 DEF MemInv

(* The node that is found is given out, with the pointer a gap behind its header. *)
LEMMA AllocStep ==
  ASSUME NEW t \in Client, NEW size \in Sizes, NEW k \in Nat, NEW a, NEW h, NEW gap \in Nat,
         NEW b, NEW p, MemInv, k > HEAD_SIZE, gap + size + HEAD_SIZE <= k,
         a = osMemFindSuitableFreeBlock(Pool, k), a # NoNode, h = AllocNode(Pool, a, k),
         Becomes(h), b = [size |-> size, gap |-> gap, shift |-> 0], p = a + HEAD_SIZE + gap,
         Given({}, p, b), Charge(t, Size(h, a))
  PROVE  MemInv' /\ H!Next
<1>1. Tidy(Pool, {}, {}) /\ k >= 1
  BY PoolFacts DEF MemInv
<1>2. Has(Pool, a) /\ Free(Pool, a) /\ a # END_NODE /\ a \in Addr /\ Size(Pool, a) >= k
  BY <1>1, FindFacts
<1>3. /\ Tidy(h, {}, {}) /\ InUse(h, a) /\ Size(h, a) >= k /\ Size(h, a) \in Nat
      /\ SameUsed(Pool, h, a)
  BY <1>1, <1>2, AllocNodeFacts
<1>4. size \in Nat \ {0} /\ HEAD_SIZE \in Nat /\ a \in Nat
  BY <1>2, MemoryAssumption, PoolFacts
<1>5. b \in [size : Nat \ {0}, gap : Nat, shift : Nat] /\ b.size = size /\ b.gap = gap
  BY <1>4
<1>6. p + size <= a + Size(h, a)
  BY <1>3, <1>4
<1>7. \A c \in Addr : c # a => /\ InUse(h, c) <=> InUse(Pool, c)
                               /\ InUse(h, c) => Size(h, c) = Size(Pool, c)
  BY <1>3 DEF SameUsed
<1>8. ~InUse(Pool, a)
  BY <1>2 DEF InUse
<1> DEFINE old == {}
<1>9. old \in SUBSET DOMAIN block /\ old = {}
  OBVIOUS
<1> HIDE DEF old
<1>10. /\ Given(old, p, b) /\ p = a + HEAD_SIZE + b.gap /\ p + b.size <= a + Size(h, a)
       /\ b.size \in Sizes /\ Size(h, a) \in Int
  BY <1>3, <1>5, <1>6, <1>9
<1>11. \A c \in Addr : c # a =>
          /\ InUse(h, c) <=> InUse(Pool, c) /\ \A q \in old : Base(q) # c
          /\ InUse(h, c) => Size(h, c) = Size(Pool, c)
  BY <1>7, <1>9
<1> QED BY <1>2, <1>3, <1>5, <1>8, <1>9, <1>10, <1>11, GivingStep

LEMMA MemAllocStep ==
  ASSUME MemInv, NEW t \in Client, NEW size \in Sizes, LOS_MemAlloc(t, size)
  PROVE  MemInv' /\ H!Next
<1> DEFINE k == size + HEAD_SIZE
           a == osMemFindSuitableFreeBlock(Pool, k)
           h == AllocNode(Pool, a, k)
           b == [size |-> size, gap |-> 0, shift |-> 0]
           p == a + HEAD_SIZE
           gap == 0
<1>1. /\ a # NoNode /\ Becomes(h) /\ Given({}, p, b) /\ Charge(t, Size(h, a))
  BY DEF LOS_MemAlloc
<1>2. k \in Nat /\ k > HEAD_SIZE /\ gap \in Nat /\ gap + size + HEAD_SIZE <= k
  BY MemoryAssumption
<1>3. a = osMemFindSuitableFreeBlock(Pool, k) /\ h = AllocNode(Pool, a, k)
      /\ b = [size |-> size, gap |-> gap, shift |-> 0]
  OBVIOUS
<1>4. p = a + HEAD_SIZE + gap
  <2>1. Tidy(Pool, {}, {}) /\ k >= 1
    BY <1>2, PoolFacts DEF MemInv
  <2> HIDE DEF a, k
  <2>2. a \in Addr
    BY <1>1, <1>2, <1>3, <2>1, FindFacts
  <2> QED BY <2>2, PoolFacts
<1> HIDE DEF k, a, h, b, p, gap
<1> QED BY <1>1, <1>2, <1>3, <1>4, AllocStep

LEMMA MemAllocAlignStep ==
  ASSUME MemInv, NEW t \in Client, NEW size \in Sizes, NEW boundary \in Boundaries,
         LOS_MemAllocAlign(t, size, boundary)
  PROVE  MemInv' /\ H!Next
<1> DEFINE k == size + boundary + 1 + HEAD_SIZE
           a == osMemFindSuitableFreeBlock(Pool, k)
           h == AllocNode(Pool, a, k)
           gap == (-(a + HEAD_SIZE)) % boundary
           b == [size |-> size, gap |-> gap, shift |-> 0]
           p == a + HEAD_SIZE + gap
<1>1. /\ a # NoNode /\ Becomes(h) /\ Given({}, p, b) /\ Charge(t, Size(h, a))
  BY DEF LOS_MemAllocAlign
<1>2. /\ k \in Nat /\ k > HEAD_SIZE /\ boundary \in Nat /\ boundary >= 1
      /\ size \in Nat /\ HEAD_SIZE \in Nat /\ k = size + boundary + 1 + HEAD_SIZE
  BY MemoryAssumption
<1>3. a = osMemFindSuitableFreeBlock(Pool, k) /\ h = AllocNode(Pool, a, k)
      /\ b = [size |-> size, gap |-> gap, shift |-> 0] /\ p = a + HEAD_SIZE + gap
      /\ gap = (-(a + HEAD_SIZE)) % boundary
  OBVIOUS
<1> HIDE DEF k, a, h, b, p
<1>4. gap \in 0 .. boundary - 1
  <2>1. Tidy(Pool, {}, {}) /\ k >= 1
    BY <1>2, PoolFacts DEF MemInv
  <2>2. a \in Addr
    BY <1>1, <1>2, <1>3, <2>1, FindFacts
  <2>3. -(a + HEAD_SIZE) \in Int
    BY <2>2, PoolFacts
  <2>4. \A x \in Int : x % boundary \in 0 .. boundary - 1
    BY <1>2
  <2> QED BY <2>3, <2>4
<1> HIDE DEF gap
<1>5. gap \in Nat /\ gap + size + HEAD_SIZE <= k
  BY <1>2, <1>4
<1> QED BY <1>1, <1>2, <1>3, <1>5, AllocStep

LEMMA MemFreeStep ==
  ASSUME MemInv, NEW t \in Client, NEW p \in DOMAIN block, LOS_MemFree(t, p)
  PROVE  MemInv' /\ H!Next
<1> DEFINE a == Base(p)
           h == osMemFreeNode(Pool, a)
<1>1. /\ Becomes(h) /\ Charge(t, -Size(Pool, a))
      /\ block' = [q \in DOMAIN block \ {p} |-> block[q]]
  BY DEF LOS_MemFree
<1>2. /\ InUse(Pool, a) /\ a # END_NODE /\ a \in Addr /\ Size(Pool, a) \in Nat
      /\ Tidy(Pool, {}, {})
  BY PointerFacts DEF MemInv
<1>3. a = Base(p) /\ h = osMemFreeNode(Pool, a)
  OBVIOUS
<1> HIDE DEF a, h
<1>4. Tidy(h, {}, {}) /\ ~InUse(h, a) /\ SameUsed(Pool, h, a)
  BY <1>2, <1>3, FreeNodeFacts
<1>5. Pool' = h
  BY <1>1, <1>4, BecomesFacts DEF Tidy
<1>6. memUsed' \in [Client -> 0 .. UintSize - 1]
  BY <1>1, <1>2, ChargeType
<1>7. /\ DOMAIN block' = DOMAIN block \ {p}
      /\ \A q \in DOMAIN block \ {p} : block'[q] = block[q]
  BY <1>1
<1>8. \A q \in DOMAIN block \ {p} : Base(q)' = Base(q)
  BY <1>7 DEF Base
<1>9. PointerType'
  BY <1>7 DEF MemInv, PointerType
<1>10. ASSUME NEW q \in DOMAIN block'
       PROVE  /\ InUse(Pool', Base(q)') /\ Base(q)' # END_NODE
              /\ q + block'[q].size <= NextNode(Pool', Base(q)')
  <2>1. q \in DOMAIN block \ {p}
    BY <1>7
  <2>2. /\ InUse(Pool, Base(q)) /\ Base(q) # END_NODE /\ Base(q) \in Addr
        /\ q + block[q].size <= Base(q) + Size(Pool, Base(q))
    BY <2>1, PointerFacts
  <2>3. Base(q) # a
    BY <1>3, <2>1 DEF MemInv, Pointers
  <2>4. InUse(h, Base(q)) /\ Size(h, Base(q)) = Size(Pool, Base(q))
    BY <1>4, <2>2, <2>3 DEF SameUsed
  <2> QED BY <1>5, <1>7, <1>8, <2>1, <2>2, <2>4 DEF NextNode, Size
<1>11. ASSUME NEW c \in Addr \ {END_NODE}, InUse(Pool', c)
       PROVE  \E q \in DOMAIN block' : Base(q)' = c
  <2>1. c # a
    BY <1>4, <1>5, <1>11
  <2>2. InUse(Pool, c)
    BY <1>4, <1>5, <1>11, <2>1 DEF SameUsed
  <2>3. PICK q \in DOMAIN block : Base(q) = c
    BY <2>2 DEF MemInv, Pointers
  <2> QED BY <1>3, <1>7, <1>8, <2>1, <2>3
<1>12. \A q, r \in DOMAIN block' : Base(q)' = Base(r)' => q = r
  BY <1>7, <1>8 DEF MemInv, Pointers
<1>13. Pointers'
  BY <1>10, <1>11, <1>12 DEF Pointers
<1>14. MemInv'
  BY <1>4, <1>5, <1>6, <1>9, <1>13 DEF MemInv
<1>15. [q \in DOMAIN block' |-> block'[q].size] =
         [r \in DOMAIN [q \in DOMAIN block |-> block[q].size] \ {p} |->
            [q \in DOMAIN block |-> block[q].size][r]]
  BY <1>7
<1>16. H!Next
  BY <1>15 DEF H!Next
<1> QED BY <1>14, <1>16

(* The node keeps its place, and its rest is split off if a node fits in. *)
LEMMA ShrinkFacts ==
  ASSUME NEW h, NEW a \in DOMAIN h.node \ {END_NODE}, NEW k \in Nat, NEW x,
         Tidy(h, {}, {}), ~Free(h, a), a \in Addr, Size(h, a) >= k, k > HEAD_SIZE,
         x = IF Splits(k, Size(h, a)) THEN osMemSpitNode(h, a, k) ELSE h
  PROVE  /\ Tidy(x, {}, {}) /\ InUse(x, a) /\ Size(x, a) >= k /\ Size(x, a) \in Nat
         /\ SameUsed(h, x, a)
<1>1. CASE Splits(k, Size(h, a))
  <2>1. x = osMemSpitNode(h, a, k)
    BY <1>1
  <2>2. /\ Tidy(x, {a}, {a}) /\ Has(x, a) /\ Size(x, a) = k
        /\ (Free(x, a) <=> Free(h, a)) /\ SameUsed(h, x, a)
        /\ Unlisted(h, a) => Unlisted(x, a)
    BY <1>1, <2>1, SplitFacts
  <2> DEFINE S == {}
  <2>3. a \in Addr \ S /\ Tidy(h, S, S)
    OBVIOUS
  <2>4. {a} = S \cup {a} /\ S = {}
    OBVIOUS
  <2> HIDE DEF S
  <2>5. Unlisted(x, a)
    BY <2>2, <2>3, UsedUnlisted
  <2>6. Tidy(x, S \cup {a}, S \cup {a}) /\ InUse(x, a)
    BY <2>2, <2>4 DEF InUse
  <2>7. Tidy(x, S, S)
    BY <2>5, <2>6, Settled
  <2> QED BY <2>2, <2>4, <2>6, <2>7
<1>2. CASE ~Splits(k, Size(h, a))
  <2>1. x = h
    BY <1>2
  <2>2. Size(h, a) \in Nat
    BY PoolFields, NodeFacts DEF Tidy, Size
  <2> QED BY <2>1, <2>2 DEF InUse, Has, SameUsed
<1> QED BY <1>1, <1>2

(* A resized pointer p leads to node a, which was the one of p or is new. *)
LEMMA MovedStep ==
  ASSUME NEW t \in Client, NEW n \in Int, NEW size \in Sizes, NEW p \in DOMAIN block,
         NEW a, NEW h, NEW q, NEW k,
         MemInv, Tidy(h, {}, {}), Becomes(h), Charge(t, n), InUse(h, a), a # END_NODE, a \in Addr,
         InUse(Pool, a) => Base(p) = a,
         \A c \in Addr : c # a => /\ InUse(h, c) <=> InUse(Pool, c) /\ Base(p) # c
                                  /\ InUse(h, c) => Size(h, c) = Size(Pool, c),
         q = a + HEAD_SIZE, Moved(p, q, size), k = size + HEAD_SIZE, Size(h, a) >= k,
         Size(h, a) \in Nat
  PROVE  MemInv' /\ H!Next
<1> DEFINE b == [size |-> size, gap |-> 0, shift |-> block[p].shift + block[p].gap]
           old == {p}
<1>1. Given(old, q, b)
  BY DEF Moved
<1>2. /\ size \in Nat /\ size >= 1 /\ HEAD_SIZE \in Nat /\ a \in Nat
      /\ block[p].shift \in Nat /\ block[p].gap \in Nat
  BY MemoryAssumption, PoolFacts, PointerFacts
<1>3. b \in [size : Nat \ {0}, gap : Nat, shift : Nat] /\ b.size = size /\ b.gap = 0
  BY <1>2
<1> HIDE DEF b
<1>4. q = a + HEAD_SIZE + b.gap /\ q + b.size <= a + Size(h, a) /\ b.size \in Sizes
  BY <1>2, <1>3
<1>5. /\ old \in SUBSET DOMAIN block /\ \A r : r \in old <=> r = p
      /\ old = {p}
  OBVIOUS
<1> HIDE DEF old
<1>6. \A c \in Addr : c # a => /\ InUse(h, c) <=> InUse(Pool, c) /\ \A r \in old : Base(r) # c
                               /\ InUse(h, c) => Size(h, c) = Size(Pool, c)
  BY <1>5
<1>7. InUse(Pool, a) => \E r \in old : Base(r) = a
  BY <1>5
<1>8. /\ b \in [size : Nat \ {0}, gap : Nat, shift : Nat] /\ b.size \in Sizes
      /\ (old = {} /\ p = q) \/ (old = {p} /\ p \in DOMAIN block)
  BY <1>3, <1>4, <1>5
<1> QED BY <1>1, <1>4, <1>5, <1>6, <1>7, <1>8, GivingStep

LEMMA ReAllocSmallerStep ==
  ASSUME MemInv, NEW t \in Client, NEW p \in DOMAIN block, NEW size \in Sizes,
         osMemReAllocSmaller(t, p, size)
  PROVE  MemInv' /\ H!Next
<1> DEFINE a == Base(p)
           k == size + HEAD_SIZE
           s == Size(Pool, a)
           h == IF Splits(k, s) THEN osMemSpitNode(Pool, a, k) ELSE Pool
           q == a + HEAD_SIZE
           n == Size(h, a) - s
<1>1. s >= k /\ Becomes(h) /\ Moved(p, q, size) /\ Charge(t, n)
  BY DEF osMemReAllocSmaller
<1>2. /\ InUse(Pool, a) /\ a # END_NODE /\ a \in Addr /\ s \in Nat
      /\ Tidy(Pool, {}, {})
  BY PointerFacts DEF MemInv
<1>3. k \in Nat /\ k > HEAD_SIZE
  BY MemoryAssumption
<1>4. /\ a = Base(p) /\ q = a + HEAD_SIZE /\ k = size + HEAD_SIZE
      /\ n = Size(h, a) - s /\ s = Size(Pool, a)
      /\ h = IF Splits(k, Size(Pool, a)) THEN osMemSpitNode(Pool, a, k) ELSE Pool
  OBVIOUS
<1> HIDE DEF a, k, s, h, q, n
<1>5. /\ Tidy(h, {}, {}) /\ InUse(h, a) /\ Size(h, a) >= k /\ Size(h, a) \in Nat
      /\ SameUsed(Pool, h, a)
  BY <1>1, <1>2, <1>3, <1>4, ShrinkFacts DEF InUse, Has
<1>6. \A c \in Addr : c # a => /\ InUse(h, c) <=> InUse(Pool, c) /\ Base(p) # c
                               /\ InUse(h, c) => Size(h, c) = Size(Pool, c)
  BY <1>4, <1>5 DEF SameUsed
<1>7. n \in Int
  BY <1>2, <1>4, <1>5
<1> QED BY <1>1, <1>2, <1>4, <1>5, <1>6, <1>7, MovedStep

LEMMA SameUsedTrans ==
  ASSUME NEW h, NEW x, NEW y, NEW a, SameUsed(h, x, a), SameUsed(x, y, a)
  PROVE  SameUsed(h, y, a)
BY DEF SameUsed

(* A used node takes in the free node b behind it. *)
LEMMA GrowFacts ==
  ASSUME NEW h, NEW a, NEW b, NEW x,
         Tidy(h, {}, {}), a \in DOMAIN h.node \ {END_NODE}, a \in Addr, ~Free(h, a),
         b = NextNode(h, a), Free(h, b), x = osMemMergeNode(LOS_ListDelete(h, b), b)
  PROVE  /\ Tidy(x, {}, {}) /\ a \in DOMAIN x.node \ {END_NODE} /\ ~Free(x, a)
         /\ Size(x, a) = Size(h, a) + Size(h, b) /\ Size(h, b) \in Nat /\ SameUsed(h, x, a)
<1> DEFINE y == LOS_ListDelete(h, b)
           S == {}
           R == {a}
           n == h.node
<1>1. n \in Nodes /\ Tiled(n) /\ n[a].size \in Nat /\ Coalesced(n, S)
  BY PoolFields, NodeFacts DEF Tidy
<1>2. b = a + n[a].size /\ b \in DOMAIN n /\ b # a /\ b # 0 /\ n[b].pre = a
  BY <1>1, NodeFacts DEF NextNode
<1>3. b # END_NODE /\ ~n[b].used
  BY <1>1 DEF Free, Tiled
<1>4. /\ Tidy(y, S \cup {b}, S) /\ y.node = n /\ Unlisted(y, b)
      /\ Unlisted(h, a) => Unlisted(y, a)
  BY ListDeleteFacts
<1>5. Unlisted(h, a)
  <2>1. a \in Addr \ S /\ Tidy(h, S, S)
    OBVIOUS
  <2> HIDE DEF S
  <2> QED BY <2>1, UsedUnlisted
<1>6. /\ R = {a} /\ S = {} /\ R = S \cup {a} /\ a \in R /\ x = osMemMergeNode(y, b) /\ n = h.node
      /\ (S \cup {b}) \cup R = R \cup {b} /\ S \cup S = S
  OBVIOUS
<1> HIDE DEF y, S, R, n
<1>7. Tidy(y, R \cup {b}, S)
  <2>1. Tidy(y, (S \cup {b}) \cup R, S \cup S)
    BY <1>4, Looser
  <2> QED BY <1>6, <2>1
<1>8. Free(y, b) /\ b \in DOMAIN y.node \ {0, END_NODE} /\ y.node[b].pre = a
  BY <1>2, <1>3, <1>4 DEF Free
<1>9. /\ x \in Pools /\ Tiled(x.node) /\ Listing(x, R)
      /\ x.node = Merged(n, b) /\ x.head = y.head
      /\ a \in DOMAIN x.node /\ (x.node[a].used <=> n[a].used)
      /\ SameUsed(y, x, a)
  <2> DEFINE Q == R \cup {b}
  <2>1. Q = R \cup {b} /\ Tidy(y, Q, S)
    BY <1>7
  <2> HIDE DEF Q
  <2> QED BY <1>4, <1>6, <1>8, <2>1, MergeNodeFacts
<1>10. Coalesced(x.node, S)
  <2>1. Coalesced(n, S \cup {b, n[b].pre}) /\ Coalesced(n, S \cup {n[b].pre}) /\ b \notin S
    BY <1>1, <1>6 DEF Coalesced
  <2>2. b \in DOMAIN n \ {0, END_NODE}
    BY <1>2, <1>3
  <2> QED BY <1>1, <1>3, <1>9, <2>1, <2>2, MergedCoalesced
<1>11. Tidy(x, S \cup {a}, S \cup {a})
  BY <1>6, <1>9, <1>10 DEF Tidy, Coalesced
<1>12. Unlisted(x, a) /\ InUse(x, a) /\ ~Free(x, a)
  BY <1>4, <1>5, <1>6, <1>9 DEF Unlisted, InUse, Has, Free
<1>13. Tidy(x, S, S)
  BY <1>11, <1>12, Settled
<1>14. Size(x, a) = Size(h, a) + Size(h, b) /\ Size(h, b) \in Nat
  <2> DEFINE s == n[a].size + n[b].size
             m == x.node
  <2>1. s = n[a].size + n[b].size /\ m = Merged(n, b) /\ m = x.node
    BY <1>9
  <2> HIDE DEF s, m
  <2>2. m[a].size = s
    BY <1>1, <1>2, <1>3, <2>1, MergedFacts
  <2>3. n[b].size \in Nat
    BY <1>1, <1>2, NodeFacts
  <2> QED BY <1>6, <2>1, <2>2, <2>3 DEF Size
<1>15. SameUsed(h, x, a)
  BY <1>4, <1>6, <1>9 DEF SameUsed, InUse, Has, Free, Size
<1> QED BY <1>6, <1>9, <1>12, <1>13, <1>14, <1>15

LEMMA ReAllocBiggerStep ==
  ASSUME MemInv, NEW t \in Client, NEW p \in DOMAIN block, NEW size \in Sizes,
         osMemMergeNodeForReAllocBigger(t, p, size)
  PROVE  MemInv' /\ H!Next
<1> DEFINE a == Base(p)
           k == size + HEAD_SIZE
           b == NextNode(Pool, a)
           x == osMemMergeNode(LOS_ListDelete(Pool, b), b)
           h == IF Splits(k, Size(x, a)) THEN osMemSpitNode(x, a, k) ELSE x
           q == a + HEAD_SIZE
           n == Size(h, a) - Size(Pool, a)
<1>1. /\ Free(Pool, b) /\ Size(Pool, b) + Size(Pool, a) >= k
      /\ Becomes(h) /\ Moved(p, q, size) /\ Charge(t, n)
  BY DEF osMemMergeNodeForReAllocBigger
<1>2. /\ InUse(Pool, a) /\ a # END_NODE /\ a \in Addr /\ Size(Pool, a) \in Nat
      /\ Tidy(Pool, {}, {})
  BY PointerFacts DEF MemInv
<1>3. k \in Nat /\ k > HEAD_SIZE
  BY MemoryAssumption
<1>4. /\ a = Base(p) /\ q = a + HEAD_SIZE /\ k = size + HEAD_SIZE
      /\ n = Size(h, a) - Size(Pool, a) /\ b = NextNode(Pool, a)
      /\ x = osMemMergeNode(LOS_ListDelete(Pool, b), b)
      /\ h = IF Splits(k, Size(x, a)) THEN osMemSpitNode(x, a, k) ELSE x
  OBVIOUS
<1> HIDE DEF a, k, b, x, h, q, n
<1>5. /\ Tidy(x, {}, {}) /\ a \in DOMAIN x.node \ {END_NODE} /\ ~Free(x, a)
      /\ Size(x, a) = Size(Pool, a) + Size(Pool, b) /\ Size(Pool, b) \in Nat
      /\ SameUsed(Pool, x, a)
  BY <1>1, <1>2, <1>4, GrowFacts DEF InUse, Has
<1>6. Size(x, a) >= k
  BY <1>1, <1>2, <1>5
<1>7. /\ Tidy(h, {}, {}) /\ InUse(h, a) /\ Size(h, a) >= k /\ Size(h, a) \in Nat
      /\ SameUsed(x, h, a)
  BY <1>2, <1>3, <1>4, <1>5, <1>6, ShrinkFacts
<1>8. SameUsed(Pool, h, a)
  BY <1>5, <1>7, SameUsedTrans
<1>9. \A c \in Addr : c # a => /\ InUse(h, c) <=> InUse(Pool, c) /\ Base(p) # c
                               /\ InUse(h, c) => Size(h, c) = Size(Pool, c)
  BY <1>4, <1>8 DEF SameUsed
<1>10. n \in Int
  BY <1>2, <1>4, <1>7
<1> QED BY <1>1, <1>2, <1>4, <1>7, <1>9, <1>10, MovedStep

LEMMA ReAllocElsewhereStep ==
  ASSUME MemInv, NEW t \in Client, NEW p \in DOMAIN block, NEW size \in Sizes,
         ReAllocElsewhere(t, p, size)
  PROVE  MemInv' /\ H!Next
<1> DEFINE a == Base(p)
           k == size + HEAD_SIZE
           c == osMemFindSuitableFreeBlock(Pool, k)
           x == AllocNode(Pool, c, k)
           h == osMemFreeNode(x, a)
           q == c + HEAD_SIZE
           n == Size(x, c) - Size(Pool, a)
<1>1. c # NoNode /\ Becomes(h) /\ Moved(p, q, size) /\ Charge(t, n)
  BY DEF ReAllocElsewhere
<1>2. /\ InUse(Pool, a) /\ a # END_NODE /\ a \in Addr /\ Size(Pool, a) \in Nat
      /\ Tidy(Pool, {}, {})
  BY PointerFacts DEF MemInv
<1>3. k \in Nat /\ k > HEAD_SIZE /\ k >= 1
  BY MemoryAssumption
<1>4. /\ a = Base(p) /\ q = c + HEAD_SIZE /\ k = size + HEAD_SIZE
      /\ n = Size(x, c) - Size(Pool, a) /\ c = osMemFindSuitableFreeBlock(Pool, k)
      /\ x = AllocNode(Pool, c, k) /\ h = osMemFreeNode(x, a)
  OBVIOUS
<1> HIDE DEF a, k, c, x, h, q, n
<1>5. Has(Pool, c) /\ Free(Pool, c) /\ c # END_NODE /\ c \in Addr /\ Size(Pool, c) >= k
  BY <1>1, <1>2, <1>3, <1>4, FindFacts
<1>6. /\ Tidy(x, {}, {}) /\ InUse(x, c) /\ Size(x, c) >= k /\ Size(x, c) \in Nat
      /\ SameUsed(Pool, x, c)
  BY <1>2, <1>3, <1>4, <1>5, AllocNodeFacts
<1>7. ~InUse(Pool, c) /\ c # a
  BY <1>2, <1>5 DEF InUse
<1>8. InUse(x, a)
  BY <1>2, <1>6, <1>7 DEF SameUsed
<1>9. Tidy(h, {}, {}) /\ ~InUse(h, a) /\ SameUsed(x, h, a)
  BY <1>2, <1>4, <1>6, <1>8, FreeNodeFacts
<1>10. InUse(h, c) /\ Size(h, c) = Size(x, c)
  BY <1>5, <1>6, <1>7, <1>9 DEF SameUsed
<1>11. ASSUME NEW d \in Addr, d # c
       PROVE  /\ InUse(h, d) <=> InUse(Pool, d) /\ Base(p) # d
              /\ InUse(h, d) => Size(h, d) = Size(Pool, d)
  <2>1. CASE d = a
    BY <1>4, <1>9, <2>1
  <2>2. CASE d # a
    BY <1>4, <1>6, <1>9, <1>11, <2>2 DEF SameUsed
  <2> QED BY <2>1, <2>2
<1>12. n \in Int /\ Size(h, c) >= k /\ Size(h, c) \in Nat
  BY <1>2, <1>4, <1>6, <1>10
<1> QED BY <1>1, <1>4, <1>5, <1>7, <1>9, <1>10, <1>11, <1>12, MovedStep

(***************************************************************************)
(* The invariant.                                                          *)
(***************************************************************************)
LEMMA InitInv ==
  ASSUME LOS_MemInit
  PROVE  MemInv
<1> DEFINE D == {0, END_NODE}
           first == Class(END_NODE)
<1>1. /\ HEAD_SIZE \in Nat /\ HEAD_SIZE >= 1 /\ END_NODE \in Nat /\ END_NODE > 2 * HEAD_SIZE
      /\ 0 # END_NODE /\ D \subseteq Addr
  BY PoolFacts
<1>2. /\ DOMAIN node = D
      /\ node[0] = [size |-> END_NODE, used |-> FALSE, pre |-> NoNode]
      /\ node[END_NODE] = [size |-> HEAD_SIZE, used |-> TRUE, pre |-> 0]
  BY <1>1 DEF LOS_MemInit
<1>3. node = [a \in DOMAIN node |-> node[a]]
  BY DEF LOS_MemInit
<1>4. node \in Nodes
  <2>1. \A a \in DOMAIN node : node[a] \in Header
    <3>1. /\ [size |-> END_NODE, used |-> FALSE, pre |-> NoNode] \in Header
          /\ [size |-> HEAD_SIZE, used |-> TRUE, pre |-> 0] \in Header
      BY <1>1, PoolFacts DEF Header
    <3> QED BY <1>2, <3>1
  <2> QED BY <1>1, <1>2, <1>3, <2>1, NodesType
<1>5. Tiled(node)
  <2>1. \A a \in DOMAIN node : a = 0 \/ a = END_NODE
    BY <1>2
  <2>2. 0 + node[0].size = END_NODE /\ node[END_NODE].pre + node[node[END_NODE].pre].size = END_NODE
    BY <1>1, <1>2
  <2> QED BY <1>1, <1>2, <2>1, <2>2 DEF Tiled
<1>6. Coalesced(node, {})
  BY <1>1, <1>2 DEF Coalesced
<1>7. first \in Classes
  BY <1>1, ClassFacts
<1>8. /\ head \in [Classes -> Seq(Addr)]
      /\ \A c \in Classes : head[c] = IF c = first THEN <<0>> ELSE <<>>
  BY <1>1 DEF LOS_MemInit
<1> DEFINE h == Pool
<1>9. h \in Pools /\ h.node = node /\ h.head = head
  BY <1>4, <1>8 DEF Pools, Pool
<1>10. \A a \in Addr, c \in Classes : Belongs(h, a, c) <=> a = 0 /\ c = first
  <2> HIDE DEF first
  <2>1. ASSUME NEW a \in Addr, NEW c \in Classes
        PROVE  Belongs(h, a, c) <=> a = 0 /\ c = first
    <3>1. CASE a = 0
      BY <1>2, <1>9, <3>1 DEF Belongs, first
    <3>2. CASE a # 0
      BY <1>2, <1>9, <3>2 DEF Belongs
    <3> QED BY <3>1, <3>2
  <2> QED BY <2>1
<1> HIDE DEF h, first, D
<1>11. Listing(h, {})
  <2>1. ASSUME NEW c \in Classes
        PROVE  IsInjective(h.head[c]) /\ \A a \in Addr : Contains(h.head[c], a) <=> a = 0 /\ c = first
    <3>1. CASE c = first
      <4>1. h.head[c] = <<0>>
        BY <1>8, <1>9, <3>1
      <4> QED BY <3>1, <4>1 DEF IsInjective, Contains
    <3>2. CASE c # first
      <4>1. h.head[c] = <<>>
        BY <1>8, <1>9, <3>2
      <4> QED BY <3>2, <4>1 DEF IsInjective, Contains
    <3> QED BY <3>1, <3>2
  <2> QED BY <1>10, <2>1 DEF Listing
<1>12. Tidy(h, {}, {})
  BY <1>5, <1>6, <1>9, <1>11 DEF Tidy
<1>13. DOMAIN block = {}
  BY DEF LOS_MemInit
<1>14. PointerType /\ Pointers
  <2>1. \A a \in Addr \ {END_NODE} : ~InUse(Pool, a)
    BY <1>2, <1>9 DEF InUse, Has, Free, h, D
  <2> QED BY <1>13, <2>1 DEF PointerType, Pointers
<1>15. memUsed \in [Client -> 0 .. UintSize - 1]
  <2>1. UintSize \in Nat /\ UintSize > 0
    BY <1>1, MemoryAssumption DEF END_NODE
  <2> QED BY <2>1 DEF LOS_MemInit
<1> QED BY <1>12, <1>14, <1>15 DEF MemInv, h

LEMMA NextInv ==
  ASSUME MemInv, Next
  PROVE  MemInv' /\ H!Next
<1>1. PICK t \in Client :
        \/ \E size \in Sizes :
             \/ LOS_MemAlloc(t, size)
             \/ \E boundary \in Boundaries : LOS_MemAllocAlign(t, size, boundary)
             \/ \E p \in DOMAIN block : LOS_MemRealloc(t, p, size)
        \/ \E p \in DOMAIN block : LOS_MemFree(t, p)
  BY DEF Next
<1>2. CASE \E size \in Sizes : LOS_MemAlloc(t, size)
  BY <1>2, MemAllocStep
<1>3. CASE \E size \in Sizes, boundary \in Boundaries : LOS_MemAllocAlign(t, size, boundary)
  BY <1>3, MemAllocAlignStep
<1>4. CASE \E size \in Sizes, p \in DOMAIN block : LOS_MemRealloc(t, p, size)
  BY <1>4, ReAllocSmallerStep, ReAllocBiggerStep, ReAllocElsewhereStep DEF LOS_MemRealloc
<1>5. CASE \E p \in DOMAIN block : LOS_MemFree(t, p)
  BY <1>5, MemFreeStep
<1> QED BY <1>1, <1>2, <1>3, <1>4, <1>5

(* The inductive invariant holds of every behaviour. *)
THEOREM Invariance == Spec => []MemInv
<1>1. LOS_MemInit => MemInv
  BY InitInv
<1>2. MemInv /\ [Next]_vars => MemInv'
  <2> SUFFICES ASSUME MemInv, [Next]_vars PROVE MemInv'
    OBVIOUS
  <2>1. CASE Next
    BY <2>1, NextInv
  <2>2. CASE UNCHANGED vars
    BY <2>2 DEF vars, MemInv, PointerType, Pointers, Pool, Base
  <2> QED BY <2>1, <2>2
<1> QED BY <1>1, <1>2, PTL DEF Spec

(* What the invariant says of the headers and the lists. *)
LEMMA InvFacts ==
  ASSUME MemInv
  PROVE  /\ node \in Nodes /\ Tiled(node) /\ Coalesced(node, {})
         /\ node \in [DOMAIN node -> Header] /\ DOMAIN node \subseteq Addr
         /\ head \in [Classes -> Seq(Addr)] /\ Listing(Pool, {})
         /\ Pool.node = node /\ Pool.head = head /\ Tidy(Pool, {}, {})
<1>1. Pool.node = node /\ Pool.head = head
  BY DEF Pool
<1>2. Tidy(Pool, {}, {}) /\ Pool \in Pools
  BY DEF MemInv, Tidy
<1> QED BY <1>1, <1>2, PoolFields, NodesType DEF Tidy

(* Every variable keeps its type. *)
THEOREM MemTypeCorrect == Spec => []MemTypeOK
<1>1. ASSUME MemInv PROVE MemTypeOK
  <2>1. /\ HEAD_SIZE \in Nat /\ HEAD_SIZE >= 1 /\ END_NODE \in Nat /\ END_NODE > 2 * HEAD_SIZE
    BY PoolFacts
  <2>2. DOMAIN node \subseteq 0 .. END_NODE
    BY <1>1, InvFacts DEF Addr
  <2>3. ASSUME NEW a \in DOMAIN node
        PROVE  node[a] \in [size : (IF a = END_NODE THEN 0 ELSE HEAD_SIZE) + 1 .. END_NODE,
                            used : BOOLEAN, pre : DOMAIN node \cup {NoNode}]
    <3>1. node \in Nodes /\ Tiled(node) /\ node[a] \in Header
      BY <1>1, InvFacts
    <3>2. node[a].pre \in DOMAIN node \cup {NoNode}
      BY <3>1, NodeFacts DEF Tiled
    <3>3. node[a].size \in (IF a = END_NODE THEN 0 ELSE HEAD_SIZE) + 1 .. END_NODE
      <4>1. CASE a = END_NODE
        BY <2>1, <3>1, <4>1 DEF Tiled
      <4>2. CASE a # END_NODE
        <5>1. /\ a \in Int /\ a >= 0 /\ node[a].size \in Nat /\ node[a].size > HEAD_SIZE
              /\ a + node[a].size <= END_NODE
          BY <3>1, <4>2, NodeFacts
        <5> QED BY <2>1, <4>2, <5>1
      <4> QED BY <4>1, <4>2
    <3> QED BY <3>1, <3>2, <3>3 DEF Header
  <2>4. head \in [Classes -> Seq(0 .. END_NODE)]
    BY <1>1, InvFacts DEF Addr
  <2>5. DOMAIN block \subseteq HEAD_SIZE .. END_NODE
    <3>1. ASSUME NEW p \in DOMAIN block PROVE p \in HEAD_SIZE .. END_NODE
      <4>1. /\ p \in Int /\ block[p].size \in Nat /\ Base(p) \in Int /\ Base(p) + HEAD_SIZE <= p
            /\ Base(p) \in Addr /\ InUse(Pool, Base(p)) /\ Base(p) # END_NODE
            /\ p + block[p].size <= Base(p) + Size(Pool, Base(p))
        BY <1>1, PointerFacts
      <4>2. Base(p) >= 0 /\ Size(Pool, Base(p)) \in Nat /\ Base(p) + Size(Pool, Base(p)) <= END_NODE
        BY <1>1, <4>1, InvFacts, NodeFacts DEF InUse, Has, Size
      <4> QED BY <2>1, <4>1, <4>2
    <3> QED BY <3>1
  <2> QED BY <1>1, <2>2, <2>3, <2>4, <2>5 DEF MemTypeOK, MemInv, PointerType
<1> QED BY <1>1, Invariance, PTL

(* After any sequence of calls the nodes lie end to end and know their neighbours,
   the free lists hold the free nodes, each once and in the list of its class, and
   every pointer in use leads to a node of its own that LOS_MemFree accepts. *)
THEOREM PoolStaysSound == Spec => []PoolSound
<1>1. ASSUME MemInv PROVE PoolSound
  <2>1. /\ node \in Nodes /\ Tiled(node) /\ DOMAIN node \subseteq Addr
        /\ head \in [Classes -> Seq(Addr)] /\ Listing(Pool, {})
        /\ Pool.node = node /\ Pool.head = head
    BY <1>1, InvFacts
  <2>2. /\ {0, END_NODE} \subseteq DOMAIN node /\ node[0].pre = NoNode /\ node[END_NODE].used
    BY <2>1 DEF Tiled
  <2>3. ASSUME NEW a \in DOMAIN node \ {END_NODE}
        PROVE  LET n == NextNode(Pool, a)
               IN /\ n \in DOMAIN node /\ node[n].pre = a
                  /\ \A b \in DOMAIN node : ~(a < b /\ b < n)
    <3>1. \A b \in DOMAIN node : b \in Int
      BY <2>1, PoolFacts DEF Addr
    <3>2. NextNode(Pool, a) = a + node[a].size /\ node[a].size \in Int
      BY <2>1, NodeFacts DEF NextNode
    <3>3. /\ a + node[a].size \in DOMAIN node /\ node[a + node[a].size].pre = a
          /\ \A b \in DOMAIN node : b <= a \/ a + node[a].size <= b
      BY <2>1 DEF Tiled
    <3> QED BY <3>1, <3>2, <3>3
  <2>4. ASSUME NEW c \in Classes
        PROVE  /\ IsInjective(head[c])
               /\ Range(head[c]) = {a \in DOMAIN node : Free(Pool, a) /\ Class(node[a].size) = c}
    <3>1. /\ head[c] \in Seq(Addr) /\ IsInjective(head[c])
          /\ \A a \in Addr : Contains(head[c], a) <=> Belongs(Pool, a, c)
      BY <2>1 DEF Listing
    <3>2. \A a : a \in Range(head[c]) <=> Contains(head[c], a) /\ a \in Addr
      BY <3>1 DEF Range, Contains
    <3>3. \A a : a \in {b \in DOMAIN node : Free(Pool, b) /\ Class(node[b].size) = c}
                   <=> Belongs(Pool, a, c) /\ a \in Addr
      BY <2>1 DEF Belongs, Free
    <3> QED BY <3>1, <3>2, <3>3
  <2>5. NodesTile
    BY <2>2, <2>3, <2>4 DEF NodesTile
  <2>6. \A p \in DOMAIN block : InUse(Pool, Base(p)) /\ Base(p) # END_NODE
    BY <1>1, PointerFacts
  <2>7. ASSUME NEW a \in DOMAIN node \ {END_NODE}, ~Free(Pool, a)
        PROVE  osMemCheckUsedNode(Pool, a)
    BY <2>1, <2>7 DEF osMemCheckUsedNode, Tiled, NextNode
  <2>8. \A p \in DOMAIN block : osMemCheckUsedNode(Pool, Base(p))
    BY <2>1, <2>6, <2>7 DEF InUse, Has
  <2>9. {Base(p) : p \in DOMAIN block} = {a \in DOMAIN node \ {END_NODE} : ~Free(Pool, a)}
    <3>1. ASSUME NEW a \in DOMAIN node \ {END_NODE}, ~Free(Pool, a)
          PROVE  \E p \in DOMAIN block : Base(p) = a
      BY <1>1, <2>1, <3>1 DEF MemInv, Pointers, InUse, Has
    <3> QED BY <2>1, <2>6, <3>1 DEF InUse, Has
  <2>10. CanBeFreed
    BY <1>1, <2>8, <2>9 DEF CanBeFreed, MemInv, Pointers
  <2> QED BY <2>5, <2>10 DEF PoolSound
<1> QED BY <1>1, Invariance, PTL

(* Each word of the pool belongs to the last node that starts at or before it. *)
LEMMA NodeOf ==
  ASSUME NEW n, n \in Nodes, Tiled(n), NEW w \in Nat, w < END_NODE
  PROVE  \E a \in DOMAIN n \ {END_NODE} : a <= w /\ w < a + n[a].size
<1> DEFINE D == {a \in DOMAIN n : a <= w}
           a == Max(D)
<1>1. DOMAIN n \subseteq Addr
  BY NodesType
<1>2. D \in SUBSET Nat /\ 0 \in D /\ \A b \in D : b <= w
  BY <1>1, PoolFacts DEF Tiled
<1> HIDE DEF D
<1>3. a \in D /\ \A b \in D : b <= a
  BY <1>2, MaxFacts
<1> HIDE DEF a
<1>4. a \in DOMAIN n /\ a \in Nat /\ a <= w /\ a # END_NODE
  BY <1>2, <1>3 DEF D
<1>5. a + n[a].size \in DOMAIN n /\ n[a].size \in Nat /\ n[a].size > 0
  BY <1>4, NodeFacts, PoolFacts
<1>6. a + n[a].size \notin D
  BY <1>3, <1>4, <1>5
<1>7. w < a + n[a].size
  BY <1>4, <1>5, <1>6 DEF D
<1> QED BY <1>4, <1>7

(* LOS_MemAlloc refuses a request only if every stretch of the pool that could hold
   it has a used word in it.                                               *)
THEOREM RefusesOnlyIfFull == Spec => []RefusedOnlyIfFull
<1>1. ASSUME MemInv PROVE RefusedOnlyIfFull
  <2>1. SUFFICES ASSUME NEW n \in {size + HEAD_SIZE : size \in Sizes},
                        osMemFindSuitableFreeBlock(Pool, n) = NoNode,
                        NEW w \in 0 .. END_NODE - n
                 PROVE  \E v \in w .. w + n - 1 : v \in Owned
    BY DEF RefusedOnlyIfFull
  <2>2. n \in Nat /\ n > HEAD_SIZE /\ n >= 1 /\ HEAD_SIZE \in Nat /\ HEAD_SIZE >= 1 /\ END_NODE \in Nat
    BY MemoryAssumption, PoolFacts
  <2>3. /\ node \in Nodes /\ Tiled(node) /\ Coalesced(node, {}) /\ Tidy(Pool, {}, {})
        /\ Pool.node = node
    BY <1>1, InvFacts
  <2>4. \A b \in DOMAIN node : Free(Pool, b) => node[b].size < n
    <3> DEFINE a == osMemFindSuitableFreeBlock(Pool, n)
    <3>1. a = osMemFindSuitableFreeBlock(Pool, n) /\ a = NoNode
      BY <2>1
    <3> HIDE DEF a
    <3>2. \A b : Has(Pool, b) /\ Free(Pool, b) => Size(Pool, b) \in Nat /\ Size(Pool, b) < n
      BY <2>2, <2>3, <3>1, FindFacts
    <3> QED BY <2>3, <3>2 DEF Has, Size
  <2>5. ASSUME NEW b \in DOMAIN node, ~Free(Pool, b), NEW v \in Int, b <= v, v < b + node[b].size
        PROVE  v \in Owned
    <3>1. b \in Int /\ node[b].size \in Nat /\ NextNode(Pool, b) = b + node[b].size
      BY <2>3, NodeFacts DEF NextNode
    <3>2. v \in b .. NextNode(Pool, b) - 1
      BY <2>5, <3>1
    <3> QED BY <2>3, <2>5, <3>2 DEF Owned
  <2>6. w \in Nat /\ w < END_NODE
    BY <2>2
  <2>7. PICK a \in DOMAIN node \ {END_NODE} : a <= w /\ w < a + node[a].size
    BY <2>3, <2>6, NodeOf
  <2>8. CASE ~Free(Pool, a)
    <3>1. w \in Owned
      BY <2>5, <2>6, <2>7, <2>8
    <3> QED BY <2>2, <2>6, <3>1
  <2>9. CASE Free(Pool, a)
    <3> DEFINE c == a + node[a].size
    <3>1. /\ a \in Nat /\ node[a].size \in Nat /\ node[a].size < n /\ c \in DOMAIN node
          /\ c \in Int /\ node[c].size \in Nat /\ node[c].size >= HEAD_SIZE
      BY <2>3, <2>4, <2>9, NodeFacts
    <3>2. ~Free(Pool, c)
      BY <2>3, <2>9 DEF Coalesced, Free
    <3>3. c <= w + n - 1 /\ w <= c
      BY <2>2, <2>6, <2>7, <3>1
    <3>4. c <= c /\ c < c + node[c].size
      BY <2>2, <3>1
    <3> HIDE DEF c
    <3>5. c \in Owned
      BY <2>5, <3>1, <3>2, <3>4
    <3>6. c \in w .. w + n - 1
      BY <2>2, <2>6, <3>1, <3>3
    <3> QED BY <3>5, <3>6
  <2> QED BY <2>8, <2>9
<1> QED BY <1>1, Invariance, PTL

(* The pool implements the abstract heap: what clients are given lies in the pool,
   never overlaps, and stays what it is until it is freed or resized.      *)
THEOREM PoolImplementsHeap == Spec => ImplementsHeap
<1>1. LOS_MemInit => H!Init
  <2> SUFFICES ASSUME LOS_MemInit PROVE H!Init
    OBVIOUS
  <2>1. block = [p \in {} |-> 0]
    BY DEF LOS_MemInit
  <2>2. DOMAIN block = {}
    BY <2>1
  <2> QED BY <2>1, <2>2 DEF H!Init
<1>2. MemInv /\ [Next]_vars => [H!Next]_[p \in DOMAIN block |-> block[p].size]
  <2>1. ASSUME MemInv, Next PROVE H!Next
    BY <2>1, NextInv
  <2>2. ASSUME UNCHANGED vars PROVE UNCHANGED [p \in DOMAIN block |-> block[p].size]
    BY <2>2 DEF vars
  <2> QED BY <2>1, <2>2
<1> QED BY <1>1, <1>2, Invariance, PTL DEF Spec, ImplementsHeap, H!Spec

(***************************************************************************)
(* Sums over finite sets.  SumFunctionOnSet takes one element after the    *)
(* other, in an order that CHOOSE decides; the sum does not depend on it.  *)
(***************************************************************************)
One(T)           == CHOOSE x \in T : TRUE
SumStep(f, h, T) == IF T = {} THEN 0 ELSE f[One(T)] + h[T \ {One(T)}]

(* h is the sum of f over every subset of S. *)
Summing(f, S, h) == h = [T \in SUBSET S |-> SumStep(f, h, T)]

LEMMA SumUnfolds ==
  ASSUME NEW f, NEW S
  PROVE  SumFunctionOnSet(f, S) = (CHOOSE h : Summing(f, S, h))[S]
BY DEF SumFunctionOnSet, FoldFunctionOnSet, MapThenFoldSet, Summing, SumStep, One

(* A set without one of its elements is smaller. *)
LEMMA Smaller ==
  ASSUME NEW S, IsFiniteSet(S), NEW T \in SUBSET S
  PROVE  /\ IsFiniteSet(T) /\ Cardinality(T) \in Nat /\ Cardinality(T) <= Cardinality(S)
         /\ Cardinality(S) \in Nat /\ (Cardinality(T) = 0 <=> T = {})
         /\ T # {} => One(T) \in T
         /\ \A x \in T : T \ {x} \in SUBSET S /\ Cardinality(T \ {x}) = Cardinality(T) - 1
<1>1. IsFiniteSet(T) /\ Cardinality(T) <= Cardinality(S)
  BY FS_Subset
<1>2. Cardinality(T) \in Nat /\ Cardinality(S) \in Nat
  BY <1>1, FS_CardinalityType
<1>3. Cardinality(T) = 0 <=> T = {}
  BY <1>1, FS_EmptySet
<1>4. T # {} => One(T) \in T
  BY DEF One
<1>5. \A x \in T : Cardinality(T \ {x}) = Cardinality(T) - 1
  BY <1>1, FS_RemoveElement
<1> QED BY <1>1, <1>2, <1>3, <1>4, <1>5

LEMMA SumExists ==
  ASSUME NEW S, IsFiniteSet(S), NEW f
  PROVE  \E h : Summing(f, S, h)
<1> DEFINE Layer(n)   == {T \in SUBSET S : Cardinality(T) <= n}
           Upto(h, n) == h = [T \in Layer(n) |-> SumStep(f, h, T)]
<1>1. ASSUME NEW n \in Nat PROVE \E h : Upto(h, n)
  <2> DEFINE B == {l \in Nat : ~ \E h : Upto(h, l)}
  <2>1. SUFFICES ASSUME B # {} PROVE FALSE
    OBVIOUS
  <2>2. PICK l \in B : \A i \in B : l <= i
    BY <2>1, LeastNatural
  <2>3. CASE l = 0
    <3>1. \A T \in Layer(0) : T = {}
      <4>1. ASSUME NEW T \in SUBSET S, Cardinality(T) <= 0 PROVE T = {}
        BY <4>1, Smaller
      <4> QED BY <4>1
    <3> DEFINE h == [T \in Layer(0) |-> 0]
    <3>2. \A T \in Layer(0) : SumStep(f, h, T) = 0
      BY <3>1 DEF SumStep
    <3>3. Upto(h, 0)
      BY <3>2
    <3> QED BY <2>2, <2>3, <3>3
  <2>4. CASE l # 0
    <3>1. l \in Nat /\ l - 1 \in Nat /\ l - 1 \notin B
      <4> HIDE DEF Upto
      <4>1. l \in Nat
        BY <2>2
      <4>2. l - 1 \in Nat /\ ~(l <= l - 1)
        BY <2>4, <4>1
      <4> QED BY <2>2, <4>1, <4>2
    <3>2. PICK h : Upto(h, l - 1)
      BY <3>1
    <3> DEFINE i == [T \in Layer(l) |-> SumStep(f, h, T)]
    <3>3. ASSUME NEW T \in Layer(l - 1) PROVE T \in Layer(l) /\ i[T] = h[T]
      <4>1. T \in SUBSET S /\ Cardinality(T) <= l - 1
        BY <3>3
      <4>2. T \in Layer(l)
        BY <3>1, <4>1, Smaller
      <4>3. h[T] = SumStep(f, h, T)
        BY <3>2, <3>3
      <4> QED BY <4>2, <4>3
    <3>4. ASSUME NEW T \in Layer(l) PROVE SumStep(f, h, T) = SumStep(f, i, T)
      <4>1. CASE T = {}
        BY <4>1 DEF SumStep
      <4>2. CASE T # {}
        <5> DEFINE U == T \ {One(T)}
        <5>1. T \in SUBSET S /\ Cardinality(T) <= l
          BY <3>4
        <5>2. U \in SUBSET S /\ Cardinality(U) = Cardinality(T) - 1 /\ Cardinality(T) \in Nat
          BY <4>2, <5>1, Smaller
        <5>3. U \in Layer(l - 1)
          BY <3>1, <5>1, <5>2
        <5>4. i[U] = h[U]
          BY <3>3, <5>3
        <5> HIDE DEF i
        <5> QED BY <4>2, <5>4 DEF SumStep
      <4> QED BY <4>1, <4>2
    <3>5. Upto(i, l)
      <4> DEFINE j == [T \in Layer(l) |-> SumStep(f, i, T)]
      <4>1. \A T \in Layer(l) : i[T] = j[T]
        <5>1. ASSUME NEW T \in Layer(l) PROVE i[T] = j[T]
          <6>1. i[T] = SumStep(f, h, T)
            OBVIOUS
          <6> HIDE DEF i
          <6> QED BY <3>4, <6>1
        <5> QED BY <5>1
      <4>2. i = [T \in Layer(l) |-> i[T]] /\ j = [T \in Layer(l) |-> j[T]]
        OBVIOUS
      <4> HIDE DEF i, j, Layer
      <4>3. i = j
        BY <4>1, <4>2
      <4> QED BY <4>3 DEF j
    <3> HIDE DEF i
    <3> QED BY <2>2, <3>5
  <2> QED BY <2>3, <2>4
<1>2. Cardinality(S) \in Nat
  BY FS_CardinalityType
<1>3. PICK h : Upto(h, Cardinality(S))
  BY <1>1, <1>2
<1>4. Layer(Cardinality(S)) = SUBSET S
  <2>1. ASSUME NEW T \in SUBSET S PROVE Cardinality(T) <= Cardinality(S)
    BY Smaller
  <2> QED BY <2>1
<1>5. Summing(f, S, h)
  BY <1>3, <1>4 DEF Summing
<1> QED BY <1>5

(* The order does not matter. *)
LEMMA SummingFacts ==
  ASSUME NEW S, IsFiniteSet(S), NEW f, NEW h, Summing(f, S, h), \A x \in S : f[x] \in Int
  PROVE  \A T \in SUBSET S : h[T] \in Int /\ \A x \in T : h[T] = f[x] + h[T \ {x}]
<1> DEFINE Good(T) == h[T] \in Int /\ \A x \in T : h[T] = f[x] + h[T \ {x}]
           B == {n \in Nat : \E T \in SUBSET S : Cardinality(T) = n /\ ~Good(T)}
<1>1. SUFFICES ASSUME NEW T \in SUBSET S, ~Good(T) PROVE FALSE
  OBVIOUS
<1>2. B # {}
  <2>1. Cardinality(T) \in Nat
    BY Smaller
  <2> HIDE DEF Good
  <2> QED BY <1>1, <2>1
<1>3. PICK n \in B : \A m \in B : n <= m
  BY <1>2, LeastNatural
<1>4. PICK U \in SUBSET S : Cardinality(U) = n /\ ~Good(U)
  BY <1>3
<1>5. ASSUME NEW V \in SUBSET S, Cardinality(V) < n PROVE Good(V)
  <2>1. Cardinality(V) \in Nat /\ n \in Nat
    BY <1>3, Smaller
  <2> HIDE DEF Good
  <2>2. Cardinality(V) \notin B
    BY <1>3, <1>5, <2>1
  <2> QED BY <2>1, <2>2
<1>6. h[U] = SumStep(f, h, U)
  BY DEF Summing
<1>7. CASE U = {}
  BY <1>4, <1>6, <1>7 DEF SumStep
<1>8. CASE U # {}
  <2> DEFINE c == One(U)
             V == U \ {c}
  <2>1. /\ c \in U /\ V \in SUBSET S /\ Cardinality(V) < n /\ n \in Nat
        /\ \A x \in U : U \ {x} \in SUBSET S /\ Cardinality(U \ {x}) < n
    <3>1. Cardinality(U) = n /\ n \in Nat
      BY <1>3, <1>4
    <3>2. One(U) \in U /\ \A x \in U : U \ {x} \in SUBSET S /\ Cardinality(U \ {x}) = n - 1
      BY <1>8, <3>1, Smaller
    <3> QED BY <3>1, <3>2
  <2>2. h[U] = f[c] + h[V]
    BY <1>6, <1>8 DEF SumStep
  <2> HIDE DEF c, V
  <2>3. h[V] \in Int /\ \A x \in V : h[V] = f[x] + h[V \ {x}]
    BY <1>5, <2>1
  <2>4. h[U] \in Int
    BY <2>1, <2>2, <2>3
  <2>5. ASSUME NEW x \in U PROVE h[U] = f[x] + h[U \ {x}]
    <3>1. CASE x = c
      BY <2>2, <3>1 DEF V
    <3>2. CASE x # c
      <4> DEFINE W == U \ {x}
                 X == V \ {x}
      <4>1. x \in V /\ c \in W /\ X = W \ {c} /\ X \in SUBSET S /\ W \in SUBSET S
        BY <2>1, <2>5, <3>2 DEF V
      <4>2. h[V] = f[x] + h[X]
        BY <2>3, <4>1
      <4>3. h[W] = f[c] + h[X]
        <5>1. Good(W)
          BY <1>5, <2>1, <2>5
        <5> HIDE DEF W, X
        <5> QED BY <4>1, <5>1
      <4>4. h[X] \in Int
        <5>1. Cardinality(X) < n
          <6>1. Cardinality(V) \in Nat /\ Cardinality(X) = Cardinality(V) - 1
            BY <2>1, <4>1, Smaller
          <6> QED BY <2>1, <6>1
        <5>2. Good(X)
          BY <1>5, <4>1, <5>1
        <5> QED BY <5>2
      <4>5. f[x] \in Int /\ f[c] \in Int
        BY <2>1, <2>5
      <4>6. h[U] = f[x] + h[W]
        <5> HIDE DEF W, X
        <5> QED BY <2>2, <4>2, <4>3, <4>4, <4>5
      <4> QED BY <4>6
    <3> QED BY <3>1, <3>2
  <2> QED BY <1>4, <2>4, <2>5
<1> QED BY <1>7, <1>8

(* Two sums of the same summands are the same. *)
LEMMA SummingAgrees ==
  ASSUME NEW S, NEW R, IsFiniteSet(S), IsFiniteSet(R), NEW f, NEW g, NEW h, NEW k,
         Summing(f, S, h), Summing(g, R, k), NEW U, U \in SUBSET S, U \in SUBSET R,
         \A x \in U : f[x] = g[x]
  PROVE  h[U] = k[U]
<1> DEFINE B == {n \in Nat : \E T \in SUBSET U : Cardinality(T) = n /\ h[T] # k[T]}
<1>1. SUFFICES ASSUME h[U] # k[U] PROVE FALSE
  OBVIOUS
<1>2. IsFiniteSet(U) /\ Cardinality(U) \in Nat
  BY Smaller
<1>3. B # {}
  BY <1>1, <1>2
<1>4. PICK n \in B : \A m \in B : n <= m
  BY <1>3, LeastNatural
<1>5. PICK T \in SUBSET U : Cardinality(T) = n /\ h[T] # k[T]
  BY <1>4
<1>6. h[T] = SumStep(f, h, T) /\ k[T] = SumStep(g, k, T)
  <2>1. T \in SUBSET S /\ T \in SUBSET R
    OBVIOUS
  <2> QED BY <2>1 DEF Summing
<1>7. T # {}
  BY <1>5, <1>6 DEF SumStep
<1> DEFINE c == One(T)
           V == T \ {c}
<1>8. c \in T /\ V \in SUBSET U /\ Cardinality(V) = n - 1
  BY <1>2, <1>5, <1>7, Smaller
<1> HIDE DEF c, V
<1>9. h[V] = k[V]
  <2>1. n \in Nat /\ n # 0
    BY <1>2, <1>4, <1>5, <1>7, Smaller
  <2>2. n - 1 \in Nat /\ ~(n <= n - 1)
    BY <2>1
  <2> QED BY <1>4, <1>8, <2>2
<1>10. f[c] = g[c]
  BY <1>8
<1>11. h[T] = f[c] + h[V] /\ k[T] = g[c] + k[V]
  BY <1>6, <1>7 DEF SumStep, c, V
<1> QED BY <1>5, <1>9, <1>10, <1>11

LEMMA SumIs ==
  ASSUME NEW S, IsFiniteSet(S), NEW f
  PROVE  \E h : Summing(f, S, h) /\ SumFunctionOnSet(f, S) = h[S]
<1> DEFINE h == CHOOSE h : Summing(f, S, h)
<1>1. Summing(f, S, h)
  BY SumExists
<1>2. SumFunctionOnSet(f, S) = h[S]
  BY SumUnfolds
<1> HIDE DEF h
<1> QED BY <1>1, <1>2

(* Any element can be taken out of a sum first. *)
LEMMA SumFacts ==
  ASSUME NEW S, IsFiniteSet(S), NEW f, \A x \in S : f[x] \in Int
  PROVE  /\ SumFunctionOnSet(f, {}) = 0 /\ SumFunctionOnSet(f, S) \in Int
         /\ \A x \in S : SumFunctionOnSet(f, S) = f[x] + SumFunctionOnSet(f, S \ {x})
<1>1. PICK h : Summing(f, S, h) /\ SumFunctionOnSet(f, S) = h[S]
  BY SumIs
<1>2. SumFunctionOnSet(f, S) \in Int /\ \A x \in S : SumFunctionOnSet(f, S) = f[x] + h[S \ {x}]
  BY <1>1, SummingFacts
<1>3. ASSUME NEW T \in SUBSET S PROVE SumFunctionOnSet(f, T) = h[T]
  <2>1. IsFiniteSet(T)
    BY FS_Subset
  <2>2. PICK k : Summing(f, T, k) /\ SumFunctionOnSet(f, T) = k[T]
    BY <2>1, SumIs
  <2>3. T \in SUBSET S /\ T \in SUBSET T /\ \A x \in T : f[x] = f[x]
    OBVIOUS
  <2>4. h[T] = k[T]
    BY <1>1, <2>1, <2>2, <2>3, SummingAgrees
  <2> QED BY <2>2, <2>4
<1>4. h[{}] = 0
  <2>1. h[{}] = SumStep(f, h, {})
    BY <1>1 DEF Summing
  <2> QED BY <2>1 DEF SumStep
<1>5. SumFunctionOnSet(f, {}) = 0
  BY <1>3, <1>4
<1>6. \A x \in S : SumFunctionOnSet(f, S \ {x}) = h[S \ {x}]
  BY <1>3
<1> QED BY <1>2, <1>5, <1>6

LEMMA SumSame ==
  ASSUME NEW S, IsFiniteSet(S), NEW f, NEW g, \A x \in S : f[x] = g[x]
  PROVE  SumFunctionOnSet(f, S) = SumFunctionOnSet(g, S)
<1>1. PICK h : Summing(f, S, h) /\ SumFunctionOnSet(f, S) = h[S]
  BY SumIs
<1>2. PICK k : Summing(g, S, k) /\ SumFunctionOnSet(g, S) = k[S]
  BY SumIs
<1>3. S \in SUBSET S
  OBVIOUS
<1>4. h[S] = k[S]
  BY <1>1, <1>2, <1>3, SummingAgrees
<1> QED BY <1>1, <1>2, <1>4

(* A sum changes by what its summand a changes by. *)
LEMMA SumChange ==
  ASSUME NEW S, NEW R, IsFiniteSet(S), IsFiniteSet(R), NEW f, NEW g, NEW a,
         \A x \in S : f[x] \in Int, \A x \in R : g[x] \in Int,
         S \ {a} = R \ {a}, \A x \in S \ {a} : f[x] = g[x]
  PROVE  SumFunctionOnSet(g, R) - SumFunctionOnSet(f, S) =
           (IF a \in R THEN g[a] ELSE 0) - (IF a \in S THEN f[a] ELSE 0)
<1> DEFINE T == S \ {a}
           s == SumFunctionOnSet(f, T)
<1>1. IsFiniteSet(T) /\ \A x \in T : f[x] \in Int
  BY FS_RemoveElement
<1>2. s \in Int
  BY <1>1, SumFacts
<1>3. SumFunctionOnSet(g, T) = s
  BY <1>1, SumSame
<1>4. SumFunctionOnSet(f, S) = (IF a \in S THEN f[a] ELSE 0) + s
  <2>1. CASE a \in S
    BY <2>1, SumFacts
  <2>2. CASE a \notin S
    <3>1. SumFunctionOnSet(f, S) = s
      <4>1. T = S
        BY <2>2
      <4> QED BY <4>1
    <3> HIDE DEF s
    <3> QED BY <1>2, <2>2, <3>1
  <2> QED BY <2>1, <2>2
<1>5. SumFunctionOnSet(g, R) = (IF a \in R THEN g[a] ELSE 0) + s
  <2>1. CASE a \in R
    <3>1. SumFunctionOnSet(g, R) = g[a] + SumFunctionOnSet(g, R \ {a})
      BY <2>1, SumFacts
    <3> QED BY <1>3, <2>1, <3>1
  <2>2. CASE a \notin R
    <3>1. SumFunctionOnSet(g, R) = s
      <4>1. T = R
        BY <2>2
      <4> HIDE DEF T, s
      <4> QED BY <1>3, <4>1
    <3> HIDE DEF s
    <3> QED BY <1>2, <2>2, <3>1
  <2> QED BY <2>1, <2>2
<1>6. (a \in S => f[a] \in Int) /\ (a \in R => g[a] \in Int)
  OBVIOUS
<1> HIDE DEF s
<1> QED BY <1>2, <1>4, <1>5, <1>6

(***************************************************************************)
(* The statistics.                                                         *)
(***************************************************************************)

(* The used nodes of the pool h, without the end node, and their sizes together. *)
UsedNodes(h) == {a \in DOMAIN h.node \ {END_NODE} : ~Free(h, a)}
Total(h)     == SumFunctionOnSet([a \in DOMAIN h.node |-> h.node[a].size], UsedNodes(h))
At(h, a)     == IF InUse(h, a) THEN Size(h, a) ELSE 0

(* What the clients are charged is the total, as far as their counters can hold it. *)
Charged ==
  \E q \in Int : SumFunctionOnSet(memUsed, Client) = Total(Pool) + UintSize * q

LEMMA UsedFacts ==
  ASSUME NEW h, h \in Pools, NEW f, f = [a \in DOMAIN h.node |-> h.node[a].size]
  PROVE  /\ IsFiniteSet(UsedNodes(h)) /\ \A a \in UsedNodes(h) : f[a] \in Int /\ f[a] \in Nat
         /\ UsedNodes(h) \subseteq Addr
         /\ \A a \in DOMAIN h.node : f[a] = Size(h, a)
         /\ \A a : a \in UsedNodes(h) <=> InUse(h, a) /\ a # END_NODE
<1>1. h.node \in [DOMAIN h.node -> Header] /\ DOMAIN h.node \subseteq Addr
  BY PoolFields, NodesType
<1>2. IsFiniteSet(Addr)
  <2>1. 0 \in Int /\ END_NODE \in Int
    BY PoolFacts
  <2> QED BY <2>1, FS_Interval DEF Addr
<1>3. UsedNodes(h) \subseteq Addr
  BY <1>1 DEF UsedNodes
<1>4. IsFiniteSet(UsedNodes(h))
  BY <1>2, <1>3, FS_Subset
<1>5. \A a \in DOMAIN h.node : f[a] = Size(h, a) /\ f[a] \in Nat
  BY <1>1 DEF Size, Header
<1> QED BY <1>3, <1>4, <1>5 DEF UsedNodes, InUse, Has

(* A pool in which only node a changes changes its total by what a changes. *)
LEMMA TotalChange ==
  ASSUME NEW h, NEW x, NEW a \in Addr, h \in Pools, x \in Pools, a # END_NODE, SameUsed(h, x, a)
  PROVE  /\ Total(h) \in Int /\ Total(x) \in Int /\ At(h, a) \in Nat /\ At(x, a) \in Nat
         /\ Total(x) = Total(h) + (At(x, a) - At(h, a))
<1> DEFINE f == [b \in DOMAIN h.node |-> h.node[b].size]
           g == [b \in DOMAIN x.node |-> x.node[b].size]
           S == UsedNodes(h)
           R == UsedNodes(x)
<1>1. /\ IsFiniteSet(S) /\ \A b \in S : f[b] \in Int /\ f[b] = Size(h, b) /\ f[b] \in Nat
      /\ S \subseteq Addr /\ \A b : b \in S <=> InUse(h, b) /\ b # END_NODE
  <2>1. f = [b \in DOMAIN h.node |-> h.node[b].size]
    OBVIOUS
  <2> HIDE DEF f
  <2>2. \A b \in S : b \in DOMAIN h.node
    BY DEF UsedNodes
  <2> QED BY <2>1, <2>2, UsedFacts
<1>2. /\ IsFiniteSet(R) /\ \A b \in R : g[b] \in Int /\ g[b] = Size(x, b) /\ g[b] \in Nat
      /\ R \subseteq Addr /\ \A b : b \in R <=> InUse(x, b) /\ b # END_NODE
  <2>1. g = [b \in DOMAIN x.node |-> x.node[b].size]
    OBVIOUS
  <2> HIDE DEF g
  <2>2. \A b \in R : b \in DOMAIN x.node
    BY DEF UsedNodes
  <2> QED BY <2>1, <2>2, UsedFacts
<1>3. Total(h) = SumFunctionOnSet(f, S) /\ Total(x) = SumFunctionOnSet(g, R)
  BY DEF Total
<1> HIDE DEF f, g, S, R
<1>4. S \ {a} = R \ {a} /\ \A b \in S \ {a} : f[b] = g[b]
  BY <1>1, <1>2 DEF SameUsed
<1>5. SumFunctionOnSet(g, R) - SumFunctionOnSet(f, S) =
        (IF a \in R THEN g[a] ELSE 0) - (IF a \in S THEN f[a] ELSE 0)
  BY <1>1, <1>2, <1>4, SumChange
<1>6. SumFunctionOnSet(g, R) \in Int /\ SumFunctionOnSet(f, S) \in Int
  BY <1>1, <1>2, SumFacts
<1>7. At(h, a) = (IF a \in S THEN f[a] ELSE 0) /\ At(h, a) \in Nat
  BY <1>1 DEF At
<1>8. At(x, a) = (IF a \in R THEN g[a] ELSE 0) /\ At(x, a) \in Nat
  BY <1>2 DEF At
<1> QED BY <1>3, <1>5, <1>6, <1>7, <1>8

(* The used nodes below a node fit below it, so all of them fit into the pool. *)
LEMMA TotalFits ==
  ASSUME NEW h, h \in Pools, Tiled(h.node)
  PROVE  Total(h) \in Nat /\ Total(h) <= END_NODE
<1> DEFINE f == [b \in DOMAIN h.node |-> h.node[b].size]
           Below(a) == {b \in UsedNodes(h) : b < a}
           s(a) == SumFunctionOnSet(f, Below(a))
           Fits(a) == s(a) \in Nat /\ s(a) <= a
           B == {a \in DOMAIN h.node : ~Fits(a)}
<1>1. /\ IsFiniteSet(UsedNodes(h)) /\ UsedNodes(h) \subseteq Addr
      /\ \A b \in UsedNodes(h) : f[b] \in Int /\ f[b] \in Nat
      /\ \A b \in DOMAIN h.node : f[b] = Size(h, b)
      /\ \A b : b \in UsedNodes(h) <=> InUse(h, b) /\ b # END_NODE
  <2>1. f = [b \in DOMAIN h.node |-> h.node[b].size]
    OBVIOUS
  <2> HIDE DEF f
  <2> QED BY <2>1, UsedFacts
<1>2. Total(h) = SumFunctionOnSet(f, UsedNodes(h))
  BY DEF Total
<1> HIDE DEF f
<1>3. h.node \in Nodes /\ DOMAIN h.node \subseteq Addr /\ DOMAIN h.node \in SUBSET Nat
  BY PoolFields, NodesType, PoolFacts
<1>4. B = {}
  <2>1. SUFFICES ASSUME B # {} PROVE FALSE
    OBVIOUS
  <2>2. B \in SUBSET Nat
    BY <1>3
  <2>3. PICK a \in B : \A b \in B : a <= b
    <3> HIDE DEF B
    <3> QED BY <2>1, <2>2, LeastNatural
  <2>4. a \in DOMAIN h.node /\ ~Fits(a) /\ a \in Nat
    BY <2>2, <2>3
  <2>5. CASE a = 0
    <3>1. Below(0) = {}
      BY <1>1, PoolFacts DEF Addr
    <3>2. s(0) = 0
      BY <1>1, <3>1, SumFacts
    <3> QED BY <2>4, <2>5, <3>2
  <2>6. CASE a # 0
    <3> DEFINE p == h.node[a].pre
               k == Size(h, p)
    <3>1. /\ p \in DOMAIN h.node /\ p # END_NODE /\ p < a /\ p >= 0 /\ p + k = a
          /\ p \in Nat /\ k \in Nat
      <4>1. p \in DOMAIN h.node \ {END_NODE} /\ p < a /\ p >= 0 /\ p + h.node[p].size = a
        BY <1>3, <2>4, <2>6, NodeFacts
      <4>2. h.node[p].size \in Nat /\ p \in Nat
        BY <1>3, <4>1, NodeFacts
      <4> QED BY <4>1, <4>2 DEF Size
    <3>2. \A b \in DOMAIN h.node : b <= p \/ a <= b
      BY <3>1 DEF Tiled, Size
    <3> HIDE DEF p, k
    <3>3. Fits(p)
      <4>1. p \notin B
        BY <2>3, <2>4, <3>1
      <4> HIDE DEF Fits
      <4> QED BY <3>1, <4>1
    <3> DEFINE S == Below(p)
               R == Below(a)
    <3>4. IsFiniteSet(S) /\ IsFiniteSet(R)
      BY <1>1, FS_Subset
    <3>5. S \ {p} = R \ {p} /\ p \notin S /\ (p \in R => p \in UsedNodes(h))
      <4>1. \A b \in UsedNodes(h) : b \in DOMAIN h.node /\ b \in Nat
        BY <1>1, <1>3 DEF InUse, Has
      <4>2. \A b \in UsedNodes(h) : b # p => (b < p <=> b < a)
        BY <2>4, <3>1, <3>2, <4>1
      <4> QED BY <3>1, <4>1, <4>2
    <3>6. \A b \in S : f[b] \in Int
      BY <1>1
    <3>7. \A b \in R : f[b] \in Int
      BY <1>1
    <3> HIDE DEF S, R
    <3>8. SumFunctionOnSet(f, R) - SumFunctionOnSet(f, S) =
            (IF p \in R THEN f[p] ELSE 0) - (IF p \in S THEN f[p] ELSE 0)
      <4>1. \A b \in S \ {p} : f[b] = f[b]
        OBVIOUS
      <4> QED BY <3>4, <3>5, <3>6, <3>7, <4>1, SumChange
    <3>9. SumFunctionOnSet(f, R) \in Int /\ SumFunctionOnSet(f, S) \in Int
      BY <3>4, <3>6, <3>7, SumFacts
    <3>10. (IF p \in R THEN f[p] ELSE 0) \in Nat /\ (IF p \in R THEN f[p] ELSE 0) <= k
      BY <1>1, <3>1, <3>5 DEF k
    <3>11. SumFunctionOnSet(f, R) = s(a) /\ SumFunctionOnSet(f, S) = s(p)
      BY DEF R, S
    <3>12. s(p) \in Nat /\ s(p) <= p
      BY <3>3
    <3> HIDE DEF s
    <3>13. s(a) = s(p) + (IF p \in R THEN f[p] ELSE 0)
      BY <3>5, <3>8, <3>9, <3>10, <3>11, <3>12
    <3>14. s(a) \in Nat /\ s(a) <= a
      BY <3>1, <3>10, <3>12, <3>13
    <3> QED BY <2>4, <3>14
  <2> QED BY <2>5, <2>6
<1>5. END_NODE \in DOMAIN h.node
  BY DEF Tiled
<1>6. Below(END_NODE) = UsedNodes(h)
  BY <1>1, PoolFacts DEF Addr
<1>7. Fits(END_NODE)
  BY <1>4, <1>5
<1> QED BY <1>2, <1>6, <1>7

LEMMA CountersFacts ==
  ASSUME IsFiniteSet(Client), MemInv
  PROVE  /\ UintSize \in Nat /\ UintSize > 0 /\ UintSize > END_NODE
         /\ memUsed \in [Client -> 0 .. UintSize - 1] /\ \A c \in Client : memUsed[c] \in Int
         /\ SumFunctionOnSet(memUsed, Client) \in Int
<1>1. UintSize \in Nat /\ UintSize > 0 /\ UintSize > END_NODE
  BY MemoryAssumption, PoolFacts DEF END_NODE
<1>2. memUsed \in [Client -> 0 .. UintSize - 1]
  BY DEF MemInv
<1>3. \A c \in Client : memUsed[c] \in Int
  BY <1>1, <1>2
<1>4. PICK f : f = memUsed
  OBVIOUS
<1>5. SumFunctionOnSet(f, Client) \in Int
  BY <1>3, <1>4, SumFacts
<1> QED BY <1>1, <1>2, <1>3, <1>4, <1>5

(* What is charged to one client is charged to all together. *)
LEMMA ChargeSum ==
  ASSUME IsFiniteSet(Client), MemInv, NEW t \in Client, NEW n \in Int, Charge(t, n)
  PROVE  \E q \in Int : SumFunctionOnSet(memUsed', Client) =
                          SumFunctionOnSet(memUsed, Client) + n + UintSize * q
<1>1. PICK f, g, u : f = memUsed /\ g = memUsed' /\ u = UintSize
  OBVIOUS
<1>2. /\ u \in Nat /\ u > 0 /\ f \in [Client -> 0 .. u - 1] /\ \A c \in Client : f[c] \in Int
      /\ SumFunctionOnSet(f, Client) \in Int
  BY <1>1, CountersFacts
<1>3. g = [f EXCEPT ![t] = (f[t] + n) % u]
  BY <1>1 DEF Charge
<1>4. g[t] = (f[t] + n) % u /\ \A c \in Client \ {t} : f[c] = g[c]
  BY <1>2, <1>3
<1>5. f[t] + n \in Int
  BY <1>2
<1> DEFINE v == f[t] + n
           q == v \div u
<1>6. v % u \in Int /\ q \in Int /\ v = u * q + (v % u)
  <2>1. v \in Int
    BY <1>5
  <2> HIDE DEF v
  <2> QED BY <1>2, <2>1
<1>7. \A c \in Client : g[c] \in Int
  BY <1>2, <1>4, <1>6
<1>8. SumFunctionOnSet(g, Client) - SumFunctionOnSet(f, Client) =
        (IF t \in Client THEN g[t] ELSE 0) - (IF t \in Client THEN f[t] ELSE 0)
  <2> DEFINE S == Client
  <2>1. /\ IsFiniteSet(S) /\ \A c \in S : f[c] \in Int /\ g[c] \in Int
        /\ S \ {t} = S \ {t} /\ \A c \in S \ {t} : f[c] = g[c]
    BY <1>2, <1>4, <1>7
  <2> QED BY <2>1, SumChange
<1>9. SumFunctionOnSet(g, Client) \in Int
  BY <1>7, SumFacts
<1> HIDE DEF q
<1>10. u * (-q) = -(u * q) /\ u * q \in Int
  BY <1>2, <1>6
<1>11. SumFunctionOnSet(g, Client) = SumFunctionOnSet(f, Client) + n + u * (-q)
  <2>1. PICK A, B, w : A = SumFunctionOnSet(g, Client) /\ B = SumFunctionOnSet(f, Client) /\ w = u * q
    OBVIOUS
  <2>2. A \in Int /\ B \in Int /\ w \in Int /\ f[t] \in Int /\ g[t] \in Int
    BY <1>2, <1>7, <1>9, <1>10, <2>1
  <2>3. A - B = g[t] - f[t]
    BY <1>8, <2>1
  <2>4. f[t] + n = w + g[t]
    BY <1>4, <1>6, <2>1
  <2>5. A = B + n + (-w)
    BY <2>2, <2>3, <2>4
  <2> QED BY <1>10, <2>1, <2>5
<1>12. -q \in Int
  BY <1>6
<1> QED BY <1>1, <1>11, <1>12

(* A call that charges what the total of the pool changes by keeps the sums in step. *)
LEMMA ChargedStep ==
  ASSUME IsFiniteSet(Client), MemInv, Charged, NEW t \in Client, NEW n \in Int, Charge(t, n),
         Total(Pool) \in Int, Total(Pool') = Total(Pool) + n
  PROVE  Charged'
<1>1. PICK q \in Int : SumFunctionOnSet(memUsed, Client) = Total(Pool) + UintSize * q
  BY DEF Charged
<1>2. PICK r \in Int : SumFunctionOnSet(memUsed', Client) =
                         SumFunctionOnSet(memUsed, Client) + n + UintSize * r
  BY ChargeSum
<1>3. UintSize \in Nat
  BY CountersFacts
<1>4. /\ q + r \in Int /\ UintSize * (q + r) = UintSize * q + UintSize * r
      /\ UintSize * q \in Int /\ UintSize * r \in Int
  BY <1>3
<1>5. SumFunctionOnSet(memUsed', Client) = Total(Pool') + UintSize * (q + r)
  BY <1>1, <1>2, <1>4
<1> QED BY <1>4, <1>5 DEF Charged

(* One node of the pool changes, and its change is charged. *)
LEMMA NodeCharged ==
  ASSUME IsFiniteSet(Client), MemInv, Charged, NEW t \in Client, NEW n, Charge(t, n),
         NEW h, Becomes(h), Tidy(h, {}, {}), NEW a \in Addr, a # END_NODE, SameUsed(Pool, h, a),
         n = At(h, a) - At(Pool, a)
  PROVE  Charged'
<1>1. Pool' = h /\ h \in Pools
  BY BecomesFacts DEF Tidy
<1>2. PICK x : x = Pool
  OBVIOUS
<1>3. x \in Pools /\ SameUsed(x, h, a)
  BY <1>2 DEF MemInv, Tidy
<1>4. /\ Total(x) \in Int /\ At(x, a) \in Nat /\ At(h, a) \in Nat
      /\ Total(h) = Total(x) + (At(h, a) - At(x, a))
  BY <1>1, <1>3, TotalChange
<1>5. n \in Int /\ Total(Pool) \in Int /\ Total(Pool') = Total(Pool) + n
  BY <1>1, <1>2, <1>4
<1> QED BY <1>5, ChargedStep

(* One lemma per call: which node it changes, and what it charges for it. *)
LEMMA AllocCharged ==
  ASSUME IsFiniteSet(Client), MemInv, Charged, NEW t \in Client, NEW k \in Nat, k > HEAD_SIZE,
         NEW a, a = osMemFindSuitableFreeBlock(Pool, k), a # NoNode,
         NEW h, h = AllocNode(Pool, a, k), Becomes(h), Charge(t, Size(h, a))
  PROVE  Charged'
<1>1. Tidy(Pool, {}, {}) /\ k >= 1
  BY PoolFacts DEF MemInv
<1>2. Has(Pool, a) /\ Free(Pool, a) /\ a # END_NODE /\ a \in Addr /\ Size(Pool, a) >= k
  BY <1>1, FindFacts
<1>3. /\ Tidy(h, {}, {}) /\ InUse(h, a) /\ Size(h, a) \in Nat /\ SameUsed(Pool, h, a)
  BY <1>1, <1>2, AllocNodeFacts
<1>4. ~InUse(Pool, a)
  BY <1>2 DEF InUse
<1>5. Size(h, a) = At(h, a) - At(Pool, a)
  BY <1>3, <1>4 DEF At
<1> QED BY <1>2, <1>3, <1>5, NodeCharged

LEMMA MemAllocCharged ==
  ASSUME IsFiniteSet(Client), MemInv, Charged, NEW t \in Client, NEW size \in Sizes,
         LOS_MemAlloc(t, size)
  PROVE  Charged'
<1> DEFINE k == size + HEAD_SIZE
           a == osMemFindSuitableFreeBlock(Pool, k)
           h == AllocNode(Pool, a, k)
<1>1. a # NoNode /\ Becomes(h) /\ Charge(t, Size(h, a))
  BY DEF LOS_MemAlloc
<1>2. k \in Nat /\ k > HEAD_SIZE
  BY MemoryAssumption
<1>3. a = osMemFindSuitableFreeBlock(Pool, k) /\ h = AllocNode(Pool, a, k)
  OBVIOUS
<1> HIDE DEF k, a, h
<1> QED BY <1>1, <1>2, <1>3, AllocCharged

LEMMA MemAllocAlignCharged ==
  ASSUME IsFiniteSet(Client), MemInv, Charged, NEW t \in Client, NEW size \in Sizes,
         NEW boundary \in Boundaries, LOS_MemAllocAlign(t, size, boundary)
  PROVE  Charged'
<1> DEFINE k == size + boundary + 1 + HEAD_SIZE
           a == osMemFindSuitableFreeBlock(Pool, k)
           h == AllocNode(Pool, a, k)
<1>1. a # NoNode /\ Becomes(h) /\ Charge(t, Size(h, a))
  BY DEF LOS_MemAllocAlign
<1>2. k \in Nat /\ k > HEAD_SIZE
  BY MemoryAssumption
<1>3. a = osMemFindSuitableFreeBlock(Pool, k) /\ h = AllocNode(Pool, a, k)
  OBVIOUS
<1> HIDE DEF k, a, h
<1> QED BY <1>1, <1>2, <1>3, AllocCharged

LEMMA MemFreeCharged ==
  ASSUME IsFiniteSet(Client), MemInv, Charged, NEW t \in Client, NEW p \in DOMAIN block,
         LOS_MemFree(t, p)
  PROVE  Charged'
<1> DEFINE a == Base(p)
           h == osMemFreeNode(Pool, a)
<1>1. Becomes(h) /\ Charge(t, -Size(Pool, a))
  BY DEF LOS_MemFree
<1>2. /\ InUse(Pool, a) /\ a # END_NODE /\ a \in Addr /\ Size(Pool, a) \in Nat
      /\ Tidy(Pool, {}, {})
  BY PointerFacts DEF MemInv
<1>3. h = osMemFreeNode(Pool, a)
  OBVIOUS
<1> HIDE DEF a, h
<1>4. Tidy(h, {}, {}) /\ ~InUse(h, a) /\ SameUsed(Pool, h, a)
  BY <1>2, <1>3, FreeNodeFacts
<1>5. -Size(Pool, a) = At(h, a) - At(Pool, a)
  BY <1>2, <1>4 DEF At
<1> QED BY <1>1, <1>2, <1>4, <1>5, NodeCharged

LEMMA ReAllocSmallerCharged ==
  ASSUME IsFiniteSet(Client), MemInv, Charged, NEW t \in Client, NEW p \in DOMAIN block,
         NEW size \in Sizes, osMemReAllocSmaller(t, p, size)
  PROVE  Charged'
<1> DEFINE a == Base(p)
           k == size + HEAD_SIZE
           h == IF Splits(k, Size(Pool, a)) THEN osMemSpitNode(Pool, a, k) ELSE Pool
<1>1. Size(Pool, a) >= k /\ Becomes(h) /\ Charge(t, Size(h, a) - Size(Pool, a))
  BY DEF osMemReAllocSmaller
<1>2. /\ InUse(Pool, a) /\ a # END_NODE /\ a \in Addr /\ Tidy(Pool, {}, {})
  BY PointerFacts DEF MemInv
<1>3. k \in Nat /\ k > HEAD_SIZE
  BY MemoryAssumption
<1>4. h = IF Splits(k, Size(Pool, a)) THEN osMemSpitNode(Pool, a, k) ELSE Pool
  OBVIOUS
<1> HIDE DEF a, k, h
<1>5. Tidy(h, {}, {}) /\ InUse(h, a) /\ SameUsed(Pool, h, a)
  BY <1>1, <1>2, <1>3, <1>4, ShrinkFacts DEF InUse, Has
<1>6. Size(h, a) - Size(Pool, a) = At(h, a) - At(Pool, a)
  BY <1>2, <1>5 DEF At
<1> QED BY <1>1, <1>2, <1>5, <1>6, NodeCharged

LEMMA ReAllocBiggerCharged ==
  ASSUME IsFiniteSet(Client), MemInv, Charged, NEW t \in Client, NEW p \in DOMAIN block,
         NEW size \in Sizes, osMemMergeNodeForReAllocBigger(t, p, size)
  PROVE  Charged'
<1> DEFINE a == Base(p)
           k == size + HEAD_SIZE
           b == NextNode(Pool, a)
           x == osMemMergeNode(LOS_ListDelete(Pool, b), b)
           h == IF Splits(k, Size(x, a)) THEN osMemSpitNode(x, a, k) ELSE x
<1>1. /\ Free(Pool, b) /\ Size(Pool, b) + Size(Pool, a) >= k
      /\ Becomes(h) /\ Charge(t, Size(h, a) - Size(Pool, a))
  BY DEF osMemMergeNodeForReAllocBigger
<1>2. /\ InUse(Pool, a) /\ a # END_NODE /\ a \in Addr /\ Size(Pool, a) \in Nat
      /\ Tidy(Pool, {}, {})
  BY PointerFacts DEF MemInv
<1>3. k \in Nat /\ k > HEAD_SIZE
  BY MemoryAssumption
<1>4. /\ b = NextNode(Pool, a)
      /\ x = osMemMergeNode(LOS_ListDelete(Pool, b), b)
      /\ h = IF Splits(k, Size(x, a)) THEN osMemSpitNode(x, a, k) ELSE x
  OBVIOUS
<1> HIDE DEF a, k, b, x, h
<1>5. /\ Tidy(x, {}, {}) /\ a \in DOMAIN x.node \ {END_NODE} /\ ~Free(x, a)
      /\ Size(x, a) = Size(Pool, a) + Size(Pool, b) /\ Size(Pool, b) \in Nat
      /\ SameUsed(Pool, x, a)
  BY <1>1, <1>2, <1>4, GrowFacts DEF InUse, Has
<1>6. Size(x, a) >= k
  BY <1>1, <1>2, <1>5
<1>7. Tidy(h, {}, {}) /\ InUse(h, a) /\ SameUsed(x, h, a)
  BY <1>2, <1>3, <1>4, <1>5, <1>6, ShrinkFacts
<1>8. SameUsed(Pool, h, a)
  BY <1>5, <1>7, SameUsedTrans
<1>9. Size(h, a) - Size(Pool, a) = At(h, a) - At(Pool, a)
  BY <1>2, <1>7 DEF At
<1> QED BY <1>1, <1>2, <1>7, <1>8, <1>9, NodeCharged

(* Two nodes change: the new one is charged and the old one is not any more. *)
LEMMA ReAllocElsewhereCharged ==
  ASSUME IsFiniteSet(Client), MemInv, Charged, NEW t \in Client, NEW p \in DOMAIN block,
         NEW size \in Sizes, ReAllocElsewhere(t, p, size)
  PROVE  Charged'
<1> DEFINE a == Base(p)
           k == size + HEAD_SIZE
           c == osMemFindSuitableFreeBlock(Pool, k)
           x == AllocNode(Pool, c, k)
           h == osMemFreeNode(x, a)
           n == Size(x, c) - Size(Pool, a)
<1>1. c # NoNode /\ Becomes(h) /\ Charge(t, n)
  BY DEF ReAllocElsewhere
<1>2. /\ InUse(Pool, a) /\ a # END_NODE /\ a \in Addr /\ Size(Pool, a) \in Nat
      /\ Tidy(Pool, {}, {})
  BY PointerFacts DEF MemInv
<1>3. k \in Nat /\ k > HEAD_SIZE /\ k >= 1
  BY MemoryAssumption
<1>4. /\ c = osMemFindSuitableFreeBlock(Pool, k) /\ n = Size(x, c) - Size(Pool, a)
      /\ x = AllocNode(Pool, c, k) /\ h = osMemFreeNode(x, a)
  OBVIOUS
<1> HIDE DEF a, k, c, x, h, n
<1>5. Has(Pool, c) /\ Free(Pool, c) /\ c # END_NODE /\ c \in Addr /\ Size(Pool, c) >= k
  BY <1>1, <1>2, <1>3, <1>4, FindFacts
<1>6. /\ Tidy(x, {}, {}) /\ InUse(x, c) /\ Size(x, c) \in Nat /\ SameUsed(Pool, x, c)
  BY <1>2, <1>3, <1>4, <1>5, AllocNodeFacts
<1>7. ~InUse(Pool, c) /\ c # a
  BY <1>2, <1>5 DEF InUse
<1>8. InUse(x, a) /\ Size(x, a) = Size(Pool, a)
  BY <1>2, <1>6, <1>7 DEF SameUsed
<1>9. Tidy(h, {}, {}) /\ ~InUse(h, a) /\ SameUsed(x, h, a)
  BY <1>2, <1>4, <1>6, <1>8, FreeNodeFacts
<1>10. PICK y : y = Pool
  OBVIOUS
<1>11. y \in Pools /\ x \in Pools /\ h \in Pools /\ SameUsed(y, x, c)
  BY <1>2, <1>6, <1>9, <1>10 DEF Tidy
<1>12. /\ Total(y) \in Int /\ Total(x) \in Int
       /\ Total(x) = Total(y) + (At(x, c) - At(y, c))
  BY <1>5, <1>11, TotalChange
<1>13. Total(h) = Total(x) + (At(h, a) - At(x, a))
  <2>1. \E z \in Addr : z = a
    BY <1>2
  <2> QED BY <1>2, <1>9, <1>11, <2>1, TotalChange
<1>14. /\ At(y, c) = 0 /\ At(x, c) = Size(x, c) /\ At(h, a) = 0 /\ At(x, a) = Size(Pool, a)
  BY <1>6, <1>7, <1>8, <1>9, <1>10 DEF At
<1>15. Total(h) = Total(y) + n
  BY <1>2, <1>4, <1>6, <1>12, <1>13, <1>14
<1>16. Pool' = h
  BY <1>1, <1>11, BecomesFacts
<1>17. n \in Int /\ Total(Pool) \in Int /\ Total(Pool') = Total(Pool) + n
  BY <1>2, <1>4, <1>6, <1>10, <1>12, <1>15, <1>16
<1> QED BY <1>1, <1>17, ChargedStep

LEMMA NextCharged ==
  ASSUME IsFiniteSet(Client), MemInv, Charged, Next
  PROVE  Charged'
<1>1. PICK t \in Client :
        \/ \E size \in Sizes :
             \/ LOS_MemAlloc(t, size)
             \/ \E boundary \in Boundaries : LOS_MemAllocAlign(t, size, boundary)
             \/ \E p \in DOMAIN block : LOS_MemRealloc(t, p, size)
        \/ \E p \in DOMAIN block : LOS_MemFree(t, p)
  BY DEF Next
<1>2. CASE \E size \in Sizes : LOS_MemAlloc(t, size)
  BY <1>2, MemAllocCharged
<1>3. CASE \E size \in Sizes, boundary \in Boundaries : LOS_MemAllocAlign(t, size, boundary)
  BY <1>3, MemAllocAlignCharged
<1>4. CASE \E size \in Sizes, p \in DOMAIN block : LOS_MemRealloc(t, p, size)
  BY <1>4, ReAllocSmallerCharged, ReAllocBiggerCharged, ReAllocElsewhereCharged DEF LOS_MemRealloc
<1>5. CASE \E p \in DOMAIN block : LOS_MemFree(t, p)
  BY <1>5, MemFreeCharged
<1> QED BY <1>1, <1>2, <1>3, <1>4, <1>5

LEMMA InitCharged ==
  ASSUME IsFiniteSet(Client), LOS_MemInit
  PROVE  Charged
<1>1. PICK f, h : f = memUsed /\ h = Pool
  OBVIOUS
<1>2. \A c \in Client : f[c] = 0
  BY <1>1 DEF LOS_MemInit
<1>3. SumFunctionOnSet(f, Client) = 0
  <2> DEFINE s(T) == SumFunctionOnSet(f, T)
             B == {n \in Nat : \E T \in SUBSET Client : Cardinality(T) = n /\ s(T) # 0}
  <2>1. SUFFICES ASSUME s(Client) # 0 PROVE FALSE
    OBVIOUS
  <2> HIDE DEF s
  <2>2. Client \in SUBSET Client /\ Cardinality(Client) \in Nat
    BY Smaller
  <2>3. PICK n \in B : \A m \in B : n <= m
    <3>1. B # {}
      BY <2>1, <2>2
    <3> QED BY <3>1, LeastNatural
  <2>4. PICK T \in SUBSET Client : Cardinality(T) = n /\ s(T) # 0
    BY <2>3
  <2>5. IsFiniteSet(T) /\ \A x \in T : f[x] \in Int
    BY <1>2, FS_Subset
  <2>6. T # {}
    BY <2>4, <2>5, SumFacts DEF s
  <2>7. PICK x \in T : TRUE
    BY <2>6
  <2>8. T \ {x} \in SUBSET Client /\ Cardinality(T \ {x}) = n - 1 /\ n \in Nat /\ n # 0
    BY <2>3, <2>4, <2>6, Smaller
  <2>9. s(T \ {x}) = 0
    <3>1. n - 1 \in Nat /\ ~(n <= n - 1)
      BY <2>8
    <3> QED BY <2>3, <2>8, <3>1
  <2>10. s(T) = f[x] + s(T \ {x})
    BY <2>5, SumFacts DEF s
  <2> QED BY <1>2, <2>4, <2>9, <2>10
<1>4. UsedNodes(h) = {}
  <2>1. /\ DOMAIN node = {0, END_NODE} /\ 0 # END_NODE
    BY PoolFacts DEF LOS_MemInit
  <2>2. ~node[0].used = TRUE
    BY <2>1 DEF LOS_MemInit
  <2> QED BY <1>1, <2>1, <2>2 DEF UsedNodes, Free, Pool
<1>5. Total(h) = 0
  <2> DEFINE g == [a \in DOMAIN h.node |-> h.node[a].size]
             S == {}
  <2>1. IsFiniteSet(S) /\ \A x \in S : g[x] \in Int
    BY FS_EmptySet
  <2>2. SumFunctionOnSet(g, {}) = 0
    <3> HIDE DEF g, S
    <3> QED BY <2>1, SumFacts
  <2> QED BY <1>4, <2>2 DEF Total
<1>6. UintSize \in Nat
  BY MemoryAssumption
<1>7. SumFunctionOnSet(memUsed, Client) = Total(Pool) + UintSize * 0
  BY <1>1, <1>3, <1>5, <1>6
<1> QED BY <1>7 DEF Charged

(* The counters of all tasks together, as wide as they are, are the memory that is in
   use, whoever allocates, resizes or frees a block: each call charges the running task
   with exactly what it takes from the pool, and no more is in use than a counter holds. *)
THEOREM StatisticsAreExact ==
  ASSUME IsFiniteSet(Client)
  PROVE  Spec => []StatisticsAddUp
<1>1. LOS_MemInit => Charged
  BY InitCharged
<1>2. MemInv /\ Charged /\ [Next]_vars => Charged'
  <2> SUFFICES ASSUME MemInv, Charged, [Next]_vars PROVE Charged'
    OBVIOUS
  <2>1. CASE Next
    BY <2>1, NextCharged
  <2>2. CASE UNCHANGED vars
    BY <2>2 DEF vars, Charged, Pool
  <2> QED BY <2>1, <2>2
<1>3. ASSUME MemInv, Charged PROVE StatisticsAddUp
  <2>1. PICK q \in Int : SumFunctionOnSet(memUsed, Client) = Total(Pool) + UintSize * q
    BY <1>3 DEF Charged
  <2>2. PICK h, u : h = Pool /\ u = UintSize
    OBVIOUS
  <2>3. h \in Pools /\ Tiled(h.node)
    BY <1>3, <2>2 DEF MemInv, Tidy
  <2>4. Total(h) \in Nat /\ Total(h) <= END_NODE
    BY <2>3, TotalFits
  <2>5. u \in Nat /\ u > 0 /\ u > END_NODE /\ END_NODE \in Nat
    BY <1>3, <2>2, CountersFacts, PoolFacts
  <2>6. PICK s : s = Total(h)
    OBVIOUS
  <2>7. s \in Nat /\ s < u
    BY <2>4, <2>5, <2>6
  <2>8. (s + u * q) % u = s
    BY <2>5, <2>7
  <2>9. Total(Pool) = SumFunctionOnSet([a \in DOMAIN node |-> node[a].size],
                                       {a \in DOMAIN node \ {END_NODE} : ~Free(Pool, a)})
    <3>1. Pool.node = node
      BY DEF Pool
    <3> QED BY <3>1 DEF Total, UsedNodes
  <2> QED BY <2>1, <2>2, <2>6, <2>8, <2>9 DEF StatisticsAddUp
<1>4. Spec => []Charged
  BY <1>1, <1>2, Invariance, PTL DEF Spec
<1> QED BY <1>3, <1>4, Invariance, PTL
=============================================================================
