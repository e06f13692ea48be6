----------------------------- MODULE LosMemory ------------------------------
(***************************************************************************)
(* The memory pool (kernel/base/mem/los_memory.c, los_multipledlinkhead.c  *)
(* and los_memstat.c).                                                     *)
(*                                                                         *)
(* Addresses and sizes are in words of 4 bytes, what OS_MEM_ALIGN rounds   *)
(* to, and addresses count from the first node.  Every call is one step:   *)
(* its whole body runs with interrupts locked.  Requests are small enough  *)
(* not to wrap, and clients free and resize only what they have been given *)
(* and write only there.                                                   *)
(***************************************************************************)
EXTENDS Integers, SequencesExt, Functions

CONSTANTS
  HEAD_SIZE,  (* OS_MEM_NODE_HEAD_SIZE                                      *)
  PoolSize,   (* from the first node to the end of the pool                 *)
  Sizes,      (* the sizes asked for (a bound of the model)                 *)
  Boundaries, (* those given to LOS_MemAllocAlign (a bound of the model)    *)
  Client,     (* the tasks that use the pool                                *)
  MAX_LOG2,   (* OS_MAX_MULTI_DLNK_LOG2, the class of the largest nodes     *)
  UintSize    (* the range of the counters of los_memstat.c                 *)

ASSUME MemoryAssumption ==
  /\ HEAD_SIZE \in Nat \ {0} /\ PoolSize \in Nat /\ PoolSize > 3 * HEAD_SIZE
  /\ Sizes \subseteq Nat \ {0} /\ Boundaries \subseteq Nat \ {0}
  /\ MAX_LOG2 \in Nat /\ MAX_LOG2 >= 4 /\ 4 * PoolSize < 2 ^ (MAX_LOG2 + 1)
  /\ UintSize \in Nat /\ UintSize > PoolSize - HEAD_SIZE

VARIABLES
  node,    (* the node headers: size, used flag and pstPreNode, by address      *)
  head,    (* stListHead: the free nodes of each size class                     *)
  block,   (* of each pointer in use: the size asked for and the gap word below *)
           (* it; and, as history, where its contents are                       *)
  memUsed  (* uwMemUsed of each client                                          *)

vars == <<node, head, block, memUsed>>

NoNode   == -1
END_NODE == PoolSize - HEAD_SIZE

(* LOS_Log2 of the size in bytes, and not less than OS_MIN_MULTI_DLNK_LOG2. *)
Log2(n)  == Max({i \in 2 .. MAX_LOG2 : 2 ^ (i - 2) \in 1 .. n})
Class(n) == IF Log2(n) > 4 THEN Log2(n) ELSE 4
Classes  == 4 .. MAX_LOG2

(***************************************************************************)
(* The helpers.  h is the pool: its node headers and its free lists.       *)
(***************************************************************************)
NextNode(h, a) == a + h.node[a].size
Free(h, a)     == ~h.node[a].used
Size(h, a)     == h.node[a].size

LOS_ListDelete(h, a) == [h EXCEPT !.head = [c \in Classes |-> RemoveFirst(h.head[c], a)]]
LOS_ListAdd(h, a)    == [h EXCEPT !.head[Class(h.node[a].size)] = <<a>> \o @]

(* Mutant: the node behind keeps its pstPreNode. *)
MergeKeepsPre(h, a) ==
  LET p == h.node[a].pre
  IN [h EXCEPT !.node = [b \in DOMAIN h.node \ {a} |->
        IF b = p THEN [h.node[p] EXCEPT !.size = @ + h.node[a].size] ELSE h.node[b]]]

osMemMergeNode(h, a) ==
  LET p == h.node[a].pre
  IN [h EXCEPT !.node = [b \in DOMAIN h.node \ {a} |->
        IF b = p THEN [h.node[p] EXCEPT !.size = @ + h.node[a].size]
        ELSE IF b = NextNode(h, a) THEN [h.node[b] EXCEPT !.pre = p]
        ELSE h.node[b]]]

MergeNext(h, a) ==
  LET n == NextNode(h, a)
  IN IF Free(h, n) THEN osMemMergeNode(LOS_ListDelete(h, n), n) ELSE h

(* Node a keeps n words; the rest is a new free node. *)
osMemSpitNode(h, a, n) ==
  LET b == a + n
      new == [size |-> h.node[a].size - n, used |-> FALSE, pre |-> a]
      cut == [c \in DOMAIN h.node \cup {b} |->
                IF c = b THEN new
                ELSE IF c = a THEN [h.node[a] EXCEPT !.size = n]
                ELSE IF c = NextNode(h, a) THEN [h.node[c] EXCEPT !.pre = b]
                ELSE h.node[c]]
  IN LOS_ListAdd(MergeNext([h EXCEPT !.node = cut], b), b)

(* Mutant: what follows is not merged. *)
FreeMergesBack(h, a) ==
  LET x == [h EXCEPT !.node[a].used = FALSE]
      p == x.node[a].pre
  IN IF p # NoNode /\ Free(x, p)
     THEN LOS_ListAdd(LOS_ListDelete(osMemMergeNode(x, a), p), p)
     ELSE LOS_ListAdd(MergeNext(x, a), a)

osMemFreeNode(h, a) ==
  LET x == [h EXCEPT !.node[a].used = FALSE]
      p == x.node[a].pre
  IN IF p # NoNode /\ Free(x, p)
     THEN LOS_ListAdd(LOS_ListDelete(MergeNext(osMemMergeNode(x, a), p), p), p)
     ELSE LOS_ListAdd(MergeNext(x, a), a)

(* The first node that is large enough, in the list of the size's class, then in
   those of larger classes.                                                *)
osMemFindSuitableFreeBlock(h, n) ==
  LET fitting(c) == {i \in 1 .. Len(h.head[c]) : Size(h, h.head[c][i]) >= n}
      classes    == {c \in Class(n) .. MAX_LOG2 : fitting(c) # {}}
      first      == Min(classes)
  IN IF classes = {} THEN NoNode ELSE h.head[first][Min(fitting(first))]

(* Mutant: a rest too small for a node is split off. *)
SplitsAlways(n, size) == n < size

Splits(n, size) == n + HEAD_SIZE + 1 <= size

AllocNode(h, a, n) ==
  LET x == IF Splits(n, h.node[a].size) THEN osMemSpitNode(h, a, n) ELSE h
  IN [LOS_ListDelete(x, a) EXCEPT !.node[a].used = TRUE]

(* A node of the pool that is used and that its neighbours agree on. *)
osMemCheckUsedNode(h, a) ==
  /\ a \in DOMAIN h.node \ {END_NODE} /\ ~Free(h, a)
  /\ LET n == NextNode(h, a) IN n \in DOMAIN h.node /\ h.node[n].pre = a
  /\ a # 0 => LET p == h.node[a].pre IN p \in DOMAIN h.node /\ NextNode(h, p) = a

(* osTaskMemUsedInc and osTaskMemUsedDec, on the running task's counter. *)
Charge(t, n) == memUsed' = [memUsed EXCEPT ![t] = (@ + n) % UintSize]

Pool        == [node |-> node, head |-> head]
Becomes(h)  == node' = h.node /\ head' = h.head
Base(p)     == p - block[p].gap - HEAD_SIZE

(* The pointers old are no longer in use, and p is. *)
Given(old, p, b) ==
  block' = [q \in (DOMAIN block \ old) \cup {p} |-> IF q = p THEN b ELSE block[q]]

(***************************************************************************)
(* The calls of a client t; those that fail change nothing.                *)
(***************************************************************************)
LOS_MemAlloc(t, size) ==
  LET n == size + HEAD_SIZE
      a == osMemFindSuitableFreeBlock(Pool, n)
      h == AllocNode(Pool, a, n)
  IN /\ a # NoNode
     /\ Becomes(h)
     /\ Given({}, a + HEAD_SIZE, [size |-> size, gap |-> 0, shift |-> 0])
     /\ Charge(t, Size(h, a))

(* One word more than the boundary is allocated, for the gap. *)
LOS_MemAllocAlign(t, size, boundary) ==
  LET n == size + boundary + 1 + HEAD_SIZE
      a == osMemFindSuitableFreeBlock(Pool, n)
      h == AllocNode(Pool, a, n)
      gap == (-(a + HEAD_SIZE)) % boundary
  IN /\ a # NoNode
     /\ Becomes(h)
     /\ Given({}, a + HEAD_SIZE + gap, [size |-> size, gap |-> gap, shift |-> 0])
     /\ Charge(t, Size(h, a))

LOS_MemFree(t, p) ==
  LET a == Base(p)
  IN /\ p \in DOMAIN block /\ osMemCheckUsedNode(Pool, a)
     /\ Becomes(osMemFreeNode(Pool, a))
     /\ block' = [q \in DOMAIN block \ {p} |-> block[q]]
     /\ Charge(t, -Size(Pool, a))

(* LOS_MemRealloc returns the address behind the node's header, and the contents
   lie where they did from there: behind the gap, if there was one.        *)
Moved(p, q, size) ==
  Given({p}, q, [size |-> size, gap |-> 0, shift |-> block[p].shift + block[p].gap])

(* Mutant: the header is not counted. *)
SmallerThanNode(t, p, size) ==
  LET a == Base(p)
      s == Size(Pool, a)
      h == IF Splits(size, s) THEN osMemSpitNode(Pool, a, size) ELSE Pool
  IN /\ s >= size
     /\ Becomes(h) /\ Moved(p, a + HEAD_SIZE, size)
     /\ Charge(t, Size(h, a) - s)

osMemReAllocSmaller(t, p, size) ==
  LET a == Base(p)
      n == size + HEAD_SIZE
      s == Size(Pool, a)
      h == IF Splits(n, s) THEN osMemSpitNode(Pool, a, n) ELSE Pool
  IN /\ s >= n
     /\ Becomes(h) /\ Moved(p, a + HEAD_SIZE, size)
     /\ Charge(t, Size(h, a) - s)

(* Mutant: what is split off again stays charged. *)
BiggerChargesAll(t, p, size) ==
  LET a == Base(p)
      n == size + HEAD_SIZE
      b == NextNode(Pool, a)
      x == osMemMergeNode(LOS_ListDelete(Pool, b), b)
      h == IF Splits(n, Size(x, a)) THEN osMemSpitNode(x, a, n) ELSE x
  IN /\ Size(Pool, a) < n
     /\ Free(Pool, b) /\ Size(Pool, b) + Size(Pool, a) >= n
     /\ Becomes(h) /\ Moved(p, a + HEAD_SIZE, size)
     /\ Charge(t, Size(Pool, b))

osMemMergeNodeForReAllocBigger(t, p, size) ==
  LET a == Base(p)
      n == size + HEAD_SIZE
      b == NextNode(Pool, a)
      x == osMemMergeNode(LOS_ListDelete(Pool, b), b)
      h == IF Splits(n, Size(x, a)) THEN osMemSpitNode(x, a, n) ELSE x
  IN /\ Size(Pool, a) < n
     /\ Free(Pool, b) /\ Size(Pool, b) + Size(Pool, a) >= n
     /\ Becomes(h) /\ Moved(p, a + HEAD_SIZE, size)
     /\ Charge(t, Size(h, a) - Size(Pool, a))

ReAllocElsewhere(t, p, size) ==
  LET a == Base(p)
      n == size + HEAD_SIZE
      b == NextNode(Pool, a)
      c == osMemFindSuitableFreeBlock(Pool, n)
      h == AllocNode(Pool, c, n)
  IN /\ Size(Pool, a) < n
     /\ ~(Free(Pool, b) /\ Size(Pool, b) + Size(Pool, a) >= n)
     /\ c # NoNode
     /\ Becomes(osMemFreeNode(h, a)) /\ Moved(p, c + HEAD_SIZE, size)
     /\ Charge(t, Size(h, c) - Size(Pool, a))

LOS_MemRealloc(t, p, size) ==
  /\ p \in DOMAIN block /\ osMemCheckUsedNode(Pool, Base(p))
  /\ \/ osMemReAllocSmaller(t, p, size)
     \/ osMemMergeNodeForReAllocBigger(t, p, size)
     \/ ReAllocElsewhere(t, p, size)

(***************************************************************************)
(* The specification; Init is what LOS_MemInit leaves.                     *)
(***************************************************************************)
LOS_MemInit ==
  /\ node = [a \in {0, END_NODE} |->
               IF a = 0 THEN [size |-> END_NODE, used |-> FALSE, pre |-> NoNode]
               ELSE [size |-> HEAD_SIZE, used |-> TRUE, pre |-> 0]]
  /\ head = [c \in Classes |-> IF c = Class(END_NODE) THEN <<0>> ELSE <<>>]
  /\ block = [p \in {} |-> 0]
  /\ memUsed = [t \in Client |-> 0]

Next ==
  \E t \in Client :
    \/ \E size \in Sizes :
         \/ LOS_MemAlloc(t, size)
         \/ \E boundary \in Boundaries : LOS_MemAllocAlign(t, size, boundary)
         \/ \E p \in DOMAIN block : LOS_MemRealloc(t, p, size)
    \/ \E p \in DOMAIN block : LOS_MemFree(t, p)

Spec == LOS_MemInit /\ [][Next]_vars

-----------------------------------------------------------------------------
(* The type of every variable; in particular every node has room for its header
   and a word.                                                             *)
MemTypeOK ==
  /\ DOMAIN node \subseteq 0 .. END_NODE
  /\ \A a \in DOMAIN node :
       node[a] \in [size : (IF a = END_NODE THEN 0 ELSE HEAD_SIZE) + 1 .. END_NODE,
                    used : BOOLEAN, pre : DOMAIN node \cup {NoNode}]
  /\ head \in [Classes -> Seq(0 .. END_NODE)]
  /\ DOMAIN block \subseteq HEAD_SIZE .. END_NODE
  /\ \A p \in DOMAIN block :
       block[p] \in [size : Nat \ {0}, gap : Nat, shift : Nat]
  /\ memUsed \in [Client -> 0 .. UintSize - 1]

(* The nodes lie end to end from the first to the end node, each knows the one
   before it, and the list of each class holds its free nodes, once each. *)
NodesTile ==
  /\ {0, END_NODE} \subseteq DOMAIN node /\ node[0].pre = NoNode /\ node[END_NODE].used
  /\ \A a \in DOMAIN node \ {END_NODE} :
       LET n == NextNode(Pool, a)
       IN /\ n \in DOMAIN node /\ node[n].pre = a
          /\ \A b \in DOMAIN node : ~(a < b /\ b < n)
  /\ \A c \in Classes :
       /\ IsInjective(head[c])
       /\ Range(head[c]) = {a \in DOMAIN node : Free(Pool, a) /\ Class(node[a].size) = c}

(* A request is refused only when no stretch of the pool that nobody owns could
   hold it: freed neighbours have been merged and every list that matters is
   searched.                                                               *)
Owned == UNION {a .. NextNode(Pool, a) - 1 : a \in {b \in DOMAIN node : ~Free(Pool, b)}}
RefusedOnlyIfFull ==
  \A n \in {size + HEAD_SIZE : size \in Sizes} :
    osMemFindSuitableFreeBlock(Pool, n) = NoNode =>
      \A a \in 0 .. END_NODE - n : (a .. a + n - 1) \cap Owned # {}

(* A pointer in use leads back to a node that osMemCheckUsedNode accepts, and
   different pointers to different nodes. *)
CanBeFreed ==
  /\ \A p \in DOMAIN block : osMemCheckUsedNode(Pool, Base(p))
  /\ {Base(p) : p \in DOMAIN block} = {a \in DOMAIN node \ {END_NODE} : ~Free(Pool, a)}
  /\ \A p, q \in DOMAIN block : Base(p) = Base(q) => p = q

(* The pool is sound: nodes tile it, the free lists hold its free nodes, and what
   was allocated can be freed, after any sequence of splits, merges, aligned
   allocations and resizings.                                              *)
PoolSound == NodesTile /\ CanBeFreed

(* The memory that the statistics charge to all tasks together is what is in use,
   also when one task frees what another has allocated.                    *)
StatisticsAddUp ==
  SumFunctionOnSet(memUsed, Client) % UintSize =
    SumFunctionOnSet([a \in DOMAIN node |-> node[a].size],
                     {a \in DOMAIN node \ {END_NODE} : ~Free(Pool, a)})

(* What clients are given never overlaps (the header words between are nobody's). *)
H == INSTANCE Heap WITH
       Memory <- 0 .. END_NODE - 1,
       given <- [p \in DOMAIN block |-> block[p].size]
ImplementsHeap == H!Spec

(* LOS_MemRealloc keeps the contents of the block ("... resize the block and keep
   its contents").                                                         *)
ContentsKept == \A p \in DOMAIN block : block[p].shift = 0
=============================================================================
