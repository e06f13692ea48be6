-------------------------------- MODULE Heap --------------------------------
(***************************************************************************)
(* What the memory pool promises its clients (LOS_MemAlloc,                *)
(* LOS_MemAllocAlign, LOS_MemFree and LOS_MemRealloc in                    *)
(* kernel/base/mem/los_memory.c): what one client has been given overlaps  *)
(* neither what another has nor the end of the pool, and it stays as large *)
(* and where it is until its owner frees or resizes it.                    *)
(***************************************************************************)
EXTENDS Integers

CONSTANTS
  Memory,             (* the addresses of the pool's words                      *)
  Sizes               (* the sizes asked for                                    *)

VARIABLE given        (* the size of what each pointer that is in use points to *)

Extent(p, n) == p .. p + n - 1
Others(p)    == UNION {Extent(q, given[q]) : q \in DOMAIN given \ {p}}

(* p is free, or about to be. *)
Give(old, p, n) ==
  /\ given' = [q \in (DOMAIN given \ {old}) \cup {p} |-> IF q = p THEN n ELSE given[q]]
  /\ Extent(p, n) \subseteq Memory \ Others(old)

Init == given = [p \in {} |-> 0]

Next ==
  \/ \E p \in Memory, n \in Sizes :
       \/ p \notin DOMAIN given /\ Give(p, p, n)
       \/ \E old \in DOMAIN given : Give(old, p, n)
  \/ \E p \in DOMAIN given : given' = [q \in DOMAIN given \ {p} |-> given[q]]

Spec == Init /\ [][Next]_given
=============================================================================
