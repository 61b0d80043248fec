------------------------------ MODULE Allocator ------------------------------
(***************************************************************************)
(* What a pool of fixed-size elements promises its callers: an allocation  *)
(* hands out an element nobody holds, or nothing; a free takes back an     *)
(* element that is held.  Where the free elements wait is not said.  Each  *)
(* allocation not yet freed has an element of its own: held is the size of *)
(* used.                                                                   *)
(***************************************************************************)
EXTENDS Integers

CONSTANT Elems      \* the elements of the pool

VARIABLES
  used,             \* the elements handed out and not yet freed
  held              \* how many allocations were not yet freed

Init == used = {} /\ held = 0

Alloc == /\ \E e \in Elems \ used : used' = used \union {e}
         /\ held' = held + 1

Free == /\ \E e \in used : used' = used \ {e}
        /\ held' = held - 1

Next == Alloc \/ Free

Spec == Init /\ [][Next]_<<used, held>>
=============================================================================
