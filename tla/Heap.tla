-------------------------------- MODULE Heap --------------------------------
(***************************************************************************)
(* What a device heap promises to the kernels that call malloc and free:   *)
(* a block that is handed out lies inside the heap, has the size that was  *)
(* asked for or more and shares no byte with a block somebody else owns.   *)
(* A request may also be answered with nothing (NULL).  ScatterAlloc is    *)
(* shown to implement this specification.                                  *)
(***************************************************************************)
EXTENDS Integers

CONSTANTS Pages,      \* the pages of the heap
          PageSize,   \* bytes of one page
          Sizes       \* the numbers of bytes kernels ask for

VARIABLES owned,      \* the blocks kernels own: [page, offset, size]
          grants      \* how many blocks were handed out and not taken back

Block == [page : Pages, offset : 0 .. PageSize - 1, size : 1 .. PageSize]

\* Two blocks share a byte.
Overlap(a, b) ==
    /\ a.page = b.page
    /\ a.offset < b.offset + b.size
    /\ b.offset < a.offset + a.size

Init == owned = {} /\ grants = 0

\* malloc answers a request of some size with a block nobody owns.
Allocate(c) ==
    /\ \E bytes \in Sizes : bytes <= c.size
    /\ c.offset + c.size <= PageSize
    /\ \A d \in owned : ~ Overlap(c, d)
    /\ owned' = owned \cup {c}
    /\ grants' = grants + 1

\* free takes back a block that was handed out.
Release(c) ==
    /\ c \in owned
    /\ owned' = owned \ {c}
    /\ grants' = grants - 1

Next == \E c \in Block : Allocate(c) \/ Release(c)

Spec == Init /\ [][Next]_<<owned, grants>>
=============================================================================
