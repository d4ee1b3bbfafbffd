------------------------------- MODULE MCHeap -------------------------------
(***************************************************************************)
(* A heap of a few blocks and two threads.  The sizes make malloc split,   *)
(* fit and fail, make realloc cut, keep and move a block, and include 0    *)
(* and one beyond the heap.                                                *)
(***************************************************************************)
EXTENDS Heap, TLC

CONSTANTS t1, t2

Two == {t1, t2}
Asked == {0, 5, 24, 60, 200}

Perms == Permutations(Two)

=============================================================================
