---------------------------- MODULE HeapRegions -----------------------------
(***************************************************************************)
(* What malloc, realloc and free promise their callers: every block a      *)
(* caller has is a region of the heap of its own, at least as long as it   *)
(* asked for, until it frees the block.  malloc may always return NULL.    *)
(* Heap, the block list of os/mem.c, is shown to implement it.             *)
(***************************************************************************)
EXTENDS Integers

CONSTANTS Owner,     \* who may hold blocks
          Limit,     \* the heap: the bytes 0 .. Limit - 1
          Header     \* the bytes of a block that are not the caller's

VARIABLE regions     \* the blocks in use: owner, address, length, and what was
                     \* asked for

Region ==
  {r \in [owner : Owner, addr : Nat, len : Nat, asked : Nat] :
     0 < r.asked /\ r.asked <= r.len}

\* Between two blocks there is room for the header of the second.
Apart(a, b) == a.addr + a.len + Header <= b.addr \/ b.addr + b.len + Header <= a.addr

Inside(a) == Header <= a.addr /\ a.addr + a.len <= Limit

Init == regions = {}

\* A caller gets a block apart from the ones in use.
Give(r) ==
  /\ r \in Region /\ Inside(r)
  /\ \A a \in regions : Apart(a, r)
  /\ regions' = regions \cup {r}

\* A caller gives a block back.
TakeBack(r) == regions' = regions \ {r}

\* A block stays where it is, for another size; it never becomes longer.
Resize(r, s) ==
  /\ s \in Region
  /\ s.owner = r.owner /\ s.addr = r.addr /\ s.len <= r.len
  /\ regions' = (regions \ {r}) \cup {s}

Next ==
  \/ \E r \in regions' \ regions : Give(r)
  \/ \E r \in regions \ regions' : TakeBack(r)
  \/ \E r \in regions, s \in regions' : Resize(r, s)

Spec == Init /\ [][Next]_regions

=============================================================================
