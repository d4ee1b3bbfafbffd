-------------------------------- MODULE Heap --------------------------------
(***************************************************************************)
(* The heap of os/mem.c.  A block starts with a header that holds a used   *)
(* flag and the offsets of the next and the previous block; the last       *)
(* header, heap_end, is always used.  heap_sem makes malloc and free       *)
(* atomic for the other threads, realloc gives it up between its parts.    *)
(* Offsets and sizes are bytes.  A header swallowed by a merge is left out *)
(* of mem, so that following a pointer to it is an error of the model.     *)
(*                                                                         *)
(* A heap state h is a record:                                             *)
(*   mem    the headers by offset: used, next and prev                     *)
(*   lfree  the offset of the block at which malloc's search begins        *)
(*   used_mem   the bytes in use, which list_mem prints                    *)
(* The high-water mark max_mem is left out.                                *)
(* A definition Op_Word is Op with a plausible mistake, as in Kernel.      *)
(***************************************************************************)
EXTENDS Integers, FiniteSets, FiniteSetsExt

CONSTANTS Thread,             \* the callers
          Sizes,              \* the sizes they ask for
          mem_size_aligned,   \* the size of the heap
          MaxBlocks,          \* bound: the blocks a thread keeps
          Null                \* RT_NULL

RT_ALIGN_SIZE == 8
SIZEOF_STRUCT_MEM == 16       \* a header: 12 bytes, aligned
MIN_SIZE == 12
MIN_SIZE_ALIGNED == 16

ASSUME HeapAssumption ==
  /\ Sizes \subseteq Nat
  /\ mem_size_aligned \in Nat /\ mem_size_aligned >= MIN_SIZE_ALIGNED
  /\ mem_size_aligned % RT_ALIGN_SIZE = 0
  /\ Null \notin Int /\ Null \notin Thread
  /\ Null \notin [old : [ptr : Nat, size : Nat], size : Nat, new : Nat \cup {Null}]

heap_end == mem_size_aligned + SIZEOF_STRUCT_MEM

RT_ALIGN(n) == ((n + RT_ALIGN_SIZE - 1) \div RT_ALIGN_SIZE) * RT_ALIGN_SIZE

VARIABLES heap,      \* the heap state
          heap_sem,  \* the value of heap_sem between the calls
          own,       \* the blocks each thread has, with the size it asked for
          job        \* the realloc a thread is in: the block and the new size,
                     \* and the new block once malloc has returned

vars == <<heap, heap_sem, own, job>>

-----------------------------------------------------------------------------
\* rt_system_heap_init: one free block, and the end.
Init ==
  /\ heap = [mem |-> [o \in {0, heap_end} |->
                        IF o = 0 THEN [used |-> FALSE, next |-> heap_end, prev |-> 0]
                        ELSE [used |-> TRUE, next |-> heap_end, prev |-> heap_end]],
             lfree |-> 0, used_mem |-> 0]
  /\ heap_sem = 1
  /\ own = [t \in Thread |-> {}]
  /\ job = [t \in Thread |-> Null]

-----------------------------------------------------------------------------
\* The block list.

\* The bytes of block p that its owner may use.
Data(h, p) == h.mem[p].next - (p + SIZEOF_STRUCT_MEM)

\* Block p keeps n bytes, a free block is made of the rest.
Split_KeepPrev(h, p, n) ==
  LET q == p + SIZEOF_STRUCT_MEM + n
  IN  [h EXCEPT !.mem = [o \in DOMAIN h.mem \cup {q} |->
                  IF o = q THEN [used |-> FALSE, next |-> h.mem[p].next, prev |-> p]
                  ELSE IF o = p THEN [h.mem[p] EXCEPT !.next = q]
                  ELSE h.mem[o]]]

Split(h, p, n) ==
  LET q == p + SIZEOF_STRUCT_MEM + n
      behind == h.mem[p].next
      added == [o \in DOMAIN h.mem \cup {q} |->
                  IF o = q THEN [used |-> FALSE, next |-> behind, prev |-> p]
                  ELSE IF o = p THEN [h.mem[p] EXCEPT !.next = q]
                  ELSE IF o = behind /\ o # heap_end THEN [h.mem[o] EXCEPT !.prev = q]
                  ELSE h.mem[o]]
  IN  [h EXCEPT !.mem = added]

\* Block p swallows the block behind it; lfree moves with the header.
Merge_KeepLfree(h, p) ==
  LET gone == h.mem[p].next
      behind == h.mem[gone].next
  IN  [h EXCEPT !.mem = [o \in DOMAIN h.mem \ {gone} |->
                           IF o = p THEN [h.mem[p] EXCEPT !.next = behind]
                           ELSE IF o = behind THEN [h.mem[o] EXCEPT !.prev = p]
                           ELSE h.mem[o]]]

Merge(h, p) ==
  LET gone == h.mem[p].next
      behind == h.mem[gone].next
  IN  [h EXCEPT !.mem = [o \in DOMAIN h.mem \ {gone} |->
                           IF o = p THEN [h.mem[p] EXCEPT !.next = behind]
                           ELSE IF o = behind THEN [h.mem[o] EXCEPT !.prev = p]
                           ELSE h.mem[o]],
                !.lfree = IF @ = gone THEN p ELSE @]

\* plug_holes: free block p is merged with the free blocks around it.
plug_holes_Forward(h, p) ==
  LET n == h.mem[p].next
  IN  IF ~ h.mem[n].used /\ n # heap_end THEN Merge(h, p) ELSE h

plug_holes(h, p) ==
  LET n == h.mem[p].next
      h1 == IF n # p /\ ~ h.mem[n].used /\ n # heap_end THEN Merge(h, p) ELSE h
      b == h1.mem[p].prev
  IN  IF b # p /\ ~ h1.mem[b].used THEN Merge(h1, b) ELSE h1

-----------------------------------------------------------------------------
\* malloc.

\* The size malloc looks for.
Rounded(n) == IF RT_ALIGN(n) < MIN_SIZE_ALIGNED THEN MIN_SIZE_ALIGNED ELSE RT_ALIGN(n)

\* The blocks at which the search from lfree on would stop.
Fitting_NoHeader(h, n) ==
  {p \in DOMAIN h.mem : /\ h.lfree <= p /\ p < mem_size_aligned - n
                        /\ ~ h.mem[p].used /\ h.mem[p].next - p >= n}

Fitting(h, n) ==
  {p \in DOMAIN h.mem : /\ h.lfree <= p /\ p < mem_size_aligned - n
                        /\ ~ h.mem[p].used /\ Data(h, p) >= n}

\* Block p is given away for n bytes, split when the rest can be a block.
Take(h, p, n) ==
  LET split == Data(h, p) >= n + SIZEOF_STRUCT_MEM + MIN_SIZE_ALIGNED
      h1 == [IF split THEN Split(h, p, n) ELSE h EXCEPT !.mem[p].used = TRUE]
      taken == h1.mem[p].next - p
      unused == {o \in DOMAIN h1.mem : o >= p /\ (o = heap_end \/ ~ h1.mem[o].used)}
  IN  [h1 EXCEPT !.used_mem = @ + taken,
                 !.lfree = IF @ = p THEN Min(unused) ELSE @]

\* The thread waits in rt_sem_take until the semaphore is there.
Ready(t) == heap_sem = 1 /\ job[t] = Null

\* malloc of n bytes by thread t, or calloc of n bytes in all.  A size of 0 or
\* beyond the heap returns NULL and keeps heap_sem; a search without result
\* returns NULL.
malloc(t, n) ==
  /\ Ready(t)
  /\ Cardinality(own[t]) < MaxBlocks
  /\ \/ /\ n = 0 \/ RT_ALIGN(n) > mem_size_aligned
        /\ heap_sem' = 0
        /\ UNCHANGED <<heap, own>>
     \/ /\ 0 < n /\ RT_ALIGN(n) <= mem_size_aligned
        /\ LET fitting == Fitting(heap, Rounded(n))
           IN  IF fitting = {} THEN UNCHANGED <<heap, own>>
               ELSE LET p == Min(fitting)
                    IN  /\ heap' = Take(heap, p, Rounded(n))
                        /\ own' = [own EXCEPT ![t] = @ \cup {[ptr |-> p, size |-> n]}]
        /\ UNCHANGED heap_sem
  /\ UNCHANGED job

-----------------------------------------------------------------------------
\* free.

\* The block becomes free, lfree is lowered to it, its neighbours are merged.
Release(h, p) ==
  plug_holes([h EXCEPT !.mem[p].used = FALSE,
                       !.lfree = IF p < @ THEN p ELSE @,
                       !.used_mem = @ - (h.mem[p].next - p)], p)

free(t, b) ==
  /\ Ready(t)
  /\ b \in own[t]
  /\ heap' = Release(heap, b.ptr)
  /\ own' = [own EXCEPT ![t] = @ \ {b}]
  /\ UNCHANGED <<heap_sem, job>>

\* free(NULL) returns with heap_sem taken.
free_null(t) ==
  /\ Ready(t)
  /\ heap_sem' = 0
  /\ UNCHANGED <<heap, own, job>>

-----------------------------------------------------------------------------
\* realloc of block b to n bytes; realloc to 0 bytes is free, and realloc of
\* NULL is malloc.

\* The part of a block beyond the first n bytes becomes a free block.
Cut_KeepUsed(h, p, n) ==
  LET h1 == Split(h, p, n) IN plug_holes(h1, h1.mem[p].next)

Cut(h, p, n) ==
  LET h1 == Split(h, p, n)
  IN  plug_holes([h1 EXCEPT !.used_mem = @ - (Data(h, p) - n)], h1.mem[p].next)

\* The new size is the old one, or leaves room for a free block, or neither:
\* then heap_sem is given up and the block will move.
realloc(t, b, n) ==
  LET size == Data(heap, b.ptr)
      newsize == RT_ALIGN(n)
      shorter == newsize + SIZEOF_STRUCT_MEM + MIN_SIZE < size
  IN  /\ Ready(t)
      /\ b \in own[t]
      /\ 0 < n /\ newsize <= mem_size_aligned
      /\ \/ /\ newsize = size \/ shorter
            /\ heap' = IF shorter THEN Cut(heap, b.ptr, newsize) ELSE heap
            /\ own' = [own EXCEPT ![t] = (@ \ {b}) \cup {[b EXCEPT !.size = n]}]
            /\ UNCHANGED job
         \/ /\ newsize # size /\ ~ shorter
            /\ job' = [job EXCEPT ![t] = [old |-> b, size |-> n, new |-> Null]]
            /\ UNCHANGED <<heap, own>>
      /\ UNCHANGED heap_sem

\* Its call of rt_malloc, with the aligned size; NULL is returned to the caller.
realloc_malloc(t) ==
  LET fitting == Fitting(heap, Rounded(job[t].size))
      p == Min(fitting)
  IN  /\ heap_sem = 1
      /\ job[t] # Null /\ job[t].new = Null
      /\ IF fitting = {} THEN job' = [job EXCEPT ![t] = Null] /\ UNCHANGED heap
         ELSE /\ heap' = Take(heap, p, Rounded(job[t].size))
              /\ job' = [job EXCEPT ![t].new = p]
      /\ UNCHANGED <<heap_sem, own>>

\* rt_memcpy and the free of the old block
realloc_free_Keep(t) ==
  /\ heap_sem = 1
  /\ job[t] # Null /\ job[t].new # Null
  /\ own' = [own EXCEPT ![t] = (@ \ {job[t].old}) \cup
                                 {[ptr |-> job[t].new, size |-> job[t].size]}]
  /\ job' = [job EXCEPT ![t] = Null]
  /\ UNCHANGED <<heap, heap_sem>>

realloc_free(t) ==
  /\ heap_sem = 1
  /\ job[t] # Null /\ job[t].new # Null
  /\ heap' = Release(heap, job[t].old.ptr)
  /\ own' = [own EXCEPT ![t] = (@ \ {job[t].old}) \cup
                                 {[ptr |-> job[t].new, size |-> job[t].size]}]
  /\ job' = [job EXCEPT ![t] = Null]
  /\ UNCHANGED heap_sem

-----------------------------------------------------------------------------
Next ==
  \E t \in Thread :
    \/ \E n \in Sizes : malloc(t, n)
    \/ \E b \in own[t] : free(t, b) \/ \E n \in Sizes : realloc(t, b, n)
    \/ free_null(t)
    \/ realloc_malloc(t)
    \/ realloc_free(t)

Spec == Init /\ [][Next]_vars

-----------------------------------------------------------------------------
\* The headers that the list links: all blocks but the end.
Block == DOMAIN heap.mem \ {heap_end}

\* The blocks fill the heap without gap or overlap: next is the next header,
\* prev is its inverse (but for the end, whose prev a split leaves alone),
\* and there is room for a header and data in every block.
Tiled ==
  /\ {0, heap_end} \subseteq DOMAIN heap.mem
  /\ heap.mem[heap_end].used
  /\ heap.mem[0].prev = 0
  /\ \A p \in Block :
       /\ heap.mem[p].next \in DOMAIN heap.mem
       /\ heap.mem[p].next >= p + SIZEOF_STRUCT_MEM + RT_ALIGN_SIZE
       /\ \A q \in DOMAIN heap.mem : q <= p \/ heap.mem[p].next <= q
       /\ heap.mem[p].next # heap_end => heap.mem[heap.mem[p].next].prev = p

\* Two free blocks never lie side by side: plug_holes merged them.  malloc's
\* near fit relies on it ("mem->next will always be used at this point").
Coalesced ==
  \A p \in Block :
    ~ heap.mem[p].used => heap.mem[heap.mem[p].next].used

\* used_mem is the number of bytes in the blocks in use, headers included: no
\* call counts bytes twice or forgets some, realloc's cut and its move included.
UsedBytes(h) ==
  {x \in 0 .. heap_end - 1 :
     \E p \in DOMAIN h.mem \ {heap_end} : h.mem[p].used /\ p <= x /\ x < h.mem[p].next}

UsedExact == heap.used_mem = Cardinality(UsedBytes(heap))

\* The bytes of the free blocks below lfree: malloc's search begins behind them.
Unseen(h) ==
  UNION {p .. h.mem[p].next - 1 : p \in {q \in DOMAIN h.mem : q < h.lfree /\ ~ h.mem[q].used}}

\* The bytes that a block in use loses while it stays in use.
CutOff(h, r) ==
  UNION {r.mem[p].next .. h.mem[p].next - 1 :
           p \in {q \in DOMAIN h.mem \cap DOMAIN r.mem : h.mem[q].used /\ r.mem[q].used}}

\* No step hides free memory from the next malloc, but for realloc's cut, which
\* may hide what it cuts off.  The cut does not lower lfree, so that lfree is
\* not "the lowest free block" after it; malloc's move of lfree over the blocks
\* in use, free and the merges, which replace the header that lfree points at,
\* never leave a free byte behind lfree that was not there before.
OnlyCutHides == [][Unseen(heap') \subseteq Unseen(heap) \cup CutOff(heap, heap')]_vars

-----------------------------------------------------------------------------
\* The blocks of the callers, as HeapRegions sees them: the ones they have
\* and the ones realloc is about to return.
Held(t) ==
  own[t] \cup (IF job[t] = Null \/ job[t].new = Null THEN {}
               ELSE {[ptr |-> job[t].new, size |-> job[t].size]})

Regions ==
  UNION {{[owner |-> t, addr |-> b.ptr + SIZEOF_STRUCT_MEM,
           len |-> Data(heap, b.ptr), asked |-> b.size] : b \in Held(t)} : t \in Thread}

R == INSTANCE HeapRegions WITH
       Owner <- Thread, Limit <- heap_end, Header <- SIZEOF_STRUCT_MEM, regions <- Regions

\* The heap implements HeapRegions: no two callers ever share a byte or a
\* header, every block is as long as was asked for, and it stays the caller's
\* until it frees it, while other threads allocate, free and merge around it
\* and while realloc moves it without the semaphore.
RefinesRegions == R!Spec

\* A block is marked used exactly while a caller has it: none is lost and
\* none is free under its owner.
UsedIsHeld ==
  {p \in Block : heap.mem[p].used} = {b.ptr : b \in UNION {Held(t) : t \in Thread}}

=============================================================================
