----------------------------- MODULE HeapProofs -----------------------------
(***************************************************************************)
(* The heap of os/mem.c keeps its block list and used_mem exact and       *)
(* gives its callers disjoint blocks, for every size of the heap, every    *)
(* set of threads and of sizes.  Split and merge are the only changes of   *)
(* the list; the lemmas say what they, and the calls made of them, do to   *)
(* the blocks in use.                                                      *)
(***************************************************************************)
EXTENDS Heap, FiniteSetTheorems, WellFoundedInduction, TLAPS

Header == [used : BOOLEAN, next : Nat, prev : Nat]

IsHeap(h) ==
  /\ h = [mem |-> h.mem, lfree |-> h.lfree, used_mem |-> h.used_mem]
  /\ DOMAIN h.mem \subseteq 0 .. heap_end
  /\ h.mem \in [DOMAIN h.mem -> Header]
  /\ h.used_mem \in Int

Blocks(h) == DOMAIN h.mem \ {heap_end}

\* Tiled for any heap state, and prev leads back from every block.
Linked(h) ==
  /\ 0 \in DOMAIN h.mem /\ heap_end \in DOMAIN h.mem
  /\ h.mem[heap_end].used
  /\ h.mem[0].prev = 0
  /\ \A p \in Blocks(h) :
       /\ h.mem[p].next \in DOMAIN h.mem
       /\ h.mem[p].next >= p + 24
       /\ \A q \in DOMAIN h.mem : q <= p \/ h.mem[p].next <= q
       /\ h.mem[p].next # heap_end => h.mem[h.mem[p].next].prev = p
  /\ \A p \in Blocks(h) \ {0} :
       h.mem[p].prev \in Blocks(h) /\ h.mem[h.mem[p].prev].next = p

\* Two free blocks side by side do not both lie outside S.
NoPair(h, S) ==
  \A p \in Blocks(h) :
    ~ h.mem[p].used /\ p \notin S /\ h.mem[p].next \notin S => h.mem[h.mem[p].next].used

LfreeIn(h) ==
  h.lfree \in DOMAIN h.mem /\ (h.lfree = heap_end \/ ~ h.mem[h.lfree].used)

InUse(h) == {p \in Blocks(h) : h.mem[p].used}

Counted(h) == h.used_mem = Cardinality(UsedBytes(h))

\* From h to r only what a block in use loses is hidden from malloc.
Shown(h, r) == Unseen(r) \subseteq Unseen(h) \cup CutOff(h, r)

Sound(h) == IsHeap(h) /\ Linked(h) /\ NoPair(h, {}) /\ LfreeIn(h) /\ Counted(h)

\* The callers, with the blocks H[t] for caller t: the blocks in use are theirs,
\* each block is one caller's and as long as was asked for.
Piece == [ptr : Nat, size : Nat]

Fits(h, b) == 0 < b.size /\ b.size <= Data(h, b.ptr)

Owned(h, H) ==
  /\ H \in [Thread -> SUBSET Piece]
  /\ InUse(h) = {b.ptr : b \in UNION {H[t] : t \in Thread}}
  /\ \A t \in Thread : \A b \in H[t] : Fits(h, b)
  /\ \A t, u \in Thread : \A b \in H[t], c \in H[u] : b.ptr = c.ptr => t = u /\ b = c

\* The region of a block, and the regions of all blocks.
Reg(h, t, b) ==
  [owner |-> t, addr |-> b.ptr + 16, len |-> Data(h, b.ptr), asked |-> b.size]

Regs(h, H) == UNION {{Reg(h, t, b) : b \in H[t]} : t \in Thread}

\* The block that realloc moves stays the caller's until it is freed.
Job == [old : Piece, size : Nat, new : Nat \cup {Null}]

Jobs ==
  /\ own \in [Thread -> SUBSET Piece]
  /\ job \in [Thread -> Job \cup {Null}]
  /\ \A t \in Thread : job[t] # Null => /\ job[t].old \in own[t] /\ 0 < job[t].size
                                        /\ job[t].new # job[t].old.ptr

HeldBy == [t \in Thread |-> Held(t)]

HeapInv == Sound(heap) /\ Jobs /\ Owned(heap, HeldBy)

-----------------------------------------------------------------------------
\* Numbers.

\* Every set of naturals that is not empty has a least element.
LEMMA LeastNatural ==
  ASSUME NEW S \in SUBSET Nat, S # {}
  PROVE  Min(S) \in S /\ \A m \in S : Min(S) <= m
<1>1. PICK Q : IsWellFoundedOn(Q, Nat) /\ \A x, y \in Nat : x < y => <<x, y>> \in Q
  <2> DEFINE L == OpToRel(<, Nat)
  <2>1. IsWellFoundedOn(L, Nat)
    BY NatLessThanWellFounded
  <2>2. \A x, y \in Nat : x < y => <<x, y>> \in L
    BY DEF OpToRel
  <2> HIDE DEF L
  <2> QED BY <2>1, <2>2
<1>2. S \subseteq Nat /\ IsWellFoundedOn(Q, Nat)
  BY <1>1
<1>3. PICK n \in S : \A m \in S : ~ (<<m, n>> \in Q)
  BY ONLY <1>2, S # {}, WFMin, Zenon
<1>4. \A m \in S : m \in Nat /\ n \in Nat /\ ~ (m < n)
  BY <1>1, <1>3
<1>5. \E x \in S : \A y \in S : x =< y
  BY <1>4
<1> QED BY <1>5 DEF Min

\* The arena has room for its first and its last header.
LEMMA HeapEnd == heap_end \in Nat /\ heap_end >= 32 /\ mem_size_aligned = heap_end - 16
  BY HeapAssumption DEF heap_end, SIZEOF_STRUCT_MEM, MIN_SIZE_ALIGNED

\* RT_ALIGN rounds up, by less than 8.
LEMMA AlignUp ==
  ASSUME NEW n \in Nat
  PROVE  /\ RT_ALIGN(n) \in Nat /\ n <= RT_ALIGN(n) /\ RT_ALIGN(n) < n + 8
         /\ 0 < n => RT_ALIGN(n) >= 8
         /\ Rounded(n) \in Nat /\ n <= Rounded(n) /\ Rounded(n) >= 16
<1>1. PICK k \in Int : k = (n + 7) \div 8
  OBVIOUS
<1>2. k * 8 <= n + 7 /\ n + 7 < k * 8 + 8
  BY <1>1
<1>3. RT_ALIGN(n) = k * 8
  BY <1>1 DEF RT_ALIGN, RT_ALIGN_SIZE
<1> QED BY <1>2, <1>3 DEF Rounded, MIN_SIZE_ALIGNED

-----------------------------------------------------------------------------
\* Leaves go to Zenon unless they name the SMT solver; the time is ample.
USE ZenonT(60)

\* The two changes of the block list.

\* A header with one field changed.
LEMMA HeaderSet ==
  ASSUME NEW e \in Header
  PROVE  /\ e.used \in BOOLEAN /\ e.next \in Nat /\ e.prev \in Nat
         /\ \A v \in Nat :
              /\ [e EXCEPT !.next = v] \in Header /\ [e EXCEPT !.next = v].next = v
              /\ [e EXCEPT !.next = v].used = e.used /\ [e EXCEPT !.next = v].prev = e.prev
              /\ [e EXCEPT !.prev = v] \in Header /\ [e EXCEPT !.prev = v].prev = v
              /\ [e EXCEPT !.prev = v].used = e.used /\ [e EXCEPT !.prev = v].next = e.next
         /\ \A v \in BOOLEAN :
              /\ [e EXCEPT !.used = v] \in Header /\ [e EXCEPT !.used = v].used = v
              /\ [e EXCEPT !.used = v].next = e.next /\ [e EXCEPT !.used = v].prev = e.prev
  BY DEF Header

\* A heap state with other headers.
LEMMA MemSet ==
  ASSUME NEW h, IsHeap(h), NEW m, NEW r, r = [h EXCEPT !.mem = m]
  PROVE  /\ r.mem = m /\ r.lfree = h.lfree /\ r.used_mem = h.used_mem
         /\ r = [mem |-> r.mem, lfree |-> r.lfree, used_mem |-> r.used_mem]
  BY DEF IsHeap

\* Block p is split: it keeps n bytes, and a free block is made of the rest.
LEMMA SplitStep ==
  ASSUME NEW h, IsHeap(h), Linked(h), NEW p \in Blocks(h), NEW n \in Nat, n >= 8,
         Data(h, p) >= n + 24
  PROVE  LET q == p + 16 + n
             r == Split(h, p, n)
         IN  /\ IsHeap(r) /\ Linked(r)
             /\ q \in Nat /\ q \notin DOMAIN h.mem /\ DOMAIN r.mem = DOMAIN h.mem \cup {q}
             /\ \A o \in DOMAIN h.mem : r.mem[o].used = h.mem[o].used
             /\ \A o \in DOMAIN h.mem \ {p} : r.mem[o].next = h.mem[o].next
             /\ r.mem[p].next = q /\ ~ r.mem[q].used /\ r.mem[q].next = h.mem[p].next
             /\ r.lfree = h.lfree /\ r.used_mem = h.used_mem
<1> DEFINE q == p + 16 + n
           behind == h.mem[p].next
           added == [o \in DOMAIN h.mem \cup {q} |->
                       IF o = q THEN [used |-> FALSE, next |-> behind, prev |-> p]
                       ELSE IF o = p THEN [h.mem[p] EXCEPT !.next = q]
                       ELSE IF o = behind /\ o # heap_end THEN [h.mem[o] EXCEPT !.prev = q]
                       ELSE h.mem[o]]
           r == Split(h, p, n)
<1>1. /\ DOMAIN h.mem \subseteq 0 .. heap_end /\ heap_end \in Nat
      /\ \A o \in DOMAIN h.mem : h.mem[o] \in Header
      /\ p \in DOMAIN h.mem /\ p # heap_end /\ p \in Nat /\ behind \in DOMAIN h.mem /\ behind \in Nat
      /\ behind >= q + 24 /\ q \in Nat /\ q > p
  BY HeapEnd, SMTT(60) DEF IsHeap, Linked, Blocks, Data, SIZEOF_STRUCT_MEM
<1>2. q \notin DOMAIN h.mem /\ q < heap_end
  BY <1>1, SMTT(60) DEF Linked
<1>3. /\ r.mem = added /\ r.lfree = h.lfree /\ r.used_mem = h.used_mem
      /\ r = [mem |-> r.mem, lfree |-> r.lfree, used_mem |-> r.used_mem]
  <2>1. r = [h EXCEPT !.mem = added]
    BY DEF Split, SIZEOF_STRUCT_MEM
  <2> HIDE DEF r, added
  <2> QED BY <2>1, MemSet, SMTT(60)
<1>4. /\ DOMAIN r.mem = DOMAIN h.mem \cup {q}
      /\ r.mem[q] = [used |-> FALSE, next |-> behind, prev |-> p]
      /\ r.mem[p] = [h.mem[p] EXCEPT !.next = q]
      /\ behind # heap_end => r.mem[behind] = [h.mem[behind] EXCEPT !.prev = q]
      /\ \A o \in DOMAIN h.mem \ {p} : o # behind \/ o = heap_end => r.mem[o] = h.mem[o]
      /\ r.mem = [o \in DOMAIN r.mem |-> r.mem[o]]
  BY <1>1, <1>2, <1>3, SMTT(60)
<1>9. behind = h.mem[p].next /\ q >= p + 24 /\ q = p + 16 + n
  BY <1>1, SMTT(60)
<1> HIDE DEF r, added, q, behind
<1>5. \A o \in DOMAIN h.mem : /\ h.mem[o].used \in BOOLEAN /\ h.mem[o].next \in Nat
                              /\ h.mem[o].prev \in Nat
  BY <1>1, HeaderSet
<1>6. /\ \A o \in DOMAIN h.mem : r.mem[o].used = h.mem[o].used
      /\ \A o \in DOMAIN h.mem \ {p} : r.mem[o].next = h.mem[o].next
      /\ \A o \in DOMAIN h.mem : o # behind \/ o = heap_end => r.mem[o].prev = h.mem[o].prev
      /\ behind # heap_end => r.mem[behind].prev = q
      /\ r.mem[p].next = q /\ r.mem[q].used = FALSE /\ r.mem[q].next = behind /\ r.mem[q].prev = p
      /\ \A o \in DOMAIN r.mem : r.mem[o] \in Header
  <2>1. r.mem[p] \in Header /\ r.mem[p].next = q /\ r.mem[p].used = h.mem[p].used
          /\ r.mem[p].prev = h.mem[p].prev
    <3> DEFINE e == h.mem[p]
    <3>1. e \in Header /\ r.mem[p] = [e EXCEPT !.next = q]
      BY <1>1, <1>4
    <3> HIDE DEF e
    <3>2. r.mem[p] \in Header /\ r.mem[p].next = q /\ r.mem[p].used = e.used /\ r.mem[p].prev = e.prev
      BY <1>1, <3>1 DEF Header
    <3> QED BY <3>2 DEF e
  <2>2. behind # heap_end => /\ r.mem[behind] \in Header /\ r.mem[behind].prev = q
                             /\ r.mem[behind].used = h.mem[behind].used
                             /\ r.mem[behind].next = h.mem[behind].next
    <3> DEFINE e == h.mem[behind]
    <3>1. e \in Header /\ (behind # heap_end => r.mem[behind] = [e EXCEPT !.prev = q])
      BY <1>1, <1>4
    <3> HIDE DEF e
    <3>2. behind # heap_end => /\ r.mem[behind] \in Header /\ r.mem[behind].prev = q
                               /\ r.mem[behind].used = e.used /\ r.mem[behind].next = e.next
      BY <1>1, <3>1 DEF Header
    <3> QED BY <3>2 DEF e
  <2>3. r.mem[q] \in Header /\ r.mem[q].used = FALSE /\ r.mem[q].next = behind /\ r.mem[q].prev = p
    BY <1>1, <1>4, SMTT(60) DEF Header
  <2>4. p # behind
    BY <1>1, SMTT(60)
  <2>5. ASSUME NEW o \in DOMAIN h.mem
        PROVE  /\ r.mem[o] \in Header /\ r.mem[o].used = h.mem[o].used
               /\ o # p => r.mem[o].next = h.mem[o].next
               /\ o # behind \/ o = heap_end => r.mem[o].prev = h.mem[o].prev
    <3>1. CASE o = p
      BY <3>1, <2>1
    <3>2. CASE o # p /\ o = behind /\ o # heap_end
      BY <3>2, <2>2
    <3>3. CASE o # p /\ (o # behind \/ o = heap_end)
      BY <3>3, <1>1, <1>4
    <3> QED BY <3>1, <3>2, <3>3
  <2> QED BY <1>4, <2>1, <2>2, <2>3, <2>5
<1>7. IsHeap(r)
  <2>1. r.mem \in [DOMAIN r.mem -> Header]
    BY <1>3, <1>4, <1>6
  <2>2. DOMAIN r.mem \subseteq 0 .. heap_end
    BY <1>1, <1>2, <1>4, SMTT(60)
  <2> QED BY <1>3, <2>1, <2>2 DEF IsHeap
<1>8. Linked(r)
  <2>1. /\ 0 \in DOMAIN r.mem /\ heap_end \in DOMAIN r.mem /\ r.mem[heap_end].used
        /\ r.mem[0].prev = 0
    BY <1>1, <1>4, <1>6, <1>9, SMTT(60) DEF Linked
  <2>2. \A x \in Blocks(r) : x = q \/ x = p \/ x \in Blocks(h) \ {p}
    BY <1>4 DEF Blocks
  <2>3. ASSUME NEW x \in Blocks(r)
        PROVE  /\ r.mem[x].next \in DOMAIN r.mem
               /\ r.mem[x].next >= x + 24
               /\ \A y \in DOMAIN r.mem : y <= x \/ r.mem[x].next <= y
               /\ r.mem[x].next # heap_end => r.mem[r.mem[x].next].prev = x
    <3>1. CASE x = q
      BY <3>1, <1>1, <1>2, <1>4, <1>6, <1>9, SMTT(60) DEF Linked
    <3>2. CASE x = p
      BY <3>2, <1>1, <1>2, <1>4, <1>6, <1>9, SMTT(60) DEF Linked
    <3>3. CASE x \in Blocks(h) \ {p}
      <4>1. /\ x \in DOMAIN h.mem /\ r.mem[x].next = h.mem[x].next /\ h.mem[x].next \in DOMAIN h.mem
            /\ h.mem[x].next >= x + 24 /\ h.mem[x].next \in Nat /\ x \in Nat
            /\ \A y \in DOMAIN h.mem : y <= x \/ h.mem[x].next <= y
            /\ h.mem[x].next # heap_end => h.mem[h.mem[x].next].prev = x
        BY <3>3, <1>1, <1>5, <1>6, SMTT(60) DEF Linked, Blocks
      <4>2. h.mem[x].next # behind \/ behind = heap_end
        BY <3>3, <4>1, <1>1, <1>9 DEF Linked
      <4>3. q <= x \/ h.mem[x].next <= q
        BY <1>1, <1>9, <3>3, <4>1, SMTT(60) DEF Linked
      <4> QED BY <4>1, <4>2, <4>3, <1>4, <1>6
    <3> QED BY <2>2, <3>1, <3>2, <3>3
  <2>4. ASSUME NEW x \in Blocks(r) \ {0}
        PROVE  r.mem[x].prev \in Blocks(r) /\ r.mem[r.mem[x].prev].next = x
    <3>1. CASE x = q
      BY <3>1, <1>1, <1>2, <1>4, <1>6 DEF Blocks
    <3>2. CASE x = behind
      <4>1. x # heap_end
        BY DEF Blocks
      <4> QED BY <3>2, <4>1, <1>1, <1>2, <1>4, <1>6, SMTT(60) DEF Blocks
    <3>3. CASE x # q /\ x # behind
      <4>1. x \in Blocks(h) \ {0} /\ r.mem[x].prev = h.mem[x].prev
        BY <3>3, <1>4, <1>6 DEF Blocks
      <4>2. h.mem[x].prev \in Blocks(h) /\ h.mem[h.mem[x].prev].next = x
        BY <4>1 DEF Linked
      <4> QED BY <3>3, <4>1, <4>2, <1>2, <1>4, <1>6, <1>9 DEF Blocks
    <3> QED BY <3>1, <3>2, <3>3
  <2> QED BY <2>1, <2>3, <2>4 DEF Linked
<1> QED BY <1>1, <1>2, <1>3, <1>4, <1>6, <1>7, <1>8 DEF q, r, behind

\* Block p swallows the block behind it, which is not the end.
LEMMA MergeStep ==
  ASSUME NEW h, IsHeap(h), Linked(h), NEW p \in Blocks(h), h.mem[p].next # heap_end
  PROVE  LET gone == h.mem[p].next
             r == Merge(h, p)
         IN  /\ IsHeap(r) /\ Linked(r)
             /\ gone \in Blocks(h) \ {p} /\ DOMAIN r.mem = DOMAIN h.mem \ {gone}
             /\ \A o \in DOMAIN r.mem : r.mem[o].used = h.mem[o].used
             /\ \A o \in DOMAIN r.mem \ {p} : r.mem[o].next = h.mem[o].next
             /\ r.mem[p].next = h.mem[gone].next
             /\ r.lfree = (IF h.lfree = gone THEN p ELSE h.lfree) /\ r.used_mem = h.used_mem
<1> DEFINE gone == h.mem[p].next
           behind == h.mem[gone].next
           merged == [o \in DOMAIN h.mem \ {gone} |->
                        IF o = p THEN [h.mem[p] EXCEPT !.next = behind]
                        ELSE IF o = behind THEN [h.mem[o] EXCEPT !.prev = p]
                        ELSE h.mem[o]]
           r == Merge(h, p)
<1>1. /\ DOMAIN h.mem \subseteq 0 .. heap_end /\ heap_end \in Nat
      /\ \A o \in DOMAIN h.mem : h.mem[o] \in Header
      /\ p \in DOMAIN h.mem /\ p # heap_end /\ p \in Nat
      /\ gone \in DOMAIN h.mem /\ gone \in Nat /\ gone \in Blocks(h) /\ gone >= p + 24
      /\ behind \in DOMAIN h.mem /\ behind \in Nat /\ behind >= gone + 24
  BY HeapEnd, SMTT(60) DEF IsHeap, Linked, Blocks
<1>2. /\ r.mem = merged /\ r.lfree = (IF h.lfree = gone THEN p ELSE h.lfree)
      /\ r.used_mem = h.used_mem
      /\ r = [mem |-> r.mem, lfree |-> r.lfree, used_mem |-> r.used_mem]
  <2>1. r = [h EXCEPT !.mem = merged, !.lfree = IF @ = gone THEN p ELSE @]
    BY DEF Merge
  <2> HIDE DEF r, merged, gone
  <2> QED BY <2>1 DEF IsHeap
<1>4. gone = h.mem[p].next /\ behind = h.mem[gone].next
  OBVIOUS
<1> HIDE DEF r, gone, behind
<1>3. /\ DOMAIN r.mem = DOMAIN h.mem \ {gone} /\ r.mem = [o \in DOMAIN r.mem |-> r.mem[o]]
      /\ r.mem[p] = [h.mem[p] EXCEPT !.next = behind]
      /\ r.mem[behind] = [h.mem[behind] EXCEPT !.prev = p]
      /\ \A o \in DOMAIN r.mem \ {p, behind} : r.mem[o] = h.mem[o]
  BY <1>1, <1>2, SMTT(60)
<1> HIDE DEF merged
<1>5. /\ r.mem[p] \in Header /\ r.mem[p].next = behind /\ r.mem[p].used = h.mem[p].used
      /\ r.mem[p].prev = h.mem[p].prev
  <2> DEFINE e == h.mem[p]
  <2>1. e \in Header /\ r.mem[p] = [e EXCEPT !.next = behind]
    BY <1>1, <1>3
  <2> HIDE DEF e
  <2>2. r.mem[p] \in Header /\ r.mem[p].next = behind /\ r.mem[p].used = e.used
          /\ r.mem[p].prev = e.prev
    BY <1>1, <2>1 DEF Header
  <2> QED BY <2>2 DEF e
<1>6. /\ r.mem[behind] \in Header /\ r.mem[behind].prev = p
      /\ r.mem[behind].used = h.mem[behind].used /\ r.mem[behind].next = h.mem[behind].next
  <2> DEFINE e == h.mem[behind]
  <2>1. e \in Header /\ r.mem[behind] = [e EXCEPT !.prev = p]
    BY <1>1, <1>3
  <2> HIDE DEF e
  <2>2. r.mem[behind] \in Header /\ r.mem[behind].prev = p /\ r.mem[behind].used = e.used
          /\ r.mem[behind].next = e.next
    BY <1>1, <2>1 DEF Header
  <2> QED BY <2>2 DEF e
<1>7. ASSUME NEW o \in DOMAIN r.mem
      PROVE  /\ r.mem[o] \in Header /\ r.mem[o].used = h.mem[o].used
             /\ o # p => r.mem[o].next = h.mem[o].next
             /\ o # behind => r.mem[o].prev = h.mem[o].prev
  <2>1. CASE o = p
    BY <2>1, <1>1, <1>5
  <2>2. CASE o = behind
    BY <2>2, <1>1, <1>6
  <2>3. CASE o # p /\ o # behind
    BY <2>3, <1>1, <1>3
  <2> QED BY <2>1, <2>2, <2>3
<1>8. IsHeap(r)
  <2>1. r.mem \in [DOMAIN r.mem -> Header]
    BY <1>3, <1>7
  <2>2. DOMAIN r.mem \subseteq 0 .. heap_end
    BY <1>1, <1>3
  <2> QED BY <1>2, <2>1, <2>2 DEF IsHeap
<1>9. Linked(r)
  <2>1. /\ 0 \in DOMAIN r.mem /\ heap_end \in DOMAIN r.mem /\ r.mem[heap_end].used
        /\ r.mem[0].prev = 0
    <3>1. 0 \in DOMAIN r.mem /\ heap_end \in DOMAIN r.mem /\ 0 # behind
      BY <1>1, <1>3, SMTT(60) DEF Linked, Blocks
    <3> QED BY <3>1, <1>7 DEF Linked
  <2>2. ASSUME NEW x \in Blocks(r)
        PROVE  /\ r.mem[x].next \in DOMAIN r.mem
               /\ r.mem[x].next >= x + 24
               /\ \A y \in DOMAIN r.mem : y <= x \/ r.mem[x].next <= y
               /\ r.mem[x].next # heap_end => r.mem[r.mem[x].next].prev = x
    <3>1. CASE x = p
      <4>1. \A y \in DOMAIN h.mem : y <= p \/ gone <= y
        BY <1>1, <1>4 DEF Linked
      <4>2. \A y \in DOMAIN h.mem : y <= gone \/ behind <= y
        BY <1>1, <1>4 DEF Linked
      <4>3. \A y \in DOMAIN r.mem : y <= p \/ behind <= y
        BY <1>1, <1>3, <4>1, <4>2, SMTT(60)
      <4>4. behind \in DOMAIN r.mem /\ behind >= p + 24
        BY <1>1, <1>3, SMTT(60)
      <4> QED BY <3>1, <4>3, <4>4, <1>5, <1>6
    <3>2. CASE x # p
      <4>1. /\ x \in Blocks(h) \ {p, gone} /\ x \in DOMAIN h.mem /\ x \in Nat
            /\ r.mem[x].next = h.mem[x].next /\ h.mem[x].next \in DOMAIN h.mem
            /\ h.mem[x].next >= x + 24 /\ h.mem[x].next \in Nat
            /\ \A y \in DOMAIN h.mem : y <= x \/ h.mem[x].next <= y
            /\ h.mem[x].next # heap_end => h.mem[h.mem[x].next].prev = x
        BY <3>2, <1>1, <1>3, <1>7, SMTT(60) DEF Linked, Blocks
      <4>2. h.mem[x].next # gone
        BY <4>1, <1>1, <1>4 DEF Linked, Blocks
      <4>3. h.mem[x].next # behind \/ behind = heap_end
        BY <4>1, <1>1, <1>4 DEF Linked, Blocks
      <4> QED BY <4>1, <4>2, <4>3, <1>3, <1>7
    <3> QED BY <3>1, <3>2
  <2>3. ASSUME NEW x \in Blocks(r) \ {0}
        PROVE  r.mem[x].prev \in Blocks(r) /\ r.mem[r.mem[x].prev].next = x
    <3>1. CASE x = behind
      <4>1. p \in Blocks(r)
        BY <1>1, <1>3, SMTT(60) DEF Blocks
      <4> QED BY <3>1, <4>1, <1>5, <1>6
    <3>2. CASE x # behind
      <4>1. x \in Blocks(h) \ {0} /\ r.mem[x].prev = h.mem[x].prev
        BY <3>2, <1>3, <1>7 DEF Blocks
      <4>2. h.mem[x].prev \in Blocks(h) /\ h.mem[h.mem[x].prev].next = x
        BY <4>1 DEF Linked
      <4>3. h.mem[x].prev # gone /\ h.mem[x].prev # p
        BY <3>2, <4>2, <1>3, <1>4 DEF Blocks
      <4> QED BY <4>1, <4>2, <4>3, <1>3, <1>7 DEF Blocks
    <3> QED BY <3>1, <3>2
  <2> QED BY <2>1, <2>2, <2>3 DEF Linked
<1>10. gone \in Blocks(h) \ {p}
  BY <1>1, SMTT(60)
<1>11. /\ \A o \in DOMAIN r.mem : r.mem[o].used = h.mem[o].used
       /\ \A o \in DOMAIN r.mem \ {p} : r.mem[o].next = h.mem[o].next
  BY <1>7
<1> QED BY <1>2, <1>3, <1>4, <1>5, <1>8, <1>9, <1>10, <1>11 DEF gone, r

\* A heap state that differs from another in its free blocks only.
SameUse(h, r) ==
  /\ InUse(r) = InUse(h) /\ r.used_mem = h.used_mem
  /\ \A x \in InUse(h) : r.mem[x].next = h.mem[x].next

\* Free block p swallows a free block behind it.
LEMMA MergeFree ==
  ASSUME NEW h, IsHeap(h), Linked(h), LfreeIn(h), NEW p \in Blocks(h),
         ~ h.mem[p].used, ~ h.mem[h.mem[p].next].used
  PROVE  LET gone == h.mem[p].next
             r == Merge(h, p)
         IN  /\ IsHeap(r) /\ Linked(r) /\ LfreeIn(r) /\ SameUse(h, r) /\ r.lfree <= h.lfree
             /\ gone \in Blocks(h) \ {p} /\ Blocks(r) = Blocks(h) \ {gone}
             /\ \A o \in Blocks(r) : r.mem[o].used = h.mem[o].used
             /\ \A o \in Blocks(r) \ {p} :
                  r.mem[o].next = h.mem[o].next /\ h.mem[o].next \in DOMAIN r.mem
             /\ r.mem[p].next = h.mem[gone].next
             /\ \A o \in DOMAIN r.mem : r.mem[o].used = h.mem[o].used
<1> DEFINE gone == h.mem[p].next
           r == Merge(h, p)
<1>1. gone # heap_end
  BY DEF Linked
<1>2. /\ IsHeap(r) /\ Linked(r)
      /\ gone \in Blocks(h) \ {p} /\ DOMAIN r.mem = DOMAIN h.mem \ {gone}
      /\ \A o \in DOMAIN r.mem : r.mem[o].used = h.mem[o].used
      /\ \A o \in DOMAIN r.mem \ {p} : r.mem[o].next = h.mem[o].next
      /\ r.mem[p].next = h.mem[gone].next
      /\ r.lfree = (IF h.lfree = gone THEN p ELSE h.lfree) /\ r.used_mem = h.used_mem
  BY <1>1, MergeStep
<1>3. gone = h.mem[p].next
  OBVIOUS
<1> HIDE DEF gone, r
<1>4. Blocks(r) = Blocks(h) \ {gone}
  BY <1>1, <1>2 DEF Blocks
<1>5. p \in DOMAIN r.mem
  BY <1>2 DEF Blocks
<1>6. LfreeIn(r)
  BY <1>2, <1>5 DEF LfreeIn
<1>7. InUse(r) = InUse(h)
  BY <1>2, <1>3, <1>4 DEF InUse, Blocks
<1>8. \A x \in InUse(h) : r.mem[x].next = h.mem[x].next
  BY <1>2, <1>3 DEF InUse, Blocks
<1>9. \A o \in Blocks(r) \ {p} : r.mem[o].next = h.mem[o].next /\ h.mem[o].next \in DOMAIN r.mem
  BY <1>2, SMTT(60) DEF Linked, Blocks
<1>10. r.lfree <= h.lfree
  <2>1. p \in Nat /\ gone \in Nat /\ h.lfree \in Nat /\ gone >= p + 24
    BY <1>2, <1>3, HeapEnd, SMTT(60) DEF IsHeap, Linked, LfreeIn, Blocks
  <2> QED BY <1>2, <2>1, SMTT(60)
<1> QED BY <1>2, <1>10, <1>4, <1>6, <1>7, <1>8, <1>9 DEF SameUse, gone, r, Blocks

\* plug_holes merges free block p, whose neighbours may be free, so that no two
\* free blocks lie side by side any more, and leaves the blocks in use alone.
LEMMA PlugHoles ==
  ASSUME NEW h, IsHeap(h), Linked(h), LfreeIn(h), NEW p \in Blocks(h),
         ~ h.mem[p].used, NoPair(h, {p})
  PROVE  LET r == plug_holes(h, p)
         IN  IsHeap(r) /\ Linked(r) /\ NoPair(r, {}) /\ LfreeIn(r) /\ SameUse(h, r)
             /\ r.lfree <= h.lfree
<1> DEFINE n == h.mem[p].next
           h1 == IF n # p /\ ~ h.mem[n].used /\ n # heap_end THEN Merge(h, p) ELSE h
           b == h1.mem[p].prev
           r == IF b # p /\ ~ h1.mem[b].used THEN Merge(h1, b) ELSE h1
<1>1. plug_holes(h, p) = r
  BY DEF plug_holes
<1>2. p \in Nat /\ n \in Nat /\ n \in DOMAIN h.mem /\ n > p
  BY HeapEnd, SMTT(60) DEF IsHeap, Linked, Blocks
<1>3. /\ IsHeap(h1) /\ Linked(h1) /\ LfreeIn(h1) /\ SameUse(h, h1) /\ NoPair(h1, {p})
      /\ p \in Blocks(h1) /\ ~ h1.mem[p].used /\ h1.mem[h1.mem[p].next].used
      /\ h1.lfree <= h.lfree
  <2>1. CASE h.mem[n].used
    <3>1. h1 = h
      BY <2>1
    <3>2. h1.lfree <= h.lfree
      <4>1. h.lfree \in Nat
        BY HeapEnd, SMTT(60) DEF IsHeap, LfreeIn
      <4> QED BY <3>1, <4>1, SMTT(60)
    <3> QED BY <2>1, <3>1, <3>2 DEF SameUse
  <2>2. CASE ~ h.mem[n].used
    <3>1. h1 = Merge(h, p)
      BY <2>2, <1>2, SMTT(60) DEF Linked
    <3>2. /\ IsHeap(h1) /\ Linked(h1) /\ LfreeIn(h1) /\ SameUse(h, h1) /\ h1.lfree <= h.lfree
          /\ n \in Blocks(h) \ {p} /\ Blocks(h1) = Blocks(h) \ {n}
          /\ \A o \in DOMAIN h1.mem : h1.mem[o].used = h.mem[o].used
          /\ \A o \in Blocks(h1) \ {p} :
               h1.mem[o].next = h.mem[o].next /\ h.mem[o].next \in DOMAIN h1.mem
          /\ h1.mem[p].next = h.mem[n].next
      BY <2>2, <3>1, MergeFree, SMTT(60)
    <3>3. n = h.mem[p].next
      OBVIOUS
    <3> HIDE DEF n, h1
    <3>4. h.mem[n].next # p /\ h.mem[h.mem[n].next].used
      <4>1. h.mem[n].next > n
        BY <3>2, SMTT(60) DEF Linked, Blocks, IsHeap, Header
      <4>2. h.mem[n].next # p
        <5>1. h.mem[n].next \in Nat
          BY <1>2 DEF IsHeap, Header
        <5> QED BY <4>1, <5>1, <1>2, SMTT(60)
      <4> QED BY <2>2, <3>2, <4>2 DEF NoPair
    <3>5. p \in Blocks(h1) /\ ~ h1.mem[p].used /\ h1.mem[p].next \in DOMAIN h1.mem
      BY <3>2 DEF Linked, Blocks
    <3>6. NoPair(h1, {p})
      BY <3>2 DEF NoPair, Blocks
    <3> QED BY <3>2, <3>4, <3>5, <3>6
  <2> QED BY <2>1, <2>2
<1> HIDE DEF h1, n
<1>4. p \in Nat /\ p # heap_end /\ b \in DOMAIN h1.mem
  BY <1>2, <1>3 DEF Linked, Blocks
<1>5. CASE b # p /\ ~ h1.mem[b].used
  <2>1. r = Merge(h1, b)
    BY <1>5
  <2>2. b \in Blocks(h1) /\ h1.mem[b].next = p
    BY <1>3, <1>5 DEF Linked
  <2>3. /\ IsHeap(r) /\ Linked(r) /\ LfreeIn(r) /\ SameUse(h1, r) /\ r.lfree <= h1.lfree
        /\ Blocks(r) = Blocks(h1) \ {p}
        /\ \A o \in DOMAIN r.mem : r.mem[o].used = h1.mem[o].used
        /\ \A o \in Blocks(r) \ {b} :
             r.mem[o].next = h1.mem[o].next /\ h1.mem[o].next \in DOMAIN r.mem
        /\ r.mem[b].next = h1.mem[p].next
    BY <1>3, <1>5, <2>1, <2>2, MergeFree, SMTT(60)
  <2> HIDE DEF r, b
  <2>4. p \notin DOMAIN r.mem
    BY <1>4, <2>3 DEF Blocks
  <2>5. ASSUME NEW x \in Blocks(r), ~ r.mem[x].used PROVE r.mem[r.mem[x].next].used
    <3>1. x \in DOMAIN r.mem /\ r.mem[x].next \in DOMAIN r.mem
      BY <2>3 DEF Linked, Blocks
    <3>2. CASE x = b
      BY <3>1, <3>2, <1>3, <2>3
    <3>3. CASE x # b
      BY <3>1, <3>3, <1>3, <2>3, <2>4, <2>5 DEF NoPair
    <3> QED BY <3>2, <3>3
  <2>6. NoPair(r, {})
    BY <2>5 DEF NoPair
  <2>7. SameUse(h, r)
    BY <1>3, <2>3 DEF SameUse
  <2>8. r.lfree <= h.lfree
    <3>1. h.lfree \in Nat /\ h1.lfree \in Nat /\ r.lfree \in Nat
      BY <1>3, <2>3, HeapEnd, SMTT(60) DEF IsHeap, LfreeIn
    <3> QED BY <1>3, <2>3, <3>1, SMTT(60)
  <2> QED BY <1>1, <2>3, <2>6, <2>7, <2>8
<1>6. CASE ~ (b # p /\ ~ h1.mem[b].used)
  <2>1. r = h1
    BY <1>6
  <2>2. ASSUME NEW x \in Blocks(h1), ~ h1.mem[x].used PROVE h1.mem[h1.mem[x].next].used
    <3>1. CASE x = p
      BY <3>1, <1>3
    <3>2. CASE x # p /\ h1.mem[x].next # p
      BY <3>2, <2>2, <1>3 DEF NoPair
    <3>3. CASE x # p /\ h1.mem[x].next = p
      <4>1. h1.mem[p].prev = x
        BY <3>3, <1>3, <1>4 DEF Linked
      <4> QED BY <4>1, <3>3, <1>6, <2>2
    <3> QED BY <3>1, <3>2, <3>3
  <2>3. NoPair(h1, {})
    BY <2>2 DEF NoPair
  <2> QED BY <1>1, <1>3, <2>1, <2>3
<1> QED BY <1>5, <1>6

-----------------------------------------------------------------------------
\* The bytes in use.

\* A block ends before a later block begins.
LEMMA Disjoint ==
  ASSUME NEW h, IsHeap(h), Linked(h), NEW u \in Blocks(h), NEW v \in Blocks(h), u # v
  PROVE  u \in Nat /\ v \in Nat /\ h.mem[u].next \in Nat /\ h.mem[u].next <= heap_end
         /\ u < h.mem[u].next /\ (h.mem[u].next <= v \/ h.mem[v].next <= u)
<1>1. /\ u \in Nat /\ v \in Nat /\ u \in DOMAIN h.mem /\ v \in DOMAIN h.mem
      /\ h.mem[u].next \in DOMAIN h.mem /\ h.mem[u].next \in 0 .. heap_end
  BY HeapEnd, SMTT(60) DEF IsHeap, Linked, Blocks
<1>2. (v <= u \/ h.mem[u].next <= v) /\ (u <= v \/ h.mem[v].next <= u) /\ h.mem[u].next >= u + 24
  BY <1>1 DEF Linked
<1> QED BY <1>1, <1>2, HeapEnd, SMTT(60)

\* The bytes in use are finitely many, and lie below heap_end.
LEMMA BytesFinite ==
  ASSUME NEW h
  PROVE  /\ IsFiniteSet(UsedBytes(h)) /\ Cardinality(UsedBytes(h)) \in Nat
         /\ UsedBytes(h) = {x \in 0 .. heap_end - 1 :
                              \E p \in InUse(h) : p <= x /\ x < h.mem[p].next}
<1>1. IsFiniteSet(0 .. heap_end - 1)
  BY HeapEnd, FS_Interval, SMTT(60)
<1>2. UsedBytes(h) \in SUBSET (0 .. heap_end - 1)
  BY DEF UsedBytes
<1>3. IsFiniteSet(UsedBytes(h))
  BY <1>1, <1>2, FS_Subset
<1>4. UsedBytes(h) = {x \in 0 .. heap_end - 1 : \E p \in InUse(h) : p <= x /\ x < h.mem[p].next}
  BY DEF UsedBytes, InUse, Blocks
<1> QED BY <1>3, <1>4, FS_CardinalityType

\* The bytes of a block come into use, or leave it.
LEMMA BytesJoin ==
  ASSUME NEW S, IsFiniteSet(S), NEW a \in Nat, NEW c \in Nat, a <= c, S \cap (a .. c - 1) = {}
  PROVE  Cardinality(S \cup (a .. c - 1)) = Cardinality(S) + (c - a)
<1>1. IsFiniteSet(a .. c - 1) /\ Cardinality(a .. c - 1) = c - a
  <2>1. a \in Int /\ c - 1 \in Int
    BY SMTT(60)
  <2>2. IsFiniteSet(a .. c - 1)
          /\ Cardinality(a .. c - 1) = IF a > c - 1 THEN 0 ELSE c - 1 - a + 1
    BY <2>1, FS_Interval
  <2> QED BY <2>2, SMTT(60)
<1>2. Cardinality(S) \in Nat
  BY FS_CardinalityType
<1>3. Cardinality(S \cup (a .. c - 1)) = Cardinality(S) + Cardinality(a .. c - 1) - Cardinality({})
  BY <1>1, FS_Union, SMTT(60)
<1> QED BY <1>1, <1>2, <1>3, FS_EmptySet, SMTT(60)

\* used_mem stays right when the blocks in use and used_mem stay the same.
LEMMA SameBytes ==
  ASSUME NEW h, NEW r, SameUse(h, r), Counted(h)
  PROVE  Counted(r)
<1>1. UsedBytes(r) = UsedBytes(h)
  BY BytesFinite DEF SameUse
<1> QED BY <1>1 DEF Counted, SameUse

-----------------------------------------------------------------------------
\* What malloc, free and realloc do to the heap.

\* Every byte below heap_end lies in a block.
LEMMA Covered ==
  ASSUME NEW h, IsHeap(h), Linked(h), NEW x \in Nat, x < heap_end
  PROVE  \E p \in Blocks(h) : p \in Nat /\ p <= x /\ h.mem[p].next \in Nat /\ x < h.mem[p].next
<1> DEFINE S == {d \in 0 .. x : x - d \in Blocks(h)}
<1>1. S \subseteq Nat /\ x \in S
  <2>1. 0 \in Blocks(h) /\ x - x = 0 /\ x \in 0 .. x
    BY HeapEnd, SMTT(60) DEF Linked, Blocks
  <2> QED BY <2>1, SMTT(60)
<1>2. PICK d \in S : \A e \in S : d <= e
  BY <1>1, LeastNatural
<1>3. PICK p \in Blocks(h) : p = x - d
  BY <1>2
<1>4. /\ p \in Nat /\ p <= x /\ d = x - p /\ h.mem[p].next \in Nat /\ h.mem[p].next >= p + 24
      /\ h.mem[p].next \in DOMAIN h.mem
  BY <1>2, <1>3, HeapEnd, SMTT(60) DEF IsHeap, Linked, Blocks
<1>5. x < h.mem[p].next
  <2>1. SUFFICES ASSUME h.mem[p].next <= x PROVE FALSE
    BY <1>4, SMTT(60)
  <2>2. h.mem[p].next \in Blocks(h)
    BY <1>4, <2>1, HeapEnd, SMTT(60) DEF Blocks
  <2>3. x - h.mem[p].next \in S
    <3>1. PICK g \in Nat : g = h.mem[p].next
      BY <1>4
    <3>2. x - g \in 0 .. x /\ x - (x - g) = g
      BY <2>1, <3>1, SMTT(60)
    <3> QED BY <2>2, <3>1, <3>2
  <2> HIDE DEF S
  <2> QED BY <1>2, <1>4, <2>1, <2>3, SMTT(60)
<1> QED BY <1>4, <1>5

\* The unseen bytes are those below lfree that are not in use.
LEMMA UnseenIs ==
  ASSUME NEW h, IsHeap(h), Linked(h), LfreeIn(h)
  PROVE  /\ h.lfree \in Nat
         /\ \A x : x \in Unseen(h) <=> x \in Nat /\ x < h.lfree /\ x \notin UsedBytes(h)
<1>1. h.lfree \in Nat /\ h.lfree <= heap_end /\ h.lfree \in DOMAIN h.mem
  BY HeapEnd, SMTT(60) DEF IsHeap, LfreeIn
<1>2. UsedBytes(h) = {x \in 0 .. heap_end - 1 : \E p \in InUse(h) : p <= x /\ x < h.mem[p].next}
  BY BytesFinite
<1>3. ASSUME NEW x \in Unseen(h) PROVE x \in Nat /\ x < h.lfree /\ x \notin UsedBytes(h)
  <2>1. PICK q \in DOMAIN h.mem : q < h.lfree /\ ~ h.mem[q].used /\ x \in q .. h.mem[q].next - 1
    BY <1>3 DEF Unseen
  <2>2. q \in Blocks(h) /\ q \notin InUse(h)
    BY <2>1 DEF Linked, Blocks, InUse
  <2>3. /\ q \in Nat /\ h.mem[q].next \in Nat /\ x \in Nat /\ q <= x /\ x < h.mem[q].next
        /\ h.lfree <= q \/ h.mem[q].next <= h.lfree
    BY <1>1, <2>1, <2>2, HeapEnd, SMTT(60) DEF IsHeap, Linked, Blocks
  <2>4. ASSUME NEW p \in InUse(h), p <= x, x < h.mem[p].next PROVE FALSE
    <3>1. p \in Blocks(h) /\ p # q
      BY <2>2 DEF InUse
    <3>2. /\ p \in Nat /\ h.mem[p].next \in Nat
          /\ h.mem[p].next <= q \/ h.mem[q].next <= p
      BY <2>2, <3>1, Disjoint
    <3> QED BY <2>3, <2>4, <3>2, SMTT(60)
  <2> QED BY <1>1, <1>2, <2>1, <2>3, <2>4, SMTT(60)
<1>4. ASSUME NEW x \in Nat, x < h.lfree, x \notin UsedBytes(h) PROVE x \in Unseen(h)
  <2>1. x < heap_end /\ x \in 0 .. heap_end - 1
    BY <1>1, <1>4, HeapEnd, SMTT(60)
  <2>2. PICK p \in Blocks(h) : p \in Nat /\ p <= x /\ h.mem[p].next \in Nat /\ x < h.mem[p].next
    BY <2>1, Covered
  <2>3. p \in DOMAIN h.mem /\ ~ h.mem[p].used
    BY <1>2, <1>4, <2>1, <2>2 DEF InUse, Blocks
  <2>4. p < h.lfree /\ x \in p .. h.mem[p].next - 1
    BY <1>1, <1>4, <2>2, SMTT(60)
  <2> QED BY <2>3, <2>4 DEF Unseen
<1> QED BY <1>1, <1>3, <1>4

\* A byte that is not in use and below lfree was so before, or was cut off.
LEMMA ShownUnless ==
  ASSUME NEW h, IsHeap(h), Linked(h), LfreeIn(h), NEW r, IsHeap(r), Linked(r), LfreeIn(r),
         \A x \in Nat : x < r.lfree /\ x \notin UsedBytes(r) =>
           (x < h.lfree /\ x \notin UsedBytes(h)) \/ x \in CutOff(h, r)
  PROVE  Shown(h, r)
<1>1. \A x : x \in Unseen(h) <=> x \in Nat /\ x < h.lfree /\ x \notin UsedBytes(h)
  BY UnseenIs
<1>2. \A x : x \in Unseen(r) <=> x \in Nat /\ x < r.lfree /\ x \notin UsedBytes(r)
  BY UnseenIs
<1> QED BY <1>1, <1>2 DEF Shown

\* A used flag is written; lfree and used_mem are written.
Mark(h, p, v) == [h EXCEPT !.mem[p].used = v]
Numbers(h, l, v) == [mem |-> h.mem, lfree |-> l, used_mem |-> v]

\* Setting the used flag of a block leaves the links of the list alone.
LEMMA FlagStep ==
  ASSUME NEW h, IsHeap(h), Linked(h), NEW p \in Blocks(h), NEW v \in BOOLEAN,
         NEW r, r = Mark(h, p, v)
  PROVE  /\ IsHeap(r) /\ Linked(r) /\ DOMAIN r.mem = DOMAIN h.mem /\ Blocks(r) = Blocks(h)
         /\ \A o \in DOMAIN h.mem : r.mem[o].next = h.mem[o].next
         /\ \A o \in DOMAIN h.mem \ {p} : r.mem[o].used = h.mem[o].used
         /\ r.mem[p].used = v /\ r.lfree = h.lfree /\ r.used_mem = h.used_mem
<1> DEFINE e == h.mem[p]
           m == [h.mem EXCEPT ![p] = [e EXCEPT !.used = v]]
<1>1. p \in DOMAIN h.mem /\ p # heap_end /\ h.mem \in [DOMAIN h.mem -> Header] /\ e \in Header
  BY DEF IsHeap, Blocks
<1>2. r = [h EXCEPT !.mem = m]
  BY <1>1 DEF IsHeap, Mark
<1>3. /\ m \in [DOMAIN h.mem -> Header] /\ m[p].used = v /\ m[p].next = e.next /\ m[p].prev = e.prev
      /\ \A o \in DOMAIN h.mem \ {p} : m[o] = h.mem[o]
  <2> HIDE DEF e
  <2>1. /\ [e EXCEPT !.used = v] \in Header /\ [e EXCEPT !.used = v].used = v
        /\ [e EXCEPT !.used = v].next = e.next /\ [e EXCEPT !.used = v].prev = e.prev
    BY <1>1 DEF Header
  <2> QED BY <1>1, <2>1
<1>4. e = h.mem[p]
  OBVIOUS
<1> HIDE DEF m, e
<1>5. /\ r.mem = m /\ r.lfree = h.lfree /\ r.used_mem = h.used_mem
      /\ r = [mem |-> r.mem, lfree |-> r.lfree, used_mem |-> r.used_mem]
  BY <1>2, MemSet, SMTT(60)
<1>6. /\ DOMAIN r.mem = DOMAIN h.mem
      /\ \A o \in DOMAIN h.mem : r.mem[o].next = h.mem[o].next /\ r.mem[o].prev = h.mem[o].prev
      /\ \A o \in DOMAIN h.mem \ {p} : r.mem[o].used = h.mem[o].used
  BY <1>3, <1>4, <1>5
<1>7. IsHeap(r)
  BY <1>3, <1>5, <1>6 DEF IsHeap
<1>8. Blocks(r) = Blocks(h)
  BY <1>6 DEF Blocks
<1>9. Linked(r)
  <2>1. /\ 0 \in DOMAIN r.mem /\ heap_end \in DOMAIN r.mem /\ r.mem[heap_end].used /\ r.mem[0].prev = 0
    BY <1>1, <1>6 DEF Linked
  <2>2. ASSUME NEW x \in Blocks(r)
        PROVE  /\ r.mem[x].next \in DOMAIN r.mem /\ r.mem[x].next >= x + 24
               /\ \A y \in DOMAIN r.mem : y <= x \/ r.mem[x].next <= y
               /\ r.mem[x].next # heap_end => r.mem[r.mem[x].next].prev = x
    BY <1>6, <1>8, SMTT(60) DEF Linked, Blocks
  <2>3. ASSUME NEW x \in Blocks(r) \ {0}
        PROVE  r.mem[x].prev \in Blocks(r) /\ r.mem[r.mem[x].prev].next = x
    BY <1>6, <1>8, SMTT(60) DEF Linked, Blocks
  <2> QED BY <2>1, <2>2, <2>3 DEF Linked
<1> QED BY <1>3, <1>5, <1>6, <1>7, <1>8, <1>9

\* Setting lfree and used_mem leaves the blocks alone.
LEMMA NumberStep ==
  ASSUME NEW h, IsHeap(h), Linked(h), NEW l, NEW v \in Int,
         NEW r, r = Numbers(h, l, v)
  PROVE  IsHeap(r) /\ Linked(r) /\ r.mem = h.mem /\ r.lfree = l /\ r.used_mem = v
<1>1. /\ r.mem = h.mem /\ r.lfree = l /\ r.used_mem = v
      /\ r = [mem |-> r.mem, lfree |-> r.lfree, used_mem |-> r.used_mem]
  BY DEF IsHeap, Numbers
<1> QED BY <1>1, SMTT(60) DEF IsHeap, Linked, Blocks

\* malloc gives a fitting block away: it comes into use with the bytes asked
\* for, and the other blocks in use stay as they are.
LEMMA TakeStep ==
  ASSUME NEW h, Sound(h), NEW n \in Nat, n >= 16, NEW p \in Fitting(h, n)
  PROVE  LET r == Take(h, p, n)
         IN  /\ Sound(r)
             /\ p \in Blocks(h) /\ p \notin InUse(h) /\ InUse(r) = InUse(h) \cup {p}
             /\ \A o \in InUse(h) : r.mem[o].next = h.mem[o].next
             /\ Data(r, p) >= n /\ Shown(h, r)
<1> DEFINE split == Data(h, p) >= n + SIZEOF_STRUCT_MEM + MIN_SIZE_ALIGNED
           h0 == IF split THEN Split(h, p, n) ELSE h
           h1 == [h0 EXCEPT !.mem[p].used = TRUE]
           taken == h1.mem[p].next - p
           unused == {o \in DOMAIN h1.mem : o >= p /\ (o = heap_end \/ ~ h1.mem[o].used)}
           first == IF h1.lfree = p THEN Min(unused) ELSE h1.lfree
           r == Take(h, p, n)
<1>1. IsHeap(h) /\ Linked(h) /\ NoPair(h, {}) /\ LfreeIn(h) /\ Counted(h)
  BY DEF Sound
<1>2. /\ p \in Blocks(h) /\ p \in DOMAIN h.mem /\ ~ h.mem[p].used /\ Data(h, p) >= n /\ p \in Nat
      /\ h.mem[p].next \in Nat /\ h.mem[p].next \in DOMAIN h.mem
  <2>1. p \in DOMAIN h.mem /\ ~ h.mem[p].used /\ Data(h, p) >= n
    BY DEF Fitting
  <2>2. p \in Blocks(h)
    BY <2>1, <1>1 DEF Linked, Blocks
  <2>3. h.mem[p].next \in DOMAIN h.mem /\ DOMAIN h.mem \subseteq Nat
    BY <2>2, <1>1, HeapEnd, SMTT(60) DEF Linked, IsHeap
  <2> QED BY <2>1, <2>2, <2>3
<1>3. h.mem[h.mem[p].next].used
  BY <1>1, <1>2 DEF NoPair
<1>4. /\ IsHeap(h0) /\ Linked(h0) /\ p \in Blocks(h0) /\ Blocks(h) \subseteq Blocks(h0)
      /\ h0.lfree = h.lfree /\ h0.used_mem = h.used_mem
      /\ h0.mem[p].next >= p + 16 + n /\ h0.mem[p].next <= h.mem[p].next /\ h0.mem[p].next \in Nat
      /\ \A o \in DOMAIN h.mem : o \in DOMAIN h0.mem /\ h0.mem[o].used = h.mem[o].used
      /\ \A o \in DOMAIN h.mem \ {p} : h0.mem[o].next = h.mem[o].next
      /\ \A o \in DOMAIN h0.mem \ DOMAIN h.mem : ~ h0.mem[o].used /\ h0.mem[o].next = h.mem[p].next
  <2>1. CASE split
    <3>1. h0 = Split(h, p, n) /\ Data(h, p) >= n + 24 /\ n >= 8
      BY <2>1, <1>2, SMTT(60) DEF SIZEOF_STRUCT_MEM, MIN_SIZE_ALIGNED, Data
    <3> DEFINE q == p + 16 + n
    <3>2. /\ IsHeap(h0) /\ Linked(h0)
          /\ q \in Nat /\ q \notin DOMAIN h.mem /\ DOMAIN h0.mem = DOMAIN h.mem \cup {q}
          /\ \A o \in DOMAIN h.mem : h0.mem[o].used = h.mem[o].used
          /\ \A o \in DOMAIN h.mem \ {p} : h0.mem[o].next = h.mem[o].next
          /\ h0.mem[p].next = q /\ ~ h0.mem[q].used /\ h0.mem[q].next = h.mem[p].next
          /\ h0.lfree = h.lfree /\ h0.used_mem = h.used_mem
      BY <1>1, <1>2, <3>1, SplitStep, SMTT(60)
    <3>3. q <= h.mem[p].next
      BY <1>2, <3>1, SMTT(60) DEF Data, SIZEOF_STRUCT_MEM
    <3> HIDE DEF h0
    <3>4. Blocks(h) \subseteq Blocks(h0)
      BY <3>2 DEF Blocks
    <3> QED BY <1>2, <3>2, <3>3, <3>4, SMTT(60)
  <2>2. CASE ~ split
    BY <2>2, <1>1, <1>2, SMTT(60) DEF Data, SIZEOF_STRUCT_MEM
  <2> QED BY <2>1, <2>2
<1>5. r = [h1 EXCEPT !.used_mem = @ + taken, !.lfree = IF @ = p THEN Min(unused) ELSE @]
  BY DEF Take, SIZEOF_STRUCT_MEM, MIN_SIZE_ALIGNED
<1>6. h1 = Mark(h0, p, TRUE)
  BY DEF Mark
<1> HIDE DEF h0, h1, r
<1>7. /\ IsHeap(h1) /\ Linked(h1) /\ DOMAIN h1.mem = DOMAIN h0.mem /\ Blocks(h1) = Blocks(h0)
      /\ \A o \in DOMAIN h0.mem : h1.mem[o].next = h0.mem[o].next
      /\ \A o \in DOMAIN h0.mem \ {p} : h1.mem[o].used = h0.mem[o].used
      /\ h1.mem[p].used /\ h1.lfree = h.lfree /\ h1.used_mem = h.used_mem
  <2>1. PICK v \in BOOLEAN : v = TRUE
    OBVIOUS
  <2>2. h1 = Mark(h0, p, v)
    BY <1>6, <2>1
  <2>3. /\ IsHeap(h1) /\ Linked(h1) /\ DOMAIN h1.mem = DOMAIN h0.mem /\ Blocks(h1) = Blocks(h0)
        /\ \A o \in DOMAIN h0.mem : h1.mem[o].next = h0.mem[o].next
        /\ \A o \in DOMAIN h0.mem \ {p} : h1.mem[o].used = h0.mem[o].used
        /\ h1.mem[p].used = v /\ h1.lfree = h0.lfree /\ h1.used_mem = h0.used_mem
    BY <1>4, <2>2, FlagStep, SMTT(60)
  <2> QED BY <1>4, <2>1, <2>3
<1>8. IsHeap(r) /\ Linked(r) /\ r.mem = h1.mem /\ r.lfree = first /\ r.used_mem = h1.used_mem + taken
  <2>1. h1.used_mem + taken \in Int
    BY <1>2, <1>4, <1>7, SMTT(60) DEF IsHeap, Blocks
  <2>2. r = Numbers(h1, first, h1.used_mem + taken)
    <3> HIDE DEF unused, taken
    <3> QED BY <1>5, <1>7 DEF IsHeap, Numbers
  <2> HIDE DEF first, taken
  <2> QED BY <1>7, <2>1, <2>2, NumberStep, SMTT(60)
<1>9. p \in DOMAIN h0.mem /\ p # heap_end /\ r.mem[p].next = h0.mem[p].next
  BY <1>4, <1>7, <1>8 DEF Blocks
<1>10. LfreeIn(r)
  <2>1. unused \subseteq Nat /\ unused # {}
    <3>1. heap_end \in DOMAIN h1.mem /\ heap_end >= p
      BY <1>1, <1>2, <1>7, HeapEnd, SMTT(60) DEF Linked, IsHeap
    <3>2. DOMAIN h1.mem \subseteq Nat
      BY <1>7, HeapEnd, SMTT(60) DEF IsHeap
    <3> QED BY <3>1, <3>2
  <2>2. Min(unused) \in unused
    BY <2>1, LeastNatural
  <2>3. CASE h1.lfree = p
    BY <2>2, <2>3, <1>8 DEF LfreeIn
  <2>4. CASE h1.lfree # p
    BY <2>4, <1>1, <1>4, <1>7, <1>8, SMTT(60) DEF LfreeIn
  <2> QED BY <2>3, <2>4
<1>11. NoPair(r, {})
  <2>1. ASSUME NEW x \in Blocks(r), ~ r.mem[x].used PROVE r.mem[r.mem[x].next].used
    <3>1. x # p /\ x \in DOMAIN h0.mem /\ ~ h0.mem[x].used /\ r.mem[x].next = h0.mem[x].next
      BY <2>1, <1>7, <1>8 DEF Blocks
    <3>2. CASE x \in DOMAIN h.mem
      <4>1. /\ h.mem[x].next \in DOMAIN h.mem /\ h.mem[h.mem[x].next].used
            /\ h0.mem[x].next = h.mem[x].next
        BY <3>1, <3>2, <1>1, <1>4 DEF NoPair, Linked, Blocks
      <4> QED BY <3>1, <4>1, <1>4, <1>7, <1>8
    <3>3. CASE x \notin DOMAIN h.mem
      BY <3>1, <3>3, <1>2, <1>3, <1>4, <1>7, <1>8
    <3> QED BY <3>2, <3>3
  <2> QED BY <2>1 DEF NoPair
<1>12. p \notin InUse(h) /\ InUse(r) = InUse(h) \cup {p}
  BY <1>2, <1>4, <1>7, <1>8, SMTT(60) DEF InUse, Blocks
<1>13. \A o \in InUse(h) : r.mem[o].next = h.mem[o].next
  BY <1>4, <1>7, <1>8, <1>12 DEF InUse, Blocks
<1>14. Data(r, p) >= n
  BY <1>2, <1>4, <1>9, SMTT(60) DEF Data, SIZEOF_STRUCT_MEM
<1>15. Counted(r)
  <2> DEFINE c == r.mem[p].next
             S == UsedBytes(h)
  <2>1. p \in Nat /\ c \in Nat /\ p <= c /\ c <= h.mem[p].next /\ h.mem[p].next <= heap_end
          /\ h.mem[p].next \in Nat
    <3>1. h.mem[p].next <= heap_end
      BY <1>1, <1>2, HeapEnd, SMTT(60) DEF IsHeap
    <3> QED BY <3>1, <1>2, <1>4, <1>9, SMTT(60)
  <2>2. ASSUME NEW u \in InUse(h)
        PROVE  /\ u \in Nat /\ h.mem[u].next \in Nat
               /\ h.mem[u].next <= p \/ h.mem[p].next <= u
    <3>1. u \in Blocks(h) /\ u # p
      BY <1>12 DEF InUse
    <3> QED BY <3>1, <1>1, <1>2, Disjoint
  <2>3. S = {x \in 0 .. heap_end - 1 : \E u \in InUse(h) : u <= x /\ x < h.mem[u].next}
    BY BytesFinite
  <2>4. UsedBytes(r) = {x \in 0 .. heap_end - 1 : \E u \in InUse(r) : u <= x /\ x < r.mem[u].next}
    BY BytesFinite
  <2> HIDE DEF c, S
  <2>5. S \cap (p .. c - 1) = {}
    <3>1. ASSUME NEW x \in S, x \in p .. c - 1 PROVE FALSE
      <4>1. PICK u \in InUse(h) : u <= x /\ x < h.mem[u].next
        BY <2>3
      <4> QED BY <4>1, <3>1, <2>1, <2>2, HeapEnd, SMTT(60)
    <3> QED BY <3>1
  <2>6. UsedBytes(r) = S \cup (p .. c - 1)
    <3>1. \A x \in 0 .. heap_end - 1 :
            (\E u \in InUse(r) : u <= x /\ x < r.mem[u].next)
              <=> (\E u \in InUse(h) : u <= x /\ x < h.mem[u].next) \/ (p <= x /\ x < c)
      BY <1>12, <1>13 DEF c
    <3>2. \A x : x \in p .. c - 1 <=> x \in 0 .. heap_end - 1 /\ p <= x /\ x < c
      BY <2>1, HeapEnd, SMTT(60)
    <3> QED BY <3>1, <3>2, <2>3, <2>4
  <2>7. Cardinality(UsedBytes(r)) = Cardinality(S) + (c - p)
    <3>1. IsFiniteSet(S)
      BY BytesFinite DEF S
    <3> QED BY <3>1, <2>1, <2>5, <2>6, BytesJoin
  <2>8. r.used_mem = h.used_mem + (c - p)
    BY <1>7, <1>8 DEF c
  <2> QED BY <2>7, <2>8, <1>1 DEF Counted, S
<1>16. Shown(h, r)
  <2>1. ASSUME NEW x \in Nat, x < r.lfree, x \notin UsedBytes(r)
        PROVE  x < h.lfree /\ x \notin UsedBytes(h)
    <3>1. UsedBytes(r) = {y \in 0 .. heap_end - 1 : \E u \in InUse(r) : u <= y /\ y < r.mem[u].next}
      BY BytesFinite
    <3>2. UsedBytes(h) = {y \in 0 .. heap_end - 1 : \E u \in InUse(h) : u <= y /\ y < h.mem[u].next}
      BY BytesFinite
    <3>3. x \notin UsedBytes(h)
      BY <1>12, <1>13, <2>1, <3>1, <3>2
    <3>4. h.lfree \in Nat /\ r.lfree \in Nat /\ r.lfree <= heap_end
      BY <1>1, <1>8, <1>10, HeapEnd, SMTT(60) DEF LfreeIn, IsHeap
    <3>5. x < h.lfree
      <4>1. CASE h1.lfree # p
        BY <1>7, <1>8, <2>1, <4>1
      <4>2. CASE h1.lfree = p
        <5>1. SUFFICES ASSUME p <= x PROVE FALSE
          BY <1>2, <1>7, <4>2, SMTT(60)
        <5>2. x < heap_end /\ x \in 0 .. heap_end - 1
          BY <2>1, <3>4, HeapEnd, SMTT(60)
        <5>3. PICK q \in Blocks(r) : q \in Nat /\ q <= x /\ r.mem[q].next \in Nat /\ x < r.mem[q].next
          BY <1>8, <5>2, Covered
        <5>4. ~ r.mem[q].used /\ q \in DOMAIN h1.mem
          BY <1>8, <2>1, <3>1, <5>2, <5>3 DEF InUse, Blocks
        <5>5. q >= p
          <6>1. p \in DOMAIN r.mem
            BY <1>7, <1>8, <1>9
          <6>2. p <= q \/ r.mem[q].next <= p
            BY <1>8, <5>3, <6>1 DEF Linked
          <6> QED BY <1>2, <5>1, <5>3, <6>2, SMTT(60)
        <5>6. q \in unused
          BY <1>8, <5>4, <5>5
        <5>7. unused \subseteq Nat
          BY <1>7, HeapEnd, SMTT(60) DEF IsHeap
        <5>8. r.lfree = Min(unused)
          BY <1>8, <4>2
        <5> HIDE DEF unused
        <5>9. r.lfree <= q
          BY <5>6, <5>7, <5>8, LeastNatural
        <5> QED BY <2>1, <3>4, <5>3, <5>9, SMTT(60)
      <4> QED BY <4>1, <4>2
    <3> QED BY <3>3, <3>5
  <2> QED BY <1>1, <1>8, <1>10, <2>1, ShownUnless
<1> QED BY <1>2, <1>8, <1>10, <1>11, <1>12, <1>13, <1>14, <1>15, <1>16 DEF Sound, r

\* The bytes from a on leave the use: the rest of a block, or all of it.
LEMMA BytesLeave ==
  ASSUME NEW h, IsHeap(h), Linked(h), Counted(h), NEW p \in InUse(h), NEW a \in Nat,
         p <= a, a <= h.mem[p].next, NEW r,
         r.used_mem = h.used_mem - (h.mem[p].next - a),
         InUse(r) \in {InUse(h), InUse(h) \ {p}},
         p \in InUse(r) => r.mem[p].next = a,
         p \notin InUse(r) => a = p,
         \A u \in InUse(h) \ {p} : r.mem[u].next = h.mem[u].next
  PROVE  Counted(r)
<1> DEFINE c == h.mem[p].next
           S == UsedBytes(r)
<1>1. p \in Blocks(h) /\ p \in Nat /\ c \in Nat /\ a <= c /\ c <= heap_end
  <2>1. p \in Blocks(h) /\ p \in DOMAIN h.mem
    BY DEF InUse, Blocks
  <2>2. c \in DOMAIN h.mem
    BY <2>1 DEF Linked
  <2> QED BY <2>1, <2>2, HeapEnd, SMTT(60) DEF IsHeap
<1>2. ASSUME NEW u \in InUse(h) \ {p}
      PROVE  /\ u \in Nat /\ h.mem[u].next \in Nat
             /\ h.mem[u].next <= p \/ c <= u
  <2>1. u \in Blocks(h) /\ u # p
    BY DEF InUse
  <2> QED BY <2>1, <1>1, Disjoint
<1>3. UsedBytes(h) = {x \in 0 .. heap_end - 1 : \E u \in InUse(h) : u <= x /\ x < h.mem[u].next}
  BY BytesFinite
<1>4. S = {x \in 0 .. heap_end - 1 : \E u \in InUse(r) : u <= x /\ x < r.mem[u].next}
  BY BytesFinite
<1>5. IsFiniteSet(S) /\ Cardinality(S) \in Nat
  BY BytesFinite
<1>6. c = h.mem[p].next
  OBVIOUS
<1> HIDE DEF S, c
<1>7. S \cap (a .. c - 1) = {}
  <2>1. ASSUME NEW x \in S, x \in a .. c - 1 PROVE FALSE
    <3>1. PICK u \in InUse(r) : u <= x /\ x < r.mem[u].next
      BY <1>4
    <3>2. u # p
      <4>1. CASE u = p
        BY <4>1, <3>1, <2>1, SMTT(60)
      <4> QED BY <4>1
    <3>3. u \in InUse(h) \ {p} /\ r.mem[u].next = h.mem[u].next
      BY <3>1, <3>2
    <3> QED BY <3>1, <3>3, <2>1, <1>1, <1>2, HeapEnd, SMTT(60)
  <2> QED BY <2>1
<1>8. UsedBytes(h) = S \cup (a .. c - 1)
  <2>1. \A x \in 0 .. heap_end - 1 :
          (\E u \in InUse(h) : u <= x /\ x < h.mem[u].next)
            <=> (\E u \in InUse(h) \ {p} : u <= x /\ x < h.mem[u].next) \/ (p <= x /\ x < c)
    BY <1>6
  <2>2. \A x \in 0 .. heap_end - 1 :
          (\E u \in InUse(r) : u <= x /\ x < r.mem[u].next)
            <=> (\E u \in InUse(h) \ {p} : u <= x /\ x < h.mem[u].next) \/ (p <= x /\ x < a)
    <3>1. CASE InUse(r) = InUse(h)
      BY <3>1
    <3>2. CASE InUse(r) = InUse(h) \ {p}
      <4>1. a = p
        BY <3>2
      <4>2. \A x \in 0 .. heap_end - 1 : ~ (p <= x /\ x < a)
        BY <4>1, <1>1, HeapEnd, SMTT(60)
      <4> QED BY <3>2, <4>2
    <3> QED BY <3>1, <3>2
  <2>3. \A x : x \in a .. c - 1 <=> x \in 0 .. heap_end - 1 /\ a <= x /\ x < c
    BY <1>1, HeapEnd, SMTT(60)
  <2>4. \A x \in 0 .. heap_end - 1 : (p <= x /\ x < c) <=> (p <= x /\ x < a) \/ (a <= x /\ x < c)
    BY <1>1, HeapEnd, SMTT(60)
  <2> QED BY <1>3, <1>4, <2>1, <2>2, <2>3, <2>4
<1>9. Cardinality(UsedBytes(h)) = Cardinality(S) + (c - a)
  BY <1>1, <1>5, <1>7, <1>8, BytesJoin, SMTT(60)
<1>10. r.used_mem = Cardinality(S)
  BY <1>1, <1>5, <1>6, <1>9, SMTT(60) DEF Counted
<1> QED BY <1>10 DEF Counted, S

\* free: the block is no longer in use, and the others stay as they are.
LEMMA ReleaseStep ==
  ASSUME NEW h, Sound(h), NEW p \in InUse(h)
  PROVE  LET r == Release(h, p)
         IN  /\ Sound(r) /\ InUse(r) = InUse(h) \ {p}
             /\ \A o \in InUse(h) \ {p} : r.mem[o].next = h.mem[o].next
             /\ Shown(h, r)
<1> DEFINE l == IF p < h.lfree THEN p ELSE h.lfree
           v == h.used_mem - (h.mem[p].next - p)
           h0 == Mark(h, p, FALSE)
           h1 == Numbers(h0, l, v)
           r == Release(h, p)
<1>1. IsHeap(h) /\ Linked(h) /\ NoPair(h, {}) /\ LfreeIn(h) /\ Counted(h)
  BY DEF Sound
<1>2. /\ p \in Blocks(h) /\ p \in DOMAIN h.mem /\ h.mem[p].used /\ p \in Nat /\ p # heap_end
      /\ h.mem[p].next \in Nat /\ h.mem[p].next >= p + 24
  <2>1. p \in Blocks(h) /\ p \in DOMAIN h.mem /\ h.mem[p].used /\ p # heap_end
    BY DEF InUse, Blocks
  <2>2. h.mem[p].next \in DOMAIN h.mem /\ h.mem[p].next >= p + 24
    BY <2>1, <1>1 DEF Linked
  <2> QED BY <2>1, <2>2, <1>1, HeapEnd, SMTT(60) DEF IsHeap
<1>3. r = plug_holes(h1, p)
  <2>1. [h EXCEPT !.mem[p].used = FALSE, !.lfree = IF p < @ THEN p ELSE @,
                  !.used_mem = @ - (h.mem[p].next - p)] = h1
    <3> DEFINE m == [h.mem EXCEPT ![p].used = FALSE]
    <3>1. h0.mem = m
      BY <1>1 DEF IsHeap, Mark
    <3>2. [h EXCEPT !.mem[p].used = FALSE, !.lfree = IF p < @ THEN p ELSE @,
                    !.used_mem = @ - (h.mem[p].next - p)]
            = [mem |-> m, lfree |-> l, used_mem |-> v]
      <4> DEFINE g == h.mem[p].next - p
      <4>1. [h EXCEPT !.mem[p].used = FALSE, !.lfree = IF p < @ THEN p ELSE @, !.used_mem = @ - g]
              = [h EXCEPT !.mem = m, !.lfree = IF p < @ THEN p ELSE @, !.used_mem = @ - g]
        BY <1>1 DEF IsHeap
      <4> HIDE DEF m
      <4>2. [h EXCEPT !.mem = m, !.lfree = IF p < @ THEN p ELSE @, !.used_mem = @ - g]
              = [h EXCEPT !.mem = m, !.lfree = l, !.used_mem = v]
        BY <1>1 DEF IsHeap
      <4> HIDE DEF l, v
      <4>3. [h EXCEPT !.mem = m, !.lfree = l, !.used_mem = v] = [mem |-> m, lfree |-> l, used_mem |-> v]
        <5>1. PICK k : k = [h EXCEPT !.mem = m, !.lfree = l, !.used_mem = v]
          OBVIOUS
        <5>2. h = [mem |-> h.mem, lfree |-> h.lfree, used_mem |-> h.used_mem]
          BY <1>1 DEF IsHeap
        <5>3. k.mem = m /\ k.lfree = l /\ k.used_mem = v
          BY <5>1, <5>2
        <5>4. k = [mem |-> k.mem, lfree |-> k.lfree, used_mem |-> k.used_mem]
          BY <5>1, <5>2
        <5> QED BY <5>1, <5>3, <5>4
      <4> QED BY <4>1, <4>2, <4>3
    <3> HIDE DEF m
    <3> QED BY <3>1, <3>2 DEF Numbers
  <2> QED BY <2>1 DEF Release
<1> HIDE DEF h0, r
<1>4. /\ IsHeap(h0) /\ Linked(h0) /\ DOMAIN h0.mem = DOMAIN h.mem /\ Blocks(h0) = Blocks(h)
      /\ \A o \in DOMAIN h.mem : h0.mem[o].next = h.mem[o].next
      /\ \A o \in DOMAIN h.mem \ {p} : h0.mem[o].used = h.mem[o].used
      /\ ~ h0.mem[p].used
  <2>1. PICK f \in BOOLEAN : f = FALSE
    OBVIOUS
  <2>2. h0 = Mark(h, p, f)
    BY <2>1 DEF h0
  <2>3. /\ IsHeap(h0) /\ Linked(h0) /\ DOMAIN h0.mem = DOMAIN h.mem /\ Blocks(h0) = Blocks(h)
        /\ \A o \in DOMAIN h.mem : h0.mem[o].next = h.mem[o].next
        /\ \A o \in DOMAIN h.mem \ {p} : h0.mem[o].used = h.mem[o].used
        /\ h0.mem[p].used = f
    BY <1>1, <1>2, <2>2, FlagStep, SMTT(60)
  <2> QED BY <2>1, <2>3
<1>5. IsHeap(h1) /\ Linked(h1) /\ h1.mem = h0.mem /\ h1.lfree = l /\ h1.used_mem = v
  <2>1. v \in Int
    BY <1>1, <1>2, SMTT(60) DEF IsHeap
  <2> HIDE DEF v, l, h1
  <2>2. h1 = Numbers(h0, l, v)
    BY DEF h1
  <2> QED BY <1>4, <2>1, <2>2, NumberStep, SMTT(60)
<1> HIDE DEF h1
<1>6. Blocks(h1) = Blocks(h)
  BY <1>4, <1>5 DEF Blocks
<1>7. LfreeIn(h1)
  BY <1>1, <1>2, <1>4, <1>5 DEF LfreeIn
<1>8. NoPair(h1, {p})
  <2>1. ASSUME NEW x \in Blocks(h1), ~ h1.mem[x].used, x # p, h1.mem[x].next # p
        PROVE  h1.mem[h1.mem[x].next].used
    <3>1. x \in Blocks(h) /\ x \in DOMAIN h.mem /\ ~ h.mem[x].used /\ h1.mem[x].next = h.mem[x].next
      BY <2>1, <1>4, <1>5, <1>6 DEF Blocks
    <3>2. h.mem[h.mem[x].next].used /\ h.mem[x].next \in DOMAIN h.mem
      BY <3>1, <1>1 DEF NoPair, Linked
    <3> QED BY <2>1, <3>1, <3>2, <1>4, <1>5
  <2> QED BY <2>1 DEF NoPair
<1>9. InUse(h1) = InUse(h) \ {p} /\ \A o \in InUse(h) : h1.mem[o].next = h.mem[o].next
  BY <1>2, <1>4, <1>5, <1>6 DEF InUse, Blocks
<1>10. Counted(h1)
  <2>1. p <= p /\ p <= h.mem[p].next /\ p \notin InUse(h1)
    BY <1>2, <1>9, SMTT(60)
  <2> QED BY <1>1, <1>2, <1>5, <1>9, <2>1, BytesLeave
<1>11. IsHeap(r) /\ Linked(r) /\ NoPair(r, {}) /\ LfreeIn(r) /\ SameUse(h1, r)
       /\ r.lfree <= h1.lfree
  <2>1. p \in Blocks(h1) /\ ~ h1.mem[p].used
    BY <1>2, <1>4, <1>5, <1>6
  <2> QED BY <1>3, <1>5, <1>7, <1>8, <2>1, PlugHoles
<1>12. Counted(r)
  BY <1>10, <1>11, SameBytes
<1>13. InUse(r) = InUse(h) \ {p} /\ \A o \in InUse(h) \ {p} : r.mem[o].next = h.mem[o].next
  BY <1>9, <1>11 DEF SameUse
<1>14. Shown(h, r)
  <2>1. ASSUME NEW x \in Nat, x < r.lfree, x \notin UsedBytes(r)
        PROVE  x < h.lfree /\ x \notin UsedBytes(h)
    <3>1. /\ h.lfree \in Nat /\ r.lfree \in Nat /\ l \in Nat /\ l <= h.lfree /\ l <= p
          /\ r.lfree <= l
      BY <1>1, <1>2, <1>5, <1>11, UnseenIs, SMTT(60)
    <3>2. x < h.lfree /\ x < p
      BY <1>2, <2>1, <3>1, SMTT(60)
    <3>3. UsedBytes(r) = {y \in 0 .. heap_end - 1 : \E u \in InUse(r) : u <= y /\ y < r.mem[u].next}
      BY BytesFinite
    <3>4. UsedBytes(h) = {y \in 0 .. heap_end - 1 : \E u \in InUse(h) : u <= y /\ y < h.mem[u].next}
      BY BytesFinite
    <3>5. ~ (p <= x)
      BY <1>2, <3>2, SMTT(60)
    <3> QED BY <1>13, <2>1, <3>2, <3>3, <3>4, <3>5
  <2> QED BY <1>1, <1>11, <2>1, ShownUnless
<1> QED BY <1>11, <1>12, <1>13, <1>14 DEF Sound, r

\* realloc's cut: the block keeps n bytes, and the others stay as they are.
LEMMA CutStep ==
  ASSUME NEW h, Sound(h), NEW p \in InUse(h), NEW n \in Nat, n >= 8, Data(h, p) >= n + 24
  PROVE  LET r == Cut(h, p, n)
         IN  /\ Sound(r) /\ InUse(r) = InUse(h) /\ Data(r, p) = n
             /\ \A o \in InUse(h) \ {p} : r.mem[o].next = h.mem[o].next
             /\ Shown(h, r)
<1> DEFINE q == p + 16 + n
           h1 == Split(h, p, n)
           v == h1.used_mem - (Data(h, p) - n)
           h2 == Numbers(h1, h1.lfree, v)
           r == Cut(h, p, n)
<1>1. IsHeap(h) /\ Linked(h) /\ NoPair(h, {}) /\ LfreeIn(h) /\ Counted(h)
  BY DEF Sound
<1>2. /\ p \in Blocks(h) /\ p \in DOMAIN h.mem /\ h.mem[p].used /\ p \in Nat /\ p # heap_end
      /\ h.mem[p].next \in Nat /\ h.mem[p].next >= q + 24 /\ h.mem[p].next \in DOMAIN h.mem
  <2>1. p \in Blocks(h) /\ p \in DOMAIN h.mem /\ h.mem[p].used /\ p # heap_end
    BY DEF InUse, Blocks
  <2>2. h.mem[p].next \in DOMAIN h.mem /\ p \in Nat /\ h.mem[p].next \in Nat
    BY <2>1, <1>1, HeapEnd, SMTT(60) DEF Linked, IsHeap
  <2> QED BY <2>1, <2>2, SMTT(60) DEF Data, SIZEOF_STRUCT_MEM
<1>3. /\ IsHeap(h1) /\ Linked(h1)
      /\ q \in Nat /\ q \notin DOMAIN h.mem /\ DOMAIN h1.mem = DOMAIN h.mem \cup {q}
      /\ \A o \in DOMAIN h.mem : h1.mem[o].used = h.mem[o].used
      /\ \A o \in DOMAIN h.mem \ {p} : h1.mem[o].next = h.mem[o].next
      /\ h1.mem[p].next = q /\ ~ h1.mem[q].used /\ h1.mem[q].next = h.mem[p].next
      /\ h1.lfree = h.lfree /\ h1.used_mem = h.used_mem
  BY <1>1, <1>2, SplitStep, SMTT(60)
<1>4. r = plug_holes(h2, q)
  <2>1. r = plug_holes([h1 EXCEPT !.used_mem = @ - (Data(h, p) - n)], h1.mem[p].next)
    BY DEF Cut
  <2> HIDE DEF h1, r
  <2>2. [h1 EXCEPT !.used_mem = @ - (Data(h, p) - n)] = h2
    BY <1>3, SMTT(60) DEF IsHeap, Numbers
  <2> QED BY <1>3, <2>1, <2>2
<1> HIDE DEF h1, r
<1>5. v \in Int /\ v = h.used_mem - (h.mem[p].next - q)
  BY <1>1, <1>2, <1>3, SMTT(60) DEF IsHeap, Data, SIZEOF_STRUCT_MEM
<1>6. IsHeap(h2) /\ Linked(h2) /\ h2.mem = h1.mem /\ h2.lfree = h.lfree /\ h2.used_mem = v
  <2> HIDE DEF v, h2
  <2>1. h2 = Numbers(h1, h1.lfree, v)
    BY DEF h2
  <2> QED BY <1>3, <1>5, <2>1, NumberStep, SMTT(60)
<1>7. q # heap_end /\ q # p /\ q \in Blocks(h2) /\ Blocks(h2) = Blocks(h) \cup {q}
  <2>1. heap_end \in DOMAIN h.mem
    BY <1>1 DEF Linked
  <2> HIDE DEF h2
  <2> QED BY <2>1, <1>2, <1>3, <1>6 DEF Blocks
<1> HIDE DEF h2, v
<1>8. LfreeIn(h2)
  BY <1>1, <1>3, <1>6 DEF LfreeIn
<1>9. NoPair(h2, {q})
  <2>1. ASSUME NEW x \in Blocks(h2), ~ h2.mem[x].used, x # q, h2.mem[x].next # q
        PROVE  h2.mem[h2.mem[x].next].used
    <3>1. /\ x \in Blocks(h) /\ x \in DOMAIN h.mem /\ ~ h.mem[x].used /\ x # p
          /\ h2.mem[x].next = h.mem[x].next
      BY <2>1, <1>2, <1>3, <1>6, <1>7 DEF Blocks
    <3>2. h.mem[h.mem[x].next].used /\ h.mem[x].next \in DOMAIN h.mem
      BY <3>1, <1>1 DEF NoPair, Linked
    <3> QED BY <3>1, <3>2, <1>3, <1>6
  <2> QED BY <2>1 DEF NoPair
<1>10. /\ InUse(h2) = InUse(h) /\ h2.mem[p].next = q
       /\ \A o \in InUse(h) \ {p} : h2.mem[o].next = h.mem[o].next
  <2>1. InUse(h2) = InUse(h)
    BY <1>3, <1>6, <1>7 DEF InUse, Blocks
  <2> QED BY <2>1, <1>3, <1>6 DEF InUse, Blocks
<1>11. Counted(h2)
  <2>1. p <= q /\ q <= h.mem[p].next /\ q \in Nat
    BY <1>2, <1>3, SMTT(60)
  <2>2. h2.used_mem = h.used_mem - (h.mem[p].next - q)
    BY <1>5, <1>6
  <2> HIDE DEF q
  <2> QED BY <1>1, <1>10, <2>1, <2>2, BytesLeave
<1>12. IsHeap(r) /\ Linked(r) /\ NoPair(r, {}) /\ LfreeIn(r) /\ SameUse(h2, r)
       /\ r.lfree <= h2.lfree
  <2>1. ~ h2.mem[q].used
    BY <1>3, <1>6
  <2> HIDE DEF q
  <2> QED BY <1>4, <1>6, <1>7, <1>8, <1>9, <2>1, PlugHoles
<1>13. Counted(r)
  BY <1>11, <1>12, SameBytes
<1>14. /\ InUse(r) = InUse(h) /\ r.mem[p].next = q
       /\ \A o \in InUse(h) \ {p} : r.mem[o].next = h.mem[o].next
  BY <1>10, <1>12 DEF SameUse
<1>15. Data(r, p) = n
  BY <1>2, <1>14, SMTT(60) DEF Data, SIZEOF_STRUCT_MEM
<1>16. Shown(h, r)
  <2>1. ASSUME NEW x \in Nat, x < r.lfree, x \notin UsedBytes(r)
        PROVE  (x < h.lfree /\ x \notin UsedBytes(h)) \/ x \in CutOff(h, r)
    <3>1. h.lfree \in Nat /\ r.lfree \in Nat /\ r.lfree <= h.lfree
      BY <1>1, <1>6, <1>12, UnseenIs
    <3>2. x < h.lfree
      BY <2>1, <3>1, SMTT(60)
    <3>3. UsedBytes(r) = {y \in 0 .. heap_end - 1 : \E u \in InUse(r) : u <= y /\ y < r.mem[u].next}
      BY BytesFinite
    <3>4. UsedBytes(h) = {y \in 0 .. heap_end - 1 : \E u \in InUse(h) : u <= y /\ y < h.mem[u].next}
      BY BytesFinite
    <3>5. CASE x \in UsedBytes(h)
      <4>1. x \in 0 .. heap_end - 1
        BY <3>4, <3>5
      <4>2. p <= x /\ x < h.mem[p].next /\ ~ (x < r.mem[p].next)
        BY <1>14, <2>1, <3>3, <3>4, <3>5, <4>1
      <4>3. x \in r.mem[p].next .. h.mem[p].next - 1
        BY <1>2, <1>3, <1>14, <4>2, SMTT(60)
      <4>4. p \in DOMAIN h.mem \cap DOMAIN r.mem /\ h.mem[p].used /\ r.mem[p].used
        BY <1>2, <1>14 DEF InUse, Blocks
      <4> QED BY <4>3, <4>4 DEF CutOff
    <3> QED BY <3>2, <3>5
  <2> QED BY <1>1, <1>12, <2>1, ShownUnless
<1> QED BY <1>12, <1>13, <1>14, <1>15, <1>16 DEF Sound, r

-----------------------------------------------------------------------------
\* The callers.

\* The block of a caller is in use, and its region is in the heap.
LEMMA OwnedFacts ==
  ASSUME NEW h, Sound(h), NEW H, Owned(h, H), NEW t \in Thread, NEW b \in H[t]
  PROVE  /\ b \in Piece /\ b.ptr \in Nat /\ b.size \in Nat /\ b.ptr \in InUse(h)
         /\ b.ptr \in Blocks(h) /\ h.mem[b.ptr].next \in Nat /\ h.mem[b.ptr].next <= heap_end
         /\ Data(h, b.ptr) \in Nat /\ b.ptr + 16 + Data(h, b.ptr) = h.mem[b.ptr].next
<1>1. b \in Piece /\ b.ptr \in Nat /\ b.size \in Nat /\ b.ptr \in InUse(h)
  BY SMTT(60) DEF Owned, Piece
<1>2. b.ptr \in Blocks(h) /\ h.mem[b.ptr].next \in DOMAIN h.mem
  BY <1>1 DEF InUse, Sound, Linked
<1>3. h.mem[b.ptr].next \in Nat /\ h.mem[b.ptr].next <= heap_end /\ h.mem[b.ptr].next >= b.ptr + 24
  BY <1>2, HeapEnd, SMTT(60) DEF Sound, IsHeap, Linked
<1> QED BY <1>1, <1>2, <1>3, SMTT(60) DEF Data, SIZEOF_STRUCT_MEM

\* A caller gets a block that was not in use.
Gains(h, H, r, G, t, b) ==
  /\ G \in [Thread -> SUBSET Piece] /\ G[t] = H[t] \cup {b}
  /\ \A u \in Thread \ {t} : G[u] = H[u]
  /\ b.ptr \notin InUse(h) /\ InUse(r) = InUse(h) \cup {b.ptr}
  /\ \A o \in InUse(h) : r.mem[o].next = h.mem[o].next
  /\ Fits(r, b)

\* A thread that gains a block gains its region, and no other region changes.
LEMMA OwnedGain ==
  ASSUME NEW h, NEW r, NEW H, NEW G, NEW t \in Thread, NEW b \in Piece,
         Sound(h), Sound(r), Owned(h, H), Gains(h, H, r, G, t, b)
  PROVE  /\ Owned(r, G) /\ Regs(r, G) = Regs(h, H) \cup {Reg(r, t, b)}
         /\ \A u \in Thread : \A c \in H[u] : Reg(h, u, c) = Reg(r, u, c)
<1> USE DEF Gains
<1>1. /\ H \in [Thread -> SUBSET Piece] /\ G \in [Thread -> SUBSET Piece]
      /\ G[t] = H[t] \cup {b} /\ \A u \in Thread \ {t} : G[u] = H[u]
  BY DEF Owned
<1>2. \A u \in Thread : \A c \in H[u] : c.ptr \in InUse(h) /\ c.ptr # b.ptr
  BY SMTT(60) DEF Owned
<1>3. \A u \in Thread : \A c \in H[u] : Data(r, c.ptr) = Data(h, c.ptr)
  BY <1>2 DEF Data
<1>4. InUse(r) = {c.ptr : c \in UNION {G[u] : u \in Thread}}
  BY <1>1, SMTT(60) DEF Owned
<1>5. \A u \in Thread : \A c \in G[u] : 0 < c.size /\ c.size <= Data(r, c.ptr)
  BY <1>1, <1>3 DEF Owned, Fits
<1>6. \A u, w \in Thread : \A c \in G[u], d \in G[w] : c.ptr = d.ptr => u = w /\ c = d
  BY <1>1, <1>2, SMTT(60) DEF Owned
<1>7. Owned(r, G)
  BY <1>1, <1>4, <1>5, <1>6 DEF Owned, Fits
<1>8. \A u \in Thread : \A c \in H[u] : Reg(h, u, c) = Reg(r, u, c)
  BY <1>3 DEF Reg
<1>9. Regs(r, G) = Regs(h, H) \cup {Reg(r, t, b)}
  <2>1. \A x : x \in Regs(r, G) <=> \E u \in Thread : \E c \in G[u] : x = Reg(r, u, c)
    BY SMTT(60) DEF Regs
  <2>2. \A x : x \in Regs(h, H) <=> \E u \in Thread : \E c \in H[u] : x = Reg(h, u, c)
    BY SMTT(60) DEF Regs
  <2>3. ASSUME NEW x \in Regs(r, G) PROVE x \in Regs(h, H) \cup {Reg(r, t, b)}
    <3>0. PICK u \in Thread : \E c \in G[u] : x = Reg(r, u, c)
      BY <2>1
    <3>1. PICK c \in G[u] : x = Reg(r, u, c)
      BY <3>0
    <3>2. c \in H[u] \/ (u = t /\ c = b)
      BY <1>1
    <3> QED BY <3>1, <3>2, <1>8, <2>2
  <2>4. ASSUME NEW x \in Regs(h, H) PROVE x \in Regs(r, G)
    <3>0. PICK u \in Thread : \E c \in H[u] : x = Reg(h, u, c)
      BY <2>2
    <3>1. PICK c \in H[u] : x = Reg(h, u, c)
      BY <3>0
    <3>2. c \in G[u]
      BY <1>1
    <3> QED BY <3>1, <3>2, <1>8, <2>1
  <2>5. Reg(r, t, b) \in Regs(r, G)
    BY <1>1, <2>1
  <2> QED BY <2>3, <2>4, <2>5
<1> QED BY <1>7, <1>8, <1>9

\* A caller gives a block back.
LEMMA OwnedLose ==
  ASSUME NEW h, NEW r, NEW H, NEW G, NEW t \in Thread, NEW b \in H[t],
         Sound(h), Sound(r), Owned(h, H), G \in [Thread -> SUBSET Piece], G[t] = H[t] \ {b},
         \A u \in Thread \ {t} : G[u] = H[u],
         InUse(r) = InUse(h) \ {b.ptr},
         \A o \in InUse(h) \ {b.ptr} : r.mem[o].next = h.mem[o].next
  PROVE  /\ Owned(r, G) /\ Regs(r, G) = Regs(h, H) \ {Reg(h, t, b)}
         /\ Reg(h, t, b) \in Regs(h, H)
<1>1. /\ H \in [Thread -> SUBSET Piece] /\ G \in [Thread -> SUBSET Piece]
      /\ G[t] = H[t] \ {b} /\ \A u \in Thread \ {t} : G[u] = H[u]
  BY DEF Owned
<1>2. \A u \in Thread : \A c \in G[u] : c \in H[u] /\ c.ptr \in InUse(h) /\ c.ptr # b.ptr
  BY <1>1, SMTT(60) DEF Owned
<1>3. \A u \in Thread : \A c \in G[u] : Data(r, c.ptr) = Data(h, c.ptr)
  BY <1>2 DEF Data
<1>4. InUse(r) = {c.ptr : c \in UNION {G[u] : u \in Thread}}
  BY <1>1, <1>2, SMTT(60) DEF Owned
<1>5. \A u \in Thread : \A c \in G[u] : 0 < c.size /\ c.size <= Data(r, c.ptr)
  BY <1>2, <1>3 DEF Owned, Fits
<1>6. \A u, w \in Thread : \A c \in G[u], d \in G[w] : c.ptr = d.ptr => u = w /\ c = d
  BY <1>2, SMTT(60) DEF Owned
<1>7. Owned(r, G)
  BY <1>1, <1>4, <1>5, <1>6 DEF Owned, Fits
<1>8. \A u \in Thread : \A c \in G[u] : Reg(h, u, c) = Reg(r, u, c)
  BY <1>3 DEF Reg
<1>9. \A u \in Thread : \A c \in G[u] : Reg(h, u, c) # Reg(h, t, b)
  <2>1. \A u \in Thread : \A c \in H[u] : c.ptr \in Nat
    BY <1>1, SMTT(60) DEF Piece
  <2>2. ASSUME NEW u \in Thread, NEW c \in G[u], Reg(h, u, c) = Reg(h, t, b) PROVE FALSE
    <3>1. Reg(h, u, c).addr = c.ptr + 16 /\ Reg(h, t, b).addr = b.ptr + 16
      BY DEF Reg
    <3> QED BY <3>1, <2>1, <2>2, <1>2, SMTT(60)
  <2> QED BY <2>2
<1>10. Regs(r, G) = Regs(h, H) \ {Reg(h, t, b)} /\ Reg(h, t, b) \in Regs(h, H)
  <2>1. \A x : x \in Regs(r, G) <=> \E u \in Thread : \E c \in G[u] : x = Reg(r, u, c)
    BY SMTT(60) DEF Regs
  <2>2. \A x : x \in Regs(h, H) <=> \E u \in Thread : \E c \in H[u] : x = Reg(h, u, c)
    BY SMTT(60) DEF Regs
  <2>3. \A u \in Thread : \A c \in H[u] : c \in G[u] \/ (u = t /\ c = b)
    BY <1>1
  <2>4. ASSUME NEW x \in Regs(r, G) PROVE x \in Regs(h, H) /\ x # Reg(h, t, b)
    <3>0. PICK u \in Thread : \E c \in G[u] : x = Reg(r, u, c)
      BY <2>1
    <3>1. PICK c \in G[u] : x = Reg(r, u, c)
      BY <3>0
    <3> QED BY <3>1, <1>2, <1>8, <1>9, <2>2
  <2>5. ASSUME NEW x \in Regs(h, H), x # Reg(h, t, b) PROVE x \in Regs(r, G)
    <3>0. PICK u \in Thread : \E c \in H[u] : x = Reg(h, u, c)
      BY <2>2
    <3>1. PICK c \in H[u] : x = Reg(h, u, c)
      BY <3>0
    <3>2. c \in G[u]
      BY <3>1, <2>3, <2>5
    <3>3. x = Reg(r, u, c)
      BY <3>1, <3>2, <1>8
    <3> QED BY <3>2, <3>3, <2>1
  <2>6. Reg(h, t, b) \in Regs(h, H)
    BY <2>2
  <2> QED BY <2>4, <2>5, <2>6
<1> QED BY <1>7, <1>10

\* A block stays where it is and in use, shorter perhaps and for another size.
LEMMA OwnedResize ==
  ASSUME NEW h, NEW r, NEW H, NEW G, NEW t \in Thread, NEW b \in H[t], NEW d \in Piece,
         Sound(h), Sound(r), Owned(h, H), G \in [Thread -> SUBSET Piece], G[t] = (H[t] \ {b}) \cup {d},
         \A u \in Thread \ {t} : G[u] = H[u],
         d.ptr = b.ptr, InUse(r) = InUse(h),
         \A o \in InUse(h) \ {b.ptr} : r.mem[o].next = h.mem[o].next,
         Fits(r, d)
  PROVE  /\ Owned(r, G) /\ Regs(r, G) = (Regs(h, H) \ {Reg(h, t, b)}) \cup {Reg(r, t, d)}
         /\ Reg(h, t, b) \in Regs(h, H) /\ Reg(r, t, d) \in Regs(r, G)
<1>1. /\ H \in [Thread -> SUBSET Piece] /\ G \in [Thread -> SUBSET Piece]
      /\ G[t] = (H[t] \ {b}) \cup {d} /\ \A u \in Thread \ {t} : G[u] = H[u]
  BY DEF Owned
<1>2. \A u \in Thread : \A c \in H[u] : /\ c.ptr \in InUse(h)
                                        /\ (u = t /\ c = b) \/ c.ptr # b.ptr
  BY <1>1, SMTT(60) DEF Owned
<1>3. \A u \in Thread : \A c \in G[u] : (u = t /\ c = d) \/ (c \in H[u] /\ c.ptr # b.ptr)
  BY <1>1, <1>2
<1>4. \A u \in Thread : \A c \in H[u] : c.ptr # b.ptr => Data(r, c.ptr) = Data(h, c.ptr)
  BY <1>2 DEF Data
<1>5. InUse(r) = {c.ptr : c \in UNION {G[u] : u \in Thread}}
  <2>1. InUse(h) = {c.ptr : c \in UNION {H[u] : u \in Thread}}
    BY DEF Owned
  <2>2. ASSUME NEW x \in InUse(h) PROVE \E u \in Thread : \E c \in G[u] : x = c.ptr
    <3>0. PICK u \in Thread : \E c \in H[u] : x = c.ptr
      BY <2>1, SMTT(60)
    <3>1. PICK c \in H[u] : x = c.ptr
      BY <3>0
    <3>2. CASE u = t /\ c = b
      BY <3>1, <3>2, <1>1
    <3>3. CASE ~ (u = t /\ c = b)
      BY <3>1, <3>3, <1>1
    <3> QED BY <3>2, <3>3
  <2>3. ASSUME NEW u \in Thread, NEW c \in G[u] PROVE c.ptr \in InUse(h)
    BY <1>2, <1>3
  <2> QED BY <2>2, <2>3, SMTT(60)
<1>6. \A u \in Thread : \A c \in G[u] : 0 < c.size /\ c.size <= Data(r, c.ptr)
  BY <1>3, <1>4 DEF Owned, Fits
<1>7. \A u, w \in Thread : \A c \in G[u], e \in G[w] : c.ptr = e.ptr => u = w /\ c = e
  BY <1>3, SMTT(60) DEF Owned
<1>8. Owned(r, G)
  BY <1>1, <1>5, <1>6, <1>7 DEF Owned, Fits
<1>9. \A u \in Thread : \A c \in H[u] : c.ptr # b.ptr => Reg(h, u, c) = Reg(r, u, c)
  BY <1>4 DEF Reg
<1>10. \A u \in Thread : \A c \in H[u] : c.ptr # b.ptr => Reg(h, u, c) # Reg(h, t, b)
  <2>1. \A u \in Thread : \A c \in H[u] : c.ptr \in Nat
    BY <1>1, SMTT(60) DEF Piece
  <2>2. ASSUME NEW u \in Thread, NEW c \in H[u], c.ptr # b.ptr, Reg(h, u, c) = Reg(h, t, b)
        PROVE  FALSE
    <3>1. Reg(h, u, c).addr = c.ptr + 16 /\ Reg(h, t, b).addr = b.ptr + 16
      BY DEF Reg
    <3> QED BY <3>1, <2>1, <2>2, SMTT(60)
  <2> QED BY <2>2
<1>11. /\ Regs(r, G) = (Regs(h, H) \ {Reg(h, t, b)}) \cup {Reg(r, t, d)}
       /\ Reg(h, t, b) \in Regs(h, H) /\ Reg(r, t, d) \in Regs(r, G)
  <2>1. \A x : x \in Regs(r, G) <=> \E u \in Thread : \E c \in G[u] : x = Reg(r, u, c)
    BY SMTT(60) DEF Regs
  <2>2. \A x : x \in Regs(h, H) <=> \E u \in Thread : \E c \in H[u] : x = Reg(h, u, c)
    BY SMTT(60) DEF Regs
  <2>3. ASSUME NEW x \in Regs(r, G)
        PROVE  x = Reg(r, t, d) \/ (x \in Regs(h, H) /\ x # Reg(h, t, b))
    <3>0. PICK u \in Thread : \E c \in G[u] : x = Reg(r, u, c)
      BY <2>1
    <3>1. PICK c \in G[u] : x = Reg(r, u, c)
      BY <3>0
    <3> QED BY <3>1, <1>3, <1>9, <1>10, <2>2, SMTT(60)
  <2>4. ASSUME NEW x \in Regs(h, H), x # Reg(h, t, b) PROVE x \in Regs(r, G)
    <3>0. PICK u \in Thread : \E c \in H[u] : x = Reg(h, u, c)
      BY <2>2
    <3>1. PICK c \in H[u] : x = Reg(h, u, c)
      BY <3>0
    <3>2. ~ (u = t /\ c = b)
      BY <3>1, <2>4
    <3>3. c \in G[u] /\ c.ptr # b.ptr
      BY <3>2, <1>1, <1>2
    <3>4. x = Reg(r, u, c)
      BY <3>1, <3>3, <1>9
    <3> QED BY <3>3, <3>4, <2>1
  <2>5. Reg(h, t, b) \in Regs(h, H) /\ Reg(r, t, d) \in Regs(r, G)
    BY <1>1, <2>1, <2>2
  <2> QED BY <2>3, <2>4, <2>5
<1> QED BY <1>8, <1>11

\* The abstract regions are the ones of the blocks.
LEMMA RegionsAre == Regions = Regs(heap, HeldBy)
<1>1. \A t \in Thread : HeldBy[t] = Held(t)
  BY DEF HeldBy
<1> QED BY <1>1, SMTT(60) DEF Regions, Regs, Reg, SIZEOF_STRUCT_MEM

\* Regions after a step, in terms of the state after it.
LEMMA RegionsWillBe == Regions' = Regs(heap', HeldBy')
<1>1. \A t \in Thread : HeldBy'[t] = Held(t)'
  BY DEF HeldBy
<1> QED BY <1>1, SMTT(60) DEF Regions, Regs, Reg, SIZEOF_STRUCT_MEM

\* A caller gets the block that the search of malloc finds.
LEMMA GainStep ==
  ASSUME HeapInv, NEW t \in Thread, NEW n \in Nat, 0 < n,
         NEW p, p = Min(Fitting(heap, Rounded(n))), Fitting(heap, Rounded(n)) # {},
         heap' = Take(heap, p, Rounded(n)),
         HeldBy' = [HeldBy EXCEPT ![t] = @ \cup {[ptr |-> p, size |-> n]}]
  PROVE  Sound(heap') /\ Shown(heap, heap') /\ Owned(heap', HeldBy') /\ R!Next
<1> DEFINE b == [ptr |-> p, size |-> n]
           x == Reg(heap', t, b)
<1>1. Sound(heap) /\ Owned(heap, HeldBy) /\ Rounded(n) \in Nat /\ Rounded(n) >= 16 /\ n <= Rounded(n)
  BY AlignUp DEF HeapInv
<1>2. p \in Fitting(heap, Rounded(n))
  <2>1. Fitting(heap, Rounded(n)) \subseteq Nat
    BY <1>1, HeapEnd, SMTT(60) DEF Fitting, Sound, IsHeap
  <2> QED BY <2>1, LeastNatural
<1>3. /\ Sound(heap') /\ p \in Blocks(heap) /\ p \notin InUse(heap)
      /\ InUse(heap') = InUse(heap) \cup {p}
      /\ \A o \in InUse(heap) : heap'.mem[o].next = heap.mem[o].next
      /\ Data(heap', p) >= Rounded(n) /\ Shown(heap, heap')
  BY <1>1, <1>2, TakeStep, SMTT(60)
<1>4. p \in Nat /\ b \in Piece /\ b.ptr = p /\ b.size = n
  BY <1>1, <1>3, HeapEnd, SMTT(60) DEF Sound, IsHeap, Blocks, Piece
<1>5. HeldBy' = [HeldBy EXCEPT ![t] = @ \cup {b}]
  OBVIOUS
<1>6. /\ p \in Blocks(heap') /\ heap'.mem[p].next \in Nat /\ heap'.mem[p].next <= heap_end
      /\ Data(heap', p) \in Nat /\ p + 16 + Data(heap', p) = heap'.mem[p].next
  <2>1. p \in Blocks(heap')
    BY <1>3 DEF InUse
  <2>2. heap'.mem[p].next \in 0 .. heap_end /\ heap'.mem[p].next >= p + 24
    BY <1>3, <2>1 DEF Sound, IsHeap, Linked
  <2> QED BY <1>4, <2>1, <2>2, HeapEnd, SMTT(60) DEF Data, SIZEOF_STRUCT_MEM
<1>7. n <= Data(heap', p)
  BY <1>1, <1>3, <1>6, SMTT(60)
<1> HIDE DEF b
<1>8. /\ Owned(heap', HeldBy') /\ Regs(heap', HeldBy') = Regs(heap, HeldBy) \cup {x}
      /\ \A u \in Thread : \A c \in HeldBy[u] : Reg(heap, u, c) = Reg(heap', u, c)
  <2>1. PICK r : r = heap'
    OBVIOUS
  <2>2. PICK G : G = HeldBy'
    OBVIOUS
  <2>3. PICK H : H = HeldBy
    OBVIOUS
  <2>4. /\ Owned(r, G) /\ Regs(r, G) = Regs(heap, H) \cup {Reg(r, t, b)}
        /\ \A u \in Thread : \A c \in H[u] : Reg(heap, u, c) = Reg(r, u, c)
    <3>1. Sound(heap) /\ Sound(r) /\ Owned(heap, H) /\ b \in Piece
      BY <1>1, <1>3, <1>4, <2>1, <2>3
    <3>2. Gains(heap, H, r, G, t, b)
      BY <1>1, <1>3, <1>4, <1>5, <1>7, <2>1, <2>2, <2>3, SMTT(60) DEF Owned, Fits, Gains
    <3> QED BY <3>1, <3>2, OwnedGain, SMTT(60)
  <2> QED BY <2>1, <2>2, <2>3, <2>4
<1>9. x.owner = t /\ x.addr = p + 16 /\ x.len = Data(heap', p) /\ x.asked = n
      /\ x = [owner |-> t, addr |-> p + 16, len |-> Data(heap', p), asked |-> n]
  BY <1>4 DEF Reg
<1>10. \A a \in Regions : R!Apart(a, x) /\ a # x
  <2>1. ASSUME NEW a \in Regions PROVE R!Apart(a, x) /\ a # x
    <3>1. PICK u \in Thread : \E c \in HeldBy[u] : a = Reg(heap, u, c)
      BY RegionsAre DEF Regs
    <3>2. PICK c \in HeldBy[u] : a = Reg(heap, u, c)
      BY <3>1
    <3>3. /\ c.ptr \in Nat /\ c.ptr \in InUse(heap) /\ c.ptr \in Blocks(heap)
          /\ heap.mem[c.ptr].next \in Nat /\ Data(heap, c.ptr) \in Nat
          /\ c.ptr + 16 + Data(heap, c.ptr) = heap.mem[c.ptr].next
      BY <1>1, OwnedFacts
    <3>4. a.addr = c.ptr + 16 /\ a.len = Data(heap, c.ptr)
      BY <3>2 DEF Reg
    <3>5. c.ptr \in Blocks(heap') /\ c.ptr # p /\ heap'.mem[c.ptr].next = heap.mem[c.ptr].next
      BY <1>3, <3>3 DEF InUse
    <3>6. heap'.mem[p].next <= c.ptr \/ heap'.mem[c.ptr].next <= p
      BY <1>3, <1>6, <3>5, Disjoint DEF Sound
    <3>7. a.addr + a.len + 16 <= x.addr \/ x.addr + x.len + 16 <= a.addr
      BY <3>3, <3>4, <3>5, <3>6, <1>4, <1>6, <1>9, SMTT(60)
    <3>8. a # x
      BY <3>3, <3>4, <3>5, <1>4, <1>9, SMTT(60)
    <3> QED BY <3>7, <3>8 DEF R!Apart, SIZEOF_STRUCT_MEM
  <2> QED BY <2>1
<1>11. x \in R!Region
  BY <1>4, <1>6, <1>7, <1>9, SMTT(60) DEF R!Region
<1>12. R!Inside(x)
  BY <1>4, <1>6, <1>9, SMTT(60) DEF R!Inside, SIZEOF_STRUCT_MEM
<1>13. Regions' = Regions \cup {x}
  BY <1>8, RegionsAre, RegionsWillBe
<1> HIDE DEF x
<1>14. R!Give(x) /\ x \in Regions' \ Regions
  BY <1>10, <1>11, <1>12, <1>13 DEF R!Give
<1> QED BY <1>3, <1>8, <1>14 DEF R!Next

\* A caller gives a block back.
LEMMA LoseStep ==
  ASSUME HeapInv, NEW t \in Thread, NEW b \in HeldBy[t], heap' = Release(heap, b.ptr),
         HeldBy' = [HeldBy EXCEPT ![t] = @ \ {b}]
  PROVE  Sound(heap') /\ Shown(heap, heap') /\ Owned(heap', HeldBy') /\ R!Next
<1>1. Sound(heap) /\ Owned(heap, HeldBy) /\ b.ptr \in InUse(heap)
  BY OwnedFacts DEF HeapInv
<1>2. /\ Sound(heap') /\ InUse(heap') = InUse(heap) \ {b.ptr}
      /\ \A o \in InUse(heap) \ {b.ptr} : heap'.mem[o].next = heap.mem[o].next
      /\ Shown(heap, heap')
  BY <1>1, ReleaseStep
<1>3. /\ Owned(heap', HeldBy') /\ Regs(heap', HeldBy') = Regs(heap, HeldBy) \ {Reg(heap, t, b)}
      /\ Reg(heap, t, b) \in Regs(heap, HeldBy)
  <2>1. PICK r : r = heap'
    OBVIOUS
  <2>2. PICK G : G = HeldBy'
    OBVIOUS
  <2>3. PICK H : H = HeldBy
    OBVIOUS
  <2>4. /\ Owned(r, G) /\ Regs(r, G) = Regs(heap, H) \ {Reg(heap, t, b)}
        /\ Reg(heap, t, b) \in Regs(heap, H)
    <3>1. /\ Sound(heap) /\ Sound(r) /\ Owned(heap, H) /\ G \in [Thread -> SUBSET Piece]
          /\ G[t] = H[t] \ {b} /\ \A u \in Thread \ {t} : G[u] = H[u]
          /\ b \in H[t] /\ InUse(r) = InUse(heap) \ {b.ptr}
          /\ \A o \in InUse(heap) \ {b.ptr} : r.mem[o].next = heap.mem[o].next
      BY <1>1, <1>2, <2>1, <2>2, <2>3, SMTT(60) DEF Owned
    <3> QED BY <3>1, OwnedLose, SMTT(60)
  <2> QED BY <2>1, <2>2, <2>3, <2>4
<1> DEFINE x == Reg(heap, t, b)
<1>4. Regions' = Regions \ {x} /\ x \in Regions
  BY <1>3, RegionsAre, RegionsWillBe
<1> HIDE DEF x
<1>5. R!TakeBack(x) /\ x \in Regions \ Regions'
  BY <1>4 DEF R!TakeBack
<1> QED BY <1>2, <1>3, <1>5 DEF R!Next

\* realloc leaves a block where it is.
LEMMA ResizeStep ==
  ASSUME HeapInv, NEW t \in Thread, NEW b \in HeldBy[t], NEW n \in Nat, 0 < n,
         NEW d, d = [ptr |-> b.ptr, size |-> n],
         HeldBy' = [HeldBy EXCEPT ![t] = (@ \ {b}) \cup {d}],
         \/ RT_ALIGN(n) = Data(heap, b.ptr) /\ heap' = heap
         \/ RT_ALIGN(n) + 28 < Data(heap, b.ptr) /\ heap' = Cut(heap, b.ptr, RT_ALIGN(n))
  PROVE  Sound(heap') /\ Shown(heap, heap') /\ Owned(heap', HeldBy') /\ R!Next
<1> DEFINE p == b.ptr
<1>1. /\ Sound(heap) /\ Owned(heap, HeldBy) /\ p \in InUse(heap) /\ p \in Nat
      /\ Data(heap, p) \in Nat /\ RT_ALIGN(n) \in Nat /\ n <= RT_ALIGN(n) /\ RT_ALIGN(n) >= 8
  BY OwnedFacts, AlignUp DEF HeapInv
<1>2. /\ Sound(heap') /\ InUse(heap') = InUse(heap) /\ Data(heap', p) = RT_ALIGN(n)
      /\ RT_ALIGN(n) <= Data(heap, p)
      /\ \A o \in InUse(heap) \ {p} : heap'.mem[o].next = heap.mem[o].next
      /\ Shown(heap, heap')
  <2>1. CASE RT_ALIGN(n) = Data(heap, b.ptr) /\ heap' = heap
    <3>1. Shown(heap, heap')
      BY <2>1 DEF Shown
    <3> QED BY <2>1, <3>1, <1>1, SMTT(60)
  <2>2. CASE RT_ALIGN(n) + 28 < Data(heap, b.ptr) /\ heap' = Cut(heap, b.ptr, RT_ALIGN(n))
    <3>1. Data(heap, p) >= RT_ALIGN(n) + 24 /\ RT_ALIGN(n) <= Data(heap, p)
      BY <1>1, <2>2, SMTT(60)
    <3> QED BY <1>1, <2>2, <3>1, CutStep
  <2> QED BY <2>1, <2>2
<1>3. d \in Piece /\ d.ptr = p /\ d.size = n
  BY <1>1 DEF Piece
<1> DEFINE x == Reg(heap, t, b)
           y == Reg(heap', t, d)
<1>4. /\ Owned(heap', HeldBy') /\ Regs(heap', HeldBy') = (Regs(heap, HeldBy) \ {x}) \cup {y}
      /\ x \in Regs(heap, HeldBy) /\ y \in Regs(heap', HeldBy')
  <2>1. 0 < d.size /\ d.size <= Data(heap', b.ptr)
    BY <1>1, <1>2, <1>3
  <2>2. PICK r : r = heap'
    OBVIOUS
  <2>3. PICK G : G = HeldBy'
    OBVIOUS
  <2>4. PICK H : H = HeldBy
    OBVIOUS
  <2>5. /\ Owned(r, G) /\ Regs(r, G) = (Regs(heap, H) \ {Reg(heap, t, b)}) \cup {Reg(r, t, d)}
        /\ Reg(heap, t, b) \in Regs(heap, H) /\ Reg(r, t, d) \in Regs(r, G)
    <3>1. /\ Sound(heap) /\ Sound(r) /\ Owned(heap, H)
          /\ G \in [Thread -> SUBSET Piece]
          /\ G[t] = (H[t] \ {b}) \cup {d} /\ \A u \in Thread \ {t} : G[u] = H[u]
          /\ b \in H[t] /\ d \in Piece /\ d.ptr = b.ptr /\ InUse(r) = InUse(heap)
          /\ \A o \in InUse(heap) \ {b.ptr} : r.mem[o].next = heap.mem[o].next
          /\ Fits(r, d)
      BY <1>1, <1>2, <1>3, <2>1, <2>2, <2>3, <2>4, SMTT(60) DEF Owned, Fits
    <3> QED BY <3>1, OwnedResize, SMTT(60)
  <2> QED BY <2>2, <2>3, <2>4, <2>5
<1>5. Regions' = (Regions \ {x}) \cup {y} /\ x \in Regions /\ y \in Regions'
  BY <1>4, RegionsAre, RegionsWillBe
<1>6. /\ y.owner = x.owner /\ y.addr = x.addr /\ x.len = Data(heap, p) /\ y.len = RT_ALIGN(n)
      /\ y \in R!Region
  <2>1. y = [owner |-> t, addr |-> p + 16, len |-> RT_ALIGN(n), asked |-> n]
    BY <1>2, <1>3 DEF Reg
  <2>2. x.owner = t /\ x.addr = p + 16 /\ x.len = Data(heap, p)
    BY DEF Reg
  <2>3. y \in R!Region
    BY <2>1, <1>1, SMTT(60) DEF R!Region
  <2> QED BY <2>1, <2>2, <2>3, SMTT(60)
<1> HIDE DEF x, y
<1>7. R!Resize(x, y)
  BY <1>2, <1>5, <1>6 DEF R!Resize
<1> QED BY <1>2, <1>4, <1>5, <1>7 DEF R!Next

\* What a call does not touch.
LEMMA KeepStep ==
  ASSUME HeapInv, heap' = heap, HeldBy' = HeldBy
  PROVE  Sound(heap') /\ Shown(heap, heap') /\ Owned(heap', HeldBy') /\ Regions' = Regions
<1>1. Sound(heap') /\ Shown(heap, heap') /\ Owned(heap', HeldBy')
  BY DEF HeapInv, Shown
<1>2. Regs(heap', HeldBy') = Regs(heap, HeldBy)
  OBVIOUS
<1> QED BY <1>1, <1>2, RegionsAre, RegionsWillBe

-----------------------------------------------------------------------------
\* The calls.

Kept ==
  /\ Sound(heap') /\ Shown(heap, heap') /\ Jobs' /\ Owned(heap', HeldBy')
  /\ R!Next \/ Regions' = Regions

\* Between calls a thread holds the blocks it owns; within realloc, those at least.
LEMMA HeldIs ==
  ASSUME Jobs
  PROVE  /\ HeldBy \in [Thread -> SUBSET Piece]
         /\ \A t \in Thread : HeldBy[t] = Held(t) /\ own[t] \subseteq HeldBy[t]
         /\ \A t \in Thread : job[t] = Null => HeldBy[t] = own[t]
<1>1. ASSUME NEW t \in Thread PROVE Held(t) \subseteq Piece
  <2>1. CASE job[t] = Null \/ job[t].new = Null
    BY <2>1 DEF Held, Jobs
  <2>2. CASE ~ (job[t] = Null \/ job[t].new = Null)
    <3>1. job[t] \in Job
      BY <2>2 DEF Jobs
    <3>2. [ptr |-> job[t].new, size |-> job[t].size] \in Piece
      BY <3>1, <2>2 DEF Job, Piece
    <3> QED BY <2>2, <3>2 DEF Held, Jobs
  <2> QED BY <2>1, <2>2
<1> QED BY <1>1 DEF HeldBy, Held

\* rt_malloc keeps the invariant and takes a step of the abstract regions, or a stutter.
LEMMA MallocKeeps ==
  ASSUME HeapInv, NEW t \in Thread, NEW n \in Sizes, malloc(t, n)
  PROVE  Kept
<1>1. Jobs /\ job[t] = Null /\ job' = job /\ n \in Nat
  BY HeapAssumption DEF HeapInv, malloc, Ready
<1>2. CASE heap' = heap /\ own' = own
  <2>1. HeldBy' = HeldBy /\ Jobs'
    BY <1>1, <1>2 DEF HeldBy, Held, Jobs
  <2> QED BY <1>2, <2>1, KeepStep DEF Kept
<1>3. CASE /\ 0 < n /\ Fitting(heap, Rounded(n)) # {}
           /\ heap' = Take(heap, Min(Fitting(heap, Rounded(n))), Rounded(n))
           /\ own' = [own EXCEPT ![t] = @ \cup
                        {[ptr |-> Min(Fitting(heap, Rounded(n))), size |-> n]}]
  <2>1. PICK p : p = Min(Fitting(heap, Rounded(n)))
    OBVIOUS
  <2>2. p \in Nat
    <3>1. Rounded(n) \in Nat
      BY <1>1, <1>3, AlignUp
    <3>2. Fitting(heap, Rounded(n)) \subseteq Nat
      BY <3>1, HeapEnd, SMTT(60) DEF Fitting, Sound, IsHeap, HeapInv
    <3> QED BY <2>1, <1>3, <3>2, LeastNatural
  <2>3. PICK b : b = [ptr |-> p, size |-> n]
    OBVIOUS
  <2>4. b \in Piece
    BY <2>2, <2>3, <1>1 DEF Piece
  <2>5. own' = [own EXCEPT ![t] = @ \cup {b}]
    BY <1>3, <2>1, <2>3
  <2>6. Jobs'
    <3>1. own' \in [Thread -> SUBSET Piece] /\ \A u \in Thread : own[u] \subseteq own'[u]
      BY <1>1, <2>4, <2>5 DEF Jobs
    <3> QED BY <1>1, <3>1 DEF Jobs
  <2>7. HeldBy' = [HeldBy EXCEPT ![t] = @ \cup {b}]
    <3>1. \A u \in Thread : Held(u)' = IF u = t THEN Held(u) \cup {b} ELSE Held(u)
      BY <1>1, <2>5 DEF Held, Jobs
    <3> QED BY <3>1 DEF HeldBy
  <2>8. HeldBy' = [HeldBy EXCEPT ![t] = @ \cup {[ptr |-> p, size |-> n]}]
    BY <2>3, <2>7
  <2>9. heap' = Take(heap, p, Rounded(n))
    BY <1>3, <2>1
  <2>10. Sound(heap') /\ Shown(heap, heap') /\ Owned(heap', HeldBy') /\ R!Next
    BY <1>1, <1>3, <2>1, <2>8, <2>9, GainStep
  <2> QED BY <2>6, <2>10 DEF Kept
<1> QED BY <1>2, <1>3 DEF malloc

\* So does rt_free of a block the thread owns.
LEMMA FreeKeeps ==
  ASSUME HeapInv, NEW t \in Thread, NEW b \in own[t], free(t, b)
  PROVE  Kept
<1>1. Jobs /\ job[t] = Null /\ job' = job /\ own' = [own EXCEPT ![t] = @ \ {b}]
  BY DEF HeapInv, free, Ready
<1>2. Jobs'
  <2>1. own' \in [Thread -> SUBSET Piece] /\ \A u \in Thread \ {t} : own'[u] = own[u]
    BY <1>1 DEF Jobs
  <2> QED BY <1>1, <2>1 DEF Jobs
<1>3. HeldBy' = [HeldBy EXCEPT ![t] = @ \ {b}] /\ b \in HeldBy[t]
  <2>1. \A u \in Thread : Held(u)' = IF u = t THEN Held(u) \ {b} ELSE Held(u)
    BY <1>1 DEF Held, Jobs
  <2> QED BY <1>1, <2>1 DEF HeldBy, Held
<1>4. heap' = Release(heap, b.ptr)
  BY DEF free
<1>5. Sound(heap') /\ Shown(heap, heap') /\ Owned(heap', HeldBy') /\ R!Next
  BY <1>3, <1>4, LoseStep
<1> QED BY <1>2, <1>5 DEF Kept

\* A call that changes no block is a stutter.
LEMMA FreeNullKeeps ==
  ASSUME HeapInv, UNCHANGED <<heap, own, job>>
  PROVE  Kept
<1>1. HeldBy' = HeldBy /\ Jobs'
  BY DEF HeldBy, Held, Jobs, HeapInv
<1> QED BY <1>1, KeepStep DEF Kept

\* So does the first step of rt_realloc.
LEMMA ReallocKeeps ==
  ASSUME HeapInv, NEW t \in Thread, NEW b \in own[t], NEW n \in Sizes, realloc(t, b, n)
  PROVE  Kept
<1>1. /\ Jobs /\ job[t] = Null /\ n \in Nat /\ 0 < n /\ b \in Piece
      /\ b \in HeldBy[t] /\ HeldBy[t] = own[t]
  BY HeapAssumption, HeldIs DEF HeapInv, realloc, Ready, Jobs
<1> DEFINE size == Data(heap, b.ptr)
           newsize == RT_ALIGN(n)
           shorter == newsize + SIZEOF_STRUCT_MEM + MIN_SIZE < size
<1>2. CASE /\ newsize = size \/ shorter
           /\ heap' = IF shorter THEN Cut(heap, b.ptr, newsize) ELSE heap
           /\ own' = [own EXCEPT ![t] = (@ \ {b}) \cup {[b EXCEPT !.size = n]}]
           /\ UNCHANGED job
  <2>1. PICK d : d = [ptr |-> b.ptr, size |-> n]
    OBVIOUS
  <2>2. d \in Piece /\ [b EXCEPT !.size = n] = d
    BY <1>1, <2>1, SMTT(60) DEF Piece
  <2>3. own' = [own EXCEPT ![t] = (@ \ {b}) \cup {d}]
    BY <1>2, <2>2
  <2>4. Jobs'
    <3>1. own' \in [Thread -> SUBSET Piece] /\ \A u \in Thread \ {t} : own'[u] = own[u]
      BY <1>1, <2>2, <2>3 DEF Jobs
    <3> QED BY <1>1, <1>2, <3>1 DEF Jobs
  <2>5. HeldBy' = [HeldBy EXCEPT ![t] = (@ \ {b}) \cup {d}]
    <3>1. \A u \in Thread : Held(u)' = IF u = t THEN (Held(u) \ {b}) \cup {d} ELSE Held(u)
      BY <1>1, <1>2, <2>3 DEF Held, Jobs
    <3> QED BY <3>1 DEF HeldBy
  <2>6. \/ RT_ALIGN(n) = Data(heap, b.ptr) /\ heap' = heap
        \/ RT_ALIGN(n) + 28 < Data(heap, b.ptr) /\ heap' = Cut(heap, b.ptr, RT_ALIGN(n))
    <3>1. RT_ALIGN(n) \in Nat /\ Data(heap, b.ptr) \in Nat
      BY <1>1, AlignUp, OwnedFacts DEF HeapInv
    <3> QED BY <1>2, <3>1, SMTT(60) DEF SIZEOF_STRUCT_MEM, MIN_SIZE
  <2>7. Sound(heap') /\ Shown(heap, heap') /\ Owned(heap', HeldBy') /\ R!Next
    BY <1>1, <2>1, <2>5, <2>6, ResizeStep
  <2> QED BY <2>4, <2>7 DEF Kept
<1>3. CASE /\ job' = [job EXCEPT ![t] = [old |-> b, size |-> n, new |-> Null]]
           /\ UNCHANGED <<heap, own>>
  <2>1. PICK j : j = [old |-> b, size |-> n, new |-> Null]
    OBVIOUS
  <2>2. j \in Job /\ j.old = b /\ j.size = n /\ j.new = Null
    BY <1>1, <2>1 DEF Job
  <2>3. job' = [job EXCEPT ![t] = j]
    BY <1>3, <2>1
  <2>4. Jobs'
    <3>1. j.new # j.old.ptr
      BY <1>1, <2>2, HeapAssumption, SMTT(60) DEF Piece
    <3> QED BY <1>1, <1>3, <2>2, <2>3, <3>1 DEF Jobs
  <2>5. \A u \in Thread : Held(u)' = Held(u)
    BY <1>1, <1>3, <2>2, <2>3 DEF Held, Jobs
  <2>6. HeldBy' = HeldBy
    BY <2>5 DEF HeldBy
  <2> QED BY <1>3, <2>4, <2>6, KeepStep DEF Kept
<1> QED BY <1>2, <1>3 DEF realloc

\* So does the rt_malloc that rt_realloc calls.
LEMMA ReallocMallocKeeps ==
  ASSUME HeapInv, NEW t \in Thread, realloc_malloc(t)
  PROVE  Kept
<1> DEFINE j == job[t]
<1>1. /\ Jobs /\ j # Null /\ j.new = Null /\ j \in Job /\ j.size \in Nat /\ 0 < j.size
      /\ j.old \in Piece /\ j.old \in own[t] /\ own' = own /\ Null \notin Job
  BY HeapAssumption DEF HeapInv, realloc_malloc, Jobs, Job, Piece
<1>2. CASE job' = [job EXCEPT ![t] = Null] /\ heap' = heap
  <2>1. Jobs'
    BY <1>1, <1>2 DEF Jobs
  <2>2. \A u \in Thread : Held(u)' = Held(u)
    BY <1>1, <1>2 DEF Held, Jobs
  <2>3. HeldBy' = HeldBy
    BY <2>2 DEF HeldBy
  <2> QED BY <1>2, <2>1, <2>3, KeepStep DEF Kept
<1>3. CASE /\ Fitting(heap, Rounded(j.size)) # {}
           /\ heap' = Take(heap, Min(Fitting(heap, Rounded(j.size))), Rounded(j.size))
           /\ job' = [job EXCEPT ![t].new = Min(Fitting(heap, Rounded(j.size)))]
  <2>1. PICK p : p = Min(Fitting(heap, Rounded(j.size)))
    OBVIOUS
  <2>2. p \in Nat /\ p # Null /\ p \in Fitting(heap, Rounded(j.size))
    <3>1. Rounded(j.size) \in Nat
      BY <1>1, AlignUp
    <3>2. Fitting(heap, Rounded(j.size)) \subseteq Nat
      BY <3>1, HeapEnd, SMTT(60) DEF Fitting, Sound, IsHeap, HeapInv
    <3> QED BY <2>1, <1>3, <3>2, LeastNatural, HeapAssumption, SMTT(60)
  <2>3. PICK k : k = [j EXCEPT !.new = p]
    OBVIOUS
  <2>4. k \in Job /\ k.old = j.old /\ k.size = j.size /\ k.new = p /\ k # Null
    BY <1>1, <2>2, <2>3 DEF Job
  <2>5. job' = [job EXCEPT ![t] = k]
    BY <1>1, <1>3, <2>1, <2>3 DEF Jobs
  <2>6. Jobs'
    <3>1. p \notin InUse(heap)
      BY <2>2 DEF InUse, Fitting
    <3>2. j.old \in HeldBy[t]
      BY <1>1, HeldIs
    <3>3. j.old.ptr \in InUse(heap)
      BY <3>2, OwnedFacts DEF HeapInv
    <3>4. k.new # k.old.ptr
      BY <2>4, <3>1, <3>3
    <3> QED BY <1>1, <2>4, <2>5, <3>4 DEF Jobs
  <2>7. \A u \in Thread : Held(u)' = IF u = t THEN Held(u) \cup {[ptr |-> p, size |-> j.size]}
                                     ELSE Held(u)
    BY <1>1, <2>2, <2>4, <2>5 DEF Held, Jobs
  <2>8. HeldBy' = [HeldBy EXCEPT ![t] = @ \cup {[ptr |-> p, size |-> j.size]}]
    BY <2>7 DEF HeldBy
  <2>9. heap' = Take(heap, p, Rounded(j.size))
    BY <1>3, <2>1
  <2>10. Sound(heap') /\ Shown(heap, heap') /\ Owned(heap', HeldBy') /\ R!Next
    <3> HIDE DEF j
    <3> QED BY <1>1, <1>3, <2>1, <2>8, <2>9, GainStep
  <2> QED BY <2>6, <2>10 DEF Kept
<1> QED BY <1>2, <1>3 DEF realloc_malloc

\* So do the copy and the rt_free that end rt_realloc.
LEMMA ReallocFreeKeeps ==
  ASSUME HeapInv, NEW t \in Thread, realloc_free(t)
  PROVE  Kept
<1> DEFINE j == job[t]
<1>1. /\ Jobs /\ j # Null /\ j.new # Null /\ j \in Job /\ j.old \in own[t]
  BY DEF HeapInv, realloc_free, Jobs
<1>2. PICK d : d = [ptr |-> j.new, size |-> j.size]
  OBVIOUS
<1>3. d \in Piece /\ own[t] \subseteq Piece /\ j.old \in Piece
  BY <1>1, <1>2 DEF Job, Piece, Jobs
<1>4. Held(t) = own[t] \cup {d} /\ HeldBy[t] = own[t] \cup {d} /\ j.old \in HeldBy[t]
  BY <1>1, <1>2 DEF Held, HeldBy
<1>5. own' = [own EXCEPT ![t] = (@ \ {j.old}) \cup {d}] /\ job' = [job EXCEPT ![t] = Null]
  BY <1>2 DEF realloc_free
<1>6. d # j.old
  BY <1>1, <1>2, SMTT(60) DEF Jobs
<1>7. \A u \in Thread : Held(u)' = IF u = t THEN Held(u) \ {j.old} ELSE Held(u)
  BY <1>1, <1>4, <1>5, <1>6 DEF Held, Jobs
<1>8. HeldBy' = [HeldBy EXCEPT ![t] = @ \ {j.old}]
  BY <1>7 DEF HeldBy
<1>9. Jobs'
  <2>1. own' \in [Thread -> SUBSET Piece] /\ \A u \in Thread \ {t} : own'[u] = own[u]
    BY <1>1, <1>3, <1>5 DEF Jobs
  <2> QED BY <1>1, <1>5, <2>1 DEF Jobs
<1>10. heap' = Release(heap, j.old.ptr)
  BY DEF realloc_free
<1>11. Sound(heap') /\ Shown(heap, heap') /\ Owned(heap', HeldBy') /\ R!Next
  BY <1>4, <1>8, <1>10, LoseStep
<1> QED BY <1>9, <1>11 DEF Kept

-----------------------------------------------------------------------------
\* The theorems.

\* rt_system_heap_init makes a sound heap that nobody uses.
LEMMA HeapInit ==
  ASSUME Init
  PROVE  HeapInv /\ R!Init
<1>1. /\ heap.mem[0].used = FALSE /\ heap.mem[0].next = heap_end /\ heap.mem[0].prev = 0
      /\ heap.mem[heap_end].used = TRUE /\ heap.mem[heap_end].next = heap_end
      /\ heap.mem[heap_end].prev = heap_end /\ DOMAIN heap.mem = {0, heap_end}
      /\ heap.lfree = 0 /\ heap.used_mem = 0 /\ heap_end # 0 /\ Blocks(heap) = {0}
  BY HeapEnd, SMTT(60) DEF Init, Blocks
<1>2. IsHeap(heap)
  BY <1>1, HeapEnd, SMTT(60) DEF Init, IsHeap, Header
<1>3. Linked(heap)
  BY <1>1, HeapEnd, SMTT(60) DEF Linked
<1>4. NoPair(heap, {}) /\ LfreeIn(heap)
  BY <1>1 DEF NoPair, LfreeIn
<1>5. InUse(heap) = {}
  BY <1>1 DEF InUse
<1>6. UsedBytes(heap) = {}
  BY <1>1 DEF UsedBytes
<1>7. Counted(heap)
  BY <1>1, <1>6, FS_EmptySet DEF Counted
<1>8. Jobs
  BY DEF Init, Jobs
<1>9. \A t \in Thread : HeldBy[t] = {}
  BY DEF Init, HeldBy, Held
<1>10. Owned(heap, HeldBy)
  BY <1>5, <1>8, <1>9, HeldIs, SMTT(60) DEF Owned
<1>11. R!Init
  BY <1>9, RegionsAre DEF Regs, R!Init
<1> QED BY <1>2, <1>3, <1>4, <1>7, <1>8, <1>10, <1>11 DEF HeapInv, Sound

\* Every step keeps the invariant and is a step of the abstract regions, or a stutter.
LEMMA HeapStep ==
  ASSUME HeapInv, [Next]_vars
  PROVE  HeapInv' /\ Shown(heap, heap') /\ [R!Next]_Regions
<1>1. Kept
  <2>1. CASE UNCHANGED vars
    BY <2>1, FreeNullKeeps DEF vars
  <2>2. ASSUME NEW t \in Thread, NEW n \in Sizes, malloc(t, n) PROVE Kept
    BY <2>2, MallocKeeps
  <2>3. ASSUME NEW t \in Thread, NEW b \in own[t], free(t, b) PROVE Kept
    BY <2>3, FreeKeeps
  <2>4. ASSUME NEW t \in Thread, NEW b \in own[t], NEW n \in Sizes, realloc(t, b, n) PROVE Kept
    BY <2>4, ReallocKeeps
  <2>5. ASSUME NEW t \in Thread, free_null(t) PROVE Kept
    BY <2>5, FreeNullKeeps DEF free_null
  <2>6. ASSUME NEW t \in Thread, realloc_malloc(t) PROVE Kept
    BY <2>6, ReallocMallocKeeps
  <2>7. ASSUME NEW t \in Thread, realloc_free(t) PROVE Kept
    BY <2>7, ReallocFreeKeeps
  <2> QED BY <2>1, <2>2, <2>3, <2>4, <2>5, <2>6, <2>7 DEF Next
<1> QED BY <1>1 DEF Kept, HeapInv

\* Whatever the callers do, the list is sound and each block in use is one
\* caller's.  The rest follows from it.
LEMMA HeapInductive == Spec => []HeapInv
BY HeapInit, HeapStep, PTL DEF Spec

\* The blocks always fill the heap without gap or overlap: split and merge
\* repair next and prev of the blocks around, for every heap size.
THEOREM HeapTiled == Spec => []Tiled
<1>1. ASSUME HeapInv PROVE Tiled
  <2>1. Linked(heap) /\ Block = Blocks(heap)
    BY <1>1 DEF HeapInv, Sound, Block, Blocks
  <2>2. \A p \in Block : p + SIZEOF_STRUCT_MEM + RT_ALIGN_SIZE = p + 24
    BY <1>1, HeapEnd, SMTT(60) DEF HeapInv, Sound, IsHeap, Block, SIZEOF_STRUCT_MEM, RT_ALIGN_SIZE
  <2> QED BY <2>1, <2>2 DEF Linked, Tiled
<1> QED BY <1>1, HeapInductive, PTL

\* plug_holes leaves no two free blocks side by side, after free and after the
\* cut of a realloc.
THEOREM HeapCoalesced == Spec => []Coalesced
<1>1. HeapInv => Coalesced
  BY DEF HeapInv, Sound, NoPair, Coalesced, Block, Blocks
<1> QED BY <1>1, HeapInductive, PTL

\* Only the part that realloc cuts off a block is ever hidden from malloc's
\* search: free, the merges and malloc itself leave no free byte below lfree
\* that was not there before.
THEOREM OnlyCutEverHides == Spec => OnlyCutHides
<1>1. HeapInv /\ [Next]_vars => [Unseen(heap') \subseteq Unseen(heap) \cup CutOff(heap, heap')]_vars
  BY HeapStep DEF Shown
<1> QED BY <1>1, HeapInductive, PTL DEF Spec, OnlyCutHides

\* used_mem, as list_mem prints it, is always the number of bytes in use.
THEOREM UsedAlwaysExact == Spec => []UsedExact
<1>1. HeapInv => UsedExact
  BY DEF HeapInv, Sound, Counted, UsedExact
<1> QED BY <1>1, HeapInductive, PTL

\* A block is marked used exactly while a caller has it, during a move of
\* realloc as well.
THEOREM UsedAlwaysHeld == Spec => []UsedIsHeld
<1>1. ASSUME HeapInv PROVE UsedIsHeld
  <2>1. {HeldBy[t] : t \in Thread} = {Held(t) : t \in Thread}
    BY DEF HeldBy
  <2> QED BY <1>1, <2>1 DEF HeapInv, Owned, InUse, Blocks, Block, UsedIsHeld
<1> QED BY <1>1, HeapInductive, PTL

\* The heap implements HeapRegions: malloc gives a region apart from all others
\* and long enough, and nothing but the owner's free or realloc touches it.
THEOREM HeapRefines == Spec => RefinesRegions
<1>1. Init => R!Init
  BY HeapInit
<1>2. HeapInv /\ [Next]_vars => [R!Next]_Regions
  BY HeapStep
<1> QED BY <1>1, <1>2, HeapInductive, PTL DEF Spec, RefinesRegions, R!Spec

=============================================================================
