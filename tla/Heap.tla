-------------------------------- MODULE Heap --------------------------------
(***************************************************************************)
(* The kernel heap of kernel/kalloc.c: a doubly linked list of blocks that *)
(* tile a region, each with a header_t in front; first-fit allocation,     *)
(* optionally page aligned, and merging on free.                           *)
(*                                                                         *)
(* One call is one step: this is the allocator as a single caller sees it. *)
(* (What a preemption inside a call does is the subject of HeapPreempt.)   *)
(* The list is in address order (Tiled), so the first block the search     *)
(* loop meets is the one with the lowest address.                          *)
(***************************************************************************)
EXTENDS Integers, FiniteSets

CONSTANTS
    Start, Size,  \* the arguments of kheap_init
    HDR,          \* sizeof(header_t)
    PAGE,         \* 0x1000
    M,            \* 2^32, the modulus of size_t
    Sizes,        \* arguments of kmalloc
    PageSizes,    \* arguments of kmalloc_a and kmalloc_ap
    Counts        \* the num argument of kcalloc

ASSUME HeapAssumption ==
    /\ HDR \in Nat \ {0} /\ PAGE \in Nat \ {0} /\ M \in Nat \ {0}
    /\ Start \in Nat \ {0} /\ Size \in Nat /\ Size >= HDR /\ Start + Size <= M
    /\ Sizes \subseteq 0 .. M - 1 /\ PageSizes \subseteq 0 .. M - 1 /\ Counts \subseteq Nat

VARIABLES
    heap,   \* the headers on the list: address -> header_t
    asked,  \* ghost: the live allocations, header address -> bytes the caller asked for
    halt    \* the caller is stuck: "search" in a loop that never ends, "fault" on a null header

vars == <<heap, asked, halt>>

Nil == 0
End == Start + Size
Addresses == Start .. End
Header == [size : 0 .. Size, allocated : BOOLEAN, prev : Addresses \cup {Nil}, next : Addresses \cup {Nil}]

Init ==
    /\ heap = [h \in {Start} |-> [size |-> Size, allocated |-> FALSE, prev |-> Nil, next |-> Nil]]
    /\ asked = [h \in {} |-> 0]
    /\ halt = "no"

-----------------------------------------------------------------------------
(* Operations on a list of headers H *)

\* The test that makes split_block return 0.
CannotSplit(H, h, dist) == dist > H[h].size - HDR \/ dist < HDR

\* Mutant: the new block's size does not count its header.
MutSplitSize(H, h, dist) ==
    LET new == h + dist IN
    [b \in DOMAIN H \cup {new} |->
        [size      |-> IF b = new THEN H[h].size - dist - HDR ELSE IF b = h THEN dist ELSE H[b].size,
         allocated |-> IF b = new THEN H[h].allocated ELSE H[b].allocated,
         prev      |-> IF b = new THEN h ELSE IF b = H[h].next THEN new ELSE H[b].prev,
         next      |-> IF b = new THEN H[h].next ELSE IF b = h THEN new ELSE H[b].next]]

\* Cut block h, dist bytes in; the new block inherits 'allocated'.
split_block(H, h, dist) ==
    LET new == h + dist IN
    [b \in DOMAIN H \cup {new} |->
        [size      |-> IF b = new THEN H[h].size - dist ELSE IF b = h THEN dist ELSE H[b].size,
         allocated |-> IF b = new THEN H[h].allocated ELSE H[b].allocated,
         prev      |-> IF b = new THEN h ELSE IF b = H[h].next THEN new ELSE H[b].prev,
         next      |-> IF b = new THEN H[h].next ELSE IF b = h THEN new ELSE H[b].next]]

SetAllocated(H, h, a) ==
    [H EXCEPT ![h] = [size |-> @.size, allocated |-> a, prev |-> @.prev, next |-> @.next]]

\* Block b is merged into the block before it, and leaves the list.
Absorb(H, b) ==
    LET a == H[b].prev IN
    [c \in DOMAIN H \ {b} |->
        [size      |-> IF c = a THEN H[a].size + H[b].size ELSE H[c].size,
         allocated |-> H[c].allocated,
         prev      |-> IF c = H[b].next THEN a ELSE H[c].prev,
         next      |-> IF c = a THEN H[b].next ELSE H[c].next]]

IsFree(H, b) == b # Nil /\ ~H[b].allocated

MutMergeNothing(H, h) == H

\* kfree's two merges, after the block is marked free.
MergeNext(H, h) == IF IsFree(H, H[h].next) THEN Absorb(H, H[h].next) ELSE H
MergePrev(H, h) == IF IsFree(H, H[h].prev) THEN Absorb(H, h) ELSE H

-----------------------------------------------------------------------------
(* kmalloc_int *)

RoundUp(n) == (n + (n % 4)) % M

\* Mutants: no room for the header; an allocated block.
MutBigEnoughNoHeader(h, n) == ~heap[h].allocated /\ heap[h].size >= n
MutBigEnoughTaken(h, n) == heap[h].size >= (n + HDR) % M

\* "find a big enough free block", with the unsigned sum of the code.
BigEnough(h, n) == ~heap[h].allocated /\ heap[h].size >= (n + HDR) % M

\* h is where the search loop first meets a block that is big enough.
FirstFit(h, n) ==
    /\ BigEnough(h, n)
    /\ \A b \in DOMAIN heap : b < h => ~BigEnough(b, n)

\* The page boundary at or after the end of two headers.
IsAlignedAddr(a, h) == a % PAGE = 0 /\ h + 2 * HDR <= a /\ a < h + 2 * HDR + PAGE

\* What the aligned branch tests before it takes the block.
FitsAligned(h, n, a) == (a + n) % M <= h + heap[h].size

Grant(H, h, wanted) ==
    /\ heap' = SetAllocated(H, h, TRUE)
    /\ asked' = [b \in DOMAIN asked \cup {h} |-> IF b = h THEN wanted ELSE asked[b]]
    /\ UNCHANGED halt

\* A null header_t* is written through.
Fault == halt' = "fault" /\ UNCHANGED <<heap, asked>>

\* Where a granted block of n bytes ends, and the size that leaves room for a header there.
CutPoint(n) == (HDR + n) % M
WithSpareHeader(n) == (n + 2 * HDR) % M

\* The unaligned branch; split_block may refuse, and its result is not looked at.
TakeBlock(h, n, wanted) ==
    IF heap[h].size >= WithSpareHeader(n) /\ ~CannotSplit(heap, h, CutPoint(n))
    THEN Grant(split_block(heap, h, CutPoint(n)), h, wanted)
    ELSE Grant(heap, h, wanted)

\* "chop off the excess?": new is the block at the boundary.
ChopExcess(H, new, n, wanted) ==
    IF H[new].size <= WithSpareHeader(n) THEN Grant(H, new, wanted)
    ELSE IF CannotSplit(H, new, CutPoint(n)) THEN Fault
    ELSE Grant(SetAllocated(split_block(H, new, CutPoint(n)), new + CutPoint(n), FALSE), new, wanted)

\* The aligned branch: the part before the boundary a stays free.
TakeAligned(h, n, wanted, a) ==
    LET dist == a - h - HDR IN
    IF CannotSplit(heap, h, dist) THEN Fault
    ELSE ChopExcess(SetAllocated(split_block(heap, h, dist), h + dist, TRUE), h + dist, n, wanted)

Unaligned(n, wanted) ==
    /\ halt = "no"
    /\ n # 0
    /\ \E h \in DOMAIN heap : FirstFit(h, RoundUp(n)) /\ TakeBlock(h, RoundUp(n), wanted)

kmalloc(n) == Unaligned(n, n)

\* kcalloc multiplies in size_t, and clears what kmalloc returns.
kcalloc(num, size) == Unaligned((num * size) % M, num * size)

\* kmalloc_ap is the same allocation; it also translates the address.
kmalloc_a(n) ==
    /\ halt = "no"
    /\ n # 0
    /\ \E h \in DOMAIN heap :
         /\ FirstFit(h, RoundUp(n))
         /\ \E a \in h .. h + 2 * HDR + PAGE :
              /\ IsAlignedAddr(a, h)
              /\ \/ FitsAligned(h, RoundUp(n), a) /\ TakeAligned(h, RoundUp(n), n, a)
                 \* 'continue' goes back to the same block: the loop never ends
                 \/ ~FitsAligned(h, RoundUp(n), a) /\ halt' = "search" /\ UNCHANGED <<heap, asked>>

\* Any call that finds no block, or is asked for 0 bytes, returns 0 and changes nothing.

kfree(h) ==
    /\ halt = "no"
    /\ heap' = MergePrev(MergeNext(SetAllocated(heap, h, FALSE), h), h)
    /\ asked' = [b \in DOMAIN asked \ {h} |-> asked[b]]
    /\ UNCHANGED halt

Next ==
    \/ \E n \in Sizes : kmalloc(n)
    \/ \E num \in Counts, n \in Sizes : kcalloc(num, n)
    \/ \E n \in PageSizes : kmalloc_a(n)
    \/ \E h \in DOMAIN asked : kfree(h)

Spec == Init /\ [][Next]_vars

-----------------------------------------------------------------------------
(* Properties *)

HeadersOK(H) ==
    /\ DOMAIN H \subseteq Addresses
    /\ H \in [DOMAIN H -> Header]

Tiling(H) ==
    /\ Start \in DOMAIN H
    /\ H[Start].prev = Nil
    /\ \A b \in DOMAIN H :
         /\ H[b].size >= HDR
         /\ b + H[b].size <= End
         /\ IF b + H[b].size = End THEN H[b].next = Nil
            ELSE /\ H[b].next = b + H[b].size
                 /\ H[b].next \in DOMAIN H
                 /\ H[H[b].next].prev = b
         /\ b # Start => H[b].prev \in DOMAIN H /\ H[H[b].prev].next = b

Merged(H) == \A b \in DOMAIN H : H[b].next # Nil => H[b].allocated \/ H[H[b].next].allocated

NoOverlap(H) == \A b, c \in DOMAIN H : b < c => b + H[b].size <= c

\* Type invariant: the list is a set of headers in the region, the live allocations
\* a set of headers on the list.
TypeOK ==
    /\ HeadersOK(heap)
    /\ DOMAIN asked \subseteq DOMAIN heap
    /\ asked \in [DOMAIN asked -> Nat]
    /\ halt \in {"no", "search", "fault"}

\* The blocks tile the region: each begins where the one before it ends, has room for
\* its header, and the links of neighbours agree (the panics "bad prev pointer" and
\* "heap magic violated" of heap_sanity_check, kalloc.c:174-192, never fire).
Tiled == Tiling(heap)

\* No two blocks overlap.
Disjoint == NoOverlap(heap)

\* kfree leaves no two free neighbours, so free memory is never fragmented more than
\* the live allocations make it (README.md: free "automatically defragments the heap").
NoFreeNeighbours == Merged(heap)

\* A block is marked allocated exactly while some caller holds it.
NoLeak == \A b \in DOMAIN heap : heap[b].allocated <=> b \in DOMAIN asked

\* Once everything is freed the heap is the single block kheap_init made.
WholeWhenEmpty ==
    DOMAIN asked = {} =>
        heap = [h \in {Start} |-> [size |-> Size, allocated |-> FALSE, prev |-> Nil, next |-> Nil]]

\* "find a big enough free block" (kalloc.c:107): a caller gets the bytes it asked for.
PayloadFits == \A b \in DOMAIN asked : heap[b].size >= HDR + asked[b]

\* While a caller holds a block, no other call moves it, resizes it, frees it or hands
\* it out again.
LiveBlocksKept ==
    [][\A b \in DOMAIN asked \cap DOMAIN asked' :
         heap'[b].size = heap[b].size /\ asked'[b] = asked[b]]_vars

\* "round up to nearest 4 bytes" (kalloc.c:96): every block starts on a word.
WordAligned == \A b \in DOMAIN heap : (b - Start) % 4 = 0

\* "if the space after the align isn't big enough, move on" (kalloc.c:119).
SearchEnds == halt # "search"
=============================================================================
