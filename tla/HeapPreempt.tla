----------------------------- MODULE HeapPreempt -----------------------------
(***************************************************************************)
(* kmalloc and kfree of kernel/kalloc.c one store at a time.  They take no *)
(* lock and run with interrupts enabled, so a tick may switch to another   *)
(* task, or a network interrupt may arrive, and that one may call them too *)
(* before the first call has finished.                                     *)
(*                                                                         *)
(* With one caller the stores are shown to implement the one-step calls of *)
(* Heap.  With two, they are not.                                          *)
(*                                                                         *)
(* Page-aligned allocation is not repeated here: it differs from kmalloc   *)
(* in which cuts it asks of split_block.                                   *)
(***************************************************************************)
EXTENDS Integers, FiniteSets

CONSTANTS
    Callers,                          \* the tasks and ISRs that use the heap
    Start, Size, HDR, PAGE, M, Sizes  \* as in Heap

ASSUME PreemptAssumption == HDR \in Nat \ {0} /\ Start \in Nat \ {0} /\ Size \in Nat

VARIABLES
    mem,    \* every header_t in memory with HEAP_MAGIC, on the list or stale
    pc,     \* where each caller is
    local,  \* its locals h and size, and as a ghost what it asked for
    asked,  \* ghost: the live allocations
    before, \* ghost: the list when the call in progress began
    panic   \* "heap magic violated", or a link followed to something not a header

vars == <<mem, pc, local, asked, before, panic>>

Nil == 0
End == Start + Size
NoCall == [h |-> Nil, size |-> 0, wanted |-> 0]
NoBlocks == [b \in {} |-> 0]

Init ==
    /\ mem = [b \in {Start} |-> [size |-> Size, allocated |-> FALSE, prev |-> Nil, next |-> Nil]]
    /\ pc = [p \in Callers |-> "idle"]
    /\ local = [p \in Callers |-> NoCall]
    /\ asked = NoBlocks
    /\ before = NoBlocks
    /\ panic = FALSE

\* What reading a header gives; what is not a header stops the kernel (see Store).
Hdr(b) == IF b \in DOMAIN mem THEN mem[b]
          ELSE [size |-> 0, allocated |-> TRUE, prev |-> Nil, next |-> Nil]

\* The blocks the code reaches from kheap through next.
Blocks ==
    LET upto[n \in 0 .. Cardinality(DOMAIN mem)] ==
            IF n = 0 THEN {Start} \cap DOMAIN mem
            ELSE upto[n - 1] \cup ({mem[b].next : b \in upto[n - 1]} \cap DOMAIN mem)
    IN  upto[Cardinality(DOMAIN mem)]

List == [b \in Blocks |-> mem[b]]
Idle == \A p \in Callers : pc[p] = "idle"

-----------------------------------------------------------------------------
(* Calls and statements *)

Call(p, place, block, n, wanted) ==
    /\ ~panic
    /\ pc[p] = "idle"
    /\ pc' = [pc EXCEPT ![p] = place]
    /\ local' = [local EXCEPT ![p] = [h |-> block, size |-> n, wanted |-> wanted]]
    /\ before' = IF Idle THEN List ELSE before
    /\ UNCHANGED <<mem, asked, panic>>

\* The caller goes on at place; at "idle" its call has returned.
Goto(p, place) ==
    /\ pc' = [pc EXCEPT ![p] = place]
    /\ before' = IF \A q \in Callers : pc'[q] = "idle" THEN NoBlocks ELSE before

\* One statement: it reads or writes the headers in touched and leaves memory as m.
Store(p, touched, m, place) ==
    /\ panic' = ~(touched \subseteq DOMAIN mem)
    /\ mem' = IF touched \subseteq DOMAIN mem THEN m ELSE mem
    /\ local' = IF place = "idle" THEN [local EXCEPT ![p] = NoCall] ELSE local
    /\ Goto(p, place)

At(p, place) == ~panic /\ pc[p] = place
h(p) == local[p].h
new_h(p) == local[p].h + HDR + local[p].size
Linked(b) == {b} \ {Nil}

-----------------------------------------------------------------------------
(* kmalloc_int *)

kmalloc(p, n) == n # 0 /\ Call(p, "search", Start, (n + (n % 4)) % M, n)

\* One turn of the search loop.
Search(p) ==
    LET b == Hdr(h(p))
        n == local[p].size
        fits == ~b.allocated /\ b.size >= (n + HDR) % M
    IN  /\ At(p, "search")
        /\ \/ fits /\ b.size < (n + 2 * HDR) % M /\ Store(p, {h(p)}, mem, "mark")
           \/ fits /\ b.size >= (n + 2 * HDR) % M /\ Store(p, {h(p)}, mem, "cut")
           \/ ~fits /\ b.next = Nil /\ Store(p, {h(p)}, mem, "idle")
           \/ /\ ~fits /\ b.next # Nil
              /\ local' = [local EXCEPT ![p].h = b.next]
              /\ UNCHANGED <<mem, pc, before, panic>>
        /\ UNCHANGED asked

\* split_block up to the stores into the new header, whose links are still old memory.
Cut(p) ==
    LET b == Hdr(h(p))
        dist == HDR + local[p].size
        new == [size |-> b.size - dist, allocated |-> b.allocated,
                prev |-> Hdr(new_h(p)).prev, next |-> Hdr(new_h(p)).next]
    IN  /\ At(p, "cut")
        /\ IF dist > b.size - HDR THEN Store(p, {h(p)}, mem, "mark")
           ELSE Store(p, {h(p)}, [c \in DOMAIN mem \cup {new_h(p)} |->
                                    IF c = new_h(p) THEN new ELSE mem[c]], "shrink")
        /\ UNCHANGED asked

\* The other statements of split_block.
Shrink(p) ==
    /\ At(p, "shrink")
    /\ Store(p, {h(p)}, [mem EXCEPT ![h(p)].size = new_h(p) - h(p)], "back")
    /\ UNCHANGED asked

BackLink(p) ==
    LET c == Hdr(h(p)).next IN
    /\ At(p, "back")
    /\ Store(p, {h(p)} \cup Linked(c),
             IF c = Nil THEN mem ELSE [mem EXCEPT ![c].prev = new_h(p)], "new_next")
    /\ UNCHANGED asked

NewNext(p) ==
    /\ At(p, "new_next")
    /\ Store(p, {h(p), new_h(p)}, [mem EXCEPT ![new_h(p)].next = mem[h(p)].next], "old_next")
    /\ UNCHANGED asked

OldNext(p) ==
    /\ At(p, "old_next")
    /\ Store(p, {h(p)}, [mem EXCEPT ![h(p)].next = new_h(p)], "new_prev")
    /\ UNCHANGED asked

NewPrev(p) ==
    /\ At(p, "new_prev")
    /\ Store(p, {new_h(p)}, [mem EXCEPT ![new_h(p)].prev = h(p)], "mark")
    /\ UNCHANGED asked

\* The headers under the n bytes that the holder of block b may write.
Covered(b, n) == {c \in DOMAIN mem : b < c /\ c < b + HDR + n}

\* h->allocated = 1, and the caller has the block and writes to it.
Mark(p) ==
    /\ At(p, "mark")
    /\ Store(p, {h(p)}, [c \in DOMAIN mem \ Covered(h(p), local[p].wanted) |->
                IF c = h(p) THEN [mem[c] EXCEPT !.allocated = TRUE] ELSE mem[c]], "idle")
    /\ asked' = [c \in DOMAIN asked \cup {h(p)} |-> IF c = h(p) THEN local[p].wanted ELSE asked[c]]

-----------------------------------------------------------------------------
(* kfree *)

\* A block is freed once, by whoever holds it.
kfree(p, b) ==
    /\ \A q \in Callers : local[q].wanted = 0 => h(q) # b
    /\ Call(p, "free", b, 0, 0)

MarkFree(p) ==
    /\ At(p, "free")
    /\ Store(p, {h(p)}, [mem EXCEPT ![h(p)].allocated = FALSE], "next_size")
    /\ UNCHANGED asked

\* "merge with next block if it's free"
NextSize(p) ==
    LET c == Hdr(h(p)).next IN
    /\ At(p, "next_size")
    /\ IF c # Nil /\ ~Hdr(c).allocated
       THEN Store(p, {h(p), c}, [mem EXCEPT ![h(p)].size = @ + mem[c].size], "next_back")
       ELSE Store(p, {h(p)} \cup Linked(c), mem, "prev_size")
    /\ UNCHANGED asked

NextBack(p) ==
    LET c == Hdr(h(p)).next
        d == Hdr(c).next
    IN  /\ At(p, "next_back")
        /\ Store(p, {h(p), c} \cup Linked(d),
                 IF d = Nil THEN mem ELSE [mem EXCEPT ![d].prev = h(p)], "next_link")
        /\ UNCHANGED asked

NextLink(p) ==
    LET c == Hdr(h(p)).next IN
    /\ At(p, "next_link")
    /\ Store(p, {h(p), c}, [mem EXCEPT ![h(p)].next = mem[c].next], "prev_size")
    /\ UNCHANGED asked

Released(b) == [c \in DOMAIN asked \ {b} |-> asked[c]]

\* Mutant: no merge with the block before.
MutPrevSize(p) ==
    /\ At(p, "prev_size")
    /\ Store(p, {h(p)}, mem, "idle")
    /\ asked' = Released(h(p))

\* "merge with the prev block if it's free", or return
PrevSize(p) ==
    LET a == Hdr(h(p)).prev IN
    /\ At(p, "prev_size")
    /\ \/ /\ a # Nil /\ ~Hdr(a).allocated
          /\ Store(p, {a, h(p)}, [mem EXCEPT ![a].size = @ + mem[h(p)].size], "prev_back")
          /\ UNCHANGED asked
       \/ /\ a = Nil \/ Hdr(a).allocated
          /\ Store(p, {h(p)} \cup Linked(a), mem, "idle")
          /\ asked' = Released(h(p))

PrevBack(p) ==
    LET c == Hdr(h(p)).next IN
    /\ At(p, "prev_back")
    /\ Store(p, {h(p)} \cup Linked(c),
             IF c = Nil THEN mem ELSE [mem EXCEPT ![c].prev = mem[h(p)].prev], "prev_link")
    /\ UNCHANGED asked

PrevLink(p) ==
    LET a == Hdr(h(p)).prev IN
    /\ At(p, "prev_link")
    /\ Store(p, {a, h(p)}, [mem EXCEPT ![a].next = mem[h(p)].next], "idle")
    /\ asked' = Released(h(p))

Next ==
    \E p \in Callers :
        \/ \E n \in Sizes : kmalloc(p, n)
        \/ \E b \in DOMAIN asked : kfree(p, b)
        \/ Search(p) \/ Cut(p) \/ Shrink(p) \/ BackLink(p)
        \/ NewNext(p) \/ OldNext(p) \/ NewPrev(p) \/ Mark(p)
        \/ MarkFree(p) \/ NextSize(p) \/ NextBack(p) \/ NextLink(p)
        \/ PrevSize(p) \/ PrevBack(p) \/ PrevLink(p)

Spec == Init /\ [][Next]_vars

-----------------------------------------------------------------------------
(* Properties *)

\* What the one-step allocator sees: the list as it was when the call began.
AbsHeap == IF Idle THEN List ELSE before

Atomic == INSTANCE Heap WITH heap <- AbsHeap, halt <- "no", PageSizes <- {}, Counts <- {}

\* With one caller, the stores of kmalloc and kfree (kalloc.c:43-67, 87-162, 214-243)
\* have together the effect of Heap's one-step calls.
ImplementsHeap == Atomic!Spec

\* The assertion of heap_sanity_check (kalloc.c:187-188, "kheap: bad prev pointer"),
\* between calls: the block after b on the list points back to b.
SanityCheck ==
    Idle /\ ~panic => \A b \in Blocks : mem[b].next \in DOMAIN mem => mem[mem[b].next].prev = b
=============================================================================
