----------------------------- MODULE HeapProofs -----------------------------
(***************************************************************************)
(* Proofs about the kernel heap, for every region, header size, page size  *)
(* and set of requests.                                                    *)
(***************************************************************************)
EXTENDS Heap, TLAPS

\* What every list of headers the code makes satisfies.
IsHeap(H) == HeadersOK(H) /\ Tiling(H) /\ NoOverlap(H)

-----------------------------------------------------------------------------
\* What split_block (kalloc.c:43-67) leaves of H when it cuts h at dist: G.
IsSplit(H, h, dist, G) ==
    LET new == h + dist IN
    /\ new \notin DOMAIN H /\ new \in Addresses
    /\ DOMAIN G = DOMAIN H \cup {new}
    /\ \A b \in DOMAIN G : G[b] \in Header
    /\ G[new].size = H[h].size - dist /\ (G[new].allocated <=> H[h].allocated)
    /\ G[new].prev = h /\ G[new].next = H[h].next
    /\ G[h].size = dist /\ (G[h].allocated <=> H[h].allocated)
    /\ G[h].prev = H[h].prev /\ G[h].next = new
    /\ \A b \in DOMAIN H \ {h} :
         /\ G[b].size = H[b].size /\ (G[b].allocated <=> H[b].allocated)
         /\ G[b].prev = IF b = H[h].next THEN new ELSE H[b].prev
         /\ G[b].next = H[b].next

\* split_block does what IsSplit says.
LEMMA SplitFields ==
    ASSUME NEW H, IsHeap(H), NEW h \in DOMAIN H, NEW dist \in Nat, ~CannotSplit(H, h, dist)
    PROVE  IsSplit(H, h, dist, split_block(H, h, dist))
<1> DEFINE new == h + dist
           G == split_block(H, h, dist)
<1>1. /\ H[h].size \in 0 .. Size /\ h \in Start .. End
      /\ dist >= HDR /\ dist <= H[h].size - HDR /\ h + H[h].size <= End
  BY HeapAssumption DEF IsHeap, HeadersOK, Tiling, Header, Addresses, CannotSplit, End
<1>2. new \notin DOMAIN H /\ new \in Addresses
  BY <1>1, HeapAssumption DEF IsHeap, HeadersOK, NoOverlap, Addresses, End
<1>3. H[h].next # h
  BY <1>1, HeapAssumption DEF IsHeap, Tiling, Nil
<1>4. \A b \in DOMAIN G : G[b] \in Header
  BY <1>1, <1>2, HeapAssumption DEF split_block, IsHeap, HeadersOK, Header, Addresses, End
<1> QED BY <1>2, <1>3, <1>4 DEF split_block, IsSplit

\* Splitting a block keeps the tiling.
LEMMA SplitHeap ==
    ASSUME NEW H, IsHeap(H), NEW h \in DOMAIN H, NEW dist \in Nat, ~CannotSplit(H, h, dist)
    PROVE  IsHeap(split_block(H, h, dist))
<1> DEFINE G == split_block(H, h, dist)
           new == h + dist
<1>1. /\ H[h].size \in 0 .. Size /\ h \in Start .. End /\ H[h].next # h
      /\ dist >= HDR /\ dist <= H[h].size - HDR /\ h + H[h].size <= End
  BY HeapAssumption DEF IsHeap, HeadersOK, Tiling, Header, Addresses, CannotSplit, End, Nil
<1>2. IsSplit(H, h, dist, G)
  BY SplitFields
<1>3. HeadersOK(G)
  <2>1. G = [b \in DOMAIN G |-> G[b]]
    BY DEF split_block
  <2>2. DOMAIN G \subseteq Addresses /\ \A b \in DOMAIN G : G[b] \in Header
    BY <1>2 DEF IsSplit, IsHeap, HeadersOK
  <2> HIDE DEF G
  <2> QED BY <2>1, <2>2 DEF HeadersOK
<1> HIDE DEF G
<1>4. NoOverlap(G)
  <2> SUFFICES ASSUME NEW b \in DOMAIN G, NEW c \in DOMAIN G, b < c PROVE b + G[b].size <= c
    BY DEF NoOverlap
  <2> USE HeapAssumption DEF IsSplit, IsHeap, HeadersOK, Header, Addresses, End, NoOverlap
  <2>1. CASE b = new /\ c # new
    BY <1>1, <1>2, <2>1
  <2>2. CASE b # new /\ c = new
    <3>1. b \in DOMAIN H /\ b \in Nat /\ b < h + dist
      BY <1>2, <2>2
    <3>2. b > h => h + H[h].size <= b
      BY <3>1
    <3>3. b < h => b + H[b].size <= h
      BY <3>1
    <3>4. H[b].size \in Nat /\ (b # h => G[b].size = H[b].size) /\ G[h].size = dist
      BY <1>2, <3>1
    <3> QED BY <1>1, <2>2, <3>1, <3>2, <3>3, <3>4
  <2>3. CASE b # new /\ c # new
    BY <1>1, <1>2, <2>3
  <2> QED BY <2>1, <2>2, <2>3
<1>5. Tiling(G)
  <2> USE HeapAssumption DEF IsSplit, End, Nil
  <2>1. Start \in DOMAIN G /\ G[Start].prev = Nil
    <3>1. Start # H[h].next
      BY <1>1 DEF IsHeap, Tiling
    <3> QED BY <1>2, <3>1 DEF IsHeap, Tiling
  <2>2. ASSUME NEW b \in DOMAIN G
        PROVE  /\ G[b].size >= HDR
               /\ b + G[b].size <= End
    BY <1>1, <1>2 DEF IsHeap, Tiling
  <2>3. ASSUME NEW b \in DOMAIN G
        PROVE  IF b + G[b].size = End THEN G[b].next = Nil
               ELSE G[b].next = b + G[b].size /\ G[b].next \in DOMAIN G /\ G[G[b].next].prev = b
    <3>1. CASE b = new
      BY <1>1, <1>2, <3>1 DEF IsHeap, Tiling
    <3>2. CASE b = h
      BY <1>1, <1>2, <3>2 DEF IsHeap, Tiling
    <3>3. CASE b # new /\ b # h
      <4>1. b \in DOMAIN H /\ (b + H[b].size # End => H[b].next # H[h].next)
        BY <1>1, <1>2, <3>3 DEF IsHeap, Tiling, HeadersOK, Header, Addresses
      <4> QED BY <1>1, <1>2, <3>3, <4>1 DEF IsHeap, Tiling
    <3> QED BY <3>1, <3>2, <3>3
  <2>4. ASSUME NEW b \in DOMAIN G, b # Start
        PROVE  G[b].prev \in DOMAIN G /\ G[G[b].prev].next = b
    <3>1. CASE b = new
      BY <1>2, <3>1
    <3>2. CASE b # new /\ b = H[h].next
      BY <1>1, <1>2, <3>2
    <3>3. CASE b # new /\ b # H[h].next
      BY <1>1, <1>2, <2>4, <3>3 DEF IsHeap, Tiling
    <3> QED BY <3>1, <3>2, <3>3
  <2> QED BY <2>1, <2>2, <2>3, <2>4 DEF Tiling
<1> QED BY <1>3, <1>4, <1>5 DEF IsHeap, G

-----------------------------------------------------------------------------
\* What either merge of kfree (kalloc.c:226-242) leaves of H when b goes: G.
IsAbsorb(H, b, G) ==
    LET a == H[b].prev IN
    /\ a \in DOMAIN H /\ a < b /\ a + H[a].size = b /\ H[a].next = b
    /\ DOMAIN G = DOMAIN H \ {b}
    /\ \A c \in DOMAIN G : G[c] \in Header
    /\ G[a].size = H[a].size + H[b].size /\ (G[a].allocated <=> H[a].allocated)
    /\ G[a].prev = H[a].prev /\ G[a].next = H[b].next
    /\ \A c \in DOMAIN H \ {a, b} :
         /\ G[c].size = H[c].size /\ (G[c].allocated <=> H[c].allocated)
         /\ G[c].prev = IF c = H[b].next THEN a ELSE H[c].prev
         /\ G[c].next = H[c].next

\* Absorb does what IsAbsorb says, to any block but the first.
LEMMA AbsorbFields ==
    ASSUME NEW H, IsHeap(H), NEW b \in DOMAIN H, b # Start
    PROVE  IsAbsorb(H, b, Absorb(H, b))
<1> DEFINE a == H[b].prev
           G == Absorb(H, b)
<1>1. a \in DOMAIN H /\ H[a].next = b
  BY DEF IsHeap, Tiling
<1>2. /\ a \in Start .. End /\ b \in Start .. End
      /\ H[a].size \in 0 .. Size /\ H[b].size \in 0 .. Size
  BY <1>1, HeapAssumption DEF IsHeap, HeadersOK, Header, Addresses, End
<1>3. /\ a + H[a].size = b /\ a < b
      /\ H[a].size >= HDR /\ b + H[b].size <= End
  BY <1>1, <1>2, HeapAssumption DEF IsHeap, Tiling, Nil
<1>4. H[b].next # a
  BY <1>2, <1>3, HeapAssumption DEF IsHeap, Tiling, Nil
<1>5. \A c \in DOMAIN G : G[c] \in Header
  BY <1>1, <1>2, <1>3, HeapAssumption DEF Absorb, IsHeap, HeadersOK, Header, Addresses, End
<1> QED BY <1>1, <1>3, <1>4, <1>5 DEF Absorb, IsAbsorb

\* Merging two neighbours keeps the tiling.
LEMMA AbsorbHeap ==
    ASSUME NEW H, IsHeap(H), NEW b \in DOMAIN H, b # Start
    PROVE  IsHeap(Absorb(H, b))
<1> DEFINE a == H[b].prev
           G == Absorb(H, b)
<1>1. IsAbsorb(H, b, G)
  BY AbsorbFields
<1>2. HeadersOK(G)
  <2>1. G = [c \in DOMAIN G |-> G[c]]
    BY DEF Absorb
  <2>2. DOMAIN G \subseteq Addresses /\ \A c \in DOMAIN G : G[c] \in Header
    BY <1>1 DEF IsAbsorb, IsHeap, HeadersOK
  <2> HIDE DEF G
  <2> QED BY <2>1, <2>2 DEF HeadersOK
<1> HIDE DEF G
<1>3. /\ \A c \in DOMAIN H : /\ c \in Nat /\ c > 0 /\ c >= Start
                             /\ H[c].size \in Nat /\ H[c].size >= HDR
                             /\ H[c].next \in Nat
      /\ a \in DOMAIN H /\ HDR > 0 /\ HDR \in Nat
  BY <1>1, HeapAssumption DEF IsAbsorb, IsHeap, HeadersOK, Header, Addresses, Tiling, End, Nil
<1>n. \A c \in DOMAIN H : H[c].next = Nil \/ H[c].next > c
  BY <1>3 DEF IsHeap, Tiling
<1>4. NoOverlap(G)
  <2> SUFFICES ASSUME NEW c \in DOMAIN G, NEW d \in DOMAIN G, c < d PROVE c + G[c].size <= d
    BY DEF NoOverlap
  <2>1. c \in DOMAIN H /\ d \in DOMAIN H /\ d # b /\ c # b /\ c + H[c].size <= d
    BY <1>1 DEF IsAbsorb, IsHeap, NoOverlap
  <2>2. CASE c # a
    BY <1>1, <2>1, <2>2 DEF IsAbsorb
  <2>3. CASE c = a
    <3>1. b < d
      BY <1>1, <1>3, <2>1, <2>3 DEF IsAbsorb
    <3>2. b + H[b].size <= d
      BY <2>1, <3>1 DEF IsHeap, NoOverlap
    <3> QED BY <1>1, <1>3, <2>1, <2>3, <3>2 DEF IsAbsorb
  <2> QED BY <2>2, <2>3
<1>5. Tiling(G)
  <2> USE HeapAssumption DEF End, Nil
  <2>1. Start \in DOMAIN G /\ G[Start].prev = Nil
    <3>1. Start # H[b].next
      BY <1>3, <1>n DEF IsHeap, Tiling
    <3> QED BY <1>1, <3>1 DEF IsAbsorb, IsHeap, Tiling
  <2>2. ASSUME NEW c \in DOMAIN G
        PROVE  c \in DOMAIN H /\ c # b /\ G[c].size >= HDR /\ c + G[c].size <= End
    <3>1. CASE c = a
      BY <1>1, <1>3, <3>1 DEF IsAbsorb, IsHeap, Tiling
    <3>2. CASE c # a
      BY <1>1, <1>3, <3>2 DEF IsAbsorb, IsHeap, Tiling
    <3> QED BY <3>1, <3>2
  <2>3. ASSUME NEW c \in DOMAIN G
        PROVE  IF c + G[c].size = End THEN G[c].next = Nil
               ELSE G[c].next = c + G[c].size /\ G[c].next \in DOMAIN G /\ G[G[c].next].prev = c
    <3>1. CASE c = a
      <4>1. G[c].next = H[b].next /\ c + G[c].size = b + H[b].size
        BY <1>1, <1>3, <3>1 DEF IsAbsorb
      <4>2. IF b + H[b].size = End THEN H[b].next = Nil
            ELSE H[b].next = b + H[b].size /\ H[b].next \in DOMAIN H /\ H[H[b].next].prev = b
        BY DEF IsHeap, Tiling
      <4>3. H[b].next # b /\ H[b].next # a
        BY <1>1, <1>3, <1>n DEF IsAbsorb
      <4> QED BY <1>1, <3>1, <4>1, <4>2, <4>3 DEF IsAbsorb
    <3>2. CASE c # a
      <4>1. c \in DOMAIN H /\ c # b /\ G[c].size = H[c].size /\ G[c].next = H[c].next
        BY <1>1, <3>2 DEF IsAbsorb
      <4>2. IF c + H[c].size = End THEN H[c].next = Nil
            ELSE H[c].next = c + H[c].size /\ H[c].next \in DOMAIN H /\ H[H[c].next].prev = c
        BY <4>1 DEF IsHeap, Tiling
      <4>3. c + H[c].size # End => H[c].next # b
        BY <4>2, <3>2
      <4>4. c + H[c].size # End => H[c].next # H[b].next
        <5>1. H[b].next # Nil => H[H[b].next].prev = b
          BY DEF IsHeap, Tiling
        <5> QED BY <1>3, <4>1, <4>2, <5>1
      <4>5. c + H[c].size # End => G[H[c].next].prev = c
        <5> SUFFICES ASSUME c + H[c].size # End PROVE G[H[c].next].prev = c
          OBVIOUS
        <5>1. CASE H[c].next = a
          BY <1>1, <4>2, <5>1 DEF IsAbsorb
        <5>2. CASE H[c].next # a
          BY <1>1, <4>2, <4>3, <4>4, <5>2 DEF IsAbsorb
        <5> QED BY <5>1, <5>2
      <4> QED BY <1>1, <4>1, <4>2, <4>3, <4>5 DEF IsAbsorb
    <3> QED BY <3>1, <3>2
  <2>4. ASSUME NEW c \in DOMAIN G, c # Start
        PROVE  G[c].prev \in DOMAIN G /\ G[G[c].prev].next = c
    <3>1. c \in DOMAIN H /\ c # b /\ H[c].prev \in DOMAIN H /\ H[H[c].prev].next = c
      BY <1>1, <2>4 DEF IsAbsorb, IsHeap, Tiling
    <3>2. CASE c = a
      <4>1. G[c].prev = H[c].prev /\ H[c].prev # b /\ H[c].prev # a
        BY <1>1, <1>3, <1>n, <3>1, <3>2 DEF IsAbsorb
      <4> QED BY <1>1, <3>1, <4>1 DEF IsAbsorb
    <3>3. CASE c # a /\ c = H[b].next
      BY <1>1, <1>3, <3>1, <3>3 DEF IsAbsorb
    <3>4. CASE c # a /\ c # H[b].next
      <4>1. G[c].prev = H[c].prev /\ H[c].prev # b /\ H[c].prev # a
        BY <1>1, <3>1, <3>4 DEF IsAbsorb
      <4> QED BY <1>1, <3>1, <4>1 DEF IsAbsorb
    <3> QED BY <3>2, <3>3, <3>4
  <2> QED BY <2>1, <2>2, <2>3, <2>4 DEF Tiling
<1> QED BY <1>2, <1>4, <1>5 DEF IsHeap, G

-----------------------------------------------------------------------------
\* What writing the 'allocated' field of h leaves of H: G.
IsMarked(H, h, v, G) ==
    /\ DOMAIN G = DOMAIN H
    /\ G[h].allocated <=> v
    /\ \A c \in DOMAIN H :
         /\ G[c] \in Header
         /\ G[c].size = H[c].size /\ G[c].prev = H[c].prev /\ G[c].next = H[c].next
         /\ c # h => (G[c].allocated <=> H[c].allocated)

\* SetAllocated changes that field only.
LEMMA MarkFields ==
    ASSUME NEW H, IsHeap(H), NEW h \in DOMAIN H, NEW v \in BOOLEAN
    PROVE  IsMarked(H, h, v, SetAllocated(H, h, v))
BY DEF SetAllocated, IsMarked, IsHeap, HeadersOK, Header

\* Marking a block keeps the tiling.
LEMMA MarkHeap ==
    ASSUME NEW H, IsHeap(H), NEW h \in DOMAIN H, NEW v \in BOOLEAN
    PROVE  IsHeap(SetAllocated(H, h, v))
<1> DEFINE G == SetAllocated(H, h, v)
<1>1. IsMarked(H, h, v, G)
  BY MarkFields
<1>2. G = [c \in DOMAIN G |-> G[c]]
  BY DEF SetAllocated, IsHeap, HeadersOK
<1> HIDE DEF G
<1>3. HeadersOK(G)
  BY <1>1, <1>2 DEF IsMarked, IsHeap, HeadersOK
<1>4. Tiling(G) /\ NoOverlap(G)
  BY <1>1 DEF IsMarked, IsHeap, Tiling, NoOverlap
<1> QED BY <1>3, <1>4 DEF IsHeap, G

-----------------------------------------------------------------------------
\* The inductive invariant: NoFreeNeighbours is what tells that the remainder of a
\* split block has no free neighbour, NoLeak that a free block is nobody's.
IInv == TypeOK /\ Tiled /\ Disjoint /\ NoFreeNeighbours /\ NoLeak

\* The two arithmetic facts about size_t that the proofs use.
LEMMA ModType == \A x \in Int : x % M \in 0 .. M - 1
BY HeapAssumption

LEMMA CutPointType == \A n \in Nat : CutPoint(n) \in Nat
BY HeapAssumption, ModType DEF CutPoint

\* A step keeps the blocks that callers hold before and after it.
Keeps == \A b \in DOMAIN asked \cap DOMAIN asked' :
             heap'[b].size = heap[b].size /\ asked'[b] = asked[b]

\* Granting block h of a list G: G is the heap with free blocks cut and h still free,
\* or marked already.
LEMMA GrantInv ==
    ASSUME IInv, NEW G, IsHeap(G), NEW h \in DOMAIN G, NEW wanted \in Nat,
           DOMAIN heap \subseteq DOMAIN G, h \notin DOMAIN asked,
           \A b \in DOMAIN G \ {h} : G[b].allocated <=> b \in DOMAIN asked,
           \A b \in DOMAIN G : G[b].next # Nil =>
               b = h \/ G[b].next = h \/ G[b].allocated \/ G[G[b].next].allocated,
           \A b \in DOMAIN asked : G[b].size = heap[b].size,
           Grant(G, h, wanted)
    PROVE  IInv' /\ Keeps
<1>1. IsMarked(G, h, TRUE, heap') /\ IsHeap(heap')
  BY MarkFields, MarkHeap DEF Grant
<1>2. Tiled' /\ Disjoint' /\ HeadersOK(heap')
  BY <1>1 DEF IsHeap, Tiled, Disjoint
<1>3. /\ DOMAIN asked' = DOMAIN asked \cup {h}
      /\ asked' \in [DOMAIN asked' -> Nat]
      /\ halt' = halt
  BY DEF Grant, IInv, TypeOK
<1>4. TypeOK'
  BY <1>1, <1>2, <1>3 DEF IsMarked, IInv, TypeOK
<1>5. NoLeak'
  BY <1>1, <1>3 DEF IsMarked, NoLeak
<1>6. NoFreeNeighbours'
  <2> SUFFICES ASSUME NEW b \in DOMAIN heap', heap'[b].next # Nil
               PROVE  heap'[b].allocated \/ heap'[heap'[b].next].allocated
    BY DEF NoFreeNeighbours, Merged
  <2>1. b \in DOMAIN G /\ heap'[b].next = G[b].next /\ G[b].next # Nil
    BY <1>1 DEF IsMarked
  <2>2. G[b].next \in DOMAIN G
    BY <2>1 DEF IsHeap, Tiling
  <2> QED BY <1>1, <2>1, <2>2 DEF IsMarked
<1>7. Keeps
  <2>1. \A b \in DOMAIN asked : b # h /\ b \in DOMAIN G /\ asked'[b] = asked[b]
    BY DEF Grant, IInv, TypeOK
  <2> QED BY <1>1, <2>1 DEF IsMarked, Keeps
<1> QED BY <1>2, <1>4, <1>5, <1>6, <1>7 DEF IInv

\* The unaligned branch of kmalloc_int (kalloc.c:137-153).
LEMMA TakeBlockInv ==
    ASSUME IInv, NEW h \in DOMAIN heap, NEW n \in Nat, NEW wanted \in Nat,
           ~heap[h].allocated, TakeBlock(h, n, wanted)
    PROVE  IInv' /\ Keeps
<1>1. /\ IsHeap(heap) /\ h \notin DOMAIN asked
      /\ \A b \in DOMAIN heap : heap[b].allocated <=> b \in DOMAIN asked
      /\ \A b \in DOMAIN heap : heap[b].next # Nil =>
            heap[b].allocated \/ heap[heap[b].next].allocated
  BY DEF IInv, TypeOK, Tiled, Disjoint, NoFreeNeighbours, Merged, NoLeak, IsHeap
<1>2. CASE Grant(heap, h, wanted)
  BY <1>1, <1>2, GrantInv
<1>3. CASE ~CannotSplit(heap, h, CutPoint(n)) /\ Grant(split_block(heap, h, CutPoint(n)), h, wanted)
  <2> DEFINE dist == CutPoint(n)
             new == h + dist
             G == split_block(heap, h, dist)
  <2>1. dist \in Nat
    BY CutPointType
  <2>2. IsSplit(heap, h, dist, G) /\ IsHeap(G)
    BY <1>1, <1>3, <2>1, SplitFields, SplitHeap
  <2>3. Grant(G, h, wanted)
    BY <1>3
  <2> HIDE DEF G, dist
  <2>4. /\ h \in DOMAIN G /\ DOMAIN heap \subseteq DOMAIN G
        /\ \A b \in DOMAIN G \ {h} : G[b].allocated <=> b \in DOMAIN asked
        /\ \A b \in DOMAIN asked : G[b].size = heap[b].size
    <3>1. new \notin DOMAIN asked
      BY <2>2 DEF IsSplit, IInv, TypeOK
    <3>2. \A b \in DOMAIN asked : b \in DOMAIN heap \ {h}
      BY <1>1 DEF IInv, TypeOK
    <3> QED BY <1>1, <2>2, <3>1, <3>2 DEF IsSplit
  <2>5. ASSUME NEW b \in DOMAIN G, G[b].next # Nil
        PROVE  b = h \/ G[b].next = h \/ G[b].allocated \/ G[G[b].next].allocated
    <3>1. CASE b = new
      <4>1. heap[h].next # Nil /\ heap[h].next \in DOMAIN heap /\ heap[heap[h].next].allocated
        BY <1>1, <2>2, <2>5, <3>1 DEF IsSplit, IsHeap, Tiling
      <4>2. heap[h].next # h
        BY <1>1, <4>1
      <4> QED BY <2>2, <3>1, <4>1, <4>2 DEF IsSplit
    <3>2. CASE b # new /\ b # h
      <4>1. b \in DOMAIN heap /\ G[b].next = heap[b].next /\ heap[b].next \in DOMAIN heap
        BY <1>1, <2>2, <2>5, <3>2 DEF IsSplit, IsHeap, Tiling
      <4> QED BY <1>1, <2>2, <2>5, <3>2, <4>1 DEF IsSplit
    <3> QED BY <3>1, <3>2
  <2> QED BY <1>1, <2>2, <2>3, <2>4, <2>5, GrantInv
<1> QED BY <1>2, <1>3 DEF TakeBlock

-----------------------------------------------------------------------------
\* The heap H after the aligned branch has cut h at dist and marked the second part.
IsCutAligned(h, new, H) ==
    /\ new \notin DOMAIN heap /\ DOMAIN H = DOMAIN heap \cup {new}
    /\ H[new].allocated /\ H[new].next = heap[h].next
    /\ H[new].size = heap[h].size - (new - h)
    /\ H[h].next = new
    /\ \A b \in DOMAIN heap : H[b].allocated <=> heap[b].allocated
    /\ \A b \in DOMAIN heap \ {h} : H[b].next = heap[b].next /\ H[b].size = heap[b].size

\* kalloc.c:123-125.
LEMMA CutAligned ==
    ASSUME IInv, NEW h \in DOMAIN heap, NEW dist \in Nat, ~CannotSplit(heap, h, dist),
           ~heap[h].allocated
    PROVE  LET H == SetAllocated(split_block(heap, h, dist), h + dist, TRUE)
           IN  IsHeap(H) /\ IsCutAligned(h, h + dist, H)
<1> DEFINE G == split_block(heap, h, dist)
           new == h + dist
           H == SetAllocated(G, new, TRUE)
<1>1. IsHeap(heap)
  BY DEF IInv, TypeOK, Tiled, Disjoint, IsHeap
<1>2. IsSplit(heap, h, dist, G) /\ IsHeap(G)
  BY <1>1, SplitFields, SplitHeap
<1>3. new \in DOMAIN G
  BY <1>2 DEF IsSplit
<1> HIDE DEF G, new
<1>4. IsMarked(G, new, TRUE, H) /\ IsHeap(H)
  BY <1>2, <1>3, MarkFields, MarkHeap
<1> HIDE DEF H
<1>5. new = h + dist
  BY DEF new
<1>6. IsCutAligned(h, new, H)
  <2>1. h \in Nat /\ new - h = dist
    BY <1>1, <1>5, HeapAssumption DEF IsHeap, HeadersOK, Addresses, End
  <2> QED BY <1>2, <1>4, <1>5, <2>1 DEF IsSplit, IsMarked, IsCutAligned
<1> QED BY <1>4, <1>6 DEF H, G, new

\* The rest of the aligned branch (kalloc.c:127-134).
LEMMA ChopExcessInv ==
    ASSUME IInv, NEW h \in DOMAIN heap, ~heap[h].allocated,
           NEW new, NEW H, IsHeap(H), IsCutAligned(h, new, H),
           NEW n \in Nat, NEW wanted \in Nat, ChopExcess(H, new, n, wanted)
    PROVE  IInv' /\ Keeps
<1>1. /\ IsHeap(heap) /\ new \notin DOMAIN asked /\ new \in DOMAIN H
      /\ \A b \in DOMAIN heap : heap[b].allocated <=> b \in DOMAIN asked
      /\ \A b \in DOMAIN heap : heap[b].next # Nil =>
            /\ heap[b].next \in DOMAIN heap
            /\ heap[b].allocated \/ heap[heap[b].next].allocated
  BY DEF IInv, TypeOK, Tiled, Disjoint, NoFreeNeighbours, Merged, NoLeak, IsHeap,
         IsCutAligned, Tiling
<1>0. \A b \in DOMAIN asked : b \in DOMAIN heap \ {h}
  BY <1>1 DEF IInv, TypeOK
<1>2. CASE Grant(H, new, wanted)
  <2>1. ASSUME NEW b \in DOMAIN H, H[b].next # Nil
        PROVE  b = new \/ H[b].next = new \/ H[b].allocated \/ H[H[b].next].allocated
    BY <1>1, <2>1 DEF IsCutAligned
  <2>2. /\ DOMAIN heap \subseteq DOMAIN H
        /\ \A b \in DOMAIN H \ {new} : H[b].allocated <=> b \in DOMAIN asked
        /\ \A b \in DOMAIN asked : H[b].size = heap[b].size
    BY <1>1, <1>0 DEF IsCutAligned
  <2> QED BY <1>1, <1>2, <2>1, <2>2, GrantInv
<1>3. CASE Fault
  <2>1. heap' = heap /\ asked' = asked /\ halt' = "fault"
    BY <1>3 DEF Fault
  <2> QED BY <2>1 DEF IInv, TypeOK, Tiled, Disjoint, NoFreeNeighbours, NoLeak, Keeps
<1>4. CASE /\ ~CannotSplit(H, new, CutPoint(n))
           /\ Grant(SetAllocated(split_block(H, new, CutPoint(n)), new + CutPoint(n), FALSE), new, wanted)
  <2> DEFINE dist == CutPoint(n)
             back == new + dist
             G == split_block(H, new, dist)
             F == SetAllocated(G, back, FALSE)
  <2>1. dist \in Nat
    BY CutPointType
  <2>2. IsSplit(H, new, dist, G) /\ IsHeap(G)
    BY <1>1, <1>4, <2>1, SplitFields, SplitHeap
  <2>3. Grant(F, new, wanted)
    BY <1>4
  <2> HIDE DEF G, dist
  <2>4. back \in DOMAIN G /\ back = new + dist
    BY <2>2 DEF IsSplit
  <2> HIDE DEF back
  <2>5. IsMarked(G, back, FALSE, F) /\ IsHeap(F)
    BY <2>2, <2>4, MarkFields, MarkHeap
  <2> HIDE DEF F
  <2>6. /\ DOMAIN F = DOMAIN heap \cup {new, back} /\ back \notin DOMAIN heap /\ back # new
        /\ ~F[back].allocated /\ F[back].next = heap[h].next
        /\ F[h].next = new
        /\ \A b \in DOMAIN heap : F[b].allocated <=> heap[b].allocated
        /\ \A b \in DOMAIN heap \ {h} : F[b].next = heap[b].next /\ F[b].size = heap[b].size
    BY <1>1, <2>2, <2>4, <2>5 DEF IsSplit, IsMarked, IsCutAligned
  <2>7. \A b \in DOMAIN F \ {new} : F[b].allocated <=> b \in DOMAIN asked
    <3>1. back \notin DOMAIN asked
      BY <2>6 DEF IInv, TypeOK
    <3> QED BY <1>1, <2>6, <3>1
  <2>8. ASSUME NEW b \in DOMAIN F, F[b].next # Nil
        PROVE  b = new \/ F[b].next = new \/ F[b].allocated \/ F[F[b].next].allocated
    BY <1>1, <2>6, <2>8
  <2>9. \A b \in DOMAIN asked : F[b].size = heap[b].size
    BY <1>0, <2>6
  <2> QED BY <1>1, <2>3, <2>5, <2>6, <2>7, <2>8, <2>9, GrantInv
<1> QED BY <1>2, <1>3, <1>4 DEF ChopExcess

-----------------------------------------------------------------------------
\* What kfree (kalloc.c:214-243) leaves of the heap when h is freed: blocks leave the
\* list only if they are free, and no caller's block changes.
IsFreed(h, F) ==
    /\ IsHeap(F) /\ Merged(F)
    /\ DOMAIN F \subseteq DOMAIN heap
    /\ DOMAIN asked \ {h} \subseteq DOMAIN F
    /\ \A b \in DOMAIN F : F[b].allocated <=> b \in DOMAIN asked \ {h}
    /\ \A b \in DOMAIN asked \ {h} : F[b].size = heap[b].size

LEMMA FreeMerges ==
    ASSUME IInv, NEW h \in DOMAIN asked
    PROVE  IsFreed(h, MergePrev(MergeNext(SetAllocated(heap, h, FALSE), h), h))
<1> DEFINE F == SetAllocated(heap, h, FALSE)
           F1 == MergeNext(F, h)
           F2 == MergePrev(F1, h)
           n == heap[h].next
           p == heap[h].prev
<1>1. /\ IsHeap(heap) /\ h \in DOMAIN heap /\ DOMAIN asked \subseteq DOMAIN heap
      /\ \A b \in DOMAIN heap : heap[b].allocated <=> b \in DOMAIN asked
      /\ \A b \in DOMAIN heap : heap[b].next # Nil =>
            /\ heap[b].next \in DOMAIN heap /\ heap[heap[b].next].prev = b
            /\ heap[b].allocated \/ heap[heap[b].next].allocated
  BY DEF IInv, TypeOK, Tiled, Disjoint, NoFreeNeighbours, Merged, NoLeak, IsHeap, Tiling
<1>2. \A b \in DOMAIN heap : /\ b \in Nat /\ heap[b].size \in Nat /\ heap[b].size > 0 /\ b >= Start
                             /\ heap[b].next \in Nat
                             /\ heap[b].next # Nil => heap[b].next > b
  BY <1>1, HeapAssumption DEF IsHeap, HeadersOK, Header, Addresses, Tiling, End, Nil
<1>3. IsMarked(heap, h, FALSE, F) /\ IsHeap(F)
  BY <1>1, MarkFields, MarkHeap
<1> HIDE DEF F
\* After the first merge only the block before h may be a free neighbour.
<1>4. /\ IsHeap(F1) /\ DOMAIN F1 \subseteq DOMAIN heap /\ h \in DOMAIN F1
      /\ DOMAIN asked \subseteq DOMAIN F1
      /\ \A b \in DOMAIN F1 : F1[b].allocated <=> b \in DOMAIN asked \ {h}
      /\ \A b \in DOMAIN asked \ {h} : F1[b].size = heap[b].size
      /\ F1[h].prev = p
      /\ \A b \in DOMAIN F1 : F1[b].next # Nil =>
            F1[b].next = h \/ F1[b].allocated \/ F1[F1[b].next].allocated
  <2>1. CASE ~IsFree(F, n)
    <3>1. F1 = F
      BY <1>1, <1>3, <2>1 DEF MergeNext, IsMarked
    <3>2. ASSUME NEW b \in DOMAIN F, F[b].next # Nil
          PROVE  F[b].next = h \/ F[b].allocated \/ F[F[b].next].allocated
      BY <1>1, <1>3, <2>1, <3>2 DEF IsMarked, IsFree
    <3> QED BY <1>1, <1>3, <3>1, <3>2 DEF IsMarked
  <2>2. CASE IsFree(F, n)
    <3>1. F1 = Absorb(F, n)
      BY <1>1, <1>3, <2>2 DEF MergeNext, IsMarked
    <3>2. n \in DOMAIN F /\ n # Start /\ n # h /\ F[n].prev = h /\ ~heap[n].allocated /\ n \notin DOMAIN asked
      BY <1>1, <1>2, <1>3, <2>2 DEF IsMarked, IsFree
    <3>3. IsAbsorb(F, n, F1) /\ IsHeap(F1)
      BY <1>3, <3>1, <3>2, AbsorbFields, AbsorbHeap
    <3> HIDE DEF F1
    <3>4. /\ DOMAIN F1 = DOMAIN heap \ {n}
          /\ F1[h].prev = p /\ F1[h].next = heap[n].next /\ ~F1[h].allocated
          /\ \A b \in DOMAIN F1 \ {h} : /\ F1[b].size = heap[b].size /\ F1[b].next = heap[b].next
                                         /\ (F1[b].allocated <=> heap[b].allocated)
      BY <1>1, <1>3, <3>2, <3>3 DEF IsAbsorb, IsMarked
    <3>5. ASSUME NEW b \in DOMAIN F1, F1[b].next # Nil
          PROVE  F1[b].next = h \/ F1[b].allocated \/ F1[F1[b].next].allocated
      <4>1. CASE b = h
        <5>1. heap[n].next # Nil /\ n \in DOMAIN heap
          BY <1>3, <3>2, <3>4, <3>5, <4>1 DEF IsMarked
        <5>2. heap[n].next \in DOMAIN heap /\ heap[heap[n].next].allocated
          BY <1>1, <3>2, <5>1
        <5>3. heap[n].next > n /\ n > h
          BY <1>1, <1>2, <2>2, <5>1 DEF IsFree
        <5>4. heap[n].next \in DOMAIN F1 \ {h}
          BY <1>1, <1>2, <3>4, <5>1, <5>2, <5>3
        <5> QED BY <3>4, <4>1, <5>2, <5>4
      <4>2. CASE b # h
        BY <1>1, <1>2, <3>2, <3>4, <3>5, <4>2
      <4> QED BY <4>1, <4>2
    <3> QED BY <1>1, <3>2, <3>3, <3>4, <3>5
  <2> QED BY <2>1, <2>2
<1> HIDE DEF F1
<1>5. ASSUME ~IsFree(F1, p) PROVE IsFreed(h, F2)
  <2>1. F2 = F1
    BY <1>4, <1>5 DEF MergePrev
  <2>2. Merged(F1)
    <3> SUFFICES ASSUME NEW b \in DOMAIN F1, F1[b].next # Nil
                 PROVE  F1[b].allocated \/ F1[F1[b].next].allocated
      BY DEF Merged
    <3>1. CASE F1[b].next = h
      <4>1. b = p
        BY <1>4, <3>1 DEF IsHeap, Tiling
      <4>2. b # Nil
        BY <1>2, <1>4, HeapAssumption DEF Nil
      <4> QED BY <1>5, <4>1, <4>2 DEF IsFree
    <3> QED BY <1>4, <3>1
  <2> QED BY <1>4, <2>1, <2>2 DEF IsFreed
<1>6. ASSUME IsFree(F1, p) PROVE IsFreed(h, F2)
  <2>1. F2 = Absorb(F1, h) /\ h # Start
    BY <1>4, <1>6 DEF MergePrev, IsFree, IsHeap, Tiling
  <2>2. IsAbsorb(F1, h, F2) /\ IsHeap(F2)
    BY <1>4, <2>1, AbsorbFields, AbsorbHeap
  <2> HIDE DEF F2
  <2>3. /\ p \in DOMAIN F1 /\ p # h /\ ~F1[p].allocated /\ F1[p].next = h
        /\ DOMAIN F2 = DOMAIN F1 \ {h}
        /\ F2[p].next = F1[h].next /\ ~F2[p].allocated
        /\ \A b \in DOMAIN F2 \ {p} : /\ F2[b].size = F1[b].size /\ F2[b].next = F1[b].next
                                       /\ (F2[b].allocated <=> F1[b].allocated)
    BY <1>2, <1>4, <1>6, <2>2 DEF IsAbsorb, IsFree
  <2>4. \A b \in DOMAIN F1 : F1[b].next # Nil => F1[b].next \in DOMAIN F1 /\ F1[F1[b].next].prev = b
    BY <1>4 DEF IsHeap, Tiling
  <2>5. Merged(F2)
    <3> SUFFICES ASSUME NEW b \in DOMAIN F2, F2[b].next # Nil
                 PROVE  F2[b].allocated \/ F2[F2[b].next].allocated
      BY DEF Merged
    <3>1. CASE b = p
      <4>1. F1[h].next # Nil /\ F1[h].next # h /\ F1[F1[h].next].allocated /\ F1[h].next # p
        BY <1>4, <2>3, <2>4, <3>1
      <4> QED BY <2>3, <2>4, <3>1, <4>1, <1>4
    <3>2. CASE b # p
      <4>1. F2[b].next = F1[b].next /\ F1[b].next # h
        BY <1>4, <2>3, <2>4, <3>2
      <4>2. F1[b].allocated \/ F1[F1[b].next].allocated
        BY <1>4, <2>3, <3>2, <4>1
      <4> QED BY <2>3, <2>4, <3>2, <4>1, <4>2
    <3> QED BY <3>1, <3>2
  <2>6. p \notin DOMAIN asked
    BY <1>4, <2>3
  <2> QED BY <1>4, <2>2, <2>3, <2>5, <2>6 DEF IsFreed
<1> QED BY <1>5, <1>6 DEF F2, F1, F

-----------------------------------------------------------------------------
\* RoundUp stays in size_t.
LEMMA RoundUpType == \A n \in Nat : RoundUp(n) \in Nat
<1> SUFFICES ASSUME NEW n \in Nat PROVE RoundUp(n) \in Nat
  OBVIOUS
<1>1. n % 4 \in Nat
  OBVIOUS
<1> QED BY <1>1, ModType DEF RoundUp

\* Every step of the allocator keeps the inductive invariant and the callers' blocks.
LEMMA StepInv == IInv /\ [Next]_vars => IInv' /\ Keeps
<1> SUFFICES ASSUME IInv, [Next]_vars PROVE IInv' /\ Keeps
  OBVIOUS
<1>1. ASSUME NEW n \in Nat, NEW wanted \in Nat, Unaligned(n, wanted) PROVE IInv' /\ Keeps
  <2>1. PICK h \in DOMAIN heap : FirstFit(h, RoundUp(n)) /\ TakeBlock(h, RoundUp(n), wanted)
    BY <1>1 DEF Unaligned
  <2> QED BY <2>1, RoundUpType, TakeBlockInv DEF FirstFit, BigEnough
<1>2. ASSUME NEW n \in Sizes, kmalloc(n) PROVE IInv' /\ Keeps
  BY <1>1, <1>2, HeapAssumption DEF kmalloc
<1>3. ASSUME NEW num \in Counts, NEW n \in Sizes, kcalloc(num, n) PROVE IInv' /\ Keeps
  <2>1. num * n \in Nat /\ (num * n) % M \in Nat
    BY HeapAssumption, ModType
  <2> QED BY <1>1, <1>3, <2>1 DEF kcalloc
<1>4. ASSUME NEW n \in PageSizes, kmalloc_a(n) PROVE IInv' /\ Keeps
  <2>0. n \in Nat /\ RoundUp(n) \in Nat
    BY HeapAssumption, RoundUpType
  <2>1. PICK h \in DOMAIN heap, a \in Int :
          /\ ~heap[h].allocated /\ IsAlignedAddr(a, h)
          /\ \/ TakeAligned(h, RoundUp(n), n, a)
             \/ halt' = "search" /\ UNCHANGED <<heap, asked>>
    <3>1. \A h \in DOMAIN heap : h \in Nat
      BY HeapAssumption DEF IInv, TypeOK, HeadersOK, Addresses, End
    <3> QED BY <1>4, <3>1, HeapAssumption DEF kmalloc_a, FirstFit, BigEnough
  <2>2. CASE halt' = "search" /\ UNCHANGED <<heap, asked>>
    BY <2>2 DEF IInv, TypeOK, Tiled, Disjoint, NoFreeNeighbours, NoLeak, Keeps
  <2>3. CASE Fault
    BY <2>3 DEF Fault, IInv, TypeOK, Tiled, Disjoint, NoFreeNeighbours, NoLeak, Keeps
  <2>4. CASE TakeAligned(h, RoundUp(n), n, a) /\ ~Fault
    <3> DEFINE dist == a - h - HDR
               H == SetAllocated(split_block(heap, h, dist), h + dist, TRUE)
    <3>1. dist \in Nat
      BY <2>1, HeapAssumption DEF IsAlignedAddr, IInv, TypeOK, HeadersOK, Addresses, End
    <3>2. ~CannotSplit(heap, h, dist) /\ ChopExcess(H, h + dist, RoundUp(n), n)
      BY <2>4 DEF TakeAligned
    <3>3. IsHeap(H) /\ IsCutAligned(h, h + dist, H)
      BY <2>1, <3>1, <3>2, CutAligned
    <3> HIDE DEF H, dist
    <3> QED BY <2>0, <2>1, <3>2, <3>3, ChopExcessInv
  <2> QED BY <2>1, <2>2, <2>3, <2>4
<1>5. ASSUME NEW h \in DOMAIN asked, kfree(h) PROVE IInv' /\ Keeps
  <2>1. IsFreed(h, heap')
    BY <1>5, FreeMerges DEF kfree
  <2>2. /\ DOMAIN asked' = DOMAIN asked \ {h} /\ asked' \in [DOMAIN asked' -> Nat]
        /\ \A b \in DOMAIN asked' : asked'[b] = asked[b]
        /\ halt' = halt
    BY <1>5 DEF kfree, IInv, TypeOK
  <2>3. TypeOK' /\ Tiled' /\ Disjoint' /\ NoFreeNeighbours'
    BY <2>1, <2>2 DEF IInv, IsFreed, IsHeap, TypeOK, Tiled, Disjoint, NoFreeNeighbours
  <2>4. NoLeak' /\ Keeps
    BY <2>1, <2>2 DEF IsFreed, NoLeak, Keeps
  <2> QED BY <2>3, <2>4 DEF IInv
<1>6. CASE UNCHANGED vars
  BY <1>6 DEF vars, IInv, TypeOK, Tiled, Disjoint, NoFreeNeighbours, NoLeak, Keeps
<1> QED BY <1>2, <1>3, <1>4, <1>5, <1>6 DEF Next

\* The single free block of kheap_init satisfies the invariant.
LEMMA InitInv == Init => IInv
<1> SUFFICES ASSUME Init PROVE IInv
  OBVIOUS
<1>1. /\ DOMAIN heap = {Start} /\ heap[Start].size = Size /\ ~heap[Start].allocated
      /\ heap[Start].prev = Nil /\ heap[Start].next = Nil
      /\ heap = [b \in DOMAIN heap |-> heap[b]] /\ heap[Start] \in Header
      /\ DOMAIN asked = {} /\ asked \in [DOMAIN asked -> Nat] /\ halt = "no"
  BY HeapAssumption DEF Init, Header, Nil, Addresses, End
<1> QED BY <1>1, HeapAssumption DEF IInv, TypeOK, HeadersOK, Tiled, Tiling, Disjoint, NoOverlap,
           NoFreeNeighbours, Merged, NoLeak, Addresses, End, Nil

\* The allocator keeps its list of blocks a tiling of the region without free
\* neighbours and without leaks, for every heap and every sequence of calls
\* (kalloc.c:43-273).
THEOREM HeapInvariant == Spec => []IInv
<1>1. IInv /\ [Next]_vars => IInv'
  BY StepInv
<1> QED BY InitInv, <1>1, PTL DEF Spec

\* The panics of heap_sanity_check never fire and no two blocks overlap.
THEOREM HeapTiled == Spec => [](Tiled /\ Disjoint)
<1>1. IInv => Tiled /\ Disjoint
  BY DEF IInv
<1> QED BY HeapInvariant, <1>1, PTL

\* kfree leaves no two free neighbours, and no block is allocated without an owner.
THEOREM HeapMerged == Spec => [](NoFreeNeighbours /\ NoLeak)
<1>1. IInv => NoFreeNeighbours /\ NoLeak
  BY DEF IInv
<1> QED BY HeapInvariant, <1>1, PTL

\* Whatever was allocated and freed in between, freeing everything gives back the
\* one block kheap_init made.
THEOREM HeapWhole == Spec => []WholeWhenEmpty
<1>1. IInv => WholeWhenEmpty
  <2> SUFFICES ASSUME IInv, DOMAIN asked = {}
               PROVE  heap = [h \in {Start} |-> [size |-> Size, allocated |-> FALSE,
                                                 prev |-> Nil, next |-> Nil]]
    BY DEF WholeWhenEmpty
  <2>1. /\ \A b \in DOMAIN heap : ~heap[b].allocated /\ b \in Nat /\ b >= Start /\ heap[b] \in Header
        /\ Start \in DOMAIN heap /\ heap[Start].prev = Nil /\ heap = [b \in DOMAIN heap |-> heap[b]]
    BY HeapAssumption DEF IInv, TypeOK, HeadersOK, NoLeak, Tiled, Tiling, Addresses, End
  <2>2. heap[Start].next = Nil
    BY <2>1 DEF IInv, NoFreeNeighbours, Merged, Tiled, Tiling
  <2>3. heap[Start].size = Size
    <3>1. heap[Start].size \in Nat
      BY <2>1 DEF Header
    <3>2. Start + heap[Start].size # End => heap[Start].next = Start + heap[Start].size
      BY <2>1 DEF IInv, Tiled, Tiling
    <3> QED BY <2>2, <3>1, <3>2, HeapAssumption DEF End, Nil
  <2>4. \A b \in DOMAIN heap : b = Start
    <3> SUFFICES ASSUME NEW b \in DOMAIN heap, b # Start PROVE FALSE
      OBVIOUS
    <3>1. b >= End
      BY <2>1, <2>3, HeapAssumption DEF IInv, Disjoint, NoOverlap, End
    <3>2. b + heap[b].size <= End /\ heap[b].size >= HDR /\ heap[b].size \in Nat
      BY <2>1, HeapAssumption DEF IInv, Tiled, Tiling, Header
    <3> QED BY <2>1, <3>1, <3>2, HeapAssumption DEF End
  <2>5. heap[Start] = [size |-> Size, allocated |-> FALSE, prev |-> Nil, next |-> Nil]
    BY <2>1, <2>2, <2>3 DEF Header
  <2> QED BY <2>1, <2>4, <2>5
<1> QED BY HeapInvariant, <1>1, PTL

\* No call moves, resizes or hands out again a block that a caller holds.
THEOREM HeapLiveBlocksKept == Spec => LiveBlocksKept
<1>1. IInv /\ [Next]_vars =>
        [\A b \in DOMAIN asked \cap DOMAIN asked' :
            heap'[b].size = heap[b].size /\ asked'[b] = asked[b]]_vars
  BY StepInv DEF Keeps
<1> QED BY HeapInvariant, <1>1, PTL DEF Spec, LiveBlocksKept

-----------------------------------------------------------------------------
(* A caller gets the bytes it asked for, if no size_t addition wraps. *)

\* A request the arithmetic of kmalloc_int can add two headers and an address to.
InRange(n) == End + 2 * HDR + PAGE + n + 3 < M

RequestsInRange ==
    /\ \A n \in Sizes \cup PageSizes : InRange(n)
    /\ \A num \in Counts, n \in Sizes : InRange(num * n)

LEMMA InRangeSums ==
    ASSUME NEW n \in Nat, InRange(n)
    PROVE  /\ n % M = n
           /\ RoundUp(n) \in n .. n + 3
           /\ (RoundUp(n) + HDR) % M = RoundUp(n) + HDR
           /\ CutPoint(RoundUp(n)) = HDR + RoundUp(n)
           /\ \A a \in 0 .. End + 2 * HDR + PAGE : (a + RoundUp(n)) % M = a + RoundUp(n)
<1>1. \A x \in 0 .. M - 1 : x % M = x
  BY HeapAssumption
<1>2. n % 4 \in 0 .. 3
  OBVIOUS
<1>3. End \in Nat /\ n + (n % 4) \in 0 .. M - 1
  BY <1>2, HeapAssumption DEF InRange, End
<1>4. RoundUp(n) = n + (n % 4)
  BY <1>1, <1>3 DEF RoundUp
<1>5. RoundUp(n) \in n .. n + 3
  BY <1>2, <1>4
<1> HIDE DEF InRange
<1>6. End + 2 * HDR + PAGE + n + 3 < M
  BY DEF InRange
<1>7. n % M = n /\ (RoundUp(n) + HDR) % M = RoundUp(n) + HDR
  BY <1>1, <1>3, <1>5, <1>6, HeapAssumption
<1>8. CutPoint(RoundUp(n)) = HDR + RoundUp(n)
  BY <1>7, <1>5, HeapAssumption DEF CutPoint
<1>9. \A a \in 0 .. End + 2 * HDR + PAGE : (a + RoundUp(n)) % M = a + RoundUp(n)
  BY <1>1, <1>3, <1>5, <1>6, HeapAssumption
<1> QED BY <1>5, <1>7, <1>8, <1>9

\* A grant of a block that holds the request keeps PayloadFits.
LEMMA GrantPayload ==
    ASSUME IInv, PayloadFits, Keeps, NEW G, IsHeap(G), NEW h \in DOMAIN G, NEW wanted \in Nat,
           h \notin DOMAIN asked, G[h].size >= HDR + wanted, Grant(G, h, wanted)
    PROVE  PayloadFits'
<1>1. IsMarked(G, h, TRUE, heap')
  BY MarkFields DEF Grant
<1>2. DOMAIN asked' = DOMAIN asked \cup {h} /\ asked'[h] = wanted
  BY DEF Grant
<1>3. heap'[h].size = G[h].size
  BY <1>1 DEF IsMarked
<1> QED BY <1>2, <1>3 DEF PayloadFits, Keeps

\* Each step hands out enough, when the requests are in range.
LEMMA StepPayload ==
    ASSUME RequestsInRange
    PROVE  IInv /\ PayloadFits /\ [Next]_vars => PayloadFits'
<1> SUFFICES ASSUME IInv, PayloadFits, [Next]_vars PROVE PayloadFits'
  OBVIOUS
<1>0. /\ Keeps /\ IsHeap(heap)
      /\ \A b \in DOMAIN heap : b \in Nat /\ b <= End /\ b \in Addresses /\ heap[b].size \in Nat
      /\ \A b \in DOMAIN heap : ~heap[b].allocated => b \notin DOMAIN asked
      /\ DOMAIN asked \subseteq DOMAIN heap
      /\ End \in Nat
  BY StepInv, HeapAssumption
     DEF IInv, TypeOK, Tiled, Disjoint, NoLeak, IsHeap, HeadersOK, Header, Addresses, End
<1>1. ASSUME NEW n \in Nat, InRange(n), Unaligned(n, n) PROVE PayloadFits'
  <2> DEFINE r == RoundUp(n)
  <2>1. PICK h \in DOMAIN heap : FirstFit(h, r) /\ TakeBlock(h, r, n)
    BY <1>1 DEF Unaligned
  <2>2. r \in Nat /\ r >= n /\ (r + HDR) % M = r + HDR /\ CutPoint(r) = HDR + r
    BY <1>1, InRangeSums
  <2> HIDE DEF r
  <2>3. ~heap[h].allocated /\ heap[h].size >= r + HDR /\ h \notin DOMAIN asked
    BY <1>0, <2>1, <2>2 DEF FirstFit, BigEnough
  <2>4. CASE Grant(heap, h, n)
    <3>1. heap[h].size >= HDR + n
      BY <1>0, <2>2, <2>3, HeapAssumption
    <3> QED BY <1>0, <2>3, <2>4, <3>1, GrantPayload
  <2>5. CASE ~CannotSplit(heap, h, CutPoint(r)) /\ Grant(split_block(heap, h, CutPoint(r)), h, n)
    <3> DEFINE G == split_block(heap, h, CutPoint(r))
    <3>1. CutPoint(r) \in Nat
      BY <2>2, CutPointType
    <3>2. IsSplit(heap, h, CutPoint(r), G) /\ IsHeap(G)
      BY <1>0, <2>5, <3>1, SplitFields, SplitHeap
    <3> HIDE DEF G
    <3>3. h \in DOMAIN G /\ G[h].size = HDR + r
      BY <2>2, <3>2 DEF IsSplit
    <3>4. G[h].size >= HDR + n
      BY <2>2, <3>3, HeapAssumption
    <3>5. Grant(G, h, n)
      BY <2>5 DEF G
    <3> QED BY <1>0, <2>3, <3>2, <3>3, <3>4, <3>5, GrantPayload
  <2> QED BY <2>1, <2>4, <2>5 DEF TakeBlock
<1>2. ASSUME NEW n \in Sizes, kmalloc(n) PROVE PayloadFits'
  <2>1. n \in Nat /\ InRange(n)
    BY HeapAssumption DEF RequestsInRange
  <2> QED BY <1>1, <1>2, <2>1 DEF kmalloc
<1>3. ASSUME NEW num \in Counts, NEW n \in Sizes, kcalloc(num, n) PROVE PayloadFits'
  <2>1. num * n \in Nat /\ InRange(num * n)
    BY HeapAssumption DEF RequestsInRange
  <2>2. (num * n) % M = num * n
    BY <2>1, InRangeSums
  <2> QED BY <1>1, <1>3, <2>1, <2>2 DEF kcalloc
<1>4. ASSUME NEW n \in PageSizes, kmalloc_a(n) PROVE PayloadFits'
  <2> DEFINE r == RoundUp(n)
  <2>0. n \in Nat /\ InRange(n)
    BY HeapAssumption DEF RequestsInRange
  <2>1. PICK h \in DOMAIN heap, a \in Int :
          /\ ~heap[h].allocated /\ IsAlignedAddr(a, h)
          /\ \/ FitsAligned(h, r, a) /\ TakeAligned(h, r, n, a)
             \/ UNCHANGED <<heap, asked>>
    BY <1>0, <1>4, HeapAssumption DEF kmalloc_a, FirstFit, BigEnough
  <2>2. /\ r \in Nat /\ r >= n /\ CutPoint(r) = HDR + r
        /\ \A x \in 0 .. End + 2 * HDR + PAGE : (x + r) % M = x + r
    BY <2>0, InRangeSums
  <2> HIDE DEF r
  <2>3. CASE UNCHANGED <<heap, asked>>
    BY <2>3 DEF PayloadFits
  <2>4. CASE Fault
    BY <2>4 DEF Fault, PayloadFits
  <2>5. CASE FitsAligned(h, r, a) /\ TakeAligned(h, r, n, a) /\ ~Fault
    <3> DEFINE dist == a - h - HDR
               new == h + dist
               H == SetAllocated(split_block(heap, h, dist), new, TRUE)
    <3>1. dist \in Nat /\ new = a - HDR /\ a \in 0 .. End + 2 * HDR + PAGE
      BY <1>0, <2>1, HeapAssumption DEF IsAlignedAddr
    <3>2. ~CannotSplit(heap, h, dist) /\ ChopExcess(H, new, r, n)
      BY <2>5 DEF TakeAligned
    <3>3. IsHeap(H) /\ IsCutAligned(h, new, H)
      BY <2>1, <3>1, <3>2, CutAligned
    <3>4. a + r <= h + heap[h].size
      BY <2>2, <2>5, <3>1 DEF FitsAligned
    <3> HIDE DEF H, dist, new
    <3>5. new \in DOMAIN H /\ new \notin DOMAIN asked /\ H[new].size = heap[h].size - (new - h)
      BY <1>0, <3>3 DEF IsCutAligned
    <3>6. H[new].size >= HDR + n
      BY <1>0, <2>0, <2>2, <3>1, <3>4, <3>5, HeapAssumption
    <3>7. CASE Grant(H, new, n)
      BY <1>0, <2>0, <3>3, <3>5, <3>6, <3>7, GrantPayload
    <3>8. CASE /\ ~CannotSplit(H, new, CutPoint(r))
               /\ Grant(SetAllocated(split_block(H, new, CutPoint(r)), new + CutPoint(r), FALSE), new, n)
      <4> DEFINE G == split_block(H, new, CutPoint(r))
                 back == new + CutPoint(r)
                 F == SetAllocated(G, back, FALSE)
      <4>1. CutPoint(r) \in Nat
        BY <2>2, CutPointType
      <4>2. IsSplit(H, new, CutPoint(r), G) /\ IsHeap(G)
        BY <3>3, <3>5, <3>8, <4>1, SplitFields, SplitHeap
      <4> HIDE DEF G
      <4>3. back \in DOMAIN G /\ new \in DOMAIN G /\ G[new].size = HDR + r
        BY <2>2, <3>5, <4>2 DEF IsSplit
      <4>4. IsMarked(G, back, FALSE, F) /\ IsHeap(F)
        BY <4>2, <4>3, MarkFields, MarkHeap
      <4>5. Grant(F, new, n)
        BY <3>8 DEF G
      <4> HIDE DEF F, back
      <4>6. new \in DOMAIN F /\ F[new].size = HDR + r
        BY <4>3, <4>4 DEF IsMarked
      <4>7. F[new].size >= HDR + n
        BY <2>0, <2>2, <4>6, HeapAssumption
      <4> QED BY <1>0, <2>0, <3>5, <4>4, <4>5, <4>6, <4>7, GrantPayload
    <3>9. CASE Fault
      BY <2>5, <3>9
    <3> QED BY <3>2, <3>7, <3>8, <3>9 DEF ChopExcess
  <2> QED BY <2>1, <2>3, <2>4, <2>5
<1>5. ASSUME NEW h \in DOMAIN asked, kfree(h) PROVE PayloadFits'
  BY <1>0, <1>5 DEF kfree, Keeps, PayloadFits
<1>6. CASE UNCHANGED vars
  BY <1>6 DEF vars, PayloadFits
<1> QED BY <1>2, <1>3, <1>4, <1>5, <1>6 DEF Next

\* Every caller gets at least the bytes it asked for, if the requests are small enough
\* for kmalloc_int's unsigned sums not to wrap.
THEOREM HeapPayloadFits ==
    ASSUME RequestsInRange
    PROVE  Spec => []PayloadFits
<1>1. Init => PayloadFits
  BY DEF Init, PayloadFits
<1>2. IInv /\ PayloadFits /\ [Next]_vars => PayloadFits'
  BY StepPayload
<1> QED BY HeapInvariant, <1>1, <1>2, PTL DEF Spec
=============================================================================
