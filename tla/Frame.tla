-------------------------------- MODULE Frame --------------------------------
(***************************************************************************)
(* The physical frame allocator of arch/i386/frame.c: a bitmap of used     *)
(* frames and three counters, set up from the boot loader's memory map.    *)
(***************************************************************************)
EXTENDS Integers, FiniteSets

CONSTANTS
    FRAME_SIZE,
    Frames,      \* frames the bitmap has a bit for
    M,           \* 2^32, the modulus of phys_addr and size_t
    Maps,        \* the memory maps a machine may have: sets of [addr, len], the available ones
    KERNEL_PMA,  \* where the kernel is loaded
    KERNEL_SIZE

ASSUME FrameAssumption ==
    /\ FRAME_SIZE \in Nat \ {0} /\ Frames \in Nat \ {0} /\ M \in Nat \ {0}
    /\ M <= Frames * FRAME_SIZE
    /\ KERNEL_PMA \in Nat /\ KERNEL_SIZE \in Nat \ {0}
    /\ \A map \in Maps : \A r \in map : r.addr \in 0 .. M - 1 /\ r.len \in 1 .. M

VARIABLES
    used,        \* frame_bitmap: the frames whose bit is set
    num_total,   \* _num_total_frames
    num_free,    \* _num_free_frames
    num_used,    \* _num_used_frames
    memory,      \* the map the machine booted with
    booted,      \* frame_init has run
    held         \* ghost: the frames alloc_frame has given out

frameVars == <<used, num_total, num_free, num_used, memory, booted, held>>

AllFrames == 0 .. Frames - 1

\* The frames the for loops of free_region and reserve_region run over.
Span(addr, size) == (addr \div FRAME_SIZE) .. (((addr + size - 1) % M) \div FRAME_SIZE)

\* The frames free_region frees: those in use, and never frame 0.
free_region(u, addr, size) == {i \in Span(addr, size) : i # 0 /\ i \in u}

\* The frames reserve_region counts out: those in use already.
reserve_region(u, addr, size) == {i \in Span(addr, size) : i \in u}

\* Everything free_region frees in one pass over the map: mmap->addr + mmap->len - 1
\* is passed for the size.
Freed(map) == UNION {free_region(AllFrames, r.addr, (r.addr + r.len - 1) % M) : r \in map}

FrameInit ==
    /\ used = AllFrames
    /\ num_total = 0 /\ num_free = 0 /\ num_used = 0
    /\ memory \in Maps
    /\ booted = FALSE
    /\ held = {}

frame_init ==
    LET freed == Freed(memory)
        reserved == reserve_region(AllFrames \ freed, KERNEL_PMA, KERNEL_SIZE)
    IN  /\ ~booted
        /\ booted' = TRUE
        /\ used' = (AllFrames \ freed) \cup reserved
        /\ num_free' = (Cardinality(freed) - Cardinality(reserved)) % M
        /\ num_total' = (Cardinality(freed) - Cardinality(reserved)) % M
        /\ UNCHANGED <<num_used, memory, held>>

\* Mutant: the bit of the frame is not set.
MutAllocFrame(b) ==
    /\ booted
    /\ b \in AllFrames \ used
    /\ \A i \in AllFrames \ used : b <= i
    /\ num_used' = (num_used + 1) % M
    /\ num_free' = (num_free - 1) % M
    /\ held' = held \cup {b}
    /\ UNCHANGED <<used, num_total, memory, booted>>

\* The free frame with the lowest number; with none it returns 0 and changes nothing.
alloc_frame(b) ==
    /\ booted
    /\ b \in AllFrames \ used
    /\ \A i \in AllFrames \ used : b <= i
    /\ used' = used \cup {b}
    /\ num_used' = (num_used + 1) % M
    /\ num_free' = (num_free - 1) % M
    /\ held' = held \cup {b}
    /\ UNCHANGED <<num_total, memory, booted>>

free_frame(b) ==
    /\ b \in held
    /\ b # 0 /\ b \in used
    /\ used' = used \ {b}
    /\ num_used' = (num_used - 1) % M
    /\ num_free' = (num_free + 1) % M
    /\ held' = held \ {b}
    /\ UNCHANGED <<num_total, memory, booted>>

-----------------------------------------------------------------------------
(* Properties *)

\* No frame has two owners: a frame that is held is marked used, so alloc_frame passes
\* over it until free_frame; and frame 0, whose address means failure, is never held.
HeldOnce == held \subseteq used /\ 0 \notin held

\* frame.c:111, "make sure the kernel's physical location is reserved".
KernelReserved == booted => Span(KERNEL_PMA, KERNEL_SIZE) \subseteq used \ held

\* The frames that lie inside an available region of the map.
Available(map) == UNION {Span(r.addr, r.len) : r \in map}

\* frame.c:102, "mark regions labeled \"available\" as free for use": and no others.
OnlyAvailable == booted => AllFrames \ used \subseteq Available(memory)
=============================================================================
