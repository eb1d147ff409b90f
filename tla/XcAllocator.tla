----------------------------- MODULE XcAllocator -----------------------------
(***************************************************************************)
(* XCache's allocator (xcache/xc_allocator_bestfit.c) over one arena of    *)
(* words: the free blocks are kept in a list ordered by address, a request *)
(* takes the best fit, and a freed block is joined with its neighbours.    *)
(*                                                                         *)
(* A heap is a record: the free blocks (a set, their order in the list is  *)
(* the order of their addresses), the blocks in use, whose headers keep    *)
(* their size, and the counter avail. An address is that of the block, and *)
(* the caller's pointer is HDR words after it.                             *)
(***************************************************************************)
EXTENDS Integers, FiniteSets

CONSTANTS HDR,    \* BLOCK_HEADER_SIZE(), in words
          BLK,    \* sizeof(xc_allocator_bestfit_block_t), in words
          Arena   \* the words from the first block to the end of the arena

ASSUME HeapAssumption == HDR \in Nat \ {0} /\ BLK \in Nat \ {0} /\ Arena \in Nat /\ 2 * BLK <= Arena

Limit == Arena - BLK   \* init leaves the size of one block unused at the end

\* A block can at any time be linked into the list of free ones.
Block == [at : 0 .. Limit, size : BLK .. Limit]

End(b) == b.at + b.size

First(B) == CHOOSE b \in B : \A c \in B : b.at <= c.at

InitHeap == [free |-> {[at |-> 0, size |-> Limit]}, busy |-> {}, avail |-> Limit]

(***************************************************************************)
(* xc_allocator_bestfit_malloc: real is the size with the header. The walk *)
(* stops at the first perfect fit; else it keeps the smallest of the       *)
(* blocks that leave more than a block behind, and of those the first.     *)
(***************************************************************************)
Perfect(h, real) == {b \in h.free : b.size = real}

\* The header of the block is not counted.
Splittable_NoHeader(h, real) == {b \in h.free : b.size > BLK + real - 2 * HDR}

\* What is left may be too small for a block.
Splittable_AnyRest(h, real) == {b \in h.free : b.size >= real}

Splittable(h, real) == {b \in h.free : b.size > BLK + real}

Smallest(B) == {b \in B : \A c \in B : b.size <= c.size}

Fit(h, real) == IF Perfect(h, real) # {} THEN Perfect(h, real)
                                         ELSE Smallest(Splittable(h, real))

CanMalloc(h, real) == h.avail >= real /\ Fit(h, real) # {}

Found(h, real) == First(Fit(h, real))

Rest(b, real) == IF b.size = real THEN {} ELSE {[at |-> b.at + real, size |-> b.size - real]}

Malloc(h, real) ==
    LET b == Found(h, real)
    IN  [free  |-> (h.free \ {b}) \cup Rest(b, real),
         busy  |-> h.busy \cup {[at |-> b.at, size |-> real]},
         avail |-> h.avail - real]

(***************************************************************************)
(* xc_allocator_bestfit_free: cur goes behind the last free block below it *)
(* and is joined with that one, and then with the one that follows, when   *)
(* they touch.                                                             *)
(***************************************************************************)
BlockAt(h, a) == CHOOSE b \in h.busy : b.at = a

Before(h, cur) == {b \in h.free : /\ b.at < cur.at /\ End(b) = cur.at
                                  /\ \A c \in h.free : c.at < cur.at => c.at <= b.at}

After(h, cur) == {b \in h.free : /\ b.at > cur.at /\ b.at = End(cur)
                                 /\ \A c \in h.free : c.at > cur.at => c.at >= b.at}

Merged(h, cur) == Before(h, cur) \cup {cur} \cup After(h, cur)

\* The block and the neighbours it is joined with make one.
Joined(B) == LET lo == First(B)
                 hi == CHOOSE b \in B : \A c \in B : c.at <= b.at
             IN  [at |-> lo.at, size |-> End(hi) - lo.at]

\* The block above is left alone.
Free_KeepsNext(h, a) ==
    LET cur == BlockAt(h, a)
        B   == Before(h, cur) \cup {cur}
    IN  [free |-> (h.free \ B) \cup {Joined(B)}, busy |-> h.busy \ {cur}, avail |-> h.avail + cur.size]

Free(h, a) ==
    LET cur == BlockAt(h, a)
        B   == Merged(h, cur)
    IN  [free |-> (h.free \ B) \cup {Joined(B)}, busy |-> h.busy \ {cur}, avail |-> h.avail + cur.size]
-----------------------------------------------------------------------------
(***************************************************************************)
(* What malloc and free preserve.                                          *)
(***************************************************************************)
Words(B) == UNION {b.at .. End(b) - 1 : b \in B}

Apart(b, c) == End(b) <= c.at \/ End(c) <= b.at

Blocks(h) == h.free \cup h.busy

\* Blocks never overlap, lie inside the arena, leave out no word of it and can
\* hold a header, and no two free ones touch.
Laid(h) ==
    /\ Blocks(h) \subseteq Block /\ h.free \cap h.busy = {}
    /\ \A b \in Blocks(h) : End(b) <= Limit
    /\ \A b, c \in Blocks(h) : b # c => Apart(b, c)
    /\ \A w \in 0 .. Limit - 1 : \E b \in Blocks(h) : b.at <= w /\ w < End(b)
    /\ \A b, c \in h.free : End(b) # c.at

\* ... and avail is what is free.
Sound(h) == Laid(h) /\ h.avail = Limit - Cardinality(Words(h.busy))
=============================================================================
