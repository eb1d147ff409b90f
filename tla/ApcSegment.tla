----------------------------- MODULE ApcSegment -----------------------------
(***************************************************************************)
(* One shared-memory segment of APCu's allocator (apc_sma.c): the header   *)
(* word avail, and the boundary tags of the blocks that tile the segment.  *)
(* Offsets and sizes are counted in machine words.  A segment is a record  *)
(* of the four tag fields of block_t, each a function of the offset of the *)
(* block, and of avail.  What sma_allocate and sma_deallocate do to a      *)
(* segment is given as operators, because each runs whole under the lock   *)
(* of the segment.                                                         *)
(***************************************************************************)
EXTENDS Integers

CONSTANTS HDR,      \* ALIGNWORD(sizeof(sma_header_t))
          BLK,      \* ALIGNWORD(sizeof(block_t))
          SEGSIZE   \* size of a segment

ASSUME SegmentAssumption ==
    /\ HDR \in Nat \ {0} /\ BLK \in Nat \ {0} /\ SEGSIZE \in Nat
    /\ SEGSIZE >= HDR + 4 * BLK

\* ALIGNWORD(1) is one word.
MINBLOCKSIZE == 1 + BLK

\* The two sentinels: first is the head of the free list, last its end.
First == HDR
Last  == SEGSIZE - 2 * BLK
Off   == First .. Last

\* The words of a header that was absorbed by a neighbour belong to some
\* block's payload: no code may take them for a tag again.
Junk == -1

Segment == [size : [Off -> Nat \cup {Junk}], prev_size : [Off -> Nat \cup {Junk}],
            fnext : [Off -> Nat \cup {Junk}], fprev : [Off -> Nat \cup {Junk}],
            avail : Int]

Headers(s) == {h \in Off : s.size[h] # Junk}
Blocks(s)  == Headers(s) \ {First, Last}
Free(s)    == {h \in Blocks(s) : s.fnext[h] # 0}
Busy(s)    == {h \in Blocks(s) : s.fnext[h] = 0}

\* The words of the blocks of a set.
Words(s, B) == UNION {h .. (h + s.size[h] - 1) : h \in B}

\* apc_sma_api_init: one free block between the sentinels.
InitSegment ==
    LET empty == First + BLK
        Tag(a, b, c) == [h \in Off |-> IF h = First THEN a ELSE IF h = empty THEN b
                                       ELSE IF h = Last THEN c ELSE Junk]
        avail == SEGSIZE - HDR - 2 * BLK
    IN  [size      |-> Tag(0, avail - BLK, 0),
         prev_size |-> Tag(0, 0, avail - BLK),
         fnext     |-> Tag(empty, Last, 0),
         fprev     |-> Tag(0, First, empty),
         avail     |-> avail]

\* Plausible bugs of the operators below, each defined ahead of the operator
\* whose place it takes when a run is tried against it.
RealSize_NoHeader(n) == n

\* realsize: the payload and its tag.
RealSize(n) == n + BLK

\* The search refuses a block of exactly the size needed.
WalkEnd_Strict(s, r) ==
    LET walk[p \in Headers(s)] == IF s.fnext[p] = 0 \/ s.size[s.fnext[p]] > r
                           THEN p ELSE walk[s.fnext[p]]
    IN  walk[First]

\* The search loop of sma_allocate: where the walk down the free list stops,
\* and, when it stops because of a fit, the block before that fit.
WalkEnd(s, r) ==
    LET walk[p \in Headers(s)] == IF s.fnext[p] = 0 \/ s.size[s.fnext[p]] >= r
                           THEN p ELSE walk[s.fnext[p]]
    IN  walk[First]

PrvNextFit(s, r) ==
    {p \in Headers(s) : /\ s.avail >= r
                        /\ s.fnext[p] # 0 /\ s.size[s.fnext[p]] >= r
                        /\ p = WalkEnd(s, r)}

\* sma_allocate, the block is too small to be split: unlink it.
TakeWhole(s, prv) ==
    LET cur == s.fnext[prv]
    IN  [size      |-> s.size,
         prev_size |-> [s.prev_size EXCEPT ![cur + s.size[cur]] = 0],
         fnext     |-> [s.fnext EXCEPT ![prv] = s.fnext[cur], ![cur] = 0],
         fprev     |-> [s.fprev EXCEPT ![s.fnext[cur]] = prv],
         avail     |-> s.avail - s.size[cur]]

\* The size of the block handed out is not reduced.
Split_KeepsSize(s, prv, r) ==
    LET cur  == s.fnext[prv]
        nxt  == cur + r
        rest == s.size[cur] - r
    IN  [size      |-> [s.size EXCEPT ![nxt] = rest],
         prev_size |-> [s.prev_size EXCEPT ![nxt] = 0, ![nxt + rest] = rest],
         fnext     |-> [s.fnext EXCEPT ![nxt] = s.fnext[cur], ![s.fprev[cur]] = nxt, ![cur] = 0],
         fprev     |-> [s.fprev EXCEPT ![nxt] = s.fprev[cur], ![s.fnext[cur]] = nxt],
         avail     |-> s.avail - r]

\* The block after the tail keeps the mark of the block before the split.
Split_StaleMark(s, prv, r) ==
    LET cur  == s.fnext[prv]
        nxt  == cur + r
        rest == s.size[cur] - r
    IN  [size      |-> [s.size EXCEPT ![cur] = r, ![nxt] = rest],
         prev_size |-> [s.prev_size EXCEPT ![nxt] = 0],
         fnext     |-> [s.fnext EXCEPT ![nxt] = s.fnext[cur], ![s.fprev[cur]] = nxt, ![cur] = 0],
         fprev     |-> [s.fprev EXCEPT ![nxt] = s.fprev[cur], ![s.fnext[cur]] = nxt],
         avail     |-> s.avail - r]

\* sma_allocate, the block is split: its tail replaces it in the free list.
Split(s, prv, r) ==
    LET cur  == s.fnext[prv]
        nxt  == cur + r
        rest == s.size[cur] - r
    IN  [size      |-> [s.size EXCEPT ![cur] = r, ![nxt] = rest],
         prev_size |-> [s.prev_size EXCEPT ![nxt] = 0, ![nxt + rest] = rest],
         fnext     |-> [s.fnext EXCEPT ![nxt] = s.fnext[cur], ![s.fprev[cur]] = nxt, ![cur] = 0],
         fprev     |-> [s.fprev EXCEPT ![nxt] = s.fprev[cur], ![s.fnext[cur]] = nxt],
         avail     |-> s.avail - r]

\* sma_allocate once it has found a fit; the block handed out is s.fnext[prv].
SmaAllocate(s, prv, r, fragment) ==
    IF s.size[s.fnext[prv]] < r + MINBLOCKSIZE + fragment
    THEN TakeWhole(s, prv)
    ELSE Split(s, prv, r)

\* The parts of sma_deallocate, in its order.  Unlink takes b off the free list.
Unlink(s, b) ==
    [size      |-> s.size,
     prev_size |-> s.prev_size,
     fnext     |-> [s.fnext EXCEPT ![s.fprev[b]] = s.fnext[b]],
     fprev     |-> [s.fprev EXCEPT ![s.fnext[b]] = s.fprev[b]],
     avail     |-> s.avail]

\* Block b takes in nxt, the block that follows it.
Absorb(s, b, nxt) ==
    [size      |-> [s.size EXCEPT ![b] = s.size[b] + s.size[nxt], ![nxt] = Junk],
     prev_size |-> [s.prev_size EXCEPT ![nxt] = Junk],
     fnext     |-> [s.fnext EXCEPT ![nxt] = Junk],
     fprev     |-> [s.fprev EXCEPT ![nxt] = Junk],
     avail     |-> s.avail]

JoinPrevious(s, cur) ==
    LET prv == cur - s.prev_size[cur]
    IN  IF s.prev_size[cur] # 0 THEN Absorb(Unlink(s, prv), prv, cur) ELSE s

JoinNext(s, cur) ==
    LET nxt == cur + s.size[cur]
    IN  IF s.fnext[nxt] # 0 THEN Absorb(Unlink(s, nxt), cur, nxt) ELSE s

\* The joined block goes to the head of the free list.
PushFree(s, cur) ==
    [size      |-> s.size,
     prev_size |-> [s.prev_size EXCEPT ![cur + s.size[cur]] = s.size[cur]],
     fnext     |-> [s.fnext EXCEPT ![cur] = s.fnext[First], ![First] = cur],
     fprev     |-> [s.fprev EXCEPT ![cur] = First, ![s.fnext[First]] = cur],
     avail     |-> s.avail]

Credit(s, n) == [size |-> s.size, prev_size |-> s.prev_size, fnext |-> s.fnext,
                 fprev |-> s.fprev, avail |-> s.avail + n]

\* The counter is updated after the join, with the size of the joined block.
SmaDeallocate_CountsLate(s, cur) ==
    LET base == cur - s.prev_size[cur]
        u    == JoinNext(JoinPrevious(s, cur), base)
    IN  PushFree(Credit(u, u.size[base]), base)

\* The block before is never joined.
SmaDeallocate_NoJoin(s, cur) == PushFree(JoinNext(Credit(s, s.size[cur]), cur), cur)

SmaDeallocate(s, cur) ==
    LET base == cur - s.prev_size[cur]
    IN  PushFree(JoinNext(JoinPrevious(Credit(s, s.size[cur]), cur), base), base)

(***************************************************************************)
(* What makes a segment well formed.                                       *)
(***************************************************************************)

\* The blocks tile the segment between the sentinels: each one ends where the
\* next begins, and no header lies inside a block.
Tiled(s) ==
    /\ {First, First + BLK, Last} \subseteq Headers(s)
    /\ s.size[First] = 0 /\ s.size[Last] = 0
    /\ \A h \in Headers(s) : h = First \/ h >= First + BLK
    /\ \A h \in Blocks(s) :
         /\ s.size[h] >= BLK
         /\ h + s.size[h] \in Headers(s)
         /\ \A g \in Headers(s) : g <= h \/ g >= h + s.size[h]

\* prev_size names the preceding block exactly when that block is free (the
\* assertion of sma_deallocate is an instance of it).
Marked(s) ==
    /\ s.prev_size[First + BLK] = 0
    /\ \A h \in Blocks(s) :
         s.prev_size[h + s.size[h]] = IF s.fnext[h] = 0 THEN 0 ELSE s.size[h]
    /\ \A h \in Headers(s) \ {First} :
         s.prev_size[h] # 0 =>
             /\ h - s.prev_size[h] \in Free(s)
             /\ s.size[h - s.prev_size[h]] = s.prev_size[h]

\* fnext and fprev are each other's inverse on the sentinels and free blocks.
Linked(s) ==
    /\ s.fnext[First] # 0 /\ s.fnext[Last] = 0
    /\ \A h \in Free(s) \cup {First} :
         s.fnext[h] \in Free(s) \cup {Last} /\ s.fprev[s.fnext[h]] = h
    /\ \A h \in Free(s) \cup {Last} :
         s.fprev[h] \in Free(s) \cup {First} /\ s.fnext[s.fprev[h]] = h

\* Two adjacent blocks are never both free.
Coalesced(s) == \A h \in Free(s) : s.fnext[h + s.size[h]] = 0

WellFormed(s) == Tiled(s) /\ Marked(s) /\ Linked(s) /\ Coalesced(s)
=============================================================================
