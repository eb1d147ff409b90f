------------------------------- MODULE ApcSma -------------------------------
(***************************************************************************)
(* APCu's shared-memory allocator (apc_sma.c) as the processes of a server *)
(* use it: a call of apc_sma_api_malloc_ex tries the segment that served   *)
(* the process last, then every other one, lets the cache expunge entries  *)
(* after each failure, and starts over once before it gives up.  The lock  *)
(* of a segment is held for one allocation or one deallocation and never   *)
(* while the expunge callback runs, so each critical section is one step.  *)
(***************************************************************************)
EXTENDS ApcSegment, FiniteSets

CONSTANTS Procs,     \* processes that share the segments
          NumSeg,    \* sma->num
          Requests   \* <<n, fragment>> of the calls that are made

ASSUME SmaAssumption == /\ NumSeg \in Nat \ {0}
                        /\ Requests \subseteq Nat \X Nat

Segs == 0 .. NumSeg - 1

VARIABLES
    seg,    \* the segments, in shared memory
    last,   \* sma->last of each process
    call,   \* the call of malloc_ex each process is in
    live    \* the blocks handed out and not yet freed, with the size asked for

vars == <<seg, last, call, live>>

PCs == {"idle", "try", "expunge", "retry", "nuke"}

Call == [pc : PCs, n : Nat, fragment : Nat, i : Segs, nuked : BOOLEAN]

Idle == [pc |-> "idle", n |-> 0, fragment |-> 0, i |-> 0, nuked |-> FALSE]

TypeOK ==
    /\ seg \in [Segs -> Segment]
    /\ last \in [Procs -> Segs]
    /\ call \in [Procs -> Call]
    /\ live \subseteq [seg : Segs, off : Off, n : Nat]

Init == /\ seg = [i \in Segs |-> InitSegment]
        /\ last = [p \in Procs |-> 0]
        /\ call = [p \in Procs |-> Idle]
        /\ live = {}

\* A process enters apc_sma_api_malloc_ex.
Malloc(p) ==
    /\ call[p].pc = "idle"
    /\ \E q \in Requests :
         call' = [call EXCEPT ![p] = [pc |-> "try", n |-> q[1], fragment |-> q[2],
                                      i |-> last[p], nuked |-> FALSE]]
    /\ UNCHANGED <<seg, last, live>>

\* sma_allocate succeeds on segment i: the call returns the block.
Allocate(p) ==
    LET c == call[p]
        i == c.i
    IN  /\ c.pc \in {"try", "retry"}
        /\ \E prv \in PrvNextFit(seg[i], RealSize(c.n)) :
             /\ seg' = [seg EXCEPT ![i] = SmaAllocate(@, prv, RealSize(c.n), c.fragment)]
             /\ live' = live \cup {[seg |-> i, off |-> seg[i].fnext[prv], n |-> c.n]}
        /\ last' = [last EXCEPT ![p] = i]
        /\ call' = [call EXCEPT ![p] = Idle]

\* sma_allocate fails for the first time: the lock is dropped for the callback.
TryFails(p) ==
    /\ call[p].pc = "try"
    /\ PrvNextFit(seg[call[p].i], RealSize(call[p].n)) = {}
    /\ call' = [call EXCEPT ![p].pc = "expunge"]
    /\ UNCHANGED <<seg, last, live>>

\* The loop runs to i <= sma->num.
Untried_OffByOne(p) == {j \in 0 .. NumSeg : j # last[p] /\ (call[p].i = last[p] \/ j > call[p].i)}

\* The segments the loop of malloc_ex has still to visit.
Untried(p) == {j \in Segs : j # last[p] /\ (call[p].i = last[p] \/ j > call[p].i)}

\* sma_allocate fails again: on to the next segment, or start over, or give up.
RetryFails(p) ==
    /\ call[p].pc = "retry"
    /\ PrvNextFit(seg[call[p].i], RealSize(call[p].n)) = {}
    /\ \/ \E j \in Untried(p) :
            /\ \A k \in Untried(p) : j <= k
            /\ call' = [call EXCEPT ![p].pc = "try", ![p].i = j]
       \/ /\ Untried(p) = {} /\ ~call[p].nuked
          /\ call' = [call EXCEPT ![p].pc = "nuke"]
       \/ /\ Untried(p) = {} /\ call[p].nuked
          /\ call' = [call EXCEPT ![p] = Idle]
    /\ UNCHANGED <<seg, last, live>>

\* apc_sma_api_free, called by the process itself or from the callback.
FreeBlock(b) ==
    /\ seg' = [seg EXCEPT ![b.seg] = SmaDeallocate(@, b.off)]
    /\ live' = live \ {b}

FreeOne(p) ==
    /\ call[p].pc = "idle"
    /\ \E b \in live : FreeBlock(b)
    /\ UNCHANGED <<last, call>>

\* apc_sma_api_realloc: the old block is gone before the new one is asked for.
Realloc(p) ==
    /\ call[p].pc = "idle"
    /\ \E b \in live : FreeBlock(b)
    /\ \E q \in Requests :
         call' = [call EXCEPT ![p] = [pc |-> "try", n |-> q[1], fragment |-> MINBLOCKSIZE,
                                      i |-> last[p], nuked |-> FALSE]]
    /\ UNCHANGED last

\* The callback sma->expunge frees whatever blocks it likes, then returns.
Expunge(p) ==
    /\ call[p].pc \in {"expunge", "nuke"}
    /\ \E b \in live : FreeBlock(b)
    /\ UNCHANGED <<last, call>>

\* The restart is not remembered.
ExpungeReturns_NotNuked(p) ==
    /\ call[p].pc \in {"expunge", "nuke"}
    /\ call' = IF call[p].pc = "expunge"
               THEN [call EXCEPT ![p].pc = "retry"]
               ELSE [call EXCEPT ![p].pc = "try", ![p].i = last[p]]
    /\ UNCHANGED <<seg, last, live>>

ExpungeReturns(p) ==
    /\ call[p].pc \in {"expunge", "nuke"}
    /\ call' = IF call[p].pc = "expunge"
               THEN [call EXCEPT ![p].pc = "retry"]
               ELSE [call EXCEPT ![p].pc = "try", ![p].i = last[p], ![p].nuked = TRUE]
    /\ UNCHANGED <<seg, last, live>>

\* The steps a call takes by itself once it was made.
Proceed(p) == Allocate(p) \/ TryFails(p) \/ RetryFails(p) \/ ExpungeReturns(p)

Next == \E p \in Procs : Malloc(p) \/ FreeOne(p) \/ Realloc(p) \/ Expunge(p) \/ Proceed(p)

Spec == Init /\ [][Next]_vars

\* A process in malloc_ex keeps running, and the callback returns.
FairSpec == Spec /\ \A p \in Procs : WF_vars(Proceed(p))

-----------------------------------------------------------------------------
(***************************************************************************)
(* Properties.                                                             *)
(***************************************************************************)

\* After any sequence of calls the boundary tags of every segment agree with
\* one another: the blocks tile the segment, prev_size marks exactly the free
\* neighbours, the free list is consistent both ways and no two free blocks
\* are adjacent (sma_allocate, sma_deallocate).
SegmentsWellFormed == \A i \in Segs : WellFormed(seg[i])

\* The busy blocks are exactly those some caller holds, and each is as large
\* as its caller asked for: no block is lost, handed out twice, or short.
LiveAreBusy ==
    /\ \A i \in Segs : Busy(seg[i]) = {b.off : b \in {c \in live : c.seg = i}}
    /\ \A b \in live : b.n <= seg[b.seg].size[b.off] - BLK
    /\ \A b, c \in live : (b.seg = c.seg /\ b.off = c.off) => b = c

\* The counter in the header never drifts: it is the words of the free blocks,
\* and one block header more (apc_sma_api_init counts it), so that what a
\* sequence of splits and joins adds and subtracts always balances.
AvailBalances == \A i \in Segs : seg[i].avail = BLK + Cardinality(Words(seg[i], Free(seg[i])))

\* The test that opens sma_allocate insures "that the segment contains at
\* least realsize free bytes, even if they are not contiguous".
AvailTestInsures ==
    \A i \in Segs : \A r \in 0 .. SEGSIZE :
        seg[i].avail >= r => Cardinality(Words(seg[i], Free(seg[i]))) >= r

\* A request that some free block can hold is never refused, wherever the
\* block stands in the free list and whatever the header counter says.
NeverRefusesFit ==
    \A i \in Segs : \A h \in Free(seg[i]) : PrvNextFit(seg[i], seg[i].size[h]) # {}

\* When every block of a segment was freed, in whatever order, the segment is
\* one free block again: fragmentation does not outlive the blocks.
EmptyIsWhole ==
    \A i \in Segs : Busy(seg[i]) = {} => seg[i].size = InitSegment.size

\* Every call of malloc_ex comes to an end, with a block or without: the
\* restart is taken once.
CallsReturn == \A p \in Procs : call[p].pc # "idle" ~> call[p].pc = "idle"

\* The allocator implements the abstract one: the region of a busy block is
\* its payload.
Payload(i, h) == [seg |-> i, lo |-> h + BLK, hi |-> h + seg[i].size[h]]

BusyRegions == UNION {{Payload(i, h) : h \in Busy(seg[i])} : i \in Segs}

Abstract == INSTANCE Allocator WITH Lo <- First + 2 * BLK, Hi <- Last,
                                    regions <- BusyRegions

\* Each step hands out one region that overlaps none in use, takes one back,
\* or leaves all callers' regions as they are.
ImplementsAllocator == Abstract!Spec
=============================================================================
