---------------------------- MODULE SwRingBuffer ----------------------------
(***************************************************************************)
(* swoole's ring buffer (src/memory/RingBuffer.c) as the server uses it    *)
(* when it is built with SW_USE_RINGBUFFER: one reactor thread copies each *)
(* package it has read into the ring and sends its address to a worker     *)
(* process, and the worker frees it. Only the reactor thread moves the     *)
(* offsets; a free clears the lock of an item and then counts it, in two   *)
(* steps, without any lock.                                                *)
(***************************************************************************)
EXTENDS Integers, FiniteSets

CONSTANTS HDR,        \* sizeof(swRingBuffer_item), in words
          Size,       \* object->size, in words
          Lengths,    \* the lengths of packages, in words
          Workers,    \* how many workers may be inside a free at once
          MaxLost     \* how many packages or counts are lost

ASSUME RingAssumption == /\ HDR \in Nat \ {0} /\ Size \in Nat /\ HDR <= Size
                         /\ Lengths \subseteq Nat \ {0}
                         /\ Workers \in Nat /\ MaxLost \in Nat

VARIABLES
    alloc_offset, collect_offset, status, free_count,  \* swRingBuffer
    items,      \* the headers not collected: offset -> [lock, length]
    pc, size, count, ptr,  \* the reactor thread: where it is, what it asks for,
                \* how many items it may still collect, the item it got
    held,       \* the items on their way to a worker, or being read by it
    pending,    \* how many frees have cleared the lock and not counted yet
    lost, uncounted  \* items, and counts, that nobody will return

ring    == <<alloc_offset, collect_offset, status, free_count, items>>
reactor == <<pc, size, count, ptr>>
workers == <<held, pending, lost, uncounted>>
vars    == <<ring, reactor, workers>>

End(o) == o + HDR + items[o].length

\* The memory of the pool is zeroed, and no item is allocated.
Init == /\ alloc_offset = 0 /\ collect_offset = 0 /\ status = 0 /\ free_count = 0
        /\ items = << >>
        /\ pc = "idle" /\ size = 0 /\ count = 0 /\ ptr = 0
        /\ held = {} /\ pending = 0 /\ lost = {} /\ uncounted = 0

(***************************************************************************)
(* The reactor thread allocates, and tries again until it gets the memory. *)
(***************************************************************************)
\* swReactorThread_dispatch has read a package of n words.
Request(n) == /\ pc = "idle"
              /\ pc' = "ask" /\ size' = n
              /\ UNCHANGED <<ring, count, ptr, workers>>

\* swRingBuffer_alloc collects only when something was freed, and collect
\* reads the counter once.
Ask == /\ pc = "ask"
       /\ IF free_count > 0 THEN pc' = "collect" /\ count' = free_count
                            ELSE pc' = "place" /\ count' = 0
       /\ UNCHANGED <<ring, size, ptr, workers>>

\* The counter alone decides what is collected.
Unlocked_Trusted == TRUE

\* The loop of swRingBuffer_collect stops at an item that is still in use.
Unlocked == items[collect_offset].lock = 0

\* One turn of that loop.
Collect ==
    /\ pc = "collect" /\ count > 0 /\ Unlocked
    /\ LET next == End(collect_offset)
       IN  IF next + HDR > Size
             THEN collect_offset' = 0 /\ status' = 0
             ELSE collect_offset' = next /\ UNCHANGED status
    /\ items' = [o \in DOMAIN items \ {collect_offset} |-> items[o]]
    /\ free_count' = free_count - 1 /\ count' = count - 1
    /\ UNCHANGED <<alloc_offset, pc, size, ptr, workers>>

CollectEnds == /\ pc = "collect"
               /\ count > 0 => ~Unlocked
               /\ pc' = "place" /\ count' = 0
               /\ UNCHANGED <<ring, size, ptr, workers>>

\* No room is kept for the header that will fill the rest.
Wraps_Late == status = 0 /\ alloc_offset + HDR + size > Size

\* At the end of the memory: an item that nobody holds fills what is left.
Wraps == status = 0 /\ alloc_offset + HDR + size >= Size - HDR

Left == Size - alloc_offset

Skips == Wraps /\ Left >= HDR

Skipped == IF Skips THEN [o \in DOMAIN items \cup {alloc_offset} |->
                            IF o = alloc_offset THEN [lock |-> 0, length |-> Left - HDR]
                                                ELSE items[o]]
                    ELSE items

At == IF Wraps THEN 0 ELSE alloc_offset

Capacity == IF status = 0 /\ ~Wraps THEN Left ELSE collect_offset - At

\* The header of the new item is not counted.
Fits_NoHeader == Capacity >= size

Fits == Capacity >= HDR + size

\* The rest of swRingBuffer_alloc. A refusal keeps the wrap it has made.
Place ==
    /\ pc = "place"
    /\ free_count' = IF Skips THEN free_count + 1 ELSE free_count
    /\ status' = IF Wraps THEN 1 ELSE status
    /\ IF Fits
         THEN /\ items' = [o \in DOMAIN Skipped \cup {At} |->
                             IF o = At THEN [lock |-> 1, length |-> size] ELSE Skipped[o]]
              /\ alloc_offset' = At + HDR + size
              /\ pc' = "dispatch" /\ ptr' = At
         ELSE /\ items' = Skipped /\ alloc_offset' = At
              /\ pc' = "ask" /\ UNCHANGED ptr
    /\ UNCHANGED <<collect_offset, size, count, workers>>

\* factory->dispatch wrote the address to the pipe of a worker, or queued it.
Send == /\ pc = "dispatch" /\ pc' = "idle" /\ held' = held \cup {ptr}
        /\ UNCHANGED <<ring, size, count, ptr, pending, lost, uncounted>>

\* factory->dispatch returns SW_OK without sending: the connection is closed
\* by the server, or no worker was chosen. Nobody frees the package.
Discard == /\ pc = "dispatch" /\ Cardinality(lost) + uncounted < MaxLost
           /\ pc' = "idle" /\ lost' = lost \cup {ptr}
           /\ UNCHANGED <<ring, size, count, ptr, held, pending, uncounted>>

\* factory->dispatch failed: swReactorThread_dispatch frees the package itself.
Refuse == /\ pc = "dispatch" /\ pc' = "refused"
          /\ items' = [items EXCEPT ![ptr].lock = 0]
          /\ UNCHANGED <<alloc_offset, collect_offset, status, free_count, size, count, ptr, workers>>

RefuseCounted == /\ pc = "refused" /\ pc' = "idle"
                 /\ free_count' = free_count + 1
                 /\ UNCHANGED <<alloc_offset, collect_offset, status, items, size, count, ptr, workers>>

Reactor == \/ Ask \/ Collect \/ CollectEnds \/ Place
           \/ Send \/ Discard \/ Refuse \/ RefuseCounted

(***************************************************************************)
(* The workers free, in any order and at any time.                         *)
(***************************************************************************)
\* swRingBuffer_free, up to the store to the lock.
Unlock(o) == /\ o \in held /\ pending < Workers
             /\ items' = [items EXCEPT ![o].lock = 0]
             /\ held' = held \ {o} /\ pending' = pending + 1
             /\ UNCHANGED <<alloc_offset, collect_offset, status, free_count, reactor, lost, uncounted>>

\* ... and the atomic increment that follows.
CountFree == /\ pending > 0
             /\ free_count' = free_count + 1 /\ pending' = pending - 1
             /\ UNCHANGED <<alloc_offset, collect_offset, status, items, reactor, held, lost, uncounted>>

\* A worker dies while it holds a package, or between the two steps.
Die(o) == /\ o \in held /\ Cardinality(lost) + uncounted < MaxLost
          /\ held' = held \ {o} /\ lost' = lost \cup {o}
          /\ UNCHANGED <<ring, reactor, pending, uncounted>>

DieCounting == /\ pending > 0 /\ Cardinality(lost) + uncounted < MaxLost
               /\ pending' = pending - 1 /\ uncounted' = uncounted + 1
               /\ UNCHANGED <<ring, reactor, held, lost>>

Worker == (\E o \in held : Unlock(o)) \/ CountFree

Next == \/ \E n \in Lengths : Request(n)
        \/ Reactor \/ Worker
        \/ \E o \in held : Die(o)
        \/ DieCounting

Spec == Init /\ [][Next]_vars

(***************************************************************************)
(* The reactor thread goes on, and a worker frees each package it is given *)
(* (swWorker_discard_data or php_swoole_get_recv_data). That a package is  *)
(* read, refused or lost is not for the reactor to choose.                 *)
(***************************************************************************)
FairSpec == Spec /\ WF_vars(Reactor) /\ WF_vars(CountFree)
                 /\ \A o \in 0 .. Size : WF_vars(Unlock(o))
-----------------------------------------------------------------------------
TypeOK ==
    /\ {alloc_offset, collect_offset} \subseteq 0 .. Size
    /\ status \in {0, 1} /\ free_count \in Nat
    /\ DOMAIN items \subseteq 0 .. Size
    /\ items \in [DOMAIN items -> [lock : {0, 1}, length : Nat]]
    /\ pc \in {"idle", "ask", "collect", "place", "dispatch", "refused"}
    /\ size \in Nat /\ (pc # "idle" => size \in Lengths)
    /\ count \in 0 .. free_count /\ ptr \in 0 .. Size
    /\ held \subseteq 0 .. Size /\ pending \in Nat
    /\ lost \subseteq 0 .. Size /\ uncounted \in Nat

\* The part of the memory in use: one stretch, or two once alloc has wrapped.
Inside(o) == IF status = 0
               THEN collect_offset <= o /\ End(o) <= alloc_offset
               ELSE \/ collect_offset <= o /\ End(o) <= Size
                    \/ End(o) <= alloc_offset

\* The end of an item is where the next one starts, where the next will be
\* placed, or too near the end of the memory for another.
Followed(o) == \/ End(o) \in DOMAIN items
               \/ End(o) = alloc_offset /\ (status = 1 => o < alloc_offset)
               \/ status = 1 /\ End(o) + HDR > Size

Disjoint == \A o, q \in DOMAIN items : o < q => End(o) <= q

Chained ==
    /\ status = 0 => collect_offset <= alloc_offset
    /\ status = 1 => alloc_offset <= collect_offset /\ collect_offset + HDR <= Size
    /\ alloc_offset + HDR <= Size
    /\ \A o \in DOMAIN items : Inside(o) /\ Followed(o)
    /\ collect_offset \in DOMAIN items \/ (DOMAIN items = {} /\ status = 0 /\ alloc_offset = collect_offset)
    /\ status = 1 /\ alloc_offset > 0 => 0 \in DOMAIN items

\* Whoever has been given an item is the only one, and its lock is set.
Owners == held \cup lost \cup (IF pc = "dispatch" THEN {ptr} ELSE {})

Owned == /\ {o \in DOMAIN items : items[o].lock = 1} = Owners
         /\ held \cap lost = {} /\ (pc = "dispatch" => ptr \notin held \cup lost)

Freed == {o \in DOMAIN items : items[o].lock = 0}

\* free_count never promises more items than there are to collect.
Counted == Cardinality(Freed) =
             free_count + pending + uncounted + (IF pc = "refused" THEN 1 ELSE 0)

(***************************************************************************)
(* The headers tile the part of the ring in use, so that collect, which    *)
(* trusts the counter and steps from header to header, never reads package *)
(* data as one, whatever the order in which the workers unlock and count,  *)
(* and also when packages are dropped and workers die between the steps.   *)
(***************************************************************************)
RingConsistent == TypeOK /\ Disjoint /\ Chained /\ Owned /\ Counted

(***************************************************************************)
(* Seen by its callers the ring is an allocator: packages given out and    *)
(* not freed never share a word, and none reaches past the memory.         *)
(***************************************************************************)
InUse      == {o \in DOMAIN items : items[o].lock = 1}
Package(o) == [seg |-> 0, lo |-> o, hi |-> End(o)]
Packages   == {Package(o) : o \in InUse}

Promised == INSTANCE Allocator WITH Segs <- {0}, Lo <- 0, Hi <- Size, regions <- Packages

ImplementsAllocator == Promised!Spec

(***************************************************************************)
(* swReactorThread_alloc comes out of its loop, unless a package was lost: *)
(* the frees of the workers, counted late or in any order, are collected,  *)
(* and a ring that has become empty refuses at most once more. It takes a  *)
(* package that fits: HDR + size < Size - HDR.                             *)
(***************************************************************************)
Losses == Cardinality(lost) + uncounted

AllocReturns == (pc \in {"ask", "collect", "place"}) ~>
                  (pc = "dispatch" \/ Losses > 0 \/ size + 2 * HDR >= Size)
=============================================================================
