---------------------------- MODULE SwRingQueue ----------------------------
(***************************************************************************)
(* The ring of pointers of swoole (src/core/RingQueue.c without            *)
(* SW_USE_RINGQUEUE_TS) as operators: a full and an empty ring both have   *)
(* head = tail and are told apart by the tag.                              *)
(***************************************************************************)
EXTENDS Integers, Sequences

CONSTANTS Size,      \* queue->size
          Elements   \* what is pushed; 0 is the zeroed memory of a new ring

ASSUME RingAssumption == Size \in Nat \ {0} /\ 0 \notin Elements

Index == 0 .. Size - 1

Ring == [head : Index, tail : Index, tag : {0, 1}, data : [Index -> Elements \cup {0}]]

EmptyRing == [head |-> 0, tail |-> 0, tag |-> 0, data |-> [i \in Index |-> 0]]

IsEmpty(q) == q.head = q.tail /\ q.tag = 0
IsFull(q)  == q.head = q.tail /\ q.tag = 1

\* The tag is not set when the ring fills up.
RingPush_NoTag(q, x) ==
    LET tail == (q.tail + 1) % Size
    IN  [head |-> q.head, tail |-> tail, tag |-> q.tag, data |-> [q.data EXCEPT ![q.tail] = x]]

\* The tag is left set when the ring becomes empty.
RingPop_NoTag(q) == [q EXCEPT !.head = (q.head + 1) % Size]

\* swRingQueue_push on a ring that is not full.
RingPush(q, x) ==
    LET tail == (q.tail + 1) % Size
    IN  [head |-> q.head, tail |-> tail, tag |-> IF tail = q.head THEN 1 ELSE q.tag,
         data |-> [q.data EXCEPT ![q.tail] = x]]

\* swRingQueue_pop on a ring that is not empty: the ring without its head.
RingPop(q) ==
    LET head == (q.head + 1) % Size
    IN  [head |-> head, tail |-> q.tail, tag |-> IF q.tail = head THEN 0 ELSE q.tag, data |-> q.data]

RingHead(q) == q.data[q.head]

\* How many elements the ring holds, and which, oldest first.
RingCount(q) == IF q.head = q.tail THEN q.tag * Size ELSE (q.tail - q.head + Size) % Size

Contents(q) == [i \in 1 .. RingCount(q) |-> q.data[(q.head + i - 1) % Size]]
=============================================================================
