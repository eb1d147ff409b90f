----------------------------- MODULE SwChannel -----------------------------
(***************************************************************************)
(* The channel of swoole (src/core/Channel.c): a ring of items of          *)
(* different lengths in one block of memory.  An item is never split: the  *)
(* last one before the end may run past it, into room of one maximal item  *)
(* that swChannel_new keeps aside.  push and pop are in and out under the  *)
(* mutex of the channel, so each is one step, whoever makes it.            *)
(*                                                                         *)
(* Memory is counted in words of the size of an item's length field, and a *)
(* word holds what was last written to it.                                 *)
(***************************************************************************)
EXTENDS Integers, Sequences, FiniteSets

CONSTANTS
    Elements, Length,   \* what is pushed, and the length of each in words
    Memory,             \* the memory of a channel in words, swChannel_new's size
    Header, MaxLen      \* sizeof(swChannel), maxlen

ASSUME ChannelAssumption ==
    /\ Memory \in Nat /\ Header \in Nat \ {0} /\ MaxLen \in Nat \ {0}
    /\ Memory >= Header + MaxLen            \* the assertion of swChannel_new
    /\ Length \in [Elements -> 0 .. MaxLen] \* that of swChannel_in
    /\ "free" \notin Elements

VARIABLES head, tail, head_tag, tail_tag, num, bytes, mem

channel == <<head, tail, head_tag, tail_tag, num, bytes, mem>>

\* object->size: "overflow space" for an item of maxlen is kept.
Limit == Memory - MaxLen

\* The words an item may be written to, counted from object->mem: the first
\* Memory - Header of them were allocated.
Words == 0 .. Limit + MaxLen

\* A word of element x: its number in the item, 0 for the length field.
Free == <<"free", 0>>

ChannelTypeOK ==
    /\ head \in 0 .. Limit - 1 /\ tail \in 0 .. Limit - 1
    /\ head_tag \in {0, 1} /\ tail_tag \in {0, 1}
    /\ num \in Nat /\ bytes \in Nat
    /\ mem \in [Words -> {Free} \cup (Elements \X (0 .. MaxLen))]

ChannelInit == /\ head = 0 /\ tail = 0 /\ head_tag = 0 /\ tail_tag = 0 /\ num = 0 /\ bytes = 0
               /\ mem = [w \in Words |-> Free]

Size(x) == 1 + Length[x]
Full == head = tail /\ tail_tag # head_tag
Empty == num = 0

Written(x) == [w \in Words |-> IF w \in tail .. tail + Length[x] THEN <<x, w - tail>> ELSE mem[w]]

\* The element at an offset, as its length field tells.
At(w) == mem[w][1]

\* Where the item at an offset ends, and where swChannel_out looks after it.
Ends(w) == w + Size(At(w))
After(w) == IF Ends(w) >= Limit THEN 0 ELSE Ends(w)

\* The room before the head is not looked at.
Room_Ignored(x) == ~Full

Room(x) == ~Full /\ (tail < head => head - tail >= Size(x))

\* The tag of the tail stays when it wraps.
In_NoTag(x) ==
    /\ Room(x)
    /\ mem' = Written(x)
    /\ tail' = IF tail >= head /\ tail + Size(x) >= Limit THEN 0 ELSE tail + Size(x)
    /\ num' = num + 1 /\ bytes' = bytes + Length[x]
    /\ UNCHANGED <<head, head_tag, tail_tag>>

\* swChannel_in that succeeds; only behind the head does the tail wrap.
In(x) ==
    /\ Room(x)
    /\ mem' = Written(x)
    /\ LET wraps == tail >= head /\ tail + Size(x) >= Limit
       IN  /\ tail' = IF wraps THEN 0 ELSE tail + Size(x)
           /\ tail_tag' = IF wraps THEN 1 - tail_tag ELSE tail_tag
    /\ num' = num + 1 /\ bytes' = bytes + Length[x]
    /\ UNCHANGED <<head, head_tag>>

\* swChannel_out.
Out ==
    /\ ~Empty
    /\ head' = After(head)
    /\ head_tag' = IF Ends(head) >= Limit THEN 1 - head_tag ELSE head_tag
    /\ num' = num - 1 /\ bytes' = bytes - Length[At(head)]
    /\ UNCHANGED <<tail, tail_tag, mem>>

ChannelNext == Out \/ \E x \in Elements : In(x)

ChannelSpec == ChannelInit /\ [][ChannelNext]_channel

-----------------------------------------------------------------------------
(***************************************************************************)
(* What a channel promises.                                                *)
(***************************************************************************)

\* Where the items lie, oldest first.
Offsets == LET at[i \in 1 .. num] == IF i = 1 THEN head ELSE After(at[i - 1]) IN at

Contents == [i \in 1 .. num |-> At(Offsets[i])]

TotalLength(s) == LET sum[i \in 0 .. Len(s)] == IF i = 0 THEN 0 ELSE sum[i - 1] + Length[s[i]] IN sum[Len(s)]

\* No item was overwritten by a later one: every word of it is its own
\* (swChannel_in looks for room in front of the head only), and object->bytes
\* is the length of what is in the channel.
ItemsIntact ==
    /\ bytes = TotalLength(Contents)
    /\ \A i \in 1 .. num : LET w == Offsets[i]
                           IN  \A k \in 0 .. Length[At(w)] : mem[w + k] = <<At(w), k>>

\* Elements leave the channel in the order they came, unchanged
\* (swChannel_in, swChannel_out).
Fifo == INSTANCE BoundedFifo WITH items <- Contents, Capacity <- Memory
ImplementsFifo == Fifo!Spec

\* An item that runs past the end finds room in the overflow space: no word
\* outside the memory of the channel is written (swChannel_new, swChannel_in).
InMemory == \A w \in Words : mem[w] # Free => w < Memory - Header
=============================================================================
