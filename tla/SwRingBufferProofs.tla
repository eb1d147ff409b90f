------------------------ MODULE SwRingBufferProofs ------------------------
(***************************************************************************)
(* Theorems about SwRingBuffer, and their proofs.                          *)
(***************************************************************************)
EXTENDS SwRingBuffer, TLAPS, FiniteSetTheorems

\* Where the headers are and how long the items: nothing about their locks.
Layout == Disjoint /\ Chained

LEMMA ItemFacts ==
    ASSUME TypeOK, NEW o \in DOMAIN items
    PROVE  /\ o \in Nat /\ o <= Size /\ items[o].length \in Nat /\ items[o].lock \in {0, 1}
           /\ End(o) \in Nat /\ End(o) > o /\ End(o) >= o + HDR
BY RingAssumption DEF TypeOK, End

LEMMA OffsetFacts ==
    ASSUME TypeOK
    PROVE  /\ HDR \in Nat /\ HDR > 0 /\ Size \in Nat
           /\ alloc_offset \in Nat /\ collect_offset \in Nat
           /\ alloc_offset <= Size /\ collect_offset <= Size
           /\ status \in {0, 1}
BY RingAssumption DEF TypeOK

LEMMA FreedFinite ==
    ASSUME TypeOK
    PROVE  IsFiniteSet(Freed) /\ Cardinality(Freed) \in Nat
<1>1. Freed \subseteq 0 .. Size
  BY DEF Freed, TypeOK
<1>2. IsFiniteSet(0 .. Size)
  BY RingAssumption, FS_Interval
<1> QED
  BY <1>1, <1>2, FS_Subset, FS_CardinalityType

(***************************************************************************)
(* A step that moves no header keeps the layout.                           *)
(***************************************************************************)
LEMMA LayoutKept ==
    ASSUME Layout, UNCHANGED <<alloc_offset, collect_offset, status>>,
           DOMAIN items' = DOMAIN items,
           \A o \in DOMAIN items : items'[o].length = items[o].length
    PROVE  Layout'
<1>1. \A o \in DOMAIN items : End(o)' = End(o)
  BY DEF End
<1>2. Disjoint'
  BY <1>1 DEF Layout, Disjoint
<1>3. \A o \in DOMAIN items : Inside(o) <=> Inside(o)'
  BY <1>1 DEF Inside
<1>4. \A o \in DOMAIN items : Followed(o) <=> Followed(o)'
  BY <1>1 DEF Followed
<1> QED
  BY <1>2, <1>3, <1>4 DEF Layout, Chained

(***************************************************************************)
(* swRingBuffer_collect: one turn of the loop.                             *)
(***************************************************************************)
\* The counter promises an item, and the first one is at collect_offset.
LEMMA SomethingFreed ==
    ASSUME RingConsistent, count > 0
    PROVE  collect_offset \in DOMAIN items
<1>1. SUFFICES ASSUME DOMAIN items = {} PROVE FALSE
  BY DEF RingConsistent, Chained
<1>2. Freed = {}
  BY <1>1 DEF Freed
<1>3. Cardinality(Freed) = 0
  BY <1>2, FS_EmptySet
<1> QED
  BY <1>3 DEF RingConsistent, Counted, TypeOK

LEMMA CollectLayout ==
    ASSUME RingConsistent, Collect
    PROVE  Layout'
<1>1. collect_offset \in DOMAIN items
  BY SomethingFreed DEF Collect
<1> DEFINE c == collect_offset
           next == End(c)
<1>2. /\ HDR \in Nat /\ HDR > 0 /\ Size \in Nat /\ alloc_offset \in Nat /\ c \in Nat
      /\ status \in {0, 1}
  BY OffsetFacts DEF RingConsistent
<1>3. \A o \in DOMAIN items : o \in Nat /\ End(o) \in Nat /\ End(o) > o /\ End(o) >= o + HDR
  BY ItemFacts DEF RingConsistent
<1>4. /\ status = 0 => c <= alloc_offset
      /\ status = 1 => alloc_offset <= c /\ c + HDR <= Size
      /\ alloc_offset + HDR <= Size
      /\ status = 1 /\ alloc_offset > 0 => 0 \in DOMAIN items
  BY DEF RingConsistent, Chained
<1>5. \A o \in DOMAIN items : Inside(o) /\ Followed(o)
  BY DEF RingConsistent, Chained
<1>6. \A o, q \in DOMAIN items : o < q => End(o) <= q
  BY DEF RingConsistent, Disjoint
<1>7. /\ DOMAIN items' = DOMAIN items \ {c} /\ alloc_offset' = alloc_offset
      /\ \A o \in DOMAIN items' : items'[o] = items[o] /\ End(o)' = End(o)
  BY DEF Collect, End
<1>8. Disjoint'
  BY <1>6, <1>7 DEF Disjoint
<1>9. \A o \in DOMAIN items' : o >= next \/ (status = 1 /\ End(o) <= alloc_offset)
  BY <1>1, <1>2, <1>3, <1>5, <1>6, <1>7 DEF Inside
<1>10. CASE next + HDR > Size
  <2>1. status = 1 /\ collect_offset' = 0 /\ status' = 0
    BY <1>1, <1>2, <1>3, <1>4, <1>5, <1>10 DEF Inside, Collect
  <2>2. ASSUME NEW o \in DOMAIN items' PROVE End(o) <= alloc_offset
    <3>1. o \in DOMAIN items
      BY <1>7
    <3>2. o >= next \/ End(o) <= alloc_offset
      BY <1>9
    <3>3. End(o) <= Size \/ End(o) <= alloc_offset
      BY <1>5, <2>1, <3>1 DEF Inside
    <3>4. o \in Nat /\ End(o) \in Nat /\ End(o) >= o + HDR /\ next \in Nat
      BY <1>1, <1>3, <3>1
    <3> QED
      BY <1>2, <1>10, <3>2, <3>3, <3>4
  <2>3. \A o \in DOMAIN items' : Inside(o)'
    BY <1>2, <1>3, <1>7, <2>1, <2>2 DEF Inside
  <2>4. \A o \in DOMAIN items' : Followed(o)'
    <3> SUFFICES ASSUME NEW o \in DOMAIN items' PROVE Followed(o)'
      OBVIOUS
    <3>1. Followed(o) /\ End(o)' = End(o) /\ o \in DOMAIN items
      BY <1>5, <1>7
    <3>2. End(o) + HDR <= Size
      BY <1>2, <1>3, <1>4, <2>2, <3>1
    <3>3. End(o) \in DOMAIN items \/ End(o) = alloc_offset
      BY <1>2, <1>3, <3>1, <3>2 DEF Followed
    <3>4. End(o) = c => End(o) = alloc_offset
      BY <1>2, <1>3, <1>4, <2>1, <2>2, <3>1
    <3> QED
      BY <1>7, <2>1, <3>1, <3>3, <3>4 DEF Followed
  <2>5. alloc_offset = 0 => DOMAIN items' = {}
    BY <1>2, <1>3, <1>7, <2>2
  <2>6. alloc_offset > 0 => 0 \in DOMAIN items'
    BY <1>2, <1>4, <1>7, <2>1
  <2> QED
    BY <1>2, <1>4, <1>7, <1>8, <2>1, <2>3, <2>4, <2>5, <2>6 DEF Layout, Chained
<1>11. CASE ~(next + HDR > Size)
  <2>1. collect_offset' = next /\ status' = status /\ next \in Nat /\ next + HDR <= Size
        /\ next > c
    BY <1>1, <1>2, <1>3, <1>11 DEF Collect
  <2>2. \A o \in DOMAIN items' : Inside(o)'
    BY <1>2, <1>3, <1>5, <1>7, <1>9, <2>1 DEF Inside
  <2>3. \A o \in DOMAIN items' : Followed(o)'
    <3> SUFFICES ASSUME NEW o \in DOMAIN items' PROVE Followed(o)'
      OBVIOUS
    <3>1. Followed(o) /\ Inside(o) /\ End(o)' = End(o) /\ o \in DOMAIN items
      BY <1>5, <1>7
    <3>2. End(o) = c => status = 1 /\ End(o) = alloc_offset /\ o < alloc_offset
      BY <1>2, <1>3, <1>4, <3>1 DEF Inside
    <3> QED
      BY <1>7, <2>1, <3>1, <3>2 DEF Followed
  <2>4. next \in DOMAIN items' \/ (DOMAIN items' = {} /\ status = 0 /\ alloc_offset = next)
    <3>1. Followed(c) /\ Inside(c)
      BY <1>1, <1>5
    <3>2. next \in DOMAIN items => next \in DOMAIN items'
      BY <1>7, <2>1, <1>2
    <3>3. next = alloc_offset => status = 0
      BY <1>2, <1>4, <2>1
    <3>4. next = alloc_offset => DOMAIN items' = {}
      BY <1>2, <1>3, <1>5, <1>7, <1>9, <3>3 DEF Inside
    <3> QED
      BY <1>1, <1>2, <2>1, <3>1, <3>2, <3>3, <3>4 DEF Followed
  <2>5. status = 1 /\ alloc_offset > 0 => 0 \in DOMAIN items'
    BY <1>2, <1>4, <1>7
  <2>6. /\ status = 0 => next <= alloc_offset
        /\ status = 1 => alloc_offset <= next
    BY <1>1, <1>2, <1>4, <1>5, <2>1 DEF Inside
  <2> QED
    BY <1>2, <1>4, <1>7, <1>8, <2>1, <2>2, <2>3, <2>4, <2>5, <2>6 DEF Layout, Chained
<1> QED
  BY <1>10, <1>11

(***************************************************************************)
(* swRingBuffer_alloc, from the test of the end of the memory on.          *)
(***************************************************************************)
\* After the wrap, if there is one: the rest is filled with a free item.
LEMMA SkippedFacts ==
    ASSUME RingConsistent, Place
    PROVE  /\ Skips <=> Wraps
           /\ Wraps => /\ alloc_offset \notin DOMAIN items
                       /\ DOMAIN Skipped = DOMAIN items \cup {alloc_offset}
                       /\ Skipped[alloc_offset] = [lock |-> 0, length |-> Left - HDR]
                       /\ Left - HDR \in Nat
           /\ ~Wraps => Skipped = items
           /\ \A o \in DOMAIN items : Skipped[o] = items[o]
<1>1. /\ HDR \in Nat /\ HDR > 0 /\ Size \in Nat /\ alloc_offset \in Nat
      /\ alloc_offset + HDR <= Size
  BY OffsetFacts DEF RingConsistent, Chained
<1>2. Skips <=> Wraps
  BY <1>1 DEF Skips, Left
<1>3. Wraps => alloc_offset \notin DOMAIN items
  <2>1. ASSUME NEW o \in DOMAIN items, Wraps PROVE o # alloc_offset
    <3>1. Inside(o) /\ status = 0
      BY <2>1 DEF RingConsistent, Chained, Wraps
    <3>2. o \in Nat /\ End(o) \in Nat /\ End(o) > o
      BY ItemFacts DEF RingConsistent
    <3> QED
      BY <1>1, <3>1, <3>2 DEF Inside
  <2> QED
    BY <2>1
<1> QED
  BY <1>1, <1>2, <1>3 DEF Skipped, Left

\* Where the new item goes there is no header, and none begins in it.
LEMMA RoomFacts ==
    ASSUME RingConsistent, Place, Fits
    PROVE  /\ At \in Nat /\ size \in Nat /\ size > 0 /\ At + HDR + size + HDR <= Size
           /\ At \notin DOMAIN Skipped
           /\ \A o \in DOMAIN items : o < At => End(o) <= At
           /\ \A o \in DOMAIN items : At < o => At + HDR + size <= o
           /\ status = 1 \/ Wraps => At + HDR + size <= collect_offset
<1>1. /\ HDR \in Nat /\ HDR > 0 /\ Size \in Nat /\ alloc_offset \in Nat /\ collect_offset \in Nat
      /\ status \in {0, 1}
  BY OffsetFacts DEF RingConsistent
<1>2. size \in Nat /\ size > 0
  BY RingAssumption DEF RingConsistent, TypeOK, Place
<1>3. /\ status = 0 => collect_offset <= alloc_offset
      /\ status = 1 => alloc_offset <= collect_offset /\ collect_offset + HDR <= Size
      /\ alloc_offset + HDR <= Size
  BY DEF RingConsistent, Chained
<1>4. /\ At \in Nat /\ Left \in Nat
      /\ Wraps => At = 0 /\ status = 0
      /\ ~Wraps => At = alloc_offset
  BY <1>1, <1>3 DEF At, Left, Wraps
<1>5. status = 1 \/ Wraps => At + HDR + size <= collect_offset
  BY <1>1, <1>2, <1>4 DEF Fits, Capacity
<1>6. status = 0 /\ ~Wraps => At + HDR + size + HDR <= Size
  BY <1>1, <1>2, <1>4 DEF Wraps
<1>7. At + HDR + size + HDR <= Size
  BY <1>1, <1>2, <1>3, <1>4, <1>5, <1>6
<1>8. ASSUME NEW o \in DOMAIN items
      PROVE  \/ o < At /\ End(o) <= At
             \/ At + HDR + size <= o /\ At < o
  <2>1. Inside(o) /\ o \in Nat /\ End(o) \in Nat /\ End(o) > o
    BY ItemFacts DEF RingConsistent, Chained
  <2>2. CASE Wraps
    BY <1>1, <1>2, <1>4, <1>5, <2>1, <2>2 DEF Inside
  <2>3. CASE ~Wraps
    BY <1>1, <1>2, <1>4, <1>5, <2>1, <2>3 DEF Inside
  <2> QED
    BY <2>2, <2>3
<1>9. At \notin DOMAIN Skipped
  <2>1. At \notin DOMAIN items
    BY <1>1, <1>4, <1>8
  <2>2. Wraps => At # alloc_offset
    BY <1>1, <1>2, <1>3, <1>4, <1>5
  <2> QED
    BY <2>1, <2>2, SkippedFacts
<1>10. \A o \in DOMAIN items : o \in Nat /\ End(o) \in Nat
  BY ItemFacts DEF RingConsistent
<1> QED
  BY <1>1, <1>2, <1>4, <1>5, <1>7, <1>8, <1>9, <1>10

\* The headers after the step, and where their items end.
LEMMA EndsAre ==
    ASSUME RingConsistent, Place
    PROVE  /\ DOMAIN items' = DOMAIN items \cup (IF Wraps THEN {alloc_offset} ELSE {})
                                           \cup (IF Fits THEN {At} ELSE {})
           /\ \A o \in DOMAIN items : items'[o] = items[o] /\ End(o)' = End(o)
           /\ \A o : Wraps /\ o = alloc_offset => items'[o].lock = 0 /\ End(o)' = Size
           /\ \A o : Fits /\ o = At => /\ items'[o] = [lock |-> 1, length |-> size]
                                       /\ End(o)' = At + HDR + size
<1>1. HDR \in Nat /\ Size \in Nat /\ alloc_offset \in Nat /\ alloc_offset + HDR <= Size
  BY OffsetFacts DEF RingConsistent, Chained
<1>2. ASSUME NEW o, Wraps, o = alloc_offset, items'[o] = [lock |-> 0, length |-> Left - HDR]
      PROVE  End(o)' = Size
  BY <1>1, <1>2 DEF End, Left
<1>3. CASE Fits
  <2>1. items' = [o \in DOMAIN Skipped \cup {At} |->
                    IF o = At THEN [lock |-> 1, length |-> size] ELSE Skipped[o]]
    BY <1>3 DEF Place
  <2>2. \A o \in DOMAIN Skipped : items'[o] = Skipped[o]
    BY <1>3, <2>1, RoomFacts
  <2>3. DOMAIN items' = DOMAIN Skipped \cup {At}
    BY <2>1
  <2>4. ASSUME NEW o, o = At
        PROVE  items'[o] = [lock |-> 1, length |-> size] /\ End(o)' = At + HDR + size
    <3>1. items'[o] = [lock |-> 1, length |-> size]
      BY <2>1, <2>4
    <3> QED
      BY <2>4, <3>1 DEF End
  <2>5. \A o \in DOMAIN items : items'[o] = items[o] /\ End(o)' = End(o)
    BY <2>2, SkippedFacts DEF End
  <2>6. ASSUME NEW o, Wraps, o = alloc_offset
        PROVE  items'[o].lock = 0 /\ End(o)' = Size
    <3>1. items'[o] = [lock |-> 0, length |-> Left - HDR]
      BY <2>2, <2>6, SkippedFacts
    <3> QED
      BY <1>2, <2>6, <3>1
  <2> QED
    BY <1>3, <2>3, <2>4, <2>5, <2>6, SkippedFacts
<1>4. CASE ~Fits
  <2>1. items' = Skipped
    BY <1>4 DEF Place
  <2>2. \A o \in DOMAIN items : items'[o] = items[o] /\ End(o)' = End(o)
    BY <2>1, SkippedFacts DEF End
  <2>3. ASSUME NEW o, Wraps, o = alloc_offset
        PROVE  items'[o].lock = 0 /\ End(o)' = Size
    <3>1. items'[o] = [lock |-> 0, length |-> Left - HDR]
      BY <2>1, <2>3, SkippedFacts
    <3> QED
      BY <1>2, <2>3, <3>1
  <2> QED
    BY <1>4, <2>1, <2>2, <2>3, SkippedFacts
<1> QED
  BY <1>3, <1>4

LEMMA PlaceLayout ==
    ASSUME RingConsistent, Place
    PROVE  Layout'
<1>1. /\ HDR \in Nat /\ HDR > 0 /\ Size \in Nat /\ alloc_offset \in Nat /\ collect_offset \in Nat
      /\ status \in {0, 1}
  BY OffsetFacts DEF RingConsistent
<1>2. /\ status = 0 => collect_offset <= alloc_offset
      /\ status = 1 => alloc_offset <= collect_offset /\ collect_offset + HDR <= Size
      /\ alloc_offset + HDR <= Size
      /\ status = 1 /\ alloc_offset > 0 => 0 \in DOMAIN items
      /\ \/ collect_offset \in DOMAIN items
         \/ DOMAIN items = {} /\ status = 0 /\ alloc_offset = collect_offset
  BY DEF RingConsistent, Chained
<1>3. \A o, q \in DOMAIN items : o < q => End(o) <= q
  BY DEF RingConsistent, Disjoint
<1>4. ASSUME NEW o \in DOMAIN items
      PROVE  /\ o \in Nat /\ End(o) \in Nat /\ End(o) > o /\ Inside(o) /\ Followed(o)
             /\ End(o)' = End(o)
  BY ItemFacts, EndsAre DEF RingConsistent, Chained
<1>5. /\ collect_offset' = collect_offset
      /\ status' = IF Wraps THEN 1 ELSE status
      /\ alloc_offset' = IF Fits THEN At + HDR + size ELSE At
      /\ Wraps => status = 0 /\ At = 0
      /\ ~Wraps => At = alloc_offset
  BY DEF Place, Wraps, At
<1>6. Fits => /\ size \in Nat /\ size > 0 /\ At + HDR + size + HDR <= Size
              /\ \A o \in DOMAIN items : o < At => End(o) <= At
              /\ \A o \in DOMAIN items : At < o => At + HDR + size <= o
              /\ status = 1 \/ Wraps => At + HDR + size <= collect_offset
  BY RoomFacts
<1>7. ASSUME NEW o \in DOMAIN items'
      PROVE  \/ o \in DOMAIN items
             \/ Wraps /\ o = alloc_offset /\ End(o)' = Size
             \/ Fits /\ o = At /\ End(o)' = At + HDR + size
  BY EndsAre
<1>8. Disjoint'
  <2> SUFFICES ASSUME NEW o \in DOMAIN items', NEW q \in DOMAIN items', o < q
               PROVE  End(o)' <= q
    BY DEF Disjoint
  <2>1. CASE o \in DOMAIN items
    <3>1. CASE q \in DOMAIN items
      BY <1>3, <1>4, <2>1, <3>1
    <3>2. CASE Wraps /\ q = alloc_offset
      BY <1>1, <1>4, <1>5, <2>1, <3>2 DEF Inside
    <3>3. CASE Fits /\ q = At
      BY <1>4, <1>6, <2>1, <3>3
    <3> QED
      BY <1>7, <3>1, <3>2, <3>3
  <2>2. CASE Wraps /\ o = alloc_offset /\ End(o)' = Size
    <3>1. q \in DOMAIN items => q < alloc_offset
      BY <1>1, <1>4, <1>5, <2>2 DEF Inside
    <3>2. q \notin DOMAIN items
      BY <1>1, <1>4, <2>2, <3>1
    <3>3. q # At
      BY <1>1, <1>5, <2>2
    <3> QED
      BY <1>1, <1>7, <2>2, <3>2, <3>3
  <2>3. CASE Fits /\ o = At /\ End(o)' = At + HDR + size
    BY <1>1, <1>2, <1>5, <1>6, <1>7, <2>3
  <2> QED
    BY <1>7, <2>1, <2>2, <2>3
<1>9. ASSUME NEW o \in DOMAIN items'
      PROVE  Inside(o)'
  <2>1. Inside(o)' <=> IF status' = 0
                         THEN collect_offset <= o /\ End(o)' <= alloc_offset'
                         ELSE \/ collect_offset <= o /\ End(o)' <= Size
                              \/ End(o)' <= alloc_offset'
    BY <1>5 DEF Inside
  <2>2. CASE o \in DOMAIN items
    BY <1>1, <1>2, <1>4, <1>5, <1>6, <2>1, <2>2 DEF Inside
  <2>3. CASE Wraps /\ o = alloc_offset /\ End(o)' = Size
    BY <1>1, <1>2, <1>5, <2>1, <2>3
  <2>4. CASE Fits /\ o = At /\ End(o)' = At + HDR + size
    BY <1>1, <1>2, <1>5, <1>6, <2>1, <2>4
  <2> QED
    BY <1>7, <2>2, <2>3, <2>4
<1>10. ASSUME NEW o \in DOMAIN items'
       PROVE  Followed(o)'
  <2>1. Followed(o)' <=> \/ End(o)' \in DOMAIN items'
                         \/ End(o)' = alloc_offset' /\ (status' = 1 => o < alloc_offset')
                         \/ status' = 1 /\ End(o)' + HDR > Size
    BY DEF Followed
  <2>2. CASE o \in DOMAIN items
    <3>1. CASE End(o) \in DOMAIN items
      BY <1>4, <2>1, <2>2, <3>1, EndsAre
    <3>2. CASE End(o) = alloc_offset /\ (Fits \/ Wraps)
      BY <1>4, <1>5, <2>1, <2>2, <3>2, EndsAre
    <3>3. CASE End(o) = alloc_offset /\ ~Fits /\ ~Wraps
      BY <1>4, <1>5, <2>1, <2>2, <3>3 DEF Followed, Inside
    <3>4. CASE status = 1 /\ End(o) + HDR > Size
      BY <1>4, <1>5, <2>1, <2>2, <3>4
    <3> QED
      BY <1>4, <2>2, <3>1, <3>2, <3>3, <3>4 DEF Followed
  <2>3. CASE Wraps /\ o = alloc_offset /\ End(o)' = Size
    BY <1>1, <1>5, <2>1, <2>3
  <2>4. CASE Fits /\ o = At /\ End(o)' = At + HDR + size
    BY <1>1, <1>5, <1>6, <2>1, <2>4
  <2> QED
    BY <1>7, <2>2, <2>3, <2>4
<1>11. /\ status' = 0 => collect_offset <= alloc_offset'
       /\ status' = 1 => alloc_offset' <= collect_offset /\ collect_offset + HDR <= Size
       /\ alloc_offset' + HDR <= Size
  BY <1>1, <1>2, <1>5, <1>6
<1>12. \/ collect_offset \in DOMAIN items'
       \/ DOMAIN items' = {} /\ status' = 0 /\ alloc_offset' = collect_offset
  BY <1>2, <1>5, EndsAre
<1>13. status' = 1 /\ alloc_offset' > 0 => 0 \in DOMAIN items'
  <2>1. CASE Fits
    BY <1>1, <1>2, <1>5, <1>6, <2>1, EndsAre
  <2>2. CASE ~Fits
    BY <1>1, <1>2, <1>5, <2>2, EndsAre
  <2> QED
    BY <2>1, <2>2
<1> QED
  BY <1>5, <1>8, <1>9, <1>10, <1>11, <1>12, <1>13 DEF Layout, Chained

(***************************************************************************)
(* Types, owners and counts, step by step.                                 *)
(***************************************************************************)
LEMMA CollectKeeps ==
    ASSUME RingConsistent, Collect
    PROVE  TypeOK' /\ Owned' /\ Counted'
<1>1. collect_offset \in DOMAIN items
  BY SomethingFreed DEF Collect
<1>2. /\ DOMAIN items' = DOMAIN items \ {collect_offset}
      /\ \A o \in DOMAIN items' : items'[o] = items[o]
      /\ free_count' = free_count - 1 /\ count' = count - 1 /\ count > 0
      /\ items[collect_offset].lock = 0
  BY DEF Collect, Unlocked
<1>3. End(collect_offset) \in Nat /\ HDR \in Nat /\ Size \in Nat
  BY <1>1, ItemFacts, OffsetFacts DEF RingConsistent
<1>4. collect_offset' \in 0 .. Size /\ status' \in {0, 1}
  BY <1>3 DEF Collect, RingConsistent, TypeOK
<1>5. free_count' \in Nat /\ count' \in 0 .. free_count'
  BY <1>2 DEF RingConsistent, TypeOK
<1>6. items' \in [DOMAIN items' -> [lock : {0, 1}, length : Nat]]
  <2>1. items' = [o \in DOMAIN items' |-> items'[o]]
    BY DEF Collect
  <2>2. \A o \in DOMAIN items : items[o] \in [lock : {0, 1}, length : Nat]
    BY DEF RingConsistent, TypeOK
  <2> QED
    BY <1>2, <2>1, <2>2
<1>7. TypeOK'
  BY <1>2, <1>4, <1>5, <1>6 DEF RingConsistent, TypeOK, Collect, workers
<1>8. Owned'
  <2>1. collect_offset \notin Owners
    BY <1>2 DEF RingConsistent, Owned
  <2>2. {o \in DOMAIN items' : items'[o].lock = 1} = {o \in DOMAIN items : items[o].lock = 1}
    BY <1>2
  <2>3. Owners' = Owners
    BY DEF Owners, Collect, workers
  <2> QED
    BY <2>2, <2>3 DEF RingConsistent, Owned, Collect, workers
<1>9. Counted'
  <2>1. Freed' = Freed \ {collect_offset} /\ collect_offset \in Freed
    BY <1>1, <1>2 DEF Freed
  <2>2. Cardinality(Freed') = Cardinality(Freed) - 1
    BY <2>1, FreedFinite, FS_RemoveElement DEF RingConsistent
  <2> QED
    BY <1>2, <2>2 DEF RingConsistent, Counted, Collect, workers, TypeOK
<1> QED
  BY <1>7, <1>8, <1>9

LEMMA PlaceKeeps ==
    ASSUME RingConsistent, Place
    PROVE  TypeOK' /\ Owned' /\ Counted'
<1>1. /\ HDR \in Nat /\ HDR > 0 /\ Size \in Nat /\ alloc_offset \in Nat
      /\ alloc_offset + HDR <= Size
  BY OffsetFacts DEF RingConsistent, Chained
<1>2. Fits => At \in Nat /\ size \in Nat /\ At + HDR + size + HDR <= Size /\ At \notin DOMAIN Skipped
  BY RoomFacts
<1>3. /\ Wraps => At = 0 /\ alloc_offset \notin DOMAIN items
                  /\ DOMAIN Skipped = DOMAIN items \cup {alloc_offset}
      /\ ~Wraps => At = alloc_offset /\ Skipped = items
  BY SkippedFacts DEF At
<1>4. Fits => At \notin DOMAIN items /\ (Wraps => At # alloc_offset)
  BY <1>2, <1>3
<1>5. ASSUME NEW o \in DOMAIN items'
      PROVE  \/ o \in DOMAIN items /\ items'[o] = items[o]
             \/ Wraps /\ o = alloc_offset /\ items'[o].lock = 0
             \/ Fits /\ o = At /\ items'[o] = [lock |-> 1, length |-> size]
  BY EndsAre
<1>6. DOMAIN items' \subseteq 0 .. Size
  BY <1>1, <1>2, <1>5 DEF RingConsistent, TypeOK
<1>7. items' \in [DOMAIN items' -> [lock : {0, 1}, length : Nat]]
  <2>1. \A o \in DOMAIN items : items[o] \in [lock : {0, 1}, length : Nat]
    BY DEF RingConsistent, TypeOK
  <2>2. \A o \in DOMAIN Skipped : Skipped[o] \in [lock : {0, 1}, length : Nat]
    BY <1>3, <2>1, SkippedFacts
  <2>3. items' = IF Fits THEN [o \in DOMAIN Skipped \cup {At} |->
                                 IF o = At THEN [lock |-> 1, length |-> size] ELSE Skipped[o]]
                         ELSE Skipped
    BY DEF Place
  <2>4. Skipped = [o \in DOMAIN Skipped |-> Skipped[o]]
    BY DEF Skipped, RingConsistent, TypeOK
  <2> HIDE DEF Skipped, Fits, At
  <2>5. CASE Fits
    BY <1>2, <2>2, <2>3, <2>5
  <2>6. CASE ~Fits
    BY <2>2, <2>3, <2>4, <2>6
  <2> QED
    BY <2>5, <2>6
<1>8. TypeOK'
  <2>1. alloc_offset' \in 0 .. Size /\ status' \in {0, 1} /\ collect_offset' = collect_offset
    BY <1>1, <1>2, <1>3 DEF Place, RingConsistent, TypeOK
  <2>2. free_count' \in Nat /\ free_count' >= free_count /\ count' = count
    BY DEF Place, RingConsistent, TypeOK
  <2>3. ptr' \in 0 .. Size /\ pc' \in {"dispatch", "ask"} /\ size' = size
    BY <1>1, <1>2 DEF Place, RingConsistent, TypeOK
  <2> QED
    BY <1>6, <1>7, <2>1, <2>2, <2>3 DEF RingConsistent, TypeOK, Place, workers
<1>9. Owned'
  <2>1. {o \in DOMAIN items' : items'[o].lock = 1}
           = {o \in DOMAIN items : items[o].lock = 1} \cup (IF Fits THEN {At} ELSE {})
    BY <1>4, <1>5, EndsAre
  <2>2. Owners = held \cup lost /\ held' = held /\ lost' = lost
    BY DEF Owners, Place, workers
  <2>3. Fits => pc' = "dispatch" /\ ptr' = At
    BY DEF Place
  <2>4. ~Fits => pc' = "ask"
    BY DEF Place
  <2>5. Owners' = Owners \cup (IF Fits THEN {At} ELSE {})
    BY <2>2, <2>3, <2>4 DEF Owners
  <2>6. Owners \subseteq DOMAIN items
    BY DEF RingConsistent, Owned
  <2> QED
    BY <1>4, <2>1, <2>2, <2>3, <2>4, <2>5, <2>6 DEF RingConsistent, Owned
<1>10. Counted'
  <2>1. Freed' = Freed \cup (IF Wraps THEN {alloc_offset} ELSE {})
    BY <1>3, <1>4, <1>5, EndsAre DEF Freed
  <2>2. Wraps => alloc_offset \notin Freed
    BY <1>3 DEF Freed
  <2>3. Cardinality(Freed') = Cardinality(Freed) + (IF Wraps THEN 1 ELSE 0)
    BY <2>1, <2>2, FreedFinite, FS_AddElement DEF RingConsistent
  <2>4. free_count' = free_count + (IF Wraps THEN 1 ELSE 0) /\ free_count \in Nat
    BY SkippedFacts DEF Place, RingConsistent, TypeOK
  <2> QED
    BY <2>3, <2>4 DEF RingConsistent, Counted, TypeOK, Place, workers
<1> QED
  BY <1>8, <1>9, <1>10

\* Refuse and Unlock: the owner of o clears its lock, and a count is owed.
LEMMA ClearLock ==
    ASSUME RingConsistent, NEW o \in DOMAIN items, items[o].lock = 1,
           items' = [items EXCEPT ![o].lock = 0],
           UNCHANGED <<alloc_offset, collect_offset, status>>
    PROVE  /\ Layout'
           /\ DOMAIN items' = DOMAIN items
           /\ items' \in [DOMAIN items' -> [lock : {0, 1}, length : Nat]]
           /\ {q \in DOMAIN items' : items'[q].lock = 1} = {q \in DOMAIN items : items[q].lock = 1} \ {o}
           /\ Cardinality(Freed') = Cardinality(Freed) + 1
<1>1. items \in [DOMAIN items -> [lock : {0, 1}, length : Nat]]
  BY DEF RingConsistent, TypeOK
<1>2. /\ DOMAIN items' = DOMAIN items
      /\ \A q \in DOMAIN items : items'[q].length = items[q].length
      /\ \A q \in DOMAIN items \ {o} : items'[q] = items[q]
      /\ items'[o].lock = 0
      /\ items' \in [DOMAIN items' -> [lock : {0, 1}, length : Nat]]
  BY <1>1
<1>3. Layout'
  BY <1>2, LayoutKept DEF RingConsistent, Layout
<1>4. Freed' = Freed \cup {o} /\ o \notin Freed
  BY <1>1, <1>2 DEF Freed
<1>5. Cardinality(Freed') = Cardinality(Freed) + 1
  BY <1>4, FreedFinite, FS_AddElement DEF RingConsistent
<1> QED
  BY <1>1, <1>2, <1>3, <1>5

LEMMA RefuseKeeps ==
    ASSUME RingConsistent, Refuse
    PROVE  RingConsistent'
<1>1. ptr \in DOMAIN items /\ items[ptr].lock = 1 /\ ptr \notin held \cup lost
  BY DEF RingConsistent, Owned, Owners, Refuse
<1>2. /\ Layout' /\ DOMAIN items' = DOMAIN items
      /\ items' \in [DOMAIN items' -> [lock : {0, 1}, length : Nat]]
      /\ {q \in DOMAIN items' : items'[q].lock = 1} = {q \in DOMAIN items : items[q].lock = 1} \ {ptr}
      /\ Cardinality(Freed') = Cardinality(Freed) + 1
  BY <1>1, ClearLock DEF Refuse
<1>3. TypeOK'
  BY <1>2 DEF RingConsistent, TypeOK, Refuse, workers
<1>4. Owners' = Owners \ {ptr}
  BY <1>1 DEF Owners, Refuse, workers
<1>5. Owned'
  BY <1>2, <1>4 DEF RingConsistent, Owned, Refuse, workers
<1>6. Counted'
  BY <1>2 DEF RingConsistent, Counted, TypeOK, Refuse, workers
<1> QED
  BY <1>2, <1>3, <1>5, <1>6 DEF RingConsistent, Layout

LEMMA UnlockKeeps ==
    ASSUME RingConsistent, NEW o \in held, Unlock(o)
    PROVE  RingConsistent'
<1>1. o \in DOMAIN items /\ items[o].lock = 1 /\ o \notin lost /\ (pc = "dispatch" => o # ptr)
  BY DEF RingConsistent, Owned, Owners
<1>2. /\ Layout' /\ DOMAIN items' = DOMAIN items
      /\ items' \in [DOMAIN items' -> [lock : {0, 1}, length : Nat]]
      /\ {q \in DOMAIN items' : items'[q].lock = 1} = {q \in DOMAIN items : items[q].lock = 1} \ {o}
      /\ Cardinality(Freed') = Cardinality(Freed) + 1
  BY <1>1, ClearLock DEF Unlock
<1>3. TypeOK'
  BY <1>2 DEF RingConsistent, TypeOK, Unlock, reactor
<1>4. Owners' = Owners \ {o}
  BY <1>1 DEF Owners, Unlock, reactor
<1>5. Owned'
  BY <1>2, <1>4 DEF RingConsistent, Owned, Unlock, reactor
<1>6. Counted'
  BY <1>2 DEF RingConsistent, Counted, TypeOK, Unlock, reactor
<1> QED
  BY <1>2, <1>3, <1>5, <1>6 DEF RingConsistent, Layout

\* A package is handed on, counted or lost: the ring itself stays.
LEMMA HandOnKeeps ==
    ASSUME RingConsistent,
           \/ \E n \in Lengths : Request(n)
           \/ Ask \/ CollectEnds \/ Send \/ Discard \/ RefuseCounted \/ CountFree
           \/ (\E o \in held : Die(o)) \/ DieCounting
    PROVE  RingConsistent'
<1>1. UNCHANGED <<alloc_offset, collect_offset, status, items>>
  BY DEF Request, Ask, CollectEnds, Send, Discard, RefuseCounted, CountFree, Die, DieCounting, ring
<1>2. Layout'
  BY <1>1, LayoutKept DEF RingConsistent, Layout
<1>3. Freed' = Freed /\ Cardinality(Freed)' = Cardinality(Freed)
  BY <1>1 DEF Freed
<1>4. Owners \subseteq 0 .. Size
  BY DEF RingConsistent, Owned, TypeOK
<1>5. CASE (\E n \in Lengths : Request(n)) \/ Ask \/ CollectEnds
  <2>1. TypeOK'
    BY <1>1, <1>5, RingAssumption DEF RingConsistent, TypeOK, Request, Ask, CollectEnds, ring, workers
  <2>2. Owned'
    BY <1>1, <1>5 DEF RingConsistent, Owned, Owners, Request, Ask, CollectEnds, ring, workers
  <2>3. Counted'
    BY <1>3, <1>5 DEF RingConsistent, Counted, Request, Ask, CollectEnds, ring, workers
  <2> QED
    BY <1>2, <2>1, <2>2, <2>3 DEF RingConsistent, Layout
<1>6. CASE Send \/ Discard
  <2>1. TypeOK'
    BY <1>1, <1>6 DEF RingConsistent, TypeOK, Send, Discard, ring
  <2>2. Owned'
    BY <1>1, <1>6 DEF RingConsistent, Owned, Owners, Send, Discard, ring
  <2>3. Counted'
    BY <1>3, <1>6 DEF RingConsistent, Counted, Send, Discard, ring
  <2> QED
    BY <1>2, <2>1, <2>2, <2>3 DEF RingConsistent, Layout
<1>7. CASE RefuseCounted \/ CountFree
  <2>1. TypeOK'
    BY <1>1, <1>7 DEF RingConsistent, TypeOK, RefuseCounted, CountFree, workers, reactor
  <2>2. Owned'
    BY <1>1, <1>7 DEF RingConsistent, Owned, Owners, RefuseCounted, CountFree, workers, reactor
  <2>3. Counted'
    BY <1>3, <1>7 DEF RingConsistent, Counted, TypeOK, RefuseCounted, CountFree, workers, reactor
  <2> QED
    BY <1>2, <2>1, <2>2, <2>3 DEF RingConsistent, Layout
<1>8. CASE (\E o \in held : Die(o)) \/ DieCounting
  <2>1. TypeOK'
    BY <1>1, <1>8 DEF RingConsistent, TypeOK, Die, DieCounting, ring, reactor
  <2>2. Owned'
    BY <1>1, <1>8 DEF RingConsistent, Owned, Owners, Die, DieCounting, ring, reactor
  <2>3. Counted'
    BY <1>3, <1>8 DEF RingConsistent, Counted, TypeOK, Die, DieCounting, ring, reactor
  <2> QED
    BY <1>2, <2>1, <2>2, <2>3 DEF RingConsistent, Layout
<1> QED
  BY <1>5, <1>6, <1>7, <1>8

LEMMA InitConsistent == Init => RingConsistent
<1> SUFFICES ASSUME Init PROVE RingConsistent
  OBVIOUS
<1>1. DOMAIN items = {}
  BY DEF Init
<1>2. Freed = {} /\ Cardinality(Freed) = 0
  BY <1>1, FS_EmptySet DEF Freed
<1>3. TypeOK
  BY <1>1, RingAssumption DEF Init, TypeOK
<1>4. Disjoint
  BY <1>1 DEF Disjoint
<1>5. Owned
  BY <1>1 DEF Owned, Owners, Init
<1>6. Counted
  BY <1>2 DEF Counted, Init
<1>7. Chained
  BY <1>1, RingAssumption DEF Chained, Init
<1> QED
  BY <1>3, <1>4, <1>5, <1>6, <1>7 DEF RingConsistent

LEMMA NextConsistent == RingConsistent /\ [Next]_vars => RingConsistent'
<1> SUFFICES ASSUME RingConsistent, [Next]_vars PROVE RingConsistent'
  OBVIOUS
<1>1. CASE UNCHANGED vars
  BY <1>1 DEF vars, ring, reactor, workers, RingConsistent, TypeOK, Disjoint, Chained, Owned, Counted,
              Inside, Followed, End, Owners, Freed
<1>2. CASE Collect
  BY <1>2, CollectLayout, CollectKeeps DEF RingConsistent, Layout
<1>3. CASE Place
  BY <1>3, PlaceLayout, PlaceKeeps DEF RingConsistent, Layout
<1>4. CASE Refuse
  BY <1>4, RefuseKeeps
<1>5. ASSUME NEW o \in held, Unlock(o) PROVE RingConsistent'
  BY <1>5, UnlockKeeps
<1> QED
  BY <1>1, <1>2, <1>3, <1>4, <1>5, HandOnKeeps DEF Next, Reactor, Worker

\* For every ring, every set of package lengths and any number of workers and
\* losses, collect and alloc (swRingBuffer_collect, _alloc, _free) step from
\* header to header, and free_count promises no more than was freed.
THEOREM Consistent == Spec => []RingConsistent
BY InitConsistent, NextConsistent, PTL DEF Spec

(***************************************************************************)
(* The refinement.                                                         *)
(***************************************************************************)
\* A free takes one region away.
LEMMA FreeReleases ==
    ASSUME RingConsistent, NEW o \in DOMAIN items, items[o].lock = 1,
           items' = [items EXCEPT ![o].lock = 0]
    PROVE  \E r \in Packages : Packages' = Packages \ {r}
<1>1. items \in [DOMAIN items -> [lock : {0, 1}, length : Nat]]
  BY DEF RingConsistent, TypeOK
<1>2. InUse' = InUse \ {o} /\ o \in InUse
  BY <1>1 DEF InUse
<1>3. \A q \in InUse : Package(q)' = Package(q)
  BY <1>1 DEF InUse, Package, End
<1>4. \A q \in InUse : Package(q) = Package(o) => q = o
  BY DEF Package
<1>5. Packages' = Packages \ {Package(o)}
  BY <1>2, <1>3, <1>4 DEF Packages
<1> QED
  BY <1>2, <1>5 DEF Packages

\* A step that neither locks nor unlocks leaves the regions alone.
LEMMA RegionsStay ==
    ASSUME InUse' = InUse, \A o \in InUse : items'[o] = items[o]
    PROVE  Packages' = Packages
<1>1. \A o \in InUse : Package(o)' = Package(o)
  BY DEF Package, End
<1> QED
  BY <1>1 DEF Packages

LEMMA PlaceAcquires ==
    ASSUME RingConsistent, Place, Packages # Packages'
    PROVE  \E r \in Promised!Region : /\ \A a \in Packages : Promised!Apart(a, r)
                                      /\ r \notin Packages
                                      /\ Packages' = Packages \cup {r}
<1>1. ASSUME NEW o \in DOMAIN items'
      PROVE  \/ o \in DOMAIN items /\ items'[o] = items[o]
             \/ Wraps /\ o = alloc_offset /\ items'[o].lock = 0
             \/ Fits /\ o = At /\ items'[o] = [lock |-> 1, length |-> size]
  BY EndsAre
<1>2. Wraps => alloc_offset \notin DOMAIN items
  BY SkippedFacts
<1>3. CASE ~Fits
  <2>1. InUse' = InUse /\ \A o \in InUse : items'[o] = items[o]
    BY <1>1, <1>2, <1>3, EndsAre DEF InUse
  <2> QED
    BY <2>1, RegionsStay
<1>4. CASE Fits
  <2> DEFINE r == [seg |-> 0, lo |-> At, hi |-> At + HDR + size]
  <2>1. /\ HDR \in Nat /\ Size \in Nat /\ At \in Nat /\ size \in Nat /\ size > 0
        /\ At + HDR + size + HDR <= Size
        /\ At \notin DOMAIN Skipped
        /\ \A o \in DOMAIN items : o < At => End(o) <= At
        /\ \A o \in DOMAIN items : At < o => At + HDR + size <= o
    BY <1>4, RoomFacts, OffsetFacts DEF RingConsistent
  <2>2. At \notin DOMAIN items /\ (Wraps => At # alloc_offset)
    BY <2>1, SkippedFacts
  <2>3. InUse' = InUse \cup {At}
    BY <1>1, <1>2, <1>4, <2>2, EndsAre DEF InUse
  <2>4. \A o \in InUse : Package(o)' = Package(o)
    BY EndsAre DEF Package, InUse
  <2>5. \A o : o = At => Package(o)' = r
    BY <1>4, EndsAre DEF Package
  <2>6. Packages' = Packages \cup {r}
    BY <2>3, <2>4, <2>5 DEF Packages
  <2>7. r \in Promised!Region
    BY <2>1 DEF Promised!Region
  <2>8. ASSUME NEW o \in InUse PROVE Promised!Apart(Package(o), r) /\ Package(o) # r
    <3>1. o \in DOMAIN items /\ o \in Nat /\ o # At
      BY <2>2, ItemFacts DEF InUse, RingConsistent
    <3> QED
      BY <2>1, <3>1 DEF Package, Promised!Apart
  <2> QED
    BY <2>6, <2>7, <2>8 DEF Packages
<1> QED
  BY <1>3, <1>4

\* Each step of the reactor and the workers gives out one package apart from
\* those in use, takes one back, or leaves them (swRingBuffer_alloc, _free).
THEOREM Refinement == Spec => ImplementsAllocator
<1>1. Init => Promised!Init
  BY DEF Init, Promised!Init, Packages, InUse
<1>2. RingConsistent /\ [Next]_vars => [Promised!Next]_Packages
  <2> SUFFICES ASSUME RingConsistent, [Next]_vars
               PROVE  Promised!Next \/ Packages' = Packages
    OBVIOUS
  <2>1. ASSUME UNCHANGED items PROVE Packages' = Packages
    BY <2>1, RegionsStay DEF InUse
  <2>2. CASE Collect
    <3>1. InUse' = InUse /\ \A o \in InUse : items'[o] = items[o]
      BY <2>2 DEF InUse, Collect, Unlocked
    <3> QED
      BY <3>1, RegionsStay
  <2>3. CASE Place
    BY <2>3, PlaceAcquires DEF Promised!Next, Promised!Acquire
  <2>4. CASE Refuse
    <3>1. ptr \in DOMAIN items /\ items[ptr].lock = 1
      BY <2>4 DEF RingConsistent, Owned, Owners, Refuse
    <3> QED
      BY <2>4, <3>1, FreeReleases DEF Refuse, Promised!Next, Promised!Release
  <2>5. ASSUME NEW o \in held, Unlock(o) PROVE Promised!Next
    <3>1. o \in DOMAIN items /\ items[o].lock = 1
      BY DEF RingConsistent, Owned, Owners
    <3> QED
      BY <2>5, <3>1, FreeReleases DEF Unlock, Promised!Next, Promised!Release
  <2>6. CASE UNCHANGED vars
    BY <2>1, <2>6 DEF vars, ring
  <2>7. CASE \/ \E n \in Lengths : Request(n)
             \/ Ask \/ CollectEnds \/ Send \/ Discard \/ RefuseCounted \/ CountFree
             \/ (\E o \in held : Die(o)) \/ DieCounting
    BY <2>1, <2>7 DEF ring, Request, Ask, CollectEnds, Send, Discard, RefuseCounted, CountFree, Die, DieCounting
  <2> QED
    BY <2>2, <2>3, <2>4, <2>5, <2>6, <2>7 DEF Next, Reactor, Worker
<1> QED
  BY <1>1, <1>2, Consistent, PTL DEF Spec, ImplementsAllocator, Promised!Spec
=============================================================================
