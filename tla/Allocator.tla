------------------------------ MODULE Allocator ------------------------------
(***************************************************************************)
(* What a shared-memory allocator promises its callers: regions of the     *)
(* arena are handed out and taken back one at a time, and no two regions   *)
(* in use ever share a word.                                               *)
(***************************************************************************)
EXTENDS Integers

CONSTANTS Segs,   \* the segments
          Lo, Hi  \* a region is made of words Lo .. Hi-1 of one segment

VARIABLE regions

Region == {r \in [seg : Segs, lo : Lo .. Hi, hi : Lo .. Hi] : r.lo <= r.hi}

Apart(a, b) == a.seg # b.seg \/ a.hi <= b.lo \/ b.hi <= a.lo

Init == regions = {}

Acquire == \E r \in Region : /\ \A a \in regions : Apart(a, r)
                             /\ r \notin regions
                             /\ regions' = regions \cup {r}

Release == \E r \in regions : regions' = regions \ {r}

Next == Acquire \/ Release

Spec == Init /\ [][Next]_regions
=============================================================================
