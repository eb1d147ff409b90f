---------------------------- MODULE ApcSmaProofs ----------------------------
(***************************************************************************)
(* Theorems about ApcSma and their proofs.                                 *)
(***************************************************************************)
EXTENDS ApcSma, FiniteSetTheorems, TLAPS

(***************************************************************************)
(* The segment that apc_sma_api_init builds is well formed and busy nowhere. *)
(***************************************************************************)
LEMMA InitWellFormed == /\ InitSegment \in Segment
                        /\ WellFormed(InitSegment)
                        /\ Busy(InitSegment) = {}
<1> DEFINE s == InitSegment
           E == First + BLK
<1>1. /\ First \in Nat /\ E \in Nat /\ Last \in Nat
      /\ First < E /\ E < Last /\ Last - E >= BLK
      /\ First \in Off /\ E \in Off /\ Last \in Off
      /\ SEGSIZE - HDR - 2 * BLK - BLK = Last - E
  BY SegmentAssumption DEF First, Last, Off
<1>2. /\ s.size = [h \in Off |-> IF h = First THEN 0 ELSE IF h = E THEN Last - E
                                 ELSE IF h = Last THEN 0 ELSE Junk]
      /\ s.prev_size = [h \in Off |-> IF h = First THEN 0 ELSE IF h = E THEN 0
                                 ELSE IF h = Last THEN Last - E ELSE Junk]
      /\ s.fnext = [h \in Off |-> IF h = First THEN E ELSE IF h = E THEN Last
                                 ELSE IF h = Last THEN 0 ELSE Junk]
      /\ s.fprev = [h \in Off |-> IF h = First THEN 0 ELSE IF h = E THEN First
                                 ELSE IF h = Last THEN E ELSE Junk]
  BY <1>1 DEF InitSegment
<1>3. InitSegment \in Segment
  BY <1>1, SegmentAssumption DEF InitSegment, Segment, Junk
<1>4. Headers(s) = {First, E, Last}
  BY <1>1, <1>2 DEF Headers, Junk
<1>5. Blocks(s) = {E} /\ Free(s) = {E} /\ Busy(s) = {}
  BY <1>1, <1>2, <1>4 DEF Blocks, Free, Busy
<1> HIDE DEF s, E
<1>6. Tiled(s)
  BY <1>1, <1>2, <1>4, <1>5 DEF Tiled, E
<1>7. Marked(s)
  BY <1>1, <1>2, <1>4, <1>5 DEF Marked, E
<1>8. Linked(s)
  BY <1>1, <1>2, <1>4, <1>5 DEF Linked
<1>9. Coalesced(s)
  BY <1>1, <1>2, <1>5 DEF Coalesced
<1>10. QED
  BY <1>3, <1>5, <1>6, <1>7, <1>8, <1>9 DEF WellFormed, s

(***************************************************************************)
(* The free list is acyclic: some ranking of the offsets grows along it.   *)
(* Consistent links alone would allow a ring of free blocks apart from the *)
(* sentinels, from which an unlink makes a block that is its own neighbour. *)
(***************************************************************************)
Ranking(s, rank) == \A h \in Free(s) \cup {First} : rank[h] < rank[s.fnext[h]]
Acyclic(s) == \E rank \in [Off -> Int] : Ranking(s, rank)

\* The inductive invariant of a segment.
Sound(s) == s \in Segment /\ WellFormed(s) /\ Acyclic(s)

(***************************************************************************)
(* What a fit tells: its predecessor in the list is free or the sentinel,  *)
(* the fit is a free block, and the tags around it are consistent.         *)
(***************************************************************************)
LEMMA SentinelOrder == /\ First \in Nat /\ Last \in Nat /\ BLK \in Nat \ {0}
                       /\ First < First + BLK /\ First + BLK < Last
                       /\ First # 0
                       /\ Off = First .. Last
                       /\ Off \subseteq Nat
  BY SegmentAssumption DEF First, Last, Off

LEMMA FreeBlockFacts ==
    ASSUME NEW s, Sound(s), NEW cur \in Free(s)
    PROVE  LET end == cur + s.size[cur]
           IN  /\ cur \in Blocks(s) /\ cur \in Headers(s) /\ cur \in Off /\ cur # First /\ cur # Last
               /\ s.fnext[cur] \in Free(s) \cup {Last} /\ s.fprev[cur] \in Free(s) \cup {First}
               /\ s.fprev[s.fnext[cur]] = cur /\ s.fnext[s.fprev[cur]] = cur
               /\ s.fnext[cur] # cur /\ s.fprev[cur] # cur /\ s.fprev[cur] # s.fnext[cur]
               /\ s.fnext[cur] \in Off /\ s.fprev[cur] \in Off /\ s.fnext[cur] # 0
               /\ s.size[cur] \in Nat
               /\ end \in Headers(s) /\ end \in Off /\ end # First /\ s.fnext[end] = 0
               /\ cur < end
<1> DEFINE end == cur + s.size[cur]
<1>1. s \in Segment /\ Tiled(s) /\ Marked(s) /\ Linked(s) /\ Coalesced(s)
  BY DEF Sound, WellFormed
<1>2. cur \in Blocks(s) /\ cur \in Headers(s) /\ cur \in Off /\ cur # First /\ cur # Last
  BY DEF Free, Blocks, Headers
<1>3. /\ s.fnext[cur] \in Free(s) \cup {Last} /\ s.fprev[cur] \in Free(s) \cup {First}
      /\ s.fprev[s.fnext[cur]] = cur /\ s.fnext[s.fprev[cur]] = cur
  BY <1>1 DEF Linked
<1>4. s.fnext[cur] \in Off /\ s.fprev[cur] \in Off /\ s.fnext[cur] # 0
  BY <1>3, SentinelOrder DEF Free, Blocks, Headers
<1>5. PICK rank \in [Off -> Int] : Ranking(s, rank)
  BY DEF Sound, Acyclic
<1>6. rank[cur] < rank[s.fnext[cur]] /\ rank[s.fprev[cur]] < rank[cur]
  BY <1>3, <1>5 DEF Ranking
<1>7. s.fnext[cur] # cur /\ s.fprev[cur] # cur /\ s.fprev[cur] # s.fnext[cur]
  BY <1>2, <1>4, <1>6
<1>8. s.size[cur] \in Nat /\ s.size[cur] >= BLK
  BY <1>1, <1>2 DEF Segment, Headers, Tiled
<1>9. end \in Headers(s) /\ s.fnext[end] = 0
  BY <1>1, <1>2 DEF Tiled, Coalesced
<1>10. end \in Off /\ cur \in Nat /\ cur >= First
  BY <1>2, <1>9, SentinelOrder DEF Headers
<1>11. end # First /\ cur < end
  BY <1>8, <1>10, <1>2, SentinelOrder
<1> QED
  BY <1>2, <1>3, <1>4, <1>7, <1>8, <1>9, <1>10, <1>11

LEMMA BlockFacts ==
    ASSUME NEW s, Sound(s), NEW h \in Blocks(s)
    PROVE  /\ h \in Headers(s) /\ h \in Off /\ h \in Nat /\ h >= First + BLK /\ h < Last
           /\ s.size[h] \in Nat /\ s.size[h] >= BLK
           /\ h + s.size[h] \in Headers(s) /\ h + s.size[h] \in Off
           /\ h + s.size[h] > h
           /\ \A g \in Headers(s) : g <= h \/ g >= h + s.size[h]
<1>1. s \in Segment /\ Tiled(s)
  BY DEF Sound, WellFormed
<1>2. h \in Headers(s) /\ h \in Off /\ h # First /\ h # Last /\ s.size[h] # Junk
  BY DEF Blocks, Headers
<1>3. s.size[h] \in Nat
  BY <1>1, <1>2 DEF Segment
<1>4. /\ s.size[h] >= BLK /\ h + s.size[h] \in Headers(s) /\ h >= First + BLK
      /\ \A g \in Headers(s) : g <= h \/ g >= h + s.size[h]
  BY <1>1, <1>2 DEF Tiled
<1>5. h + s.size[h] \in Off
  BY <1>4 DEF Headers
<1> QED
  BY <1>2, <1>3, <1>4, <1>5, SentinelOrder

\* Two blocks that end at the same place are one.
LEMMA EndsDiffer ==
    ASSUME NEW s, Sound(s), NEW g \in Blocks(s), NEW h \in Blocks(s), g + s.size[g] = h + s.size[h]
    PROVE  g = h
  BY BlockFacts

LEMMA FitIsFree ==
    ASSUME NEW s, Sound(s), NEW r \in Nat, r >= BLK, NEW prv \in PrvNextFit(s, r)
    PROVE  /\ s.fnext[prv] \in Free(s) /\ s.fprev[s.fnext[prv]] = prv
           /\ s.size[s.fnext[prv]] >= r
<1>1. prv \in Headers(s) /\ s.fnext[prv] # 0 /\ s.size[s.fnext[prv]] >= r
  BY DEF PrvNextFit
<1>2. prv \in Free(s) \cup {First}
  BY <1>1 DEF Free, Blocks, Sound, WellFormed, Linked
<1>3. s.fnext[prv] \in Free(s) \cup {Last} /\ s.fprev[s.fnext[prv]] = prv
  BY <1>2 DEF Sound, WellFormed, Linked
<1>4. s.fnext[prv] # Last
  BY <1>1, SentinelOrder DEF Sound, WellFormed, Tiled
<1> QED
  BY <1>1, <1>3, <1>4

(***************************************************************************)
(* TakeWhole and Split keep a segment sound, and make exactly the fit busy. *)
(***************************************************************************)
LEMMA TakeWholeSound ==
    ASSUME NEW s, Sound(s), NEW cur \in Free(s), NEW prv, prv = s.fprev[cur]
    PROVE  LET t == TakeWhole(s, prv)
           IN  /\ Sound(t) /\ t.size = s.size
               /\ Busy(t) = Busy(s) \cup {cur} /\ cur \notin Busy(s)
<1> DEFINE t == TakeWhole(s, prv)
           end == cur + s.size[cur]
           nf == s.fnext[cur]
<1>1. /\ cur \in Blocks(s) /\ cur \in Headers(s) /\ cur \in Off /\ cur # First /\ cur # Last
      /\ nf \in Free(s) \cup {Last} /\ prv \in Free(s) \cup {First}
      /\ s.fprev[nf] = cur /\ s.fnext[prv] = cur
      /\ nf # cur /\ prv # cur /\ prv # nf
      /\ nf \in Off /\ prv \in Off /\ nf # 0
      /\ s.size[cur] \in Nat
      /\ end \in Headers(s) /\ end \in Off /\ end # First /\ s.fnext[end] = 0
      /\ cur < end
  BY FreeBlockFacts
<1>2. /\ t.size = s.size
      /\ t.fnext = [s.fnext EXCEPT ![prv] = nf, ![cur] = 0]
      /\ t.fprev = [s.fprev EXCEPT ![nf] = prv]
      /\ t.prev_size = [s.prev_size EXCEPT ![end] = 0]
      /\ t.avail = s.avail - s.size[cur]
      /\ t = [size |-> t.size, prev_size |-> t.prev_size, fnext |-> t.fnext,
              fprev |-> t.fprev, avail |-> t.avail]
  BY <1>1 DEF TakeWhole
<1>3. s \in Segment /\ Tiled(s) /\ Marked(s) /\ Linked(s) /\ Coalesced(s)
  BY DEF Sound, WellFormed
<1> HIDE DEF t, end, nf
<1>4. t \in Segment
  <2>1. t.size \in [Off -> Nat \cup {Junk}] /\ t.avail \in Int
    BY <1>1, <1>2, <1>3 DEF Segment
  <2>2. /\ t.prev_size \in [Off -> Nat \cup {Junk}] /\ t.fnext \in [Off -> Nat \cup {Junk}]
        /\ t.fprev \in [Off -> Nat \cup {Junk}]
    <3>1. nf \in Nat /\ prv \in Nat
      BY <1>1, SentinelOrder
    <3> QED
      BY <1>1, <1>2, <1>3, <3>1 DEF Segment
  <2> QED
    BY <1>2, <2>1, <2>2 DEF Segment
<1>5. Headers(t) = Headers(s) /\ Blocks(t) = Blocks(s)
  BY <1>2 DEF Headers, Blocks
<1>6. Free(t) = Free(s) \ {cur} /\ Busy(t) = Busy(s) \cup {cur} /\ cur \notin Busy(s)
  BY <1>1, <1>2, <1>3, <1>5 DEF Free, Busy, Segment, Blocks, Headers
<1>7. Tiled(t)
  BY <1>2, <1>3, <1>5 DEF Tiled
<1>P. /\ \A h \in Off : /\ t.fnext[h] = IF h = cur THEN 0 ELSE IF h = prv THEN nf ELSE s.fnext[h]
                        /\ t.fprev[h] = IF h = nf THEN prv ELSE s.fprev[h]
                        /\ t.prev_size[h] = IF h = end THEN 0 ELSE s.prev_size[h]
      /\ Blocks(s) \subseteq Off /\ Free(s) \subseteq Off /\ Headers(s) \subseteq Off
      /\ First \in Off /\ Last \in Off
  BY <1>1, <1>2, <1>3, SentinelOrder DEF Segment, Free, Blocks, Headers
<1>8. Marked(t)
  <2>1. t.prev_size[First + BLK] = 0
    BY <1>3, <1>P, SentinelOrder DEF Marked
  <2>2. ASSUME NEW h \in Blocks(t)
        PROVE  t.prev_size[h + t.size[h]] = IF t.fnext[h] = 0 THEN 0 ELSE t.size[h]
    <3>1. h \in Blocks(s) /\ h \in Off /\ h + s.size[h] \in Off
      BY <1>5, BlockFacts
    <3>2. CASE h = cur
      BY <3>1, <3>2, <1>2, <1>P DEF end
    <3>3. CASE h # cur
      <4>1. h + s.size[h] # end
        BY <3>1, <3>3, <1>1, EndsDiffer DEF end
      <4>2. s.prev_size[h + s.size[h]] = IF s.fnext[h] = 0 THEN 0 ELSE s.size[h]
        BY <3>1, <1>3 DEF Marked
      <4>3. t.fnext[h] = 0 <=> s.fnext[h] = 0
        BY <3>1, <3>3, <1>1, <1>P, SentinelOrder
      <4> QED
        BY <3>1, <4>1, <4>2, <4>3, <1>2, <1>P
    <3> QED
      BY <3>2, <3>3
  <2>3. ASSUME NEW h \in Headers(t) \ {First}, t.prev_size[h] # 0
        PROVE  /\ h - t.prev_size[h] \in Free(t)
               /\ t.size[h - t.prev_size[h]] = t.prev_size[h]
    <3>1. h \in Headers(s) /\ h \in Off /\ h # First /\ h # end /\ t.prev_size[h] = s.prev_size[h]
      BY <2>3, <1>5, <1>P
    <3>2. h - s.prev_size[h] \in Free(s) /\ s.size[h - s.prev_size[h]] = s.prev_size[h]
      BY <3>1, <2>3, <1>3 DEF Marked
    <3>3. h - s.prev_size[h] # cur
      BY <3>1, <3>2, <1>1, SentinelOrder DEF end
    <3> QED
      BY <3>1, <3>2, <3>3, <1>2, <1>6
  <2> QED
    BY <2>1, <2>2, <2>3 DEF Marked
<1>9. Linked(t)
  <2>1. t.fnext[First] # 0 /\ t.fnext[Last] = 0
    BY <1>1, <1>3, <1>P, SentinelOrder DEF Linked
  <2>2. ASSUME NEW h \in Free(t) \cup {First}
        PROVE  t.fnext[h] \in Free(t) \cup {Last} /\ t.fprev[t.fnext[h]] = h
    <3>1. h \in Free(s) \cup {First} /\ h # cur /\ h \in Off
      BY <1>1, <1>6, <1>P
    <3>2. s.fnext[h] \in Free(s) \cup {Last} /\ s.fprev[s.fnext[h]] = h /\ s.fnext[h] \in Off
      BY <3>1, <1>3, <1>P DEF Linked
    <3>3. CASE h = prv
      BY <3>1, <3>2, <3>3, <1>1, <1>6, <1>P
    <3>4. CASE h # prv
      BY <3>1, <3>2, <3>4, <1>1, <1>6, <1>P
    <3> QED
      BY <3>3, <3>4
  <2>3. ASSUME NEW h \in Free(t) \cup {Last}
        PROVE  t.fprev[h] \in Free(t) \cup {First} /\ t.fnext[t.fprev[h]] = h
    <3>1. h \in Free(s) \cup {Last} /\ h # cur /\ h \in Off
      BY <1>1, <1>6, <1>P
    <3>2. s.fprev[h] \in Free(s) \cup {First} /\ s.fnext[s.fprev[h]] = h /\ s.fprev[h] \in Off
      BY <3>1, <1>3, <1>P DEF Linked
    <3>3. CASE h = nf
      BY <3>1, <3>2, <3>3, <1>1, <1>6, <1>P
    <3>4. CASE h # nf
      BY <3>1, <3>2, <3>4, <1>1, <1>6, <1>P DEF nf
    <3> QED
      BY <3>3, <3>4
  <2> QED
    BY <2>1, <2>2, <2>3 DEF Linked
<1>10. Coalesced(t)
  <2> SUFFICES ASSUME NEW h \in Free(t) PROVE t.fnext[h + t.size[h]] = 0
    BY DEF Coalesced
  <2>1. h \in Free(s) /\ h + s.size[h] \in Off /\ s.fnext[h + s.size[h]] = 0
    BY <1>3, <1>6, BlockFacts DEF Coalesced, Free
  <2> QED
    BY <2>1, <1>1, <1>2, <1>P, SentinelOrder
<1>11. Acyclic(t)
  <2>1. PICK rank \in [Off -> Int] : Ranking(s, rank)
    BY DEF Sound, Acyclic
  <2>2. ASSUME NEW h \in Free(t) \cup {First}
        PROVE  rank[h] < rank[t.fnext[h]]
    <3>1. h \in Free(s) \cup {First} /\ h # cur /\ h \in Off /\ s.fnext[h] \in Off
      BY <1>1, <1>3, <1>6, <1>P DEF Linked
    <3>2. rank[h] < rank[s.fnext[h]] /\ rank[prv] < rank[cur] /\ rank[cur] < rank[nf]
      BY <3>1, <2>1, <1>1 DEF Ranking, nf
    <3> QED
      BY <3>1, <3>2, <1>1, <1>P
  <2> QED
    BY <2>1, <2>2 DEF Acyclic, Ranking
<1> QED
  BY <1>2, <1>4, <1>6, <1>7, <1>8, <1>9, <1>10, <1>11 DEF t, Sound, WellFormed

LEMMA SplitSound ==
    ASSUME NEW s, Sound(s), NEW cur \in Free(s), NEW prv, prv = s.fprev[cur], s.fnext[prv] = cur,
           NEW r \in Nat, r >= BLK, s.size[cur] >= r + BLK
    PROVE  LET t == Split(s, prv, r)
           IN  /\ Sound(t) /\ Busy(t) = Busy(s) \cup {cur} /\ cur \notin Busy(s)
               /\ t.size[cur] = r
               /\ \A h \in Busy(s) : t.size[h] = s.size[h]
<1> DEFINE t == Split(s, prv, r)
           end == cur + s.size[cur]
           nxt == cur + r
           rest == s.size[cur] - r
           nf == s.fnext[cur]
<1>1. /\ cur \in Blocks(s) /\ cur \in Headers(s) /\ cur \in Off /\ cur # First /\ cur # Last
      /\ nf \in Free(s) \cup {Last} /\ prv \in Free(s) \cup {First}
      /\ s.fprev[nf] = cur /\ s.fnext[prv] = cur
      /\ nf # cur /\ prv # cur /\ prv # nf
      /\ nf \in Off /\ prv \in Off /\ nf # 0
      /\ s.size[cur] \in Nat
      /\ end \in Headers(s) /\ end \in Off /\ end # First /\ s.fnext[end] = 0
      /\ cur < end
  BY FreeBlockFacts
<1>2. /\ cur \in Nat /\ nf \in Nat /\ prv \in Nat /\ rest \in Nat /\ rest >= BLK
      /\ nxt \in Nat /\ cur < nxt /\ nxt < end /\ nxt \in Off /\ nxt + rest = end
      /\ nxt # First /\ nxt # Last /\ nxt # First + BLK /\ nxt >= First + BLK /\ nxt # 0
      /\ nxt >= cur + BLK /\ cur # 0
  <2>1. cur \in Nat /\ nf \in Nat /\ prv \in Nat
    BY <1>1, SentinelOrder
  <2>2. cur >= First + BLK /\ end \in Nat /\ end <= Last
    BY <1>1, BlockFacts, SentinelOrder
  <2>3. rest \in Nat /\ rest >= BLK /\ nxt \in Nat /\ cur < nxt /\ nxt + rest = end /\ nxt < end
    BY <1>1, <2>1, <2>2, SentinelOrder
  <2> HIDE DEF end, rest, nf
  <2> QED
    BY <1>1, <2>1, <2>2, <2>3, SentinelOrder
<1>3. s \in Segment /\ Tiled(s) /\ Marked(s) /\ Linked(s) /\ Coalesced(s)
  BY DEF Sound, WellFormed
<1>4. /\ t.size = [s.size EXCEPT ![cur] = r, ![nxt] = rest]
      /\ t.fnext = [s.fnext EXCEPT ![nxt] = nf, ![prv] = nxt, ![cur] = 0]
      /\ t.fprev = [s.fprev EXCEPT ![nxt] = prv, ![nf] = nxt]
      /\ t.prev_size = [s.prev_size EXCEPT ![nxt] = 0, ![end] = rest]
      /\ t.avail = s.avail - r
      /\ t = [size |-> t.size, prev_size |-> t.prev_size, fnext |-> t.fnext,
              fprev |-> t.fprev, avail |-> t.avail]
  BY <1>1, <1>2 DEF Split
<1> HIDE DEF t, end, nf, nxt, rest
<1>5. nxt \notin Headers(s)
  BY <1>1, <1>2, BlockFacts DEF end
<1>6. t \in Segment
  <2>1. t.size \in [Off -> Nat \cup {Junk}] /\ t.prev_size \in [Off -> Nat \cup {Junk}]
    BY <1>1, <1>2, <1>3, <1>4 DEF Segment
  <2>2. t.fnext \in [Off -> Nat \cup {Junk}] /\ t.fprev \in [Off -> Nat \cup {Junk}] /\ t.avail \in Int
    BY <1>1, <1>2, <1>3, <1>4 DEF Segment
  <2> QED
    BY <1>4, <2>1, <2>2 DEF Segment
<1>7. \A h \in Off : /\ t.size[h] = (IF h = nxt THEN rest ELSE IF h = cur THEN r ELSE s.size[h])
                     /\ t.fnext[h] = (IF h = cur THEN 0 ELSE IF h = prv THEN nxt
                                      ELSE IF h = nxt THEN nf ELSE s.fnext[h])
                     /\ t.fprev[h] = (IF h = nf THEN nxt ELSE IF h = nxt THEN prv ELSE s.fprev[h])
                     /\ t.prev_size[h] = (IF h = end THEN rest ELSE IF h = nxt THEN 0
                                          ELSE s.prev_size[h])
  BY <1>1, <1>2, <1>3, <1>4 DEF Segment
<1>8. /\ Blocks(s) \subseteq Off /\ Free(s) \subseteq Off /\ Headers(s) \subseteq Off
      /\ Busy(s) \subseteq Off /\ First \in Off /\ Last \in Off
      /\ Free(s) \subseteq Headers(s) /\ First \in Headers(s) /\ Last \in Headers(s)
  BY <1>3, SentinelOrder DEF Free, Busy, Blocks, Headers, Tiled
<1>9. Headers(t) = Headers(s) \cup {nxt} /\ Blocks(t) = Blocks(s) \cup {nxt}
  <2>1. \A h \in Off : t.size[h] # Junk <=> (s.size[h] # Junk \/ h = nxt)
    BY <1>1, <1>2, <1>7 DEF Junk, Headers
  <2>2. Headers(t) = Headers(s) \cup {nxt}
    BY <1>2, <2>1 DEF Headers
  <2> QED
    BY <1>2, <2>2 DEF Blocks
<1>10. prv # nxt /\ nf # nxt /\ nxt \notin Free(s) /\ cur # nxt
  BY <1>1, <1>2, <1>5, <1>8
<1>11. /\ Free(t) = (Free(s) \ {cur}) \cup {nxt}
       /\ Busy(t) = Busy(s) \cup {cur} /\ cur \notin Busy(s)
  <2>1. \A h \in Blocks(s) \cup {nxt} : t.fnext[h] # 0 <=> (h = nxt \/ (h # cur /\ s.fnext[h] # 0))
    BY <1>1, <1>2, <1>7, <1>8, <1>10
  <2>2. cur \in Blocks(s) /\ s.fnext[cur] # 0 /\ nxt \notin Blocks(s)
    BY <1>1, <1>5 DEF Free, Blocks
  <2> QED
    BY <1>9, <2>1, <2>2 DEF Free, Busy
<1>12. Tiled(t)
  <2>1. /\ {First, First + BLK, Last} \subseteq Headers(t)
        /\ t.size[First] = 0 /\ t.size[Last] = 0
        /\ \A h \in Headers(t) : h = First \/ h >= First + BLK
    BY <1>1, <1>2, <1>3, <1>7, <1>8, <1>9 DEF Tiled
  <2>2. ASSUME NEW h \in Blocks(t)
        PROVE  /\ t.size[h] >= BLK
               /\ h + t.size[h] \in Headers(t)
               /\ \A g \in Headers(t) : g <= h \/ g >= h + t.size[h]
    <3>1. CASE h = nxt
      <4>1. \A g \in Headers(s) : g <= cur \/ g >= end
        BY <1>1, BlockFacts DEF end
      <4> QED
        BY <3>1, <4>1, <1>1, <1>2, <1>7, <1>8, <1>9, SentinelOrder, SMTT(30)
    <3>2. CASE h = cur
      <4>1. \A g \in Headers(s) : g <= cur \/ g >= end
        BY <1>1, BlockFacts DEF end
      <4> QED
        BY <3>2, <4>1, <1>1, <1>2, <1>7, <1>8, <1>9, SentinelOrder DEF nxt
    <3>3. CASE h # nxt /\ h # cur
      <4>1. /\ h \in Blocks(s) /\ h \in Headers(s) /\ h \in Off /\ h \in Nat /\ t.size[h] = s.size[h]
            /\ s.size[h] \in Nat /\ s.size[h] >= BLK /\ h + s.size[h] \in Headers(s)
            /\ \A g \in Headers(s) : g <= h \/ g >= h + s.size[h]
        BY <3>3, <1>7, <1>9, BlockFacts
      <4>2. h <= cur \/ h >= end
        BY <4>1, <1>1, BlockFacts DEF end
      <4>3. nxt <= h \/ nxt >= h + s.size[h]
        <5>1. cur <= h \/ cur >= h + s.size[h]
          BY <4>1, <1>1
        <5> QED
          BY <4>1, <4>2, <5>1, <3>3, <1>1, <1>2
      <4> QED
        BY <4>1, <4>3, <1>9
    <3> QED
      BY <3>1, <3>2, <3>3
  <2> QED
    BY <2>1, <2>2 DEF Tiled
<1>13. Marked(t)
  <2>1. t.prev_size[First + BLK] = 0
    <3>1. First + BLK # end /\ First + BLK \in Off
      BY <1>1, <1>2, <1>8, SentinelOrder, BlockFacts
    <3> QED
      BY <3>1, <1>2, <1>3, <1>7 DEF Marked
  <2>2. ASSUME NEW h \in Blocks(t)
        PROVE  t.prev_size[h + t.size[h]] = IF t.fnext[h] = 0 THEN 0 ELSE t.size[h]
    <3>1. CASE h = nxt
      BY <3>1, <1>1, <1>2, <1>7, <1>10
    <3>2. CASE h = cur
      BY <3>2, <1>1, <1>2, <1>7, <1>10 DEF nxt
    <3>3. CASE h # nxt /\ h # cur
      <4>1. /\ h \in Blocks(s) /\ h \in Off /\ t.size[h] = s.size[h]
            /\ h + s.size[h] \in Headers(s) /\ h + s.size[h] \in Off
        BY <3>3, <1>7, <1>9, BlockFacts
      <4>2. h + s.size[h] # end /\ h + s.size[h] # nxt
        BY <4>1, <3>3, <1>1, <1>5, EndsDiffer DEF end
      <4>3. s.prev_size[h + s.size[h]] = IF s.fnext[h] = 0 THEN 0 ELSE s.size[h]
        BY <4>1, <1>3 DEF Marked
      <4>4. t.fnext[h] = 0 <=> s.fnext[h] = 0
        BY <4>1, <3>3, <1>1, <1>2, <1>7
      <4> QED
        BY <4>1, <4>2, <4>3, <4>4, <1>7
    <3> QED
      BY <3>1, <3>2, <3>3
  <2>3. ASSUME NEW h \in Headers(t) \ {First}, t.prev_size[h] # 0
        PROVE  /\ h - t.prev_size[h] \in Free(t)
               /\ t.size[h - t.prev_size[h]] = t.prev_size[h]
    <3>1. h # nxt /\ h \in Headers(s) /\ h \in Off
      BY <2>3, <1>1, <1>2, <1>7, <1>8, <1>9
    <3>2. CASE h = end
      <4>1. t.prev_size[h] = rest /\ h - rest = nxt
        BY <3>1, <3>2, <1>2, <1>7
      <4> QED
        BY <4>1, <1>2, <1>7, <1>11
    <3>3. CASE h # end
      <4>1. t.prev_size[h] = s.prev_size[h]
        BY <3>1, <3>3, <1>7
      <4>2. h - s.prev_size[h] \in Free(s) /\ s.size[h - s.prev_size[h]] = s.prev_size[h]
        BY <3>1, <4>1, <2>3, <1>3 DEF Marked
      <4>3. h - s.prev_size[h] # cur
        BY <3>1, <3>3, <4>2, <1>1, SentinelOrder DEF end
      <4> QED
        BY <4>1, <4>2, <4>3, <1>7, <1>8, <1>10, <1>11
    <3> QED
      BY <3>2, <3>3
  <2> QED
    BY <2>1, <2>2, <2>3 DEF Marked
<1>14. Linked(t)
  <2>1. t.fnext[First] # 0 /\ t.fnext[Last] = 0
    BY <1>1, <1>2, <1>3, <1>7, <1>8, SentinelOrder DEF Linked, Free, Blocks
  <2>2. ASSUME NEW h \in Free(t) \cup {First}
        PROVE  t.fnext[h] \in Free(t) \cup {Last} /\ t.fprev[t.fnext[h]] = h
    <3>1. CASE h = nxt
      BY <3>1, <1>1, <1>2, <1>7, <1>10, <1>11
    <3>2. CASE h = prv
      BY <3>2, <1>1, <1>2, <1>7, <1>10, <1>11
    <3>3. CASE h # nxt /\ h # prv
      <4>1. h \in Free(s) \cup {First} /\ h # cur /\ h \in Off
        BY <3>3, <1>1, <1>8, <1>11
      <4>2. s.fnext[h] \in Free(s) \cup {Last} /\ s.fprev[s.fnext[h]] = h /\ s.fnext[h] \in Off
        BY <4>1, <1>3, <1>8 DEF Linked
      <4>3. s.fnext[h] # cur /\ s.fnext[h] # nf /\ s.fnext[h] # nxt
        BY <4>1, <4>2, <3>3, <1>1, <1>2, <1>10
      <4> QED
        BY <4>1, <4>2, <4>3, <3>3, <1>7, <1>11
    <3> QED
      BY <3>1, <3>2, <3>3
  <2>3. ASSUME NEW h \in Free(t) \cup {Last}
        PROVE  t.fprev[h] \in Free(t) \cup {First} /\ t.fnext[t.fprev[h]] = h
    <3>1. CASE h = nxt
      BY <3>1, <1>1, <1>2, <1>7, <1>10, <1>11
    <3>2. CASE h = nf
      BY <3>2, <1>1, <1>2, <1>7, <1>10, <1>11
    <3>3. CASE h # nxt /\ h # nf
      <4>1. h \in Free(s) \cup {Last} /\ h # cur /\ h \in Off
        BY <3>3, <1>1, <1>8, <1>11
      <4>2. s.fprev[h] \in Free(s) \cup {First} /\ s.fnext[s.fprev[h]] = h /\ s.fprev[h] \in Off
        BY <4>1, <1>3, <1>8 DEF Linked
      <4>3. s.fprev[h] # cur /\ s.fprev[h] # prv /\ s.fprev[h] # nxt
        BY <4>1, <4>2, <3>3, <1>1, <1>2, <1>10 DEF nf
      <4> QED
        BY <4>1, <4>2, <4>3, <3>3, <1>7, <1>11
    <3> QED
      BY <3>1, <3>2, <3>3
  <2> QED
    BY <2>1, <2>2, <2>3 DEF Linked
<1>15. Coalesced(t)
  <2> SUFFICES ASSUME NEW h \in Free(t) PROVE t.fnext[h + t.size[h]] = 0
    BY DEF Coalesced
  <2>1. \A g \in Off : (s.fnext[g] = 0 /\ g # nxt) => t.fnext[g] = 0
    BY <1>1, <1>2, <1>7
  <2>2. CASE h = nxt
    BY <2>1, <2>2, <1>1, <1>2, <1>7
  <2>3. CASE h # nxt
    <3>1. h \in Free(s) /\ h \in Blocks(s) /\ t.size[h] = s.size[h]
      BY <2>3, <1>7, <1>8, <1>11 DEF Free
    <3>2. h + s.size[h] \in Headers(s) /\ h + s.size[h] \in Off /\ s.fnext[h + s.size[h]] = 0
      BY <3>1, <1>3, BlockFacts DEF Coalesced
    <3> QED
      BY <2>1, <3>1, <3>2, <1>5
  <2> QED
    BY <2>2, <2>3
<1>16. Acyclic(t)
  <2>1. PICK rank \in [Off -> Int] : Ranking(s, rank)
    BY DEF Sound, Acyclic
  <2> DEFINE rank2 == [rank EXCEPT ![nxt] = rank[cur]]
  <2>2. ASSUME NEW h \in Free(t) \cup {First}
        PROVE  rank2[h] < rank2[t.fnext[h]]
    <3>0. /\ rank[prv] < rank[cur] /\ rank[cur] < rank[nf]
          /\ \A g \in Off : rank2[g] = IF g = nxt THEN rank[cur] ELSE rank[g]
      BY <2>1, <1>1 DEF Ranking, nf
    <3>1. CASE h = nxt
      BY <3>0, <3>1, <1>1, <1>2, <1>7, <1>10
    <3>2. CASE h = prv
      BY <3>0, <3>2, <1>1, <1>2, <1>7, <1>10
    <3>3. CASE h # nxt /\ h # prv
      <4>1. h \in Free(s) \cup {First} /\ h # cur /\ h \in Off
        BY <3>3, <1>1, <1>8, <1>11
      <4>2. s.fnext[h] \in Off /\ s.fnext[h] # nxt /\ t.fnext[h] = s.fnext[h]
        BY <4>1, <3>3, <1>2, <1>3, <1>7, <1>8, <1>10 DEF Linked
      <4>3. rank[h] < rank[s.fnext[h]]
        BY <4>1, <2>1 DEF Ranking
      <4> QED
        BY <4>1, <4>2, <4>3, <3>0, <3>3
    <3> QED
      BY <3>1, <3>2, <3>3
  <2>3. rank2 \in [Off -> Int]
    BY <1>1
  <2> QED
    BY <2>2, <2>3 DEF Acyclic, Ranking
<1>17. t.size[cur] = r /\ \A h \in Busy(s) : t.size[h] = s.size[h]
  BY <1>1, <1>2, <1>5, <1>7, <1>8, <1>11 DEF Busy, Blocks
<1> QED
  BY <1>6, <1>11, <1>12, <1>13, <1>14, <1>15, <1>16, <1>17 DEF t, Sound, WellFormed

(***************************************************************************)
(* Deallocation joins a block with a free neighbour, on either side, by    *)
(* the same three writes.  Between the join and the push to the free list  *)
(* the tags of the block in hand are stale; Settle is the segment in which *)
(* it counts as busy, and PushFree cannot tell the difference.             *)
(***************************************************************************)
Settle(s, b) ==
    [size      |-> s.size,
     prev_size |-> [s.prev_size EXCEPT ![b + s.size[b]] = 0],
     fnext     |-> [s.fnext EXCEPT ![b] = 0],
     fprev     |-> s.fprev,
     avail     |-> s.avail]

\* a takes in c, the block after it; f, one of the two, was free.
Merged(s, f, a, c) == Settle(Absorb(Unlink(s, f), a, c), a)

LEMMA MergedSound ==
    ASSUME NEW s, Sound(s), NEW a \in Blocks(s), NEW c \in Blocks(s), c = a + s.size[a],
           NEW f, \/ f = a /\ a \in Free(s) /\ c \in Busy(s)
                  \/ f = c /\ c \in Free(s) /\ a \in Busy(s)
    PROVE  LET t == Merged(s, f, a, c)
           IN  /\ Sound(t)
               /\ Busy(t) = (Busy(s) \ {c}) \cup {a}
               /\ \A h \in Busy(s) \ {a, c} : t.size[h] = s.size[h]
               /\ t.size[a] = s.size[a] + s.size[c]
               /\ t.prev_size[a] = s.prev_size[a]
<1> DEFINE t == Merged(s, f, a, c)
           end == c + s.size[c]
           nf == s.fnext[f]
           pf == s.fprev[f]
<1>1. /\ a \in Headers(s) /\ c \in Headers(s) /\ a \in Off /\ c \in Off /\ a \in Nat /\ c \in Nat
      /\ end \in Headers(s) /\ end \in Off /\ end \in Nat
      /\ s.size[a] \in Nat /\ s.size[c] \in Nat
      /\ s.size[a] >= BLK /\ s.size[c] >= BLK
      /\ a < c /\ c < end /\ c < Last /\ First < a
      /\ a >= First + BLK /\ c # First + BLK
  BY SMTT(30), BlockFacts, SentinelOrder
<1>2. /\ nf \in Free(s) \cup {Last} /\ pf \in Free(s) \cup {First}
      /\ s.fprev[nf] = f /\ s.fnext[pf] = f
      /\ nf # f /\ pf # f /\ pf # nf /\ nf \in Off /\ pf \in Off /\ nf # 0
  BY FreeBlockFacts
<1>3. s \in Segment /\ Tiled(s) /\ Marked(s) /\ Linked(s) /\ Coalesced(s)
  BY DEF Sound, WellFormed
<1>4. nf # a /\ nf # c /\ pf # a /\ pf # c
  BY <1>1, <1>2, SentinelOrder, SMTT(30) DEF Free, Busy
<1>5. /\ t.size = [s.size EXCEPT ![a] = s.size[a] + s.size[c], ![c] = Junk]
      /\ t.fnext = [s.fnext EXCEPT ![pf] = nf, ![c] = Junk, ![a] = 0]
      /\ t.fprev = [s.fprev EXCEPT ![nf] = pf, ![c] = Junk]
      /\ t.prev_size = [s.prev_size EXCEPT ![c] = Junk, ![end] = 0]
      /\ t.avail = s.avail
      /\ t = [size |-> t.size, prev_size |-> t.prev_size, fnext |-> t.fnext,
              fprev |-> t.fprev, avail |-> t.avail]
  <2>1. a + (s.size[a] + s.size[c]) = end
    BY <1>1
  <2>2. [s.size EXCEPT ![a] = s.size[a] + s.size[c], ![c] = Junk][a] = s.size[a] + s.size[c]
    BY <1>1, <1>3 DEF Segment
  <2> QED
    BY <2>1, <2>2 DEF Merged, Settle, Absorb, Unlink
<1> HIDE DEF t, end, nf, pf
<1>6. t \in Segment
  <2>1. t.size \in [Off -> Nat \cup {Junk}] /\ t.prev_size \in [Off -> Nat \cup {Junk}] /\ t.avail \in Int
    BY <1>1, <1>3, <1>5 DEF Segment
  <2>2. t.fnext \in [Off -> Nat \cup {Junk}] /\ t.fprev \in [Off -> Nat \cup {Junk}]
    <3>1. nf \in Nat /\ pf \in Nat
      BY <1>2, SentinelOrder
    <3> QED
      BY <1>1, <1>2, <1>3, <1>5, <3>1 DEF Segment
  <2> QED
    BY <1>5, <2>1, <2>2 DEF Segment
<1>7. \A h \in Off : /\ t.size[h] = (IF h = a THEN s.size[a] + s.size[c]
                                     ELSE IF h = c THEN Junk ELSE s.size[h])
                     /\ t.fnext[h] = (IF h = a THEN 0 ELSE IF h = c THEN Junk
                                      ELSE IF h = pf THEN nf ELSE s.fnext[h])
                     /\ t.fprev[h] = (IF h = c THEN Junk ELSE IF h = nf THEN pf ELSE s.fprev[h])
                     /\ t.prev_size[h] = (IF h = end THEN 0 ELSE IF h = c THEN Junk
                                          ELSE s.prev_size[h])
  BY <1>1, <1>2, <1>3, <1>4, <1>5 DEF Segment
<1>8. /\ Blocks(s) \subseteq Off /\ Free(s) \subseteq Off /\ Headers(s) \subseteq Off
      /\ Busy(s) \subseteq Off /\ First \in Off /\ Last \in Off
      /\ Free(s) \subseteq Headers(s) /\ First \in Headers(s) /\ Last \in Headers(s)
  BY <1>3, SentinelOrder DEF Free, Busy, Blocks, Headers, Tiled
<1>9. Headers(t) = Headers(s) \ {c} /\ Blocks(t) = Blocks(s) \ {c}
  <2>1. \A h \in Off : t.size[h] # Junk <=> (s.size[h] # Junk /\ h # c)
    BY <1>1, <1>7 DEF Junk, Headers
  <2>2. Headers(t) = Headers(s) \ {c}
    BY <2>1 DEF Headers
  <2> QED
    BY <2>2 DEF Blocks
<1>10. /\ Free(t) = Free(s) \ {f}
       /\ Busy(t) = (Busy(s) \ {c}) \cup {a}
  <2>1. \A h \in Blocks(s) \ {a, c} : t.fnext[h] = 0 <=> s.fnext[h] = 0
    BY <1>1, <1>2, <1>7, <1>8, SentinelOrder DEF Free, Blocks
  <2>2. t.fnext[a] = 0
    BY <1>1, <1>7
  <2> QED
    BY <1>9, <2>1, <2>2, <1>1 DEF Free, Busy
<1>11. Tiled(t)
  <2>1. /\ {First, First + BLK, Last} \subseteq Headers(t)
        /\ t.size[First] = 0 /\ t.size[Last] = 0
        /\ \A h \in Headers(t) : h = First \/ h >= First + BLK
    BY <1>1, <1>3, <1>7, <1>8, <1>9, SentinelOrder, SMTT(30) DEF Tiled
  <2>2. ASSUME NEW h \in Blocks(t)
        PROVE  /\ t.size[h] >= BLK
               /\ h + t.size[h] \in Headers(t)
               /\ \A g \in Headers(t) : g <= h \/ g >= h + t.size[h]
    <3>1. CASE h = a
      <4>1. \A g \in Headers(s) : (g <= a \/ g >= c) /\ (g <= c \/ g >= end)
        BY BlockFacts DEF end
      <4>2. h + t.size[h] = end
        BY <3>1, <1>1, <1>7 DEF end
      <4>3. t.size[h] >= BLK
        <5>1. t.size[h] = s.size[a] + s.size[c]
          BY <3>1, <1>1, <1>7
        <5> QED
          BY <5>1, <1>1, SentinelOrder
      <4> QED
        BY <3>1, <4>1, <4>2, <4>3, <1>1, <1>8, <1>9, SentinelOrder, SMTT(30)
    <3>2. CASE h # a
      <4>1. /\ h \in Blocks(s) /\ h \in Off /\ t.size[h] = s.size[h]
            /\ s.size[h] >= BLK /\ h + s.size[h] \in Headers(s)
            /\ \A g \in Headers(s) : g <= h \/ g >= h + s.size[h]
        BY <3>2, <1>7, <1>8, <1>9, BlockFacts
      <4>2. h + s.size[h] # c
        BY <3>2, <4>1, EndsDiffer
      <4> QED
        BY <4>1, <4>2, <1>9
    <3> QED
      BY <3>1, <3>2
  <2> QED
    BY <2>1, <2>2 DEF Tiled
<1>12. Marked(t)
  <2>1. t.prev_size[First + BLK] = 0
    BY <1>1, <1>3, <1>7, <1>8 DEF Marked, Tiled
  <2>2. ASSUME NEW h \in Blocks(t)
        PROVE  t.prev_size[h + t.size[h]] = IF t.fnext[h] = 0 THEN 0 ELSE t.size[h]
    <3>1. CASE h = a
      <4>1. h + t.size[h] = end
        BY <3>1, <1>1, <1>7 DEF end
      <4> QED
        BY <3>1, <4>1, <1>1, <1>7
    <3>2. CASE h # a
      <4>1. h \in Blocks(s) /\ h # c /\ h \in Off /\ h + s.size[h] \in Off /\ t.size[h] = s.size[h]
        BY <3>2, <1>7, <1>8, <1>9, BlockFacts
      <4>2. h + s.size[h] # end /\ h + s.size[h] # c
        BY <3>2, <4>1, EndsDiffer DEF end
      <4>3. s.prev_size[h + s.size[h]] = IF s.fnext[h] = 0 THEN 0 ELSE s.size[h]
        BY <4>1, <1>3 DEF Marked
      <4>4. t.fnext[h] = 0 <=> s.fnext[h] = 0
        BY <4>1, <3>2, <1>2, <1>7, <1>8, SentinelOrder DEF Free, Blocks
      <4> QED
        BY <4>1, <4>2, <4>3, <4>4, <1>7
    <3> QED
      BY <3>1, <3>2
  <2>3. ASSUME NEW h \in Headers(t) \ {First}, t.prev_size[h] # 0
        PROVE  /\ h - t.prev_size[h] \in Free(t)
               /\ t.size[h - t.prev_size[h]] = t.prev_size[h]
    <3>1. h \in Headers(s) /\ h \in Off /\ h # c /\ h # end /\ t.prev_size[h] = s.prev_size[h]
      BY <2>3, <1>7, <1>8, <1>9
    <3>2. h - s.prev_size[h] \in Free(s) /\ s.size[h - s.prev_size[h]] = s.prev_size[h]
      BY <3>1, <2>3, <1>3 DEF Marked
    <3>3. h \in Nat /\ s.prev_size[h] \in Int
      BY <3>1, <1>3, SentinelOrder DEF Segment, Junk
    <3>4. h - s.prev_size[h] # f
      BY <3>1, <3>2, <3>3, <1>1 DEF end
    <3>5. h - s.prev_size[h] # a /\ h - s.prev_size[h] # c
      BY <3>2, <3>4 DEF Free, Busy
    <3> QED
      BY <3>1, <3>2, <3>4, <3>5, <1>7, <1>8, <1>10
  <2> QED
    BY <2>1, <2>2, <2>3 DEF Marked
<1>13. Linked(t)
  <2>1. t.fnext[First] # 0 /\ t.fnext[Last] = 0
    BY <1>1, <1>2, <1>3, <1>7, <1>8, SentinelOrder DEF Linked, Free, Blocks
  <2>2. ASSUME NEW h \in Free(t) \cup {First}
        PROVE  t.fnext[h] \in Free(t) \cup {Last} /\ t.fprev[t.fnext[h]] = h
    <3>1. h \in Free(s) \cup {First} /\ h # a /\ h # c /\ h # f /\ h \in Off
      BY <1>1, <1>8, <1>10, FreeBlockFacts DEF Free, Busy
    <3>2. s.fnext[h] \in Free(s) \cup {Last} /\ s.fprev[s.fnext[h]] = h /\ s.fnext[h] \in Off
      BY <3>1, <1>3, <1>8 DEF Linked
    <3>3. CASE h = pf
      BY <3>1, <3>3, <1>1, <1>2, <1>4, <1>7, <1>10
    <3>4. CASE h # pf
      <4>1. s.fnext[h] # f /\ s.fnext[h] # nf
        BY <3>1, <3>2, <3>4, <1>2 DEF pf
      <4>2. s.fnext[h] # a /\ s.fnext[h] # c
        BY SMTT(30), <3>2, <4>1, <1>1, SentinelOrder DEF Free, Busy
      <4> QED
        BY <3>1, <3>2, <3>4, <4>1, <4>2, <1>7, <1>10
    <3> QED
      BY <3>3, <3>4
  <2>3. ASSUME NEW h \in Free(t) \cup {Last}
        PROVE  t.fprev[h] \in Free(t) \cup {First} /\ t.fnext[t.fprev[h]] = h
    <3>1. h \in Free(s) \cup {Last} /\ h # a /\ h # c /\ h # f /\ h \in Off
      BY <1>1, <1>8, <1>10, FreeBlockFacts, SentinelOrder DEF Free, Busy
    <3>2. s.fprev[h] \in Free(s) \cup {First} /\ s.fnext[s.fprev[h]] = h /\ s.fprev[h] \in Off
      BY <3>1, <1>3, <1>8 DEF Linked
    <3>3. CASE h = nf
      BY <3>1, <3>3, <1>1, <1>2, <1>4, <1>7, <1>10
    <3>4. CASE h # nf
      <4>1. s.fprev[h] # f /\ s.fprev[h] # pf
        BY <3>1, <3>2, <3>4, <1>2 DEF nf
      <4>2. s.fprev[h] # a /\ s.fprev[h] # c
        BY <3>2, <4>1, <1>1, SentinelOrder DEF Free, Busy
      <4> QED
        BY <3>1, <3>2, <3>4, <4>1, <4>2, <1>7, <1>10
    <3> QED
      BY <3>3, <3>4
  <2> QED
    BY <2>1, <2>2, <2>3 DEF Linked
<1>14. Coalesced(t)
  <2> SUFFICES ASSUME NEW h \in Free(t) PROVE t.fnext[h + t.size[h]] = 0
    BY DEF Coalesced
  <2>1. h \in Free(s) /\ h \in Blocks(s) /\ h # a /\ h # c /\ t.size[h] = s.size[h]
    BY <1>7, <1>8, <1>10 DEF Free, Busy
  <2>2. h + s.size[h] \in Off /\ s.fnext[h + s.size[h]] = 0 /\ h + s.size[h] # c
    BY <2>1, <1>3, BlockFacts, EndsDiffer DEF Coalesced
  <2> QED
    BY <2>1, <2>2, <1>2, <1>7, <1>8, SentinelOrder DEF Free, Linked
<1>15. Acyclic(t)
  <2>1. PICK rank \in [Off -> Int] : Ranking(s, rank)
    BY DEF Sound, Acyclic
  <2>2. ASSUME NEW h \in Free(t) \cup {First}
        PROVE  rank[h] < rank[t.fnext[h]]
    <3>1. h \in Free(s) \cup {First} /\ h # a /\ h # c /\ h \in Off /\ s.fnext[h] \in Off
      BY <1>1, <1>3, <1>8, <1>10 DEF Free, Busy, Linked
    <3>2. rank[h] < rank[s.fnext[h]] /\ rank[pf] < rank[f] /\ rank[f] < rank[nf]
      BY <3>1, <2>1, <1>2 DEF Ranking, nf
    <3>3. f \in Off
      BY <1>1
    <3> QED
      BY <3>1, <3>2, <3>3, <1>2, <1>7
  <2> QED
    BY <2>1, <2>2 DEF Acyclic, Ranking
<1>16. /\ \A h \in Busy(s) \ {a, c} : t.size[h] = s.size[h]
       /\ t.size[a] = s.size[a] + s.size[c]
       /\ t.prev_size[a] = s.prev_size[a]
  <2>1. a # end /\ a # c
    BY <1>1
  <2>2. t.size[a] = s.size[a] + s.size[c] /\ t.prev_size[a] = s.prev_size[a]
    BY <2>1, <1>1, <1>7
  <2>3. \A h \in Busy(s) \ {a, c} : t.size[h] = s.size[h]
    BY <1>7, <1>8
  <2> QED
    BY <2>2, <2>3
<1> QED
  BY <1>6, <1>10, <1>11, <1>12, <1>13, <1>14, <1>15, <1>16 DEF t, Sound, WellFormed

(***************************************************************************)
(* A busy block with no free neighbour can go to the head of the list.     *)
(***************************************************************************)
LEMMA PushFreeSound ==
    ASSUME NEW s, Sound(s), NEW b \in Busy(s), s.prev_size[b] = 0, s.fnext[b + s.size[b]] = 0
    PROVE  LET t == PushFree(s, b)
           IN  Sound(t) /\ Busy(t) = Busy(s) \ {b} /\ t.size = s.size
<1> DEFINE t == PushFree(s, b)
           end == b + s.size[b]
           nf == s.fnext[First]
<1>1. s \in Segment /\ Tiled(s) /\ Marked(s) /\ Linked(s) /\ Coalesced(s)
  BY DEF Sound, WellFormed
<1>2. /\ b \in Blocks(s) /\ s.fnext[b] = 0 /\ b # First /\ b # Last
      /\ b \in Off /\ b \in Nat /\ end \in Headers(s) /\ end \in Off /\ end \in Nat
      /\ s.size[b] \in Nat /\ s.size[b] # 0 /\ b < end /\ end # First + BLK /\ end # First /\ b # 0
  BY BlockFacts, SentinelOrder DEF Busy, Blocks
<1>3. /\ Blocks(s) \subseteq Off /\ Free(s) \subseteq Off /\ Headers(s) \subseteq Off
      /\ Busy(s) \subseteq Off /\ First \in Off /\ Last \in Off /\ First # Last
      /\ Free(s) \subseteq Headers(s) /\ First \in Headers(s) /\ Last \in Headers(s)
      /\ First \notin Free(s) /\ Last \notin Free(s) /\ b \notin Free(s)
  BY <1>1, <1>2, SentinelOrder DEF Free, Busy, Blocks, Headers, Tiled
<1>4. nf \in Free(s) \cup {Last} /\ s.fprev[nf] = First /\ nf \in Off /\ nf # First /\ nf # b /\ nf # 0
  BY <1>1, <1>2, <1>3, SentinelOrder DEF Linked
<1>5. /\ t.size = s.size
      /\ t.prev_size = [s.prev_size EXCEPT ![end] = s.size[b]]
      /\ t.fnext = [s.fnext EXCEPT ![b] = nf, ![First] = b]
      /\ t.fprev = [s.fprev EXCEPT ![b] = First, ![nf] = b]
      /\ t.avail = s.avail
      /\ t = [size |-> t.size, prev_size |-> t.prev_size, fnext |-> t.fnext,
              fprev |-> t.fprev, avail |-> t.avail]
  BY DEF PushFree
<1> HIDE DEF t, end, nf
<1>6. t \in Segment
  <2>1. t.size \in [Off -> Nat \cup {Junk}] /\ t.prev_size \in [Off -> Nat \cup {Junk}] /\ t.avail \in Int
    BY <1>1, <1>2, <1>5 DEF Segment
  <2>2. nf \in Nat /\ First \in Nat
    BY <1>4, SentinelOrder
  <2>3. t.fnext \in [Off -> Nat \cup {Junk}] /\ t.fprev \in [Off -> Nat \cup {Junk}]
    BY <1>1, <1>2, <1>3, <1>4, <1>5, <2>2 DEF Segment
  <2> QED
    BY <1>5, <2>1, <2>3 DEF Segment
<1>7. \A h \in Off : /\ t.fnext[h] = (IF h = First THEN b ELSE IF h = b THEN nf ELSE s.fnext[h])
                     /\ t.fprev[h] = (IF h = nf THEN b ELSE IF h = b THEN First ELSE s.fprev[h])
                     /\ t.prev_size[h] = (IF h = end THEN s.size[b] ELSE s.prev_size[h])
  BY <1>1, <1>2, <1>3, <1>4, <1>5 DEF Segment
<1>8. Headers(t) = Headers(s) /\ Blocks(t) = Blocks(s)
  BY <1>5 DEF Headers, Blocks
<1>9. Free(t) = Free(s) \cup {b} /\ Busy(t) = Busy(s) \ {b}
  <2>1. \A h \in Blocks(s) \ {b} : t.fnext[h] = s.fnext[h]
    BY <1>3, <1>7 DEF Blocks
  <2>2. t.fnext[b] # 0
    BY <1>2, <1>4, <1>7
  <2> QED
    BY <1>2, <1>8, <2>1, <2>2 DEF Free, Busy
<1>10. Tiled(t)
  BY <1>1, <1>5, <1>8 DEF Tiled
<1>11. Marked(t)
  <2>1. t.prev_size[First + BLK] = 0
    BY <1>1, <1>2, <1>3, <1>7 DEF Marked, Tiled
  <2>2. ASSUME NEW h \in Blocks(t)
        PROVE  t.prev_size[h + t.size[h]] = IF t.fnext[h] = 0 THEN 0 ELSE t.size[h]
    <3>1. h \in Blocks(s) /\ h \in Off /\ h # First /\ h + s.size[h] \in Off
      BY <1>3, <1>8, BlockFacts DEF Blocks
    <3>2. CASE h = b
      BY <3>1, <3>2, <1>2, <1>4, <1>5, <1>7 DEF end
    <3>3. CASE h # b
      <4>1. h + s.size[h] # end
        BY <3>1, <3>3, <1>2, EndsDiffer DEF end
      <4>2. s.prev_size[h + s.size[h]] = IF s.fnext[h] = 0 THEN 0 ELSE s.size[h]
        BY <3>1, <1>1 DEF Marked
      <4> QED
        BY <3>1, <3>3, <4>1, <4>2, <1>5, <1>7
    <3> QED
      BY <3>2, <3>3
  <2>3. ASSUME NEW h \in Headers(t) \ {First}, t.prev_size[h] # 0
        PROVE  /\ h - t.prev_size[h] \in Free(t)
               /\ t.size[h - t.prev_size[h]] = t.prev_size[h]
    <3>1. CASE h = end
      BY <3>1, <1>2, <1>5, <1>7, <1>9 DEF end
    <3>2. CASE h # end
      BY <2>3, <3>2, <1>1, <1>3, <1>5, <1>7, <1>8, <1>9 DEF Marked
    <3> QED
      BY <3>1, <3>2
  <2> QED
    BY <2>1, <2>2, <2>3 DEF Marked
<1>12. Linked(t)
  <2>1. t.fnext[First] # 0 /\ t.fnext[Last] = 0
    BY <1>1, <1>2, <1>3, <1>7 DEF Linked
  <2>2. ASSUME NEW h \in Free(t) \cup {First}
        PROVE  t.fnext[h] \in Free(t) \cup {Last} /\ t.fprev[t.fnext[h]] = h
    <3>1. CASE h = b \/ h = First
      BY <3>1, <1>2, <1>3, <1>4, <1>7, <1>9
    <3>2. CASE h # b /\ h # First
      <4>1. h \in Free(s) /\ h \in Off
        BY <3>2, <1>3, <1>9
      <4>2. s.fnext[h] \in Free(s) \cup {Last} /\ s.fprev[s.fnext[h]] = h /\ s.fnext[h] \in Off
        BY <4>1, <1>1, <1>3 DEF Linked
      <4>3. s.fnext[h] # nf /\ s.fnext[h] # b
        BY <4>2, <3>2, <1>2, <1>3, <1>4
      <4> QED
        BY <3>2, <4>1, <4>2, <4>3, <1>7, <1>9
    <3> QED
      BY <3>1, <3>2
  <2>3. ASSUME NEW h \in Free(t) \cup {Last}
        PROVE  t.fprev[h] \in Free(t) \cup {First} /\ t.fnext[t.fprev[h]] = h
    <3>1. CASE h = b \/ h = nf
      BY <3>1, <1>2, <1>3, <1>4, <1>7, <1>9
    <3>2. CASE h # b /\ h # nf
      <4>1. h \in Free(s) \cup {Last} /\ h \in Off
        BY <3>2, <1>3, <1>9
      <4>2. s.fprev[h] \in Free(s) \cup {First} /\ s.fnext[s.fprev[h]] = h /\ s.fprev[h] \in Off
        BY <4>1, <1>1, <1>3 DEF Linked
      <4>3. s.fprev[h] # First /\ s.fprev[h] # b
        BY <4>2, <3>2, <1>2, <1>3 DEF nf
      <4> QED
        BY <3>2, <4>1, <4>2, <4>3, <1>7, <1>9
    <3> QED
      BY <3>1, <3>2
  <2> QED
    BY <2>1, <2>2, <2>3 DEF Linked
<1>13. Coalesced(t)
  <2> SUFFICES ASSUME NEW h \in Free(t) PROVE t.fnext[h + t.size[h]] = 0
    BY DEF Coalesced
  <2>1. CASE h = b
    BY <2>1, <1>2, <1>5, <1>7 DEF end
  <2>2. CASE h # b
    <3>1. h \in Free(s) /\ h \in Blocks(s) /\ s.fnext[h] # 0 /\ s.fnext[h + s.size[h]] = 0
      BY <2>2, <1>1, <1>9 DEF Free, Coalesced
    <3>2. h + s.size[h] \in Off /\ h + s.size[h] # First /\ s.size[h] # 0
      BY <3>1, BlockFacts, SentinelOrder
    <3>3. h + s.size[h] # b
      BY <3>1, <3>2, <1>1 DEF Marked
    <3> QED
      BY <3>1, <3>2, <3>3, <1>5, <1>7
  <2> QED
    BY <2>1, <2>2
<1>14. Acyclic(t)
  <2>1. PICK rank \in [Off -> Int] : Ranking(s, rank)
    BY DEF Sound, Acyclic
  <2> DEFINE rank2 == [rank EXCEPT ![b] = rank[First], ![First] = rank[First] - 1]
  <2>2. /\ \A g \in Off : rank2[g] = IF g = First THEN rank[First] - 1
                                     ELSE IF g = b THEN rank[First] ELSE rank[g]
        /\ rank[First] < rank[nf]
        /\ rank2 \in [Off -> Int]
    <3>1. rank[First] < rank[nf]
      BY <2>1 DEF Ranking, nf
    <3>2. rank[First] \in Int /\ rank[First] - 1 \in Int
      BY <2>1, <1>3
    <3>3. rank2 \in [Off -> Int]
      BY <2>1, <3>2
    <3>4. \A g \in Off : rank2[g] = IF g = First THEN rank[First] - 1
                                     ELSE IF g = b THEN rank[First] ELSE rank[g]
      BY <2>1, <1>2, <1>3
    <3> QED
      BY <3>1, <3>3, <3>4
  <2> HIDE DEF rank2
  <2>3. ASSUME NEW h \in Free(t) \cup {First}
        PROVE  rank2[h] < rank2[t.fnext[h]]
    <3>0. CASE h = First
      <4>1. t.fnext[h] = b /\ rank2[h] = rank[First] - 1 /\ rank2[b] = rank[First]
        BY <3>0, <2>2, <1>2, <1>3, <1>7
      <4> QED
        BY <4>1, <2>1, <1>3
    <3>1. CASE h = b
      <4>1. t.fnext[h] = nf /\ rank2[h] = rank[First] /\ rank2[nf] = rank[nf]
        BY <3>1, <2>2, <1>2, <1>4, <1>7
      <4> QED
        BY <4>1, <2>2
    <3>2. CASE h # b /\ h # First
      <4>1. h \in Free(s) /\ h \in Off /\ s.fnext[h] \in Free(s) \cup {Last} /\ t.fnext[h] = s.fnext[h]
        BY <3>2, <1>1, <1>3, <1>7, <1>9 DEF Linked
      <4>2. rank[h] < rank[s.fnext[h]] /\ s.fnext[h] # First /\ s.fnext[h] # b /\ s.fnext[h] \in Off
        BY <4>1, <2>1, <1>2, <1>3 DEF Ranking
      <4> QED
        BY <3>2, <4>1, <4>2, <2>2
    <3> QED
      BY <3>0, <3>1, <3>2
  <2> QED
    BY <2>2, <2>3 DEF Acyclic, Ranking
<1> QED
  BY <1>5, <1>6, <1>9, <1>10, <1>11, <1>12, <1>13, <1>14 DEF t, Sound, WellFormed

\* PushFree overwrites what Settle wrote.
LEMMA PushSettled ==
    ASSUME NEW s, s.fnext \in [Off -> Nat \cup {Junk}], s.prev_size \in [Off -> Nat \cup {Junk}],
           NEW b \in Off, b # First
    PROVE  PushFree(Settle(s, b), b) = PushFree(s, b)
<1>1. Settle(s, b).fnext[First] = s.fnext[First]
  BY SentinelOrder DEF Settle
<1>2. /\ [[s.fnext EXCEPT ![b] = 0] EXCEPT ![b] = s.fnext[First], ![First] = b]
           = [s.fnext EXCEPT ![b] = s.fnext[First], ![First] = b]
      /\ [[s.prev_size EXCEPT ![b + s.size[b]] = 0] EXCEPT ![b + s.size[b]] = s.size[b]]
           = [s.prev_size EXCEPT ![b + s.size[b]] = s.size[b]]
  OBVIOUS
<1> QED
  BY <1>1, <1>2 DEF PushFree, Settle

\* JoinNext, from a segment that is sound once block b is settled.
LEMMA JoinNextSettled ==
    ASSUME NEW u, NEW b \in Off, LET t == Settle(u, b) IN Sound(t) /\ b \in Busy(t),
           u.fnext \in [Off -> Nat \cup {Junk}], u.prev_size \in [Off -> Nat \cup {Junk}]
    PROVE  LET t == Settle(u, b)
               w == JoinNext(u, b)
               x == Settle(w, b)
           IN  /\ w.fnext \in [Off -> Nat \cup {Junk}] /\ w.prev_size \in [Off -> Nat \cup {Junk}]
               /\ Sound(x) /\ Busy(x) = Busy(t)
               /\ \A h \in Busy(t) \ {b} : x.size[h] = t.size[h]
               /\ x.prev_size[b] = t.prev_size[b]
               /\ x.fnext[b + x.size[b]] = 0
<1> DEFINE t == Settle(u, b)
           w == JoinNext(u, b)
           x == Settle(w, b)
           nxt == b + u.size[b]
           pf == u.fprev[nxt]
           nf == u.fnext[nxt]
<1>1. /\ Sound(t) /\ b \in Busy(t) /\ b \in Blocks(t) /\ b # First
      /\ t.size = u.size /\ t.fprev = u.fprev /\ t.avail = u.avail
      /\ t.fnext = [u.fnext EXCEPT ![b] = 0]
      /\ t.prev_size = [u.prev_size EXCEPT ![nxt] = 0]
  BY DEF Settle, Busy, Blocks
<1>2. /\ b \in Nat /\ nxt \in Headers(t) /\ nxt \in Off /\ nxt # b /\ nxt \in Nat /\ nxt > First
      /\ u.size[b] \in Nat
  BY <1>1, BlockFacts, SentinelOrder
<1>3. t.fnext[nxt] = u.fnext[nxt] /\ t.fnext[b] = 0
  BY <1>1, <1>2
<1>4. CASE u.fnext[nxt] = 0
  <2>1. w = u
    BY <1>4 DEF JoinNext
  <2> QED
    BY <2>1, <1>1, <1>3, <1>4
<1>5. CASE u.fnext[nxt] # 0
  <2>1. nxt \in Free(t) /\ nxt \in Blocks(t) /\ nxt # Last
    BY <1>1, <1>2, <1>3, <1>5, SentinelOrder DEF Free, Blocks, Sound, WellFormed, Linked
  <2>2. /\ nf \in Off /\ pf \in Off /\ nf # 0 /\ t.fnext[pf] = nxt /\ pf # nxt /\ nf # nxt
        /\ t.fnext[nxt + t.size[nxt]] = 0
        /\ nxt + t.size[nxt] \in Off
        /\ nxt + t.size[nxt] # nxt /\ nf \in Nat
    <3>1. t.fnext[nxt] = nf /\ t.fprev[nxt] = pf
      BY <1>1, <1>3
    <3> HIDE DEF t, nf, pf, nxt
    <3>2. /\ t.fnext[nxt] \in Off /\ t.fprev[nxt] \in Off /\ t.fnext[nxt] # 0
          /\ t.fnext[t.fprev[nxt]] = nxt /\ t.fprev[nxt] # nxt /\ t.fnext[nxt] # nxt
          /\ t.fnext[nxt + t.size[nxt]] = 0 /\ nxt + t.size[nxt] \in Off
          /\ nxt < nxt + t.size[nxt]
      BY <2>1, <1>1, FreeBlockFacts
    <3>3. nxt + t.size[nxt] # nxt
      <4>1. t.size[nxt] \in Nat
        BY <1>1, <2>1, BlockFacts
      <4> QED
        BY <3>2, <4>1, <1>2
    <3> QED
      BY <3>1, <3>2, <3>3, SentinelOrder
  <2>3. pf # b
    BY <2>2, <1>2, <1>3
  <2>4. w = Absorb(Unlink(u, nxt), b, nxt)
    BY <1>5 DEF JoinNext
  <2>5. /\ w.size = [u.size EXCEPT ![b] = u.size[b] + u.size[nxt], ![nxt] = Junk]
        /\ w.fnext = [u.fnext EXCEPT ![pf] = nf, ![nxt] = Junk]
        /\ w.fprev = [u.fprev EXCEPT ![nf] = pf, ![nxt] = Junk]
        /\ w.prev_size = [u.prev_size EXCEPT ![nxt] = Junk]
        /\ w.avail = u.avail
    BY <2>4 DEF Absorb, Unlink
  <2> HIDE DEF w, pf, nf, nxt, t
  <2>6. w.fnext \in [Off -> Nat \cup {Junk}] /\ w.prev_size \in [Off -> Nat \cup {Junk}]
    BY <2>2, <2>5, <1>2
  <2> DEFINE m == Merged(t, nxt, b, nxt)
             y == Absorb(Unlink(t, nxt), b, nxt)
  <2>7. /\ y.size = w.size /\ y.avail = w.avail /\ y.fprev = w.fprev
        /\ y.fnext = [t.fnext EXCEPT ![pf] = nf, ![nxt] = Junk]
        /\ y.prev_size = [t.prev_size EXCEPT ![nxt] = Junk]
    BY <1>1, <1>3, <2>5 DEF Absorb, Unlink, pf, nf
  <2>8. [y.fnext EXCEPT ![b] = 0] = [w.fnext EXCEPT ![b] = 0]
    BY <1>1, <1>2, <2>2, <2>3, <2>5, <2>7
  <2>9. y.prev_size = w.prev_size
    BY <1>1, <1>2, <2>5, <2>7
  <2>10. m = x
    BY <2>7, <2>8, <2>9 DEF Merged, Settle
  <2>11. /\ Sound(m) /\ Busy(m) = (Busy(t) \ {nxt}) \cup {b}
         /\ \A h \in Busy(t) \ {b, nxt} : m.size[h] = t.size[h]
         /\ m.size[b] = t.size[b] + t.size[nxt]
         /\ m.prev_size[b] = t.prev_size[b]
    <3>1. nxt = b + t.size[b]
      BY <1>1 DEF nxt
    <3> HIDE DEF m
    <3> QED
      BY <3>1, <1>1, <2>1, MergedSound, SMTT(30) DEF m
  <2>12. nxt \notin Busy(t)
    BY <2>1 DEF Free, Busy
  <2>13. b + m.size[b] = nxt + t.size[nxt]
    <3>1. t.size[nxt] \in Nat
      BY <1>1, <2>1, BlockFacts
    <3> HIDE DEF m
    <3> QED
      BY <3>1, <2>11, <1>1, <1>2 DEF nxt
  <2>14. m.fnext = [w.fnext EXCEPT ![b] = 0]
    BY <2>10 DEF Settle
  <2>15. t.fnext[nxt + t.size[nxt]] = [u.fnext EXCEPT ![b] = 0][nxt + t.size[nxt]]
    BY <1>1
  <2>16. m.fnext[nxt + t.size[nxt]] = 0
    BY <2>2, <2>3, <2>5, <2>14, <2>15, <1>2, SentinelOrder
  <2>17. /\ Sound(x) /\ Busy(x) = Busy(t) /\ \A h \in Busy(t) \ {b} : x.size[h] = t.size[h]
         /\ x.prev_size[b] = t.prev_size[b] /\ x.fnext[b + x.size[b]] = 0
    <3> HIDE DEF m, x
    <3> QED
      BY <1>1, <2>10, <2>11, <2>12, <2>13, <2>16
  <2> QED
    BY <2>6, <2>17 DEF t, w
<1> QED
  BY <1>4, <1>5

LEMMA CreditSound ==
    ASSUME NEW s, Sound(s), NEW n \in Int
    PROVE  LET t == Credit(s, n) IN Sound(t) /\ Busy(t) = Busy(s)
<1> DEFINE t == Credit(s, n)
<1>1. /\ t.size = s.size /\ t.prev_size = s.prev_size /\ t.fnext = s.fnext /\ t.fprev = s.fprev
      /\ t.avail = s.avail + n
      /\ t = [size |-> t.size, prev_size |-> t.prev_size, fnext |-> t.fnext,
              fprev |-> t.fprev, avail |-> t.avail]
  BY DEF Credit
<1> HIDE DEF t
<1>2. t \in Segment
  BY <1>1 DEF Sound, Segment
<1>3. Headers(t) = Headers(s) /\ Blocks(t) = Blocks(s) /\ Free(t) = Free(s) /\ Busy(t) = Busy(s)
  BY <1>1 DEF Headers, Blocks, Free, Busy
<1>4. Tiled(t) /\ Marked(t) /\ Linked(t) /\ Coalesced(t) /\ Acyclic(t)
  BY <1>1, <1>3 DEF Sound, WellFormed, Tiled, Marked, Linked, Coalesced, Acyclic, Ranking
<1> QED
  BY <1>2, <1>3, <1>4 DEF t, Sound, WellFormed

(***************************************************************************)
(* The whole of sma_deallocate.                                            *)
(***************************************************************************)
LEMMA DeallocateSound ==
    ASSUME NEW s, Sound(s), NEW cur \in Busy(s)
    PROVE  LET t == SmaDeallocate(s, cur)
           IN  /\ Sound(t) /\ Busy(t) = Busy(s) \ {cur}
               /\ \A h \in Busy(t) : t.size[h] = s.size[h]
<1> DEFINE c == Credit(s, s.size[cur])
           base == cur - s.prev_size[cur]
           u == JoinPrevious(c, cur)
           t0 == Settle(u, base)
           w == JoinNext(u, base)
           x == Settle(w, base)
<1>1. /\ cur \in Blocks(s) /\ s.fnext[cur] = 0 /\ cur \in Headers(s) /\ cur # First /\ cur \in Off
      /\ cur \in Nat /\ s.size[cur] \in Nat /\ cur + s.size[cur] \in Off
  BY BlockFacts DEF Busy, Blocks
<1>2. /\ Sound(c) /\ Busy(c) = Busy(s) /\ c.size = s.size /\ c.prev_size = s.prev_size
      /\ c.fnext = s.fnext /\ c.fprev = s.fprev
  BY <1>1, CreditSound DEF Credit
<1>3. /\ c \in Segment /\ Tiled(c) /\ Marked(c) /\ Linked(c) /\ Coalesced(c)
      /\ c.fnext \in [Off -> Nat \cup {Junk}] /\ c.prev_size \in [Off -> Nat \cup {Junk}]
      /\ c.fprev \in [Off -> Nat \cup {Junk}]
      /\ cur \in Blocks(c) /\ cur \in Headers(c)
  <2>1. c \in Segment /\ Tiled(c) /\ Marked(c) /\ Linked(c) /\ Coalesced(c)
    BY <1>2 DEF Sound, WellFormed
  <2>2. cur \in Blocks(c) /\ cur \in Headers(c)
    BY <1>2 DEF Busy, Blocks
  <2> HIDE DEF c
  <2> QED
    BY <2>1, <2>2 DEF Segment
<1>4. /\ base \in Off /\ base # First
      /\ u.fnext \in [Off -> Nat \cup {Junk}] /\ u.prev_size \in [Off -> Nat \cup {Junk}]
      /\ Sound(t0) /\ base \in Busy(t0) /\ t0.prev_size[base] = 0
      /\ Busy(t0) \ {base} = Busy(s) \ {cur}
      /\ \A h \in Busy(s) \ {cur} : t0.size[h] = s.size[h]
  <2>1. CASE s.prev_size[cur] = 0
    <3>1. base = cur /\ u = c
      BY <2>1, <1>1, <1>2 DEF JoinPrevious
    <3>2. c.prev_size[cur + c.size[cur]] = 0
      BY <1>1, <1>2, <1>3 DEF Marked
    <3>3. /\ [c.prev_size EXCEPT ![cur + c.size[cur]] = 0] = c.prev_size
          /\ [c.fnext EXCEPT ![cur] = 0] = c.fnext
      BY <3>2, <1>1, <1>2, <1>3
    <3>4. t0 = c
      BY <3>1, <3>3 DEF Settle, Credit
    <3> QED
      BY <3>1, <3>4, <2>1, <1>1, <1>2, <1>3
  <2>2. CASE s.prev_size[cur] # 0
    <3>1. base \in Free(c) /\ c.size[base] = s.prev_size[cur] /\ base \in Blocks(c)
      BY <2>2, <1>1, <1>2, <1>3 DEF Marked, Free
    <3>2. /\ base \in Nat /\ base \in Off /\ base # First /\ c.size[base] \in Nat
          /\ cur = base + c.size[base] /\ base # cur
      <4>1. base \in Nat /\ base \in Off /\ base # First /\ c.size[base] \in Nat
        <5> HIDE DEF c, base
        <5> QED
          BY <3>1, <1>2, BlockFacts DEF Blocks
      <4>2. s.prev_size[cur] \in Nat
        BY <3>1, <4>1
      <4> QED
        BY <4>1, <4>2, <3>1, <1>1, <2>2
    <3>3. u = Absorb(Unlink(c, base), base, cur)
      BY <2>2, <1>2 DEF JoinPrevious
    <3>4. t0 = Merged(c, base, base, cur)
      BY <3>3 DEF Merged
    <3> HIDE DEF t0, u, c, base
    <3>5. /\ Sound(t0) /\ Busy(t0) = (Busy(c) \ {cur}) \cup {base}
          /\ \A h \in Busy(c) \ {base, cur} : t0.size[h] = c.size[h]
          /\ t0.prev_size[base] = c.prev_size[base]
      BY <3>1, <3>2, <3>4, <1>2, <1>3, MergedSound
    <3>6. base \notin Busy(c)
      BY <3>1 DEF Free, Busy
    <3>7. c.prev_size[base] = 0
      <4> SUFFICES ASSUME c.prev_size[base] # 0 PROVE FALSE
        OBVIOUS
      <4> DEFINE g == base - c.prev_size[base]
      <4>1. g \in Free(c) /\ c.size[g] = c.prev_size[base]
        BY <3>1, <3>2, <1>3 DEF Marked, Blocks
      <4>2. g + c.size[g] = base
        BY <4>1, <3>2, <1>3 DEF Junk
      <4>3. c.fnext[base] = 0
        BY <4>1, <4>2, <1>3 DEF Coalesced
      <4> QED
        BY <4>3, <3>1 DEF Free
    <3>8. c.fnext[base] \in Off /\ c.fprev[base] \in Off /\ c.fnext[base] \in Nat
      BY <3>1, <1>2, FreeBlockFacts, SentinelOrder
    <3>9. /\ u.fnext \in [Off -> Nat \cup {Junk}] /\ u.prev_size \in [Off -> Nat \cup {Junk}]
      BY <3>3, <3>8, <1>1, <1>3 DEF Absorb, Unlink
    <3> QED
      BY <3>2, <3>5, <3>6, <3>7, <3>9, <1>2
  <2> QED
    BY <2>1, <2>2
<1>5. /\ w.fnext \in [Off -> Nat \cup {Junk}] /\ w.prev_size \in [Off -> Nat \cup {Junk}]
      /\ Sound(x) /\ Busy(x) = Busy(t0)
      /\ \A h \in Busy(t0) \ {base} : x.size[h] = t0.size[h]
      /\ x.prev_size[base] = t0.prev_size[base]
      /\ x.fnext[base + x.size[base]] = 0
  <2> HIDE DEF u, base
  <2> QED
    BY <1>4, JoinNextSettled
<1>6. SmaDeallocate(s, cur) = PushFree(w, base) /\ PushFree(w, base) = PushFree(x, base)
  <2>1. SmaDeallocate(s, cur) = PushFree(w, base)
    BY DEF SmaDeallocate
  <2> HIDE DEF w, base
  <2>2. PushFree(w, base) = PushFree(x, base)
    BY <1>4, <1>5, PushSettled
  <2> QED
    BY <2>1, <2>2
<1> HIDE DEF x, w, base, t0, u, c
<1>7. /\ Sound(PushFree(x, base)) /\ Busy(PushFree(x, base)) = Busy(x) \ {base}
      /\ PushFree(x, base).size = x.size
  BY <1>4, <1>5, PushFreeSound
<1> QED
  BY <1>4, <1>5, <1>6, <1>7

(***************************************************************************)
(* The whole of sma_allocate, given a fit.                                 *)
(***************************************************************************)
LEMMA AllocateSound ==
    ASSUME NEW s, Sound(s), NEW n \in Nat, NEW fragment \in Nat,
           NEW prv \in PrvNextFit(s, RealSize(n))
    PROVE  LET t == SmaAllocate(s, prv, RealSize(n), fragment)
               cur == s.fnext[prv]
           IN  /\ Sound(t) /\ Busy(t) = Busy(s) \cup {cur}
               /\ cur \in Off /\ cur \notin Busy(s)
               /\ \A h \in Busy(s) : t.size[h] = s.size[h]
               /\ n <= t.size[cur] - BLK
<1> DEFINE r == RealSize(n)
           cur == s.fnext[prv]
           t == SmaAllocate(s, prv, r, fragment)
<1>1. r \in Nat /\ r = n + BLK /\ r >= BLK
  BY SentinelOrder DEF RealSize
<1>2. cur \in Free(s) /\ s.fprev[cur] = prv /\ s.size[cur] >= r
  BY <1>1, FitIsFree
<1>3. cur \in Off /\ s.size[cur] \in Nat
  BY <1>2, FreeBlockFacts
<1>4. CASE s.size[cur] < r + MINBLOCKSIZE + fragment
  <2>1. t = TakeWhole(s, prv)
    BY <1>4 DEF SmaAllocate
  <2> HIDE DEF t, cur, r
  <2>2. Sound(t) /\ t.size = s.size /\ Busy(t) = Busy(s) \cup {cur} /\ cur \notin Busy(s)
    BY <1>2, <2>1, TakeWholeSound
  <2> QED
    BY <2>2, <1>1, <1>2, <1>3, SentinelOrder DEF t, cur, r
<1>5. CASE ~(s.size[cur] < r + MINBLOCKSIZE + fragment)
  <2>1. t = Split(s, prv, r)
    BY <1>5 DEF SmaAllocate
  <2>2. s.size[cur] >= r + BLK
    BY <1>1, <1>3, <1>5, SentinelOrder, SMTT(30) DEF MINBLOCKSIZE
  <2>3. s.fnext[prv] = cur
    OBVIOUS
  <2> HIDE DEF t, cur, r
  <2>4. /\ Sound(t) /\ Busy(t) = Busy(s) \cup {cur} /\ cur \notin Busy(s)
        /\ t.size[cur] = r /\ \A h \in Busy(s) : t.size[h] = s.size[h]
    BY <1>1, <1>2, <2>1, <2>2, <2>3, SplitSound
  <2> QED
    BY <2>4, <1>1, <1>3, SentinelOrder DEF t, cur, r
<1> QED
  BY <1>4, <1>5

-----------------------------------------------------------------------------
(***************************************************************************)
(* The invariant of the allocator: each segment is sound and its busy      *)
(* blocks are those that callers hold.                                     *)
(***************************************************************************)
Inv == TypeOK /\ (\A i \in Segs : Sound(seg[i])) /\ LiveAreBusy

LEMMA InitSound == Sound(InitSegment)
<1> DEFINE rank == [h \in Off |-> h]
<1>1. rank \in [Off -> Int]
  BY SentinelOrder
<1>2. ASSUME NEW h \in Free(InitSegment) \cup {First}
      PROVE  rank[h] < rank[InitSegment.fnext[h]]
  <2>1. First \in Off /\ Last \in Off /\ First + BLK \in Off /\ First \in Nat /\ Last \in Nat /\ BLK \in Nat
    BY SentinelOrder
  <2>2. /\ InitSegment.fnext[First] = First + BLK /\ InitSegment.fnext[First + BLK] = Last
        /\ \A g \in Off : g \notin {First, First + BLK, Last} => InitSegment.size[g] = Junk
    BY <2>1, SentinelOrder DEF InitSegment
  <2>3. h = First \/ h = First + BLK
    BY <2>2 DEF Free, Blocks, Headers
  <2> QED
    BY <2>1, <2>2, <2>3, SentinelOrder
<1> QED
  BY <1>1, <1>2, InitWellFormed DEF Sound, Acyclic, Ranking

LEMMA InitInv == Init => Inv
<1> SUFFICES ASSUME Init PROVE Inv
  OBVIOUS
<1>1. 0 \in Segs
  BY SmaAssumption DEF Segs
<1>2. TypeOK
  BY <1>1, InitWellFormed DEF Init, TypeOK, Idle, Call, PCs
<1>4. \A i \in Segs : Sound(seg[i])
  BY InitSound DEF Init
<1>5. LiveAreBusy
  BY InitWellFormed DEF Init, LiveAreBusy
<1> QED
  BY <1>2, <1>4, <1>5 DEF Inv

\* Freeing a live block, whoever frees it.
LEMMA FreeBlockInv ==
    ASSUME Inv, NEW b \in live, FreeBlock(b)
    PROVE  /\ seg' \in [Segs -> Segment] /\ live' \subseteq [seg : Segs, off : Off, n : Nat]
           /\ \A i \in Segs : Sound(seg'[i])
           /\ LiveAreBusy'
<1> DEFINE i == b.seg
           t == SmaDeallocate(seg[i], b.off)
<1>1. i \in Segs /\ b.off \in Off /\ seg \in [Segs -> Segment] /\ live \subseteq [seg : Segs, off : Off, n : Nat]
  BY DEF Inv, TypeOK
<1>2. b.off \in Busy(seg[i]) /\ Sound(seg[i])
  BY <1>1 DEF Inv, LiveAreBusy
<1>3. /\ Sound(t) /\ Busy(t) = Busy(seg[i]) \ {b.off}
      /\ \A h \in Busy(t) : t.size[h] = seg[i].size[h]
  BY <1>2, DeallocateSound
<1>4. seg' = [seg EXCEPT ![i] = t] /\ live' = live \ {b}
  BY DEF FreeBlock
<1> HIDE DEF t, i
<1>5. seg' \in [Segs -> Segment] /\ (\A j \in Segs : Sound(seg'[j])) /\ seg'[i] = t
  BY <1>1, <1>3, <1>4 DEF Inv, Sound
<1>6. live' \subseteq [seg : Segs, off : Off, n : Nat]
  BY <1>1, <1>4
<1>7. LiveAreBusy'
  <2>1. ASSUME NEW j \in Segs
        PROVE  Busy(seg'[j]) = {a.off : a \in {c \in live' : c.seg = j}}
    <3>1. Busy(seg[j]) = {a.off : a \in {c \in live : c.seg = j}}
      BY DEF Inv, LiveAreBusy
    <3>2. CASE j = i
      <4>1. \A a \in live : (a.seg = b.seg /\ a.off = b.off) => a = b
        BY DEF Inv, LiveAreBusy
      <4> QED
        BY <3>1, <3>2, <4>1, <1>3, <1>4, <1>5 DEF i
    <3>3. CASE j # i
      BY <3>1, <3>3, <1>1, <1>4 DEF i
    <3> QED
      BY <3>2, <3>3
  <2>2. ASSUME NEW a \in live'
        PROVE  a.n <= seg'[a.seg].size[a.off] - BLK
    <3>1. a \in live /\ a # b /\ a.seg \in Segs /\ a.n <= seg[a.seg].size[a.off] - BLK
      BY <1>1, <1>4 DEF Inv, LiveAreBusy
    <3>2. CASE a.seg = i
      <4>1. a.off \in Busy(t)
        BY <2>1, <3>2, <1>1, <1>5
      <4> QED
        BY <3>1, <3>2, <4>1, <1>3, <1>5
    <3>3. CASE a.seg # i
      BY <3>1, <3>3, <1>1, <1>4
    <3> QED
      BY <3>2, <3>3
  <2>3. \A a, c \in live' : (a.seg = c.seg /\ a.off = c.off) => a = c
    BY <1>4 DEF Inv, LiveAreBusy
  <2> QED
    BY <2>1, <2>2, <2>3 DEF LiveAreBusy
<1> QED
  BY <1>5, <1>6, <1>7

LEMMA AllocateInv ==
    ASSUME Inv, NEW p \in Procs, Allocate(p)
    PROVE  Inv'
<1> DEFINE c == call[p]
           i == c.i
<1>1. /\ i \in Segs /\ c.n \in Nat /\ c.fragment \in Nat
      /\ seg \in [Segs -> Segment] /\ live \subseteq [seg : Segs, off : Off, n : Nat]
      /\ Sound(seg[i])
  BY DEF Inv, TypeOK, Call
<1>2. PICK prv \in PrvNextFit(seg[i], RealSize(c.n)) :
             /\ seg' = [seg EXCEPT ![i] = SmaAllocate(@, prv, RealSize(c.n), c.fragment)]
             /\ live' = live \cup {[seg |-> i, off |-> seg[i].fnext[prv], n |-> c.n]}
  BY DEF Allocate
<1> DEFINE t == SmaAllocate(seg[i], prv, RealSize(c.n), c.fragment)
           cur == seg[i].fnext[prv]
           b == [seg |-> i, off |-> cur, n |-> c.n]
<1>3. /\ Sound(t) /\ Busy(t) = Busy(seg[i]) \cup {cur}
      /\ cur \in Off /\ cur \notin Busy(seg[i])
      /\ \A h \in Busy(seg[i]) : t.size[h] = seg[i].size[h]
      /\ c.n <= t.size[cur] - BLK
  BY <1>1, AllocateSound
<1>4. seg' = [seg EXCEPT ![i] = t] /\ live' = live \cup {b} /\ b \in [seg : Segs, off : Off, n : Nat]
      /\ b.seg = i /\ b.off = cur /\ b.n = c.n
  BY <1>1, <1>2, <1>3
<1>5. TypeOK'
  <2>1. last' \in [Procs -> Segs] /\ call' \in [Procs -> Call]
    BY <1>1, SmaAssumption DEF Allocate, Inv, TypeOK, Idle, Call, PCs, Segs
  <2>2. seg' \in [Segs -> Segment] /\ live' \subseteq [seg : Segs, off : Off, n : Nat]
    BY <1>1, <1>3, <1>4 DEF Sound
  <2> QED
    BY <2>1, <2>2 DEF TypeOK
<1> HIDE DEF t, cur, b, i, c
<1>6. (\A j \in Segs : Sound(seg'[j])) /\ seg'[i] = t /\ \A j \in Segs : j # i => seg'[j] = seg[j]
  BY <1>1, <1>3, <1>4 DEF Inv
<1>7. \A a \in live : ~(a.seg = i /\ a.off = cur)
  BY <1>1, <1>3 DEF Inv, LiveAreBusy
<1>8. LiveAreBusy'
  <2>1. ASSUME NEW j \in Segs
        PROVE  Busy(seg'[j]) = {a.off : a \in {d \in live' : d.seg = j}}
    <3>1. Busy(seg[j]) = {a.off : a \in {d \in live : d.seg = j}}
      BY DEF Inv, LiveAreBusy
    <3>2. CASE j = i
      BY <3>1, <3>2, <1>3, <1>4, <1>6
    <3>3. CASE j # i
      BY <3>1, <3>3, <1>4, <1>6
    <3> QED
      BY <3>2, <3>3
  <2>2. ASSUME NEW a \in live'
        PROVE  a.n <= seg'[a.seg].size[a.off] - BLK
    <3>1. CASE a = b
      BY <3>1, <1>3, <1>4, <1>6
    <3>2. CASE a # b
      <4>1. a \in live /\ a.seg \in Segs /\ a.n <= seg[a.seg].size[a.off] - BLK
        BY <3>2, <1>1, <1>4 DEF Inv, LiveAreBusy
      <4>2. a.off \in Busy(seg[a.seg])
        BY <4>1 DEF Inv, LiveAreBusy
      <4> QED
        BY <4>1, <4>2, <1>3, <1>6
    <3> QED
      BY <3>1, <3>2
  <2>3. \A a, d \in live' : (a.seg = d.seg /\ a.off = d.off) => a = d
    BY <1>4, <1>7 DEF Inv, LiveAreBusy
  <2> QED
    BY <2>1, <2>2, <2>3 DEF LiveAreBusy
<1> QED
  BY <1>5, <1>6, <1>8 DEF Inv

LEMMA NextInv == Inv /\ [Next]_vars => Inv'
<1> SUFFICES ASSUME Inv, [Next]_vars PROVE Inv'
  OBVIOUS
<1>1. TypeOK
  BY DEF Inv
<1>2. ASSUME UNCHANGED <<seg, live>>, last' \in [Procs -> Segs], call' \in [Procs -> Call]
      PROVE  Inv'
  BY <1>1, <1>2 DEF Inv, TypeOK, LiveAreBusy
<1>3. ASSUME NEW b \in live, FreeBlock(b), last' \in [Procs -> Segs], call' \in [Procs -> Call]
      PROVE  Inv'
  BY <1>3, FreeBlockInv DEF Inv, TypeOK
<1>4. ASSUME NEW q \in Requests, NEW i \in Segs, NEW f \in Nat
      PROVE  /\ [pc |-> "try", n |-> q[1], fragment |-> q[2], i |-> i, nuked |-> FALSE] \in Call
             /\ [pc |-> "try", n |-> q[1], fragment |-> f, i |-> i, nuked |-> FALSE] \in Call
  <2>1. q \in Nat \X Nat
    BY SmaAssumption
  <2>2. q[1] \in Nat /\ q[2] \in Nat
    BY <2>1
  <2> QED
    BY <2>2 DEF Call, PCs
<1>5. ASSUME NEW p \in Procs, Malloc(p) PROVE Inv'
  <2>1. last[p] \in Segs /\ last' = last /\ call' \in [Procs -> Call]
    <3>1. PICK q \in Requests :
            call' = [call EXCEPT ![p] = [pc |-> "try", n |-> q[1], fragment |-> q[2],
                                         i |-> last[p], nuked |-> FALSE]]
      BY <1>5 DEF Malloc
    <3>2. last[p] \in Segs /\ last' = last
      BY <1>1, <1>5 DEF Malloc, TypeOK
    <3>3. [pc |-> "try", n |-> q[1], fragment |-> q[2], i |-> last[p], nuked |-> FALSE] \in Call
      BY <3>2, <1>4, 0 \in Nat
    <3> QED
      BY <3>1, <3>2, <3>3, <1>1 DEF TypeOK
  <2> QED
    BY <2>1, <1>1, <1>2, <1>5 DEF Malloc, TypeOK
<1>6. ASSUME NEW p \in Procs, FreeOne(p) PROVE Inv'
  BY <1>1, <1>3, <1>6 DEF FreeOne, TypeOK
<1>7. ASSUME NEW p \in Procs, Realloc(p) PROVE Inv'
  <2>1. MINBLOCKSIZE \in Nat
    BY SentinelOrder DEF MINBLOCKSIZE
  <2>2. last[p] \in Segs /\ last' = last /\ call' \in [Procs -> Call]
    <3>1. PICK q \in Requests :
            call' = [call EXCEPT ![p] = [pc |-> "try", n |-> q[1], fragment |-> MINBLOCKSIZE,
                                         i |-> last[p], nuked |-> FALSE]]
      BY <1>7 DEF Realloc
    <3>2. last[p] \in Segs /\ last' = last
      BY <1>1, <1>7 DEF Realloc, TypeOK
    <3>3. [pc |-> "try", n |-> q[1], fragment |-> MINBLOCKSIZE, i |-> last[p], nuked |-> FALSE] \in Call
      BY <2>1, <3>2, <1>4
    <3> QED
      BY <3>1, <3>2, <3>3, <1>1 DEF TypeOK
  <2> QED
    BY <2>2, <1>1, <1>3, <1>7 DEF Realloc, TypeOK
<1>8. ASSUME NEW p \in Procs, Expunge(p) PROVE Inv'
  BY <1>1, <1>3, <1>8 DEF Expunge, TypeOK
<1>9. ASSUME NEW p \in Procs, Proceed(p) PROVE Inv'
  <2>1. CASE Allocate(p)
    BY <2>1, AllocateInv
  <2>2. CASE TryFails(p)
    <3>1. call' \in [Procs -> Call]
      BY <2>2, <1>1 DEF TryFails, TypeOK, Call, PCs
    <3> QED
      BY <3>1, <2>2, <1>1, <1>2 DEF TryFails, TypeOK
  <2>3. CASE RetryFails(p)
    <3>1. call' \in [Procs -> Call]
      <4>1. Idle \in Call
        BY SmaAssumption DEF Idle, Call, PCs, Segs
      <4>2. Untried(p) \subseteq Segs
        BY DEF Untried
      <4> QED
        <5>1. CASE \E j \in Untried(p) : call' = [call EXCEPT ![p].pc = "try", ![p].i = j]
          <6>1. PICK j \in Segs : call' = [call EXCEPT ![p].pc = "try", ![p].i = j]
            BY <5>1, <4>2
          <6> QED
            BY <6>1, <1>1 DEF TypeOK, Call, PCs
        <5>2. CASE call' = [call EXCEPT ![p].pc = "nuke"]
          BY <5>2, <1>1 DEF TypeOK, Call, PCs
        <5>3. CASE call' = [call EXCEPT ![p] = Idle]
          BY <5>3, <4>1, <1>1 DEF TypeOK
        <5> QED
          BY <5>1, <5>2, <5>3, <2>3 DEF RetryFails
    <3> QED
      BY <3>1, <2>3, <1>1, <1>2 DEF RetryFails, TypeOK
  <2>4. CASE ExpungeReturns(p)
    <3>1. call' \in [Procs -> Call]
      <4>1. CASE call' = [call EXCEPT ![p].pc = "retry"]
        BY <4>1, <1>1 DEF TypeOK, Call, PCs
      <4>2. CASE call' = [call EXCEPT ![p].pc = "try", ![p].i = last[p], ![p].nuked = TRUE]
        <5>1. last[p] \in Segs
          BY <1>1 DEF TypeOK
        <5> QED
          BY ZenonT(60), <4>2, <5>1, <1>1 DEF TypeOK, Call, PCs
      <4> QED
        BY <4>1, <4>2, <2>4 DEF ExpungeReturns
    <3> QED
      BY <3>1, <2>4, <1>1, <1>2 DEF ExpungeReturns, TypeOK
  <2> QED
    BY <1>9, <2>1, <2>2, <2>3, <2>4 DEF Proceed
<1>10. CASE UNCHANGED vars
  BY <1>10, <1>1, <1>2 DEF vars, TypeOK
<1> QED
  BY <1>5, <1>6, <1>7, <1>8, <1>9, <1>10 DEF Next

(***************************************************************************)
(* Each state of the allocator satisfies the inductive invariant.          *)
(***************************************************************************)
THEOREM Invariance == Spec => []Inv
  BY InitInv, NextInv, PTL DEF Spec

\* The variables keep their types: in particular no call ever looks at a
\* segment that does not exist (the loop of apc_sma_api_malloc_ex).
THEOREM TypeCorrect == Spec => []TypeOK
<1>1. Inv => TypeOK
  BY DEF Inv
<1> QED
  BY <1>1, Invariance, PTL

\* The boundary tags stay consistent for segments of any size and any
\* requests (sma_allocate, sma_deallocate).
THEOREM TagsConsistent == Spec => []SegmentsWellFormed
<1>1. Inv => SegmentsWellFormed
  BY DEF Inv, Sound, SegmentsWellFormed
<1> QED
  BY <1>1, Invariance, PTL

\* The busy blocks are exactly those that callers hold, and large enough.
THEOREM BlocksAccounted == Spec => []LiveAreBusy
<1>1. Inv => LiveAreBusy
  BY DEF Inv
<1> QED
  BY <1>1, Invariance, PTL

\* Once all blocks of a segment are free they are one block, as at start up.
THEOREM NoLastingFragmentation == Spec => []EmptyIsWhole
<1>1. ASSUME NEW s, Sound(s), Busy(s) = {}
      PROVE  s.size = InitSegment.size
  <2> DEFINE E == First + BLK
  <2>1. /\ s.size \in [Off -> Nat \cup {Junk}] /\ Tiled(s) /\ Coalesced(s)
        /\ InitSegment.size \in [Off -> Nat \cup {Junk}]
    BY <1>1, InitWellFormed DEF Sound, WellFormed, Segment
  <2>2. Blocks(s) = Free(s)
    BY <1>1 DEF Free, Busy
  <2>3. E \in Free(s)
    BY <2>1, <2>2, SentinelOrder DEF Tiled, Blocks
  <2>4. E + s.size[E] = Last
    BY <2>1, <2>2, <2>3, <1>1, BlockFacts, FreeBlockFacts DEF Coalesced, Blocks, Free
  <2>5. Headers(s) = {First, E, Last}
    <3>1. {First, E, Last} \subseteq Headers(s)
      BY <2>1 DEF Tiled
    <3>2. ASSUME NEW h \in Headers(s) PROVE h \in {First, E, Last}
      <4>1. h \in Nat /\ h <= Last /\ (h = First \/ h >= E)
        BY <2>1, SentinelOrder DEF Tiled, Headers
      <4>2. h <= E \/ h >= Last
        BY <2>1, <2>3, <2>4 DEF Tiled, Free
      <4> QED
        BY <4>1, <4>2, SentinelOrder
    <3> QED
      BY <3>1, <3>2
  <2>6. s.size[E] = Last - E /\ s.size[First] = 0 /\ s.size[Last] = 0
    BY <2>1, <2>2, <2>3, <2>4, <1>1, BlockFacts, SentinelOrder, SMTT(30) DEF Tiled
  <2>7. \A h \in Off : s.size[h] = IF h = First THEN 0 ELSE IF h = E THEN Last - E
                                   ELSE IF h = Last THEN 0 ELSE Junk
    BY <2>5, <2>6 DEF Headers
  <2>8. SEGSIZE - HDR - 2 * BLK - BLK = Last - E
    BY SegmentAssumption DEF First, Last
  <2>9. \A h \in Off : InitSegment.size[h] = IF h = First THEN 0 ELSE IF h = E THEN Last - E
                                             ELSE IF h = Last THEN 0 ELSE Junk
    BY <2>8 DEF InitSegment
  <2> QED
    BY <2>1, <2>7, <2>9
<1>2. Inv => EmptyIsWhole
  BY <1>1 DEF Inv, EmptyIsWhole
<1> QED
  BY <1>2, Invariance, PTL

(***************************************************************************)
(* The allocator implements the abstract one.                              *)
(***************************************************************************)
PayloadOf(i, s, h) == [seg |-> i, lo |-> h + BLK, hi |-> h + s.size[h]]

LEMMA PayloadFacts ==
    ASSUME NEW i \in Segs, NEW s, Sound(s), NEW h \in Busy(s)
    PROVE  /\ PayloadOf(i, s, h) \in Abstract!Region
           /\ \A g \in Busy(s) : g # h => /\ Abstract!Apart(PayloadOf(i, s, g), PayloadOf(i, s, h))
                                          /\ PayloadOf(i, s, g) # PayloadOf(i, s, h)
<1>2. \A g \in Busy(s) :
         /\ g \in Blocks(s) /\ g \in Headers(s) /\ g \in Nat /\ g >= First + BLK
         /\ s.size[g] \in Nat /\ s.size[g] >= BLK
         /\ g + s.size[g] \in Off
         /\ \A k \in Headers(s) : k <= g \/ k >= g + s.size[g]
  BY BlockFacts DEF Busy
<1>3. h + s.size[h] <= Last
  BY <1>2, SentinelOrder
<1>4. PayloadOf(i, s, h) \in Abstract!Region
  BY <1>2, <1>3, SentinelOrder DEF Abstract!Region, PayloadOf
<1>5. ASSUME NEW g \in Busy(s), g # h
      PROVE  /\ Abstract!Apart(PayloadOf(i, s, g), PayloadOf(i, s, h))
             /\ PayloadOf(i, s, g) # PayloadOf(i, s, h)
  <2>1. g + s.size[g] <= h \/ h + s.size[h] <= g
    BY <1>2, <1>5
  <2> QED
    BY SMTT(30), <2>1, <1>2, <1>5, SentinelOrder DEF Abstract!Apart, PayloadOf
<1> QED
  BY <1>4, <1>5

\* The regions in use, of the present state and of the next.
LEMMA RegionsAre ==
    /\ \A x : x \in BusyRegions <=> \E j \in Segs : \E h \in Busy(seg[j]) : x = PayloadOf(j, seg[j], h)
    /\ \A x : x \in BusyRegions' <=> \E j \in Segs : \E h \in Busy(seg'[j]) : x = PayloadOf(j, seg'[j], h)
  BY DEF BusyRegions, Payload, PayloadOf

LEMMA FreeRefines ==
    ASSUME Inv, NEW b \in live, FreeBlock(b)
    PROVE  Abstract!Release
<1> DEFINE i == b.seg
           r == PayloadOf(i, seg[i], b.off)
           t == SmaDeallocate(seg[i], b.off)
<1>1. i \in Segs /\ b.off \in Busy(seg[i]) /\ Sound(seg[i]) /\ seg \in [Segs -> Segment]
  BY DEF Inv, LiveAreBusy, TypeOK
<1>2. /\ Busy(t) = Busy(seg[i]) \ {b.off}
      /\ \A h \in Busy(t) : t.size[h] = seg[i].size[h]
  BY <1>1, DeallocateSound
<1>3. seg' = [seg EXCEPT ![i] = t]
  BY DEF FreeBlock
<1> HIDE DEF t, i
<1>4. seg'[i] = t /\ \A j \in Segs : j # i => seg'[j] = seg[j]
  BY <1>1, <1>3
<1>5. r \in BusyRegions
  BY <1>1, RegionsAre
<1>6. ASSUME NEW x \in BusyRegions \ {r} PROVE x \in BusyRegions'
  <2>1. PICK j \in Segs : \E h \in Busy(seg[j]) : x = PayloadOf(j, seg[j], h)
    BY RegionsAre
  <2>2. PICK h \in Busy(seg[j]) : x = PayloadOf(j, seg[j], h)
    BY <2>1
  <2>3. h \in Busy(seg'[j]) /\ seg'[j].size[h] = seg[j].size[h]
    <3>1. CASE j = i
      BY <3>1, <2>2, <1>2, <1>4, <1>6
    <3>2. CASE j # i
      BY <3>2, <1>4
    <3> QED
      BY <3>1, <3>2
  <2> QED
    BY <2>2, <2>3, RegionsAre DEF PayloadOf
<1>7. ASSUME NEW x \in BusyRegions' PROVE x \in BusyRegions \ {r}
  <2>1. PICK j \in Segs : \E h \in Busy(seg'[j]) : x = PayloadOf(j, seg'[j], h)
    BY RegionsAre
  <2>2. PICK h \in Busy(seg'[j]) : x = PayloadOf(j, seg'[j], h)
    BY <2>1
  <2>3. CASE j = i
    <3>1. h \in Busy(seg[i]) /\ h # b.off /\ x = PayloadOf(i, seg[i], h)
      BY <2>2, <2>3, <1>2, <1>4 DEF PayloadOf
    <3>2. x # r
      BY <3>1, <1>1, PayloadFacts
    <3> QED
      BY <3>1, <3>2, <1>1, RegionsAre
  <2>4. CASE j # i
    <3>1. x # r
      BY <2>2, <2>4 DEF PayloadOf
    <3> QED
      BY <3>1, <2>2, <2>4, <1>4, RegionsAre
  <2> QED
    BY <2>3, <2>4
<1>8. BusyRegions' = BusyRegions \ {r}
  BY <1>6, <1>7
<1> QED
  BY <1>5, <1>8 DEF Abstract!Release

LEMMA AllocateRefines ==
    ASSUME Inv, NEW p \in Procs, Allocate(p)
    PROVE  Abstract!Acquire
<1> DEFINE c == call[p]
           i == c.i
<1>1. /\ i \in Segs /\ c.n \in Nat /\ c.fragment \in Nat /\ seg \in [Segs -> Segment] /\ Sound(seg[i])
  BY DEF Inv, TypeOK, Call
<1>2. PICK prv \in PrvNextFit(seg[i], RealSize(c.n)) :
             seg' = [seg EXCEPT ![i] = SmaAllocate(@, prv, RealSize(c.n), c.fragment)]
  BY DEF Allocate
<1> DEFINE t == SmaAllocate(seg[i], prv, RealSize(c.n), c.fragment)
           cur == seg[i].fnext[prv]
           r == PayloadOf(i, t, cur)
<1>3. /\ Sound(t) /\ Busy(t) = Busy(seg[i]) \cup {cur} /\ cur \notin Busy(seg[i])
      /\ \A h \in Busy(seg[i]) : t.size[h] = seg[i].size[h]
  BY <1>1, AllocateSound
<1>4. seg' = [seg EXCEPT ![i] = t]
  BY <1>2
<1> HIDE DEF t, cur, i, c
<1>5. seg'[i] = t /\ \A j \in Segs : j # i => seg'[j] = seg[j]
  BY <1>1, <1>4
<1>6. ASSUME NEW j \in Segs, NEW h \in Busy(seg[j])
      PROVE  h \in Busy(seg'[j]) /\ PayloadOf(j, seg'[j], h) = PayloadOf(j, seg[j], h)
  BY <1>3, <1>5 DEF PayloadOf
<1>7. BusyRegions' = BusyRegions \cup {r}
  <2>1. ASSUME NEW x \in BusyRegions' PROVE x \in BusyRegions \cup {r}
    <3>1. PICK j \in Segs : \E h \in Busy(seg'[j]) : x = PayloadOf(j, seg'[j], h)
      BY RegionsAre
    <3>2. PICK h \in Busy(seg'[j]) : x = PayloadOf(j, seg'[j], h)
      BY <3>1
    <3>3. CASE j = i /\ h = cur
      BY <3>2, <3>3, <1>5
    <3>4. CASE ~(j = i /\ h = cur)
      <4>1. h \in Busy(seg[j])
        BY <3>2, <3>4, <1>3, <1>5
      <4> QED
        BY <4>1, <3>2, <1>6, RegionsAre
    <3> QED
      BY <3>3, <3>4
  <2>2. r \in BusyRegions'
    BY <1>1, <1>3, <1>5, RegionsAre
  <2>3. BusyRegions \subseteq BusyRegions'
    BY <1>6, RegionsAre
  <2> QED
    BY <2>1, <2>2, <2>3
<1>8. r \in Abstract!Region
  BY <1>1, <1>3, PayloadFacts
<1>9. ASSUME NEW x \in BusyRegions PROVE Abstract!Apart(x, r) /\ x # r
  <2>1. PICK j \in Segs : \E h \in Busy(seg[j]) : x = PayloadOf(j, seg[j], h)
    BY RegionsAre
  <2>2. PICK h \in Busy(seg[j]) : x = PayloadOf(j, seg[j], h)
    BY <2>1
  <2>3. CASE j = i
    <3>1. h \in Busy(t) /\ h # cur /\ cur \in Busy(t) /\ x = PayloadOf(i, t, h)
      BY <2>2, <2>3, <1>3 DEF PayloadOf
    <3> QED
      BY <3>1, <1>1, <1>3, PayloadFacts
  <2>4. CASE j # i
    BY <2>2, <2>4 DEF PayloadOf, Abstract!Apart
  <2> QED
    BY <2>3, <2>4
<1> QED
  BY <1>7, <1>8, <1>9 DEF Abstract!Acquire

\* Every step of the processes hands out one region apart from those in use,
\* takes one back or leaves them alone (apc_sma_api_malloc_ex, _free, _realloc).
THEOREM Refinement == Spec => ImplementsAllocator
<1>1. Init => Abstract!Init
  <2> SUFFICES ASSUME Init PROVE BusyRegions = {}
    BY DEF Abstract!Init
  <2>1. \A j \in Segs : Busy(seg[j]) = {}
    BY InitWellFormed DEF Init
  <2> QED
    BY <2>1, RegionsAre
<1>2. Inv /\ [Next]_vars => [Abstract!Next]_BusyRegions
  <2> SUFFICES ASSUME Inv, [Next]_vars PROVE Abstract!Next \/ UNCHANGED BusyRegions
    OBVIOUS
  <2>1. UNCHANGED seg => UNCHANGED BusyRegions
    BY DEF BusyRegions, Payload, Busy, Blocks, Headers
  <2>2. ASSUME NEW p \in Procs, Malloc(p) \/ TryFails(p) \/ RetryFails(p) \/ ExpungeReturns(p)
        PROVE  UNCHANGED BusyRegions
    BY <2>1, <2>2 DEF Malloc, TryFails, RetryFails, ExpungeReturns
  <2>3. ASSUME NEW p \in Procs, FreeOne(p) \/ Realloc(p) \/ Expunge(p)
        PROVE  Abstract!Next
    BY <2>3, FreeRefines DEF FreeOne, Realloc, Expunge, Abstract!Next
  <2>4. ASSUME NEW p \in Procs, Allocate(p)
        PROVE  Abstract!Next
    BY <2>4, AllocateRefines DEF Abstract!Next
  <2> QED
    BY <2>1, <2>2, <2>3, <2>4 DEF Next, Proceed, vars
<1> QED
  BY <1>1, <1>2, Invariance, PTL DEF Spec, ImplementsAllocator, Abstract!Spec

-----------------------------------------------------------------------------
\* A set of numbers has a smallest one, and a largest one when it is bounded.
LEMMA Smallest ==
    ASSUME NEW T, T \subseteq Nat, T # {}
    PROVE  \E n \in T : \A m \in T : n <= m
<1>1. PICK n \in T : \A m \in T : <<m, n>> \notin OpToRel(<, Nat)
  BY NatLessThanWellFounded, WFMin
<1>2. \A m \in T : ~ (m < n)
  BY <1>1 DEF OpToRel
<1> QED
  BY <1>2

LEMMA Largest ==
    ASSUME NEW T, NEW b \in Nat, T \subseteq 0 .. b, T # {}
    PROVE  \E n \in T : \A m \in T : m <= n
<1> DEFINE D == {d \in Nat : \E m \in T : d = b - m}
<1>1. D \subseteq Nat /\ D # {}
  <2>1. PICK m : m \in T
    OBVIOUS
  <2>2. b - m \in Nat
    BY <2>1
  <2> QED
    BY <2>1, <2>2
<1>2. PICK d \in D : \A e \in D : d <= e
  <2> HIDE DEF D
  <2> QED
    BY <1>1, Smallest
<1>3. PICK n \in T : d = b - n
  BY <1>2
<1>4. ASSUME NEW m \in T PROVE m <= n
  <2>1. m \in 0 .. b /\ n \in 0 .. b /\ b - m \in D
    OBVIOUS
  <2> QED
    BY <1>2, <1>3, <2>1
<1> QED
  BY <1>4

(***************************************************************************)
(* The words between the sentinels: each belongs to one block, so the free *)
(* ones are those that are not busy.                                       *)
(***************************************************************************)
Span(s, h) == h .. (h + s.size[h] - 1)

Between == (First + BLK) .. (Last - 1)

LEMMA SpansApart ==
    ASSUME NEW s, Sound(s), NEW g \in Blocks(s), NEW h \in Blocks(s), g # h
    PROVE  Span(s, g) \cap Span(s, h) = {}
<1>1. g \in Headers(s) /\ h \in Headers(s) /\ g \in Nat /\ h \in Nat /\ s.size[g] \in Nat /\ s.size[h] \in Nat
  BY BlockFacts
<1>2. (h <= g \/ h >= g + s.size[g]) /\ (g <= h \/ g >= h + s.size[h])
  BY <1>1, BlockFacts
<1> QED
  BY <1>1, <1>2 DEF Span

LEMMA SpansCover ==
    ASSUME NEW s, Sound(s)
    PROVE  /\ \A h \in Blocks(s) : Span(s, h) \subseteq Between
           /\ \A w \in Between : \E h \in Blocks(s) : w \in Span(s, h)
<1>1. ASSUME NEW h \in Blocks(s) PROVE Span(s, h) \subseteq Between
  <2>1. /\ h \in Nat /\ s.size[h] \in Nat /\ h >= First + BLK /\ h + s.size[h] \in Off
    BY BlockFacts
  <2>2. h + s.size[h] <= Last
    BY <2>1, SentinelOrder
  <2> QED
    BY <2>1, <2>2, SentinelOrder DEF Span, Between
<1>2. ASSUME NEW w \in Between PROVE \E h \in Blocks(s) : w \in Span(s, h)
  <2> DEFINE T == {h \in Headers(s) : h <= w}
  <2>1. w \in Nat /\ First + BLK <= w /\ w < Last
    BY SentinelOrder DEF Between
  <2>2. T \subseteq 0 .. w /\ First + BLK \in T
    BY <2>1, SentinelOrder DEF Headers, Sound, WellFormed, Tiled
  <2>3. PICK h \in T : \A g \in T : g <= h
    <3> HIDE DEF T
    <3> QED
      BY <2>1, <2>2, Largest
  <2>4. h \in Headers(s) /\ h <= w /\ First + BLK <= h
    BY <2>2, <2>3
  <2>5. h \in Blocks(s)
    BY <2>1, <2>4, SentinelOrder DEF Blocks, Headers
  <2>6. h + s.size[h] \in Headers(s) /\ h + s.size[h] > h /\ h \in Nat /\ s.size[h] \in Nat
    BY <2>5, BlockFacts
  <2>7. h + s.size[h] > w
    BY <2>1, <2>3, <2>6
  <2> QED
    BY <2>1, <2>4, <2>5, <2>6, <2>7 DEF Span
<1> QED
  BY <1>1, <1>2

LEMMA FreeWordsAre ==
    ASSUME NEW s, Sound(s)
    PROVE  Words(s, Free(s)) = Between \ Words(s, Busy(s))
<1>1. Free(s) \subseteq Blocks(s) /\ Busy(s) \subseteq Blocks(s) /\ Blocks(s) = Free(s) \cup Busy(s)
  BY DEF Free, Busy
<1>2. \A g \in Free(s), h \in Busy(s) : Span(s, g) \cap Span(s, h) = {}
  BY <1>1, SpansApart DEF Free, Busy
<1>3. /\ Words(s, Free(s)) = UNION {Span(s, h) : h \in Free(s)}
      /\ Words(s, Busy(s)) = UNION {Span(s, h) : h \in Busy(s)}
  BY DEF Words, Span
<1> QED
  BY <1>1, <1>2, <1>3, SpansCover

\* A block more is busy: its words are free no longer.
LEMMA FreeWordsShrink ==
    ASSUME NEW s, Sound(s), NEW t, Sound(t), NEW b, b \notin Busy(s), Busy(t) = Busy(s) \cup {b},
           \A h \in Busy(s) : t.size[h] = s.size[h]
    PROVE  /\ Cardinality(Words(s, Free(s))) \in Nat /\ Cardinality(Words(t, Free(t))) \in Nat
           /\ Cardinality(Words(s, Free(s))) = Cardinality(Words(t, Free(t))) + t.size[b]
<1> DEFINE A == Words(s, Free(s))
           C == Words(t, Free(t))
           I == Span(t, b)
<1>1. b \in Blocks(t) /\ \A h \in Busy(s) : h \in Blocks(t) /\ h # b
  BY DEF Busy
<1>2. Words(t, Busy(t)) = Words(s, Busy(s)) \cup I
  BY DEF Words, Span
<1>3. I \subseteq Between
  BY <1>1, SpansCover
<1>4. \A h \in Busy(s) : Span(s, h) \cap I = {}
  <2> SUFFICES ASSUME NEW h \in Busy(s) PROVE Span(s, h) \cap I = {}
    OBVIOUS
  <2>1. Span(s, h) = Span(t, h)
    BY DEF Span
  <2> HIDE DEF I
  <2> QED
    BY <1>1, <2>1, SpansApart DEF I
<1>5. I \cap Words(s, Busy(s)) = {}
  BY <1>4 DEF Words, Span
<1>6. A = Between \ Words(s, Busy(s)) /\ C = Between \ Words(t, Busy(t))
  BY FreeWordsAre
<1>7. A = C \cup I /\ C \cap I = {}
  <2> HIDE DEF A, C, I
  <2> QED
    BY <1>2, <1>3, <1>5, <1>6
<1>8. IsFiniteSet(Between) /\ A \subseteq Between /\ C \subseteq Between
  <2>1. First + BLK \in Int /\ Last - 1 \in Int
    BY SentinelOrder
  <2>2. IsFiniteSet((First + BLK) .. (Last - 1))
    BY <2>1, FS_Interval
  <2> HIDE DEF A, C
  <2> QED
    BY <1>6, <2>2 DEF Between
<1>9. IsFiniteSet(I) /\ Cardinality(I) = t.size[b]
  <2>1. b \in Nat /\ t.size[b] \in Nat /\ t.size[b] >= BLK /\ BLK \in Nat /\ BLK > 0
    BY <1>1, BlockFacts, SentinelOrder
  <2>2. b \in Int /\ b + t.size[b] - 1 \in Int /\ b <= b + t.size[b] - 1
    BY <2>1
  <2>3. IsFiniteSet(I) /\ Cardinality(I) = (b + t.size[b] - 1) - b + 1
    BY <2>2, FS_Interval DEF Span
  <2> QED
    BY <2>1, <2>3
<1> HIDE DEF A, C, I
<1>10. IsFiniteSet(A) /\ IsFiniteSet(C)
  BY <1>8, FS_Subset
<1>11. Cardinality(C \cap I) = 0
  BY <1>7, FS_EmptySet
<1>12. Cardinality(A) = Cardinality(C) + Cardinality(I) - Cardinality(C \cap I)
  BY <1>7, <1>9, <1>10, FS_Union
<1>13. Cardinality(A) \in Nat /\ Cardinality(C) \in Nat /\ Cardinality(I) \in Nat
  BY <1>9, <1>10, FS_CardinalityType
<1> QED
  BY <1>9, <1>11, <1>12, <1>13 DEF A, C

(***************************************************************************)
(* The counter in the header and what allocations and deallocations do.    *)
(***************************************************************************)
Balanced(s) == s.avail = BLK + Cardinality(Words(s, Free(s)))

LEMMA InitBalanced == Balanced(InitSegment)
<1> DEFINE s == InitSegment
<1>1. Sound(s)
  BY InitSound
<1>2. Words(s, Busy(s)) = {}
  BY InitWellFormed DEF Words
<1>3. Words(s, Free(s)) = Between
  BY <1>1, <1>2, FreeWordsAre
<1>4. First + BLK \in Int /\ Last - 1 \in Int /\ First + BLK <= Last - 1
  BY SentinelOrder
<1>5. Cardinality(Between) = (Last - 1) - (First + BLK) + 1
  BY <1>4, FS_Interval DEF Between
<1>6. s.avail = SEGSIZE - HDR - 2 * BLK
  BY DEF InitSegment
<1> HIDE DEF s
<1> QED
  BY <1>3, <1>5, <1>6, SegmentAssumption DEF s, Balanced, First, Last

LEMMA AllocateBalanced ==
    ASSUME NEW s, Sound(s), Balanced(s), NEW n \in Nat, NEW fragment \in Nat,
           NEW prv \in PrvNextFit(s, RealSize(n))
    PROVE  Balanced(SmaAllocate(s, prv, RealSize(n), fragment))
<1> DEFINE r == RealSize(n)
           cur == s.fnext[prv]
           t == SmaAllocate(s, prv, r, fragment)
<1>1. /\ Sound(t) /\ Busy(t) = Busy(s) \cup {cur} /\ cur \notin Busy(s)
      /\ \A h \in Busy(s) : t.size[h] = s.size[h]
  BY AllocateSound
<1>2. r \in Nat /\ r >= BLK
  BY SentinelOrder DEF RealSize
<1>3. cur \in Off /\ cur \in Free(s) /\ s.size \in [Off -> Nat \cup {Junk}] /\ s.size[cur] \in Nat /\ s.avail \in Int
  <2>1. cur \in Free(s)
    BY <1>2, FitIsFree
  <2> QED
    BY <2>1, FreeBlockFacts DEF Sound, Segment
<1>4. t.avail = s.avail - t.size[cur]
  <2>1. CASE s.size[cur] < r + MINBLOCKSIZE + fragment
    BY <2>1 DEF SmaAllocate, TakeWhole
  <2>2. CASE ~(s.size[cur] < r + MINBLOCKSIZE + fragment)
    <3>1. cur + r # cur
      BY <1>2, <1>3, SentinelOrder
    <3>2. t.avail = s.avail - r /\ t.size = [s.size EXCEPT ![cur] = r, ![cur + r] = s.size[cur] - r]
      BY <2>2 DEF SmaAllocate, Split
    <3> QED
      BY <3>1, <3>2, <1>3
  <2> QED
    BY <2>1, <2>2
<1> HIDE DEF t
<1>5. t.size[cur] \in Nat
  BY <1>1, BlockFacts DEF Busy
<1>6. /\ Cardinality(Words(s, Free(s))) \in Nat /\ Cardinality(Words(t, Free(t))) \in Nat
      /\ Cardinality(Words(s, Free(s))) = Cardinality(Words(t, Free(t))) + t.size[cur]
  BY <1>1, FreeWordsShrink
<1> QED
  BY <1>4, <1>5, <1>6, SentinelOrder DEF Balanced, t

LEMMA DeallocateBalanced ==
    ASSUME NEW s, Sound(s), Balanced(s), NEW cur \in Busy(s)
    PROVE  Balanced(SmaDeallocate(s, cur))
<1> DEFINE t == SmaDeallocate(s, cur)
<1>1. t.avail = s.avail + s.size[cur]
  <2>1. \A u, b : /\ JoinPrevious(u, b).avail = u.avail /\ JoinNext(u, b).avail = u.avail
                  /\ PushFree(u, b).avail = u.avail
    <3>1. \A u, b, c : Unlink(u, b).avail = u.avail /\ Absorb(u, b, c).avail = u.avail
      BY DEF Absorb, Unlink
    <3>2. \A u, b : PushFree(u, b).avail = u.avail
      BY DEF PushFree
    <3> QED
      BY <3>1, <3>2 DEF JoinNext, JoinPrevious
  <2>2. Credit(s, s.size[cur]).avail = s.avail + s.size[cur]
    BY DEF Credit
  <2> QED
    BY <2>1, <2>2 DEF SmaDeallocate
<1>2. Sound(t) /\ Busy(t) = Busy(s) \ {cur} /\ \A h \in Busy(t) : t.size[h] = s.size[h]
  BY DeallocateSound
<1> HIDE DEF t
<1>3. s.size[cur] \in Nat /\ Busy(s) = Busy(t) \cup {cur} /\ cur \notin Busy(t)
  BY <1>2, BlockFacts DEF Busy
<1>4. /\ Cardinality(Words(s, Free(s))) \in Nat /\ Cardinality(Words(t, Free(t))) \in Nat
      /\ Cardinality(Words(t, Free(t))) = Cardinality(Words(s, Free(s))) + s.size[cur]
  BY <1>2, <1>3, FreeWordsShrink
<1> QED
  BY <1>1, <1>3, <1>4, SentinelOrder DEF Balanced, t

\* Some offset of a set has the highest rank.
LEMMA Highest ==
    ASSUME NEW rank \in [Off -> Int], NEW T, T \subseteq Off, T # {}
    PROVE  \E m \in T : \A n \in T : rank[n] <= rank[m]
<1> DEFINE Upto(n) == T \cap (0 .. n)
           Good(n) == Upto(n) # {} => \E m \in Upto(n) : \A o \in Upto(n) : rank[o] <= rank[m]
           Bad == {n \in Nat : ~ Good(n)}
<1>1. T \subseteq Nat /\ \A n \in T : rank[n] \in Int
  BY SentinelOrder
<1>2. Bad = {}
  <2> SUFFICES ASSUME Bad # {} PROVE FALSE
    OBVIOUS
  <2>1. PICK n \in Bad : \A m \in Bad : n <= m
    <3>1. Bad \subseteq Nat
      OBVIOUS
    <3> HIDE DEF Bad
    <3> QED
      BY <3>1, Smallest
  <2>2. n \in Nat /\ Upto(n) # {} /\ ~ \E m \in Upto(n) : \A o \in Upto(n) : rank[o] <= rank[m]
    BY <2>1
  <2>3. n # 0
    BY <1>1, <2>2
  <2>4. n - 1 \in Nat /\ n - 1 \notin Bad
    <3>1. n - 1 \in Nat /\ ~(n <= n - 1)
      BY <2>2, <2>3
    <3> HIDE DEF Bad
    <3> QED
      BY <2>1, <3>1
  <2>5. \A o : o \in Upto(n) <=> o \in Upto(n - 1) \/ (o = n /\ n \in T)
    <3>1. n \in Nat /\ n - 1 \in Nat /\ T \subseteq Nat
      BY <1>1, <2>2, <2>4
    <3>2. \A o \in Nat : o \in 0 .. n <=> o \in 0 .. n - 1 \/ o = n
      BY <3>1
    <3>3. n \in 0 .. n
      BY <3>1
    <3>4. \A o \in T : o \in 0 .. n <=> o \in 0 .. n - 1 \/ o = n
      BY <3>1, <3>2
    <3> QED
      BY <3>4
  <2>6. CASE Upto(n - 1) = {}
    <3>1. Upto(n) = {n}
      BY <2>2, <2>5, <2>6
    <3>2. rank[n] <= rank[n]
      BY <1>1, <3>1
    <3> QED
      BY <2>2, <3>1, <3>2
  <2>7. CASE Upto(n - 1) # {}
    <3>1. PICK m \in Upto(n - 1) : \A o \in Upto(n - 1) : rank[o] <= rank[m]
      BY <2>4, <2>7
    <3>2. m \in T /\ rank[m] \in Int
      BY <1>1
    <3>3. n \in T /\ rank[m] < rank[n]
      BY <1>1, <2>2, <2>5, <3>1, <3>2
    <3>4. \A o \in Upto(n) : rank[o] <= rank[n]
      BY <1>1, <2>5, <3>1, <3>2, <3>3
    <3> QED
      BY <2>2, <2>5, <3>3, <3>4
  <2> QED
    BY <2>6, <2>7
<1>3. Last \in Nat /\ Upto(Last) = T
  <2>1. Last \in Nat /\ First \in Nat /\ \A o \in T : o \in First .. Last
    BY SentinelOrder
  <2>2. \A o \in T : o \in 0 .. Last
    BY <2>1
  <2> QED
    BY <2>1, <2>2
<1> QED
  BY <1>2, <1>3

\* walk says where the search of sma_allocate, begun at any header, stops.
Search(s, r, walk) == walk = [p \in Headers(s) |-> IF s.fnext[p] = 0 \/ s.size[s.fnext[p]] >= r
                                                  THEN p ELSE walk[s.fnext[p]]]

\* The search has a result at every header: it goes up the ranks.
LEMMA WalkDefined ==
    ASSUME NEW s, Sound(s), NEW r
    PROVE  \E walk : Search(s, r, walk)
<1> DEFINE Stops(p) == s.fnext[p] = 0 \/ s.size[s.fnext[p]] >= r
           Closed(C)  == C \subseteq Headers(s) /\ \A p \in C : ~Stops(p) => s.fnext[p] \in C
           Solves(C, w) == w = [p \in C |-> IF Stops(p) THEN p ELSE w[s.fnext[p]]]
           Sizes == {n \in Nat : \E C : Closed(C) /\ Cardinality(C) = n /\ \E w : Solves(C, w)}
<1>1. PICK rank \in [Off -> Int] : Ranking(s, rank)
  BY DEF Sound, Acyclic
<1>2. Headers(s) \subseteq Off /\ IsFiniteSet(Headers(s)) /\ Cardinality(Headers(s)) \in Nat
  <2>1. Headers(s) \subseteq Off
    BY DEF Headers
  <2>2. First \in Int /\ Last \in Int
    BY SentinelOrder
  <2>3. IsFiniteSet(Off)
    BY <2>2, FS_Interval DEF Off
  <2> QED
    BY <2>1, <2>3, FS_Subset, FS_CardinalityType
<1>3. \A p \in Headers(s) : s.fnext[p] # 0 =>
         s.fnext[p] \in Headers(s) /\ rank[p] < rank[s.fnext[p]]
  <2> SUFFICES ASSUME NEW p \in Headers(s), s.fnext[p] # 0
               PROVE  s.fnext[p] \in Headers(s) /\ rank[p] < rank[s.fnext[p]]
    OBVIOUS
  <2>1. p \in Free(s) \cup {First}
    BY DEF Free, Blocks, Sound, WellFormed, Linked
  <2>2. s.fnext[p] \in Free(s) \cup {Last} /\ Last \in Headers(s)
    BY <2>1 DEF Sound, WellFormed, Linked, Tiled
  <2> QED
    BY <1>1, <2>1, <2>2 DEF Ranking, Free, Blocks
<1>4. \A C : C \subseteq Headers(s) => IsFiniteSet(C) /\ Cardinality(C) \in Nat /\ Cardinality(C) <= Cardinality(Headers(s))
  BY <1>2, FS_Subset, FS_CardinalityType
<1>5. Sizes \subseteq 0 .. Cardinality(Headers(s)) /\ Sizes # {}
  <2>1. Sizes \subseteq 0 .. Cardinality(Headers(s))
    BY <1>2, <1>4
  <2>2. Closed({}) /\ Cardinality({}) = 0
    BY FS_EmptySet
  <2>3. Solves({}, [p \in {} |-> p])
    OBVIOUS
  <2>4. 0 \in Sizes
    <3> HIDE DEF Closed, Solves
    <3> QED
      BY <2>2, <2>3
  <2> QED
    BY <2>1, <2>4
<1>6. PICK n \in Sizes : \A m \in Sizes : m <= n
  <2> HIDE DEF Sizes
  <2> QED
    BY <1>2, <1>5, Largest
<1>7. PICK C, w : Closed(C) /\ Cardinality(C) = n /\ Solves(C, w)
  <2> HIDE DEF Closed, Solves
  <2> QED
    BY <1>6
<1>8. C = Headers(s)
  <2> SUFFICES ASSUME C # Headers(s) PROVE FALSE
    OBVIOUS
  <2>1. Headers(s) \ C \subseteq Off /\ Headers(s) \ C # {}
    BY <1>2, <1>7
  <2>2. PICK p \in Headers(s) \ C : \A q \in Headers(s) \ C : rank[q] <= rank[p]
    BY <2>1, Highest
  <2>3. ~Stops(p) => s.fnext[p] \in C
    <3> SUFFICES ASSUME s.fnext[p] # 0, s.fnext[p] \notin C PROVE FALSE
      OBVIOUS
    <3>1. s.fnext[p] \in Headers(s) \ C /\ rank[p] < rank[s.fnext[p]]
      BY <1>3, <2>2
    <3>2. rank[p] \in Int /\ rank[s.fnext[p]] \in Int
      BY <1>2, <3>1
    <3> QED
      BY <2>2, <3>1, <3>2
  <2> DEFINE D == C \cup {p}
             v == [q \in D |-> IF q = p THEN IF Stops(p) THEN p ELSE w[s.fnext[p]] ELSE w[q]]
  <2>4. Closed(D)
    BY <1>7, <2>2, <2>3
  <2>5. Solves(D, v)
    <3>1. ASSUME NEW q \in D PROVE v[q] = IF Stops(q) THEN q ELSE v[s.fnext[q]]
      <4>1. CASE q = p
        BY <2>2, <2>3, <4>1
      <4>2. CASE q # p
        <5>1. q \in C /\ v[q] = w[q]
          BY <4>2
        <5>2. w[q] = IF Stops(q) THEN q ELSE w[s.fnext[q]]
          BY <1>7, <5>1
        <5>3. ~Stops(q) => s.fnext[q] \in C
          BY <1>7, <5>1
        <5>4. ~Stops(q) => v[s.fnext[q]] = w[s.fnext[q]]
          BY <2>2, <5>3
        <5> HIDE DEF v, Stops
        <5> QED
          BY <5>1, <5>2, <5>4
      <4> QED
        BY <4>1, <4>2
    <3>2. v = [q \in D |-> v[q]]
      OBVIOUS
    <3> HIDE DEF v, D, Stops
    <3> QED
      BY <3>1, <3>2
  <2>6. Cardinality(D) = n + 1
    BY <1>4, <1>7, <2>2, FS_AddElement
  <2>7. n + 1 \in Sizes
    <3>1. n + 1 \in Nat
      BY <1>6
    <3> HIDE DEF Closed, Solves, D, v
    <3> QED
      BY <2>4, <2>5, <2>6, <3>1
  <2> QED
    BY <1>6, <2>7
<1> QED
  BY <1>7, <1>8 DEF Search

\* When some free block fits, the search stops before one that does.
LEMMA WalkStopsAtFit ==
    ASSUME NEW s, Sound(s), NEW r \in Nat, r >= BLK, NEW h \in Free(s), s.size[h] >= r
    PROVE  LET p == WalkEnd(s, r)
           IN  p \in Headers(s) /\ s.fnext[p] # 0 /\ s.size[s.fnext[p]] >= r
<1> DEFINE walk == CHOOSE w : Search(s, r, w)
           Ends(p) == p \in Headers(s) /\ s.fnext[p] # 0 /\ s.size[s.fnext[p]] >= r
           G == {p \in Free(s) \cup {First} : Ends(walk[p])}
<1>1. Search(s, r, walk)
  BY WalkDefined
<1>2. WalkEnd(s, r) = walk[First]
  BY DEF WalkEnd, Search
<1> HIDE DEF walk
<1>3. PICK rank \in [Off -> Int] : Ranking(s, rank)
  BY DEF Sound, Acyclic
<1>4. /\ Free(s) \cup {First} \subseteq Headers(s) /\ Headers(s) \subseteq Off
      /\ \A p \in Free(s) : /\ s.fprev[p] \in Free(s) \cup {First} /\ s.fnext[s.fprev[p]] = p
                           /\ p # 0
  BY SentinelOrder DEF Sound, WellFormed, Tiled, Linked, Free, Blocks, Headers
<1>5. ASSUME NEW p \in Free(s), s.size[p] >= r \/ p \in G PROVE s.fprev[p] \in G
  <2> DEFINE q == s.fprev[p]
  <2>1. q \in Free(s) \cup {First} /\ q \in Headers(s) /\ s.fnext[q] = p /\ p # 0
    BY <1>4
  <2>2. walk[q] = IF s.size[p] >= r THEN q ELSE walk[p]
    BY <1>1, <2>1 DEF Search
  <2> HIDE DEF q
  <2>3. Ends(walk[q])
    BY <1>5, <2>1, <2>2
  <2> QED
    BY <2>1, <2>3 DEF q
<1>6. G \subseteq Off /\ G # {}
  <2> HIDE DEF G
  <2>1. G # {}
    BY <1>5
  <2> QED
    BY <1>4, <2>1 DEF G
<1> DEFINE down == [p \in Off |-> 0 - rank[p]]
<1>7. PICK m \in G : \A p \in G : down[p] <= down[m]
  <2>1. down \in [Off -> Int]
    OBVIOUS
  <2> HIDE DEF down, G
  <2> QED
    BY <1>6, <2>1, Highest
<1>8. m = First
  <2> SUFFICES ASSUME m # First PROVE FALSE
    OBVIOUS
  <2>1. m \in Free(s) /\ s.fprev[m] \in G
    BY <1>5, <1>7
  <2>2. rank[s.fprev[m]] < rank[m]
    BY <1>3, <1>4, <2>1 DEF Ranking
  <2>3. m \in Off /\ s.fprev[m] \in Off
    BY <1>6, <2>1
  <2>4. rank[m] \in Int /\ rank[s.fprev[m]] \in Int
    BY <2>3
  <2>5. down[s.fprev[m]] <= down[m]
    BY <1>7, <2>1
  <2> QED
    BY <2>2, <2>3, <2>4, <2>5
<1> QED
  BY <1>2, <1>7, <1>8

LEMMA FitIsFound ==
    ASSUME NEW s, Sound(s), Balanced(s), NEW h \in Free(s)
    PROVE  PrvNextFit(s, s.size[h]) # {}
<1>1. h \in Blocks(s) /\ s.size[h] \in Nat /\ s.size[h] >= BLK /\ h \in Nat
  BY BlockFacts DEF Free
<1>2. s.avail >= s.size[h]
  <2>1. Span(s, h) \subseteq Words(s, Free(s)) /\ Words(s, Free(s)) \subseteq Between
    BY FreeWordsAre DEF Words, Span
  <2>2. First + BLK \in Int /\ Last - 1 \in Int
    BY SentinelOrder
  <2>3. IsFiniteSet(Words(s, Free(s)))
    BY <2>1, <2>2, FS_Interval, FS_Subset DEF Between
  <2>4. Cardinality(Span(s, h)) <= Cardinality(Words(s, Free(s)))
    BY <2>1, <2>3, FS_Subset
  <2>5. Cardinality(Words(s, Free(s))) \in Nat
    BY <2>3, FS_CardinalityType
  <2>6. h \in Int /\ h + s.size[h] - 1 \in Int /\ h <= h + s.size[h] - 1
    BY <1>1, SentinelOrder
  <2>7. Cardinality(Span(s, h)) = (h + s.size[h] - 1) - h + 1
    BY <2>6, FS_Interval DEF Span
  <2> QED
    BY <1>1, <2>4, <2>5, <2>7, SentinelOrder DEF Balanced
<1>3. WalkEnd(s, s.size[h]) \in PrvNextFit(s, s.size[h])
  BY <1>1, <1>2, WalkStopsAtFit DEF PrvNextFit
<1> QED
  BY <1>3

\* The counter along a step of any process.
LEMMA BalanceStep == Inv /\ AvailBalances /\ [Next]_vars => AvailBalances'
<1> SUFFICES ASSUME Inv, AvailBalances, [Next]_vars PROVE AvailBalances'
  OBVIOUS
<1>1. seg \in [Segs -> Segment] /\ \A i \in Segs : Sound(seg[i]) /\ Balanced(seg[i])
  BY DEF Inv, TypeOK, AvailBalances, Balanced
<1>2. ASSUME UNCHANGED seg PROVE AvailBalances'
  BY <1>2 DEF AvailBalances
<1>3. ASSUME NEW i \in Segs, NEW t, seg' = [seg EXCEPT ![i] = t], Balanced(t) PROVE AvailBalances'
  BY <1>1, <1>3 DEF AvailBalances, Balanced
<1>4. ASSUME NEW b \in live, FreeBlock(b) PROVE AvailBalances'
  <2>1. b.seg \in Segs /\ b.off \in Busy(seg[b.seg])
    BY DEF Inv, TypeOK, LiveAreBusy
  <2>2. Balanced(SmaDeallocate(seg[b.seg], b.off))
    BY <1>1, <2>1, DeallocateBalanced
  <2> QED
    BY <1>3, <1>4, <2>1, <2>2 DEF FreeBlock
<1>5. ASSUME NEW p \in Procs, Allocate(p) PROVE AvailBalances'
  <2> DEFINE c == call[p]
  <2>1. c.i \in Segs /\ c.n \in Nat /\ c.fragment \in Nat
    BY DEF Inv, TypeOK, Call
  <2>2. PICK prv \in PrvNextFit(seg[c.i], RealSize(c.n)) :
          seg' = [seg EXCEPT ![c.i] = SmaAllocate(seg[c.i], prv, RealSize(c.n), c.fragment)]
    BY <1>5 DEF Allocate
  <2> HIDE DEF c
  <2>3. Balanced(SmaAllocate(seg[c.i], prv, RealSize(c.n), c.fragment))
    BY <1>1, <2>1, AllocateBalanced
  <2> QED
    BY <1>3, <2>1, <2>2, <2>3
<1>6. ASSUME NEW p \in Procs, Malloc(p) \/ FreeOne(p) \/ Realloc(p) \/ Expunge(p) \/ Proceed(p)
      PROVE  AvailBalances'
  BY <1>2, <1>4, <1>5, <1>6
     DEF Malloc, FreeOne, Realloc, Expunge, Proceed, TryFails, RetryFails, ExpungeReturns
<1>7. CASE UNCHANGED vars
  BY <1>2, <1>7 DEF vars
<1> QED
  BY <1>6, <1>7 DEF Next

(***************************************************************************)
(* What the header counts is what is free, and one header more, after any  *)
(* sequence of splits and joins in any segment by any processes            *)
(* (sma_allocate, sma_deallocate, apc_sma_api_init).                       *)
(***************************************************************************)
THEOREM CounterBalances == Spec => []AvailBalances
<1>1. Init => AvailBalances
  BY InitBalanced DEF Init, AvailBalances, Balanced
<1> QED
  BY <1>1, BalanceStep, Invariance, PTL DEF Spec

(***************************************************************************)
(* No request that some free block of a segment can hold is refused by the *)
(* counter or missed by the search, whatever order frees and joins left    *)
(* the list in (the two tests of sma_allocate).                            *)
(***************************************************************************)
THEOREM FitsAreServed == Spec => []NeverRefusesFit
<1>1. Inv /\ AvailBalances => NeverRefusesFit
  BY FitIsFound DEF Inv, AvailBalances, Balanced, NeverRefusesFit
<1> QED
  BY <1>1, Invariance, CounterBalances, PTL
=============================================================================
