--------------------------- MODULE XcCacherProofs ---------------------------
(***************************************************************************)
(* What malloc and free of XcAllocator preserve, that the memory of        *)
(* XcCacher stays consistent, and that a script gets the code of its file. *)
(*                                                                         *)
(* In this order: the heap; what is proved of the cache, as definitions;   *)
(* how the operators on the memory change it, and the loops over them; the *)
(* memory and the processes after each action; the theorems.               *)
(***************************************************************************)
EXTENDS XcCacher, FiniteSetTheorems, SequenceTheorems, WellFoundedInduction, TLAPS

LEMMA LeastNat ==
    ASSUME NEW T \in SUBSET Nat, T # {}
    PROVE  \E x \in T : \A y \in T : x <= y
<1> DEFINE Less == {ss \in Nat \X Nat : ss[1] < ss[2]}
<1>1. IsWellFoundedOn(Less, Nat)
  BY NatLessThanWellFounded DEF OpToRel
<1>2. PICK x \in T : \A y \in T : <<y, x>> \notin Less
  <2> HIDE DEF Less
  <2> QED
    BY <1>1, WFMin
<1>3. \A y \in T : ~(y < x)
  BY <1>2
<1> QED
  BY <1>3

LEMMA BlockFacts ==
    ASSUME NEW b \in Block
    PROVE  b.at \in Nat /\ b.size \in Nat /\ b.size > 0 /\ b.size >= BLK /\ End(b) \in Nat /\ End(b) > b.at
           /\ End(b) = b.at + b.size
BY HeapAssumption DEF Block, Limit, End

LEMMA FirstFacts ==
    ASSUME NEW B \in SUBSET Block, B # {}
    PROVE  First(B) \in B /\ \A c \in B : First(B).at <= c.at
<1> DEFINE T == {b.at : b \in B}
<1>1. T \in SUBSET Nat /\ T # {}
  BY BlockFacts
<1>2. PICK x \in T : \A y \in T : x <= y
  <2> HIDE DEF T
  <2> QED
    BY <1>1, LeastNat
<1>3. PICK b \in B : b.at = x
  BY <1>2
<1>4. \A c \in B : b.at <= c.at
  BY <1>2, <1>3
<1> QED
  BY <1>3, <1>4 DEF First

(***************************************************************************)
(* malloc.                                                                 *)
(***************************************************************************)
LEMMA FoundFacts ==
    ASSUME NEW h, Laid(h), NEW real \in Nat, CanMalloc(h, real)
    PROVE  /\ Found(h, real) \in h.free
           /\ Found(h, real).size = real \/ Found(h, real).size > BLK + real
<1> USE DEF Blocks
<1>1. Fit(h, real) \subseteq h.free /\ Fit(h, real) # {}
  BY DEF CanMalloc, Fit, Perfect, Smallest, Splittable
<1>2. \A b \in Fit(h, real) : b.size = real \/ b.size > BLK + real
  BY DEF Fit, Perfect, Smallest, Splittable
<1>3. Found(h, real) \in Fit(h, real)
  BY <1>1, FirstFacts DEF Found, Laid
<1> QED
  BY <1>1, <1>2, <1>3

\* The block found is cut in two, or given away as it is.
LEMMA MallocLaid ==
    ASSUME NEW h, Laid(h), NEW real \in Nat, real >= BLK, CanMalloc(h, real)
    PROVE  Laid(Malloc(h, real))
<1> DEFINE b == Found(h, real)
           m == Malloc(h, real)
           cut == [at |-> b.at, size |-> real]
           rest == [at |-> b.at + real, size |-> b.size - real]
<1>1. b \in h.free /\ (b.size = real \/ b.size > BLK + real)
  BY FoundFacts
<1>2. /\ Blocks(h) \subseteq Block /\ h.free \cap h.busy = {}
      /\ \A c \in Blocks(h) : End(c) <= Limit
      /\ \A c, d \in Blocks(h) : c # d => Apart(c, d)
      /\ \A w \in 0 .. Limit - 1 : \E c \in Blocks(h) : c.at <= w /\ w < End(c)
      /\ \A c, d \in h.free : End(c) # d.at
  BY DEF Laid
<1>3. /\ m.free = (h.free \ {b}) \cup (IF b.size = real THEN {} ELSE {rest})
      /\ m.busy = h.busy \cup {cut}
  BY DEF Malloc, Rest
<1>4. /\ HDR \in Nat /\ BLK \in Nat /\ BLK > 0 /\ Limit \in Nat
  BY HeapAssumption DEF Limit
<1>5. b \in Block /\ b.at \in Nat /\ b.size \in Nat /\ End(b) = b.at + b.size /\ End(b) <= Limit
  BY <1>1, <1>2, BlockFacts DEF Blocks
<1>6. /\ cut \in Block /\ End(cut) = b.at + real
      /\ b.size # real => rest \in Block /\ End(rest) = End(b) /\ rest.at = End(cut)
                          /\ rest.size > BLK
  BY <1>1, <1>4, <1>5 DEF Block, End
<1> HIDE DEF b, m, cut, rest
<1>7. cut.at = b.at /\ rest.at = b.at + real /\ End(cut) <= End(b)
  BY <1>1, <1>4, <1>5, <1>6 DEF cut, rest
<1>8. \A c \in Blocks(m) : (c \in Blocks(h) /\ c # b) \/ c = cut \/ (b.size # real /\ c = rest)
  BY <1>1, <1>2, <1>3 DEF Blocks
<1>9. ASSUME NEW c \in Blocks(h), c # b
      PROVE  /\ c \in Block /\ c.at \in Nat /\ c.size > 0 /\ End(c) \in Nat /\ End(c) > c.at
             /\ End(c) <= b.at \/ End(b) <= c.at
  BY <1>1, <1>2, <1>9, BlockFacts DEF Blocks, Apart
<1>10. Blocks(m) \subseteq Block /\ \A c \in Blocks(m) : End(c) <= Limit
  BY <1>2, <1>4, <1>5, <1>6, <1>7, <1>8
<1>11. cut \notin h.free \ {b} /\ (b.size # real => rest \notin Blocks(h) /\ rest # cut)
  <2>1. ASSUME NEW c \in Blocks(h), c # b PROVE c # cut /\ (b.size # real => c # rest)
    BY <1>1, <1>4, <1>5, <1>6, <1>7, <1>9, <2>1
  <2>2. b.size # real => b # rest /\ rest # cut
    BY <1>4, <1>5, <1>6, <1>7
  <2> QED
    BY <2>1, <2>2 DEF Blocks
<1>12. m.free \cap m.busy = {}
  BY <1>2, <1>3, <1>11 DEF Blocks
<1>13. ASSUME NEW c \in Blocks(m), NEW d \in Blocks(m), c # d PROVE Apart(c, d)
  BY <1>1, <1>2, <1>4, <1>5, <1>6, <1>7, <1>8, <1>9, <1>13 DEF Apart
<1>14. ASSUME NEW w \in 0 .. Limit - 1
       PROVE  \E c \in Blocks(m) : c.at <= w /\ w < End(c)
  <2>1. PICK c \in Blocks(h) : c.at <= w /\ w < End(c)
    BY <1>2
  <2>2. CASE c # b
    BY <1>3, <2>1, <2>2 DEF Blocks
  <2>3. CASE c = b /\ b.size = real
    BY <1>3, <1>5, <1>6, <1>7, <2>1, <2>3 DEF Blocks
  <2>4. CASE c = b /\ b.size # real
    BY <1>3, <1>5, <1>6, <1>7, <2>1, <2>4 DEF Blocks
  <2> QED
    BY <2>2, <2>3, <2>4
<1>15. ASSUME NEW c \in m.free, NEW d \in m.free PROVE End(c) # d.at
  <2>1. CASE c \in h.free /\ d \in h.free
    BY <1>2, <2>1
  <2>2. CASE c = rest /\ d \in h.free /\ d # b /\ b.size # real
    BY <1>1, <1>2, <1>6, <2>2
  <2>3. CASE c \in h.free /\ c # b /\ d = rest /\ b.size # real
    BY <1>4, <1>5, <1>7, <1>9, <1>6, <2>3 DEF Blocks
  <2>4. CASE c = rest /\ d = rest /\ b.size # real
    BY <1>4, <1>5, <1>6, <1>7, <2>4, BlockFacts
  <2> QED
    BY <1>3, <2>1, <2>2, <2>3, <2>4
<1> QED
  BY <1>10, <1>12, <1>13, <1>14, <1>15 DEF Laid, m

(***************************************************************************)
(* free.                                                                   *)
(***************************************************************************)
\* A free neighbour that touches is the next one: nothing lies between.
LEMMA Neighbours ==
    ASSUME NEW h, Laid(h), NEW cur \in h.busy
    PROVE  /\ Before(h, cur) = {b \in h.free : End(b) = cur.at}
           /\ After(h, cur) = {b \in h.free : b.at = End(cur)}
           /\ \A b, c \in Before(h, cur) : b = c
           /\ \A b, c \in After(h, cur) : b = c
<1>1. \A b \in h.free : /\ b.at \in Nat /\ End(b) \in Nat /\ End(b) > b.at
                        /\ b # cur /\ (End(b) <= cur.at \/ End(cur) <= b.at)
  BY BlockFacts DEF Laid, Blocks, Apart
<1>2. cur.at \in Nat /\ End(cur) \in Nat /\ End(cur) > cur.at
  BY BlockFacts DEF Laid, Blocks
<1>3. \A b, c \in h.free : b # c => End(b) <= c.at \/ End(c) <= b.at
  BY DEF Laid, Blocks, Apart
<1>4. Before(h, cur) = {b \in h.free : End(b) = cur.at}
  <2>1. ASSUME NEW b \in h.free, End(b) = cur.at, NEW c \in h.free, c.at < cur.at
        PROVE  b.at < cur.at /\ c.at <= b.at
    BY <1>1, <1>2, <1>3, <2>1
  <2>2. ASSUME NEW b \in h.free, End(b) = cur.at PROVE b.at < cur.at
    BY <1>1, <1>2, <2>2
  <2> QED
    BY <2>1, <2>2 DEF Before
<1>5. After(h, cur) = {b \in h.free : b.at = End(cur)}
  <2>1. ASSUME NEW b \in h.free, b.at = End(cur), NEW c \in h.free, c.at > cur.at
        PROVE  c.at >= b.at
    BY <1>1, <1>2, <1>3, <2>1
  <2>2. ASSUME NEW b \in h.free, b.at = End(cur) PROVE b.at > cur.at
    BY <1>1, <1>2, <2>2
  <2> QED
    BY <2>1, <2>2 DEF After
<1>6. \A b, c \in Before(h, cur) : b = c
  BY <1>1, <1>2, <1>3, <1>4
<1>7. \A b, c \in After(h, cur) : b = c
  BY <1>1, <1>2, <1>3, <1>5
<1> QED
  BY <1>4, <1>5, <1>6, <1>7

\* The lowest and the highest of the blocks that are joined.
LEMMA JoinedFacts ==
    ASSUME NEW h, Laid(h), NEW cur \in h.busy
    PROVE  \E lo, hi \in Merged(h, cur) :
             /\ Merged(h, cur) = {lo, cur, hi}
             /\ Joined(Merged(h, cur)) = [at |-> lo.at, size |-> End(hi) - lo.at]
             /\ (lo = cur /\ Before(h, cur) = {}) \/ (lo \in h.free /\ End(lo) = cur.at)
             /\ (hi = cur /\ After(h, cur) = {}) \/ (hi \in h.free /\ hi.at = End(cur))
<1> DEFINE B == Merged(h, cur)
<1>1. PICK lo \in B : \/ lo = cur /\ Before(h, cur) = {}
                      \/ Before(h, cur) = {lo} /\ lo \in h.free /\ End(lo) = cur.at
  BY Neighbours DEF Merged
<1>2. PICK hi \in B : \/ hi = cur /\ After(h, cur) = {}
                      \/ After(h, cur) = {hi} /\ hi \in h.free /\ hi.at = End(cur)
  BY Neighbours DEF Merged
<1>3. B = {lo, cur, hi}
  BY <1>1, <1>2 DEF Merged
<1>4. \A b \in B : b.at \in Nat /\ End(b) \in Nat /\ End(b) > b.at
  BY <1>3, <1>1, <1>2, BlockFacts DEF Laid, Blocks
<1>5. /\ \A c \in B : lo.at <= c.at
      /\ \A b \in B : (\A c \in B : b.at <= c.at) => b = lo
  BY <1>1, <1>2, <1>3, <1>4
<1>6. /\ \A c \in B : c.at <= hi.at
      /\ \A b \in B : (\A c \in B : c.at <= b.at) => b = hi
  BY <1>1, <1>2, <1>3, <1>4
<1>7. First(B) = lo
  BY <1>5 DEF First
<1>8. (CHOOSE b \in B : \A c \in B : c.at <= b.at) = hi
  BY <1>6
<1>9. Joined(B) = [at |-> lo.at, size |-> End(hi) - lo.at]
  BY <1>7, <1>8 DEF Joined
<1> QED
  BY <1>1, <1>2, <1>3, <1>9

LEMMA FreeLaid ==
    ASSUME NEW h, Laid(h), NEW a, \E b \in h.busy : b.at = a
    PROVE  Laid(Free(h, a))
<1> DEFINE cur == BlockAt(h, a)
           B   == Merged(h, cur)
           n   == Joined(B)
           m   == Free(h, a)
<1>1. cur \in h.busy
  BY DEF BlockAt
<1>2. /\ Blocks(h) \subseteq Block /\ h.free \cap h.busy = {}
      /\ \A c \in Blocks(h) : End(c) <= Limit
      /\ \A c, d \in Blocks(h) : c # d => Apart(c, d)
      /\ \A w \in 0 .. Limit - 1 : \E c \in Blocks(h) : c.at <= w /\ w < End(c)
      /\ \A c, d \in h.free : End(c) # d.at
  BY DEF Laid
<1>3. m.free = (h.free \ B) \cup {n} /\ m.busy = h.busy \ {cur}
  BY DEF Free
<1> HIDE DEF cur
<1>4. PICK lo \in B, hi \in B :
             /\ B = {lo, cur, hi}
             /\ n = [at |-> lo.at, size |-> End(hi) - lo.at]
             /\ (lo = cur /\ Before(h, cur) = {}) \/ (lo \in h.free /\ End(lo) = cur.at)
             /\ (hi = cur /\ After(h, cur) = {}) \/ (hi \in h.free /\ hi.at = End(cur))
  BY <1>1, JoinedFacts
<1>5. Before(h, cur) = {b \in h.free : End(b) = cur.at} /\ After(h, cur) = {b \in h.free : b.at = End(cur)}
  BY <1>1, Neighbours
<1> HIDE DEF B, n, m
<1>6. B \subseteq Blocks(h) /\ B \cap h.busy = {cur}
  BY <1>1, <1>2, <1>4 DEF Blocks
<1>7. \A c \in Blocks(h) : /\ c \in Block /\ c.at \in Nat /\ c.size \in Nat /\ c.size >= BLK
                           /\ End(c) \in Nat /\ End(c) > c.at /\ End(c) = c.at + c.size /\ End(c) <= Limit
  BY <1>2, BlockFacts
<1>8. /\ BLK \in Nat /\ BLK > 0 /\ Limit \in Nat
  BY HeapAssumption DEF Limit
<1>9. /\ n \in Block /\ n.at = lo.at /\ End(n) = End(hi) /\ End(n) <= Limit
      /\ n.at <= cur.at /\ End(cur) <= End(n) /\ n.at \in Nat /\ End(n) \in Nat
  <2>1. lo \in Blocks(h) /\ hi \in Blocks(h) /\ cur \in Blocks(h)
    BY <1>4, <1>6
  <2>2. lo.at <= cur.at /\ End(cur) <= End(hi)
    BY <1>4, <1>7, <2>1
  <2>3. End(hi) - lo.at \in BLK .. Limit /\ lo.at \in 0 .. Limit
    BY <1>7, <1>8, <2>1, <2>2
  <2> QED
    BY <1>4, <1>7, <2>1, <2>2, <2>3 DEF Block, End
<1>10. ASSUME NEW c \in Blocks(h), c \notin B
       PROVE  End(c) <= n.at \/ End(n) <= c.at
  <2>1. /\ End(c) <= lo.at \/ End(lo) <= c.at
        /\ End(c) <= cur.at \/ End(cur) <= c.at
        /\ End(c) <= hi.at \/ End(hi) <= c.at
    BY <1>2, <1>4, <1>6, <1>10 DEF Apart
  <2>2. c.at \in Nat /\ End(c) \in Nat /\ End(c) > c.at
    BY <1>7
  <2>3. /\ lo.at \in Nat /\ End(lo) \in Nat /\ cur.at \in Nat /\ End(cur) \in Nat /\ End(cur) > cur.at
        /\ hi.at \in Nat /\ End(hi) \in Nat
    BY <1>4, <1>6, <1>7
  <2>4. /\ lo = cur \/ End(lo) = cur.at
        /\ hi = cur \/ hi.at = End(cur)
    BY <1>4
  <2> QED
    BY <1>9, <2>1, <2>2, <2>3, <2>4
<1>11. \A c \in Blocks(m) : (c \in Blocks(h) /\ c \notin B) \/ c = n
  BY <1>3, <1>6 DEF Blocks
<1>12. Blocks(m) \subseteq Block /\ \A c \in Blocks(m) : End(c) <= Limit
  BY <1>7, <1>9, <1>11
<1>13. m.free \cap m.busy = {}
  <2>1. n \notin h.busy \ {cur}
    <3> SUFFICES ASSUME n \in h.busy, n # cur PROVE FALSE
      OBVIOUS
    <3>1. n \in Blocks(h) /\ n \notin B
      BY <1>6 DEF Blocks
    <3> QED
      BY <1>7, <1>10, <3>1
  <2> QED
    BY <1>2, <1>3, <2>1
<1>14. ASSUME NEW c \in Blocks(m), NEW d \in Blocks(m), c # d PROVE Apart(c, d)
  <2>1. CASE c # n /\ d # n
    BY <1>2, <1>11, <1>14, <2>1
  <2>2. CASE c = n \/ d = n
    BY <1>10, <1>11, <1>14, <2>2 DEF Apart
  <2> QED
    BY <2>1, <2>2
<1>15. ASSUME NEW w \in 0 .. Limit - 1
       PROVE  \E c \in Blocks(m) : c.at <= w /\ w < End(c)
  <2>1. PICK c \in Blocks(h) : c.at <= w /\ w < End(c)
    BY <1>2
  <2>2. CASE c \notin B
    <3>1. c \in Blocks(m)
      BY <1>3, <1>6, <2>2 DEF Blocks
    <3> QED
      BY <2>1, <3>1
  <2>3. CASE c \in B
    <3>1. n \in Blocks(m)
      BY <1>3 DEF Blocks
    <3>2. n.at <= c.at /\ End(c) <= End(n)
      BY <1>4, <1>6, <1>7, <1>9, <2>3
    <3>3. n.at <= w /\ w < End(n)
      BY <1>7, <1>8, <1>9, <2>1, <3>2
    <3> QED
      BY <3>1, <3>3
  <2> QED
    BY <2>2, <2>3
<1>16. ASSUME NEW c \in m.free, NEW d \in m.free PROVE End(c) # d.at
  <2>1. CASE c \in h.free /\ d \in h.free
    BY <1>2, <2>1
  <2>2. CASE c = n /\ d = n
    BY <1>9, <2>2, BlockFacts
  <2>3. CASE c = n /\ d \in h.free /\ d \notin B
    <3>1. CASE hi = cur /\ After(h, cur) = {}
      BY <1>5, <1>9, <2>3, <3>1
    <3>2. CASE hi \in h.free
      BY <1>2, <1>9, <2>3, <3>2
    <3> QED
      BY <1>4, <3>1, <3>2
  <2>4. CASE d = n /\ c \in h.free /\ c \notin B
    <3>1. CASE lo = cur /\ Before(h, cur) = {}
      BY <1>5, <1>9, <2>4, <3>1
    <3>2. CASE lo \in h.free
      BY <1>2, <1>9, <2>4, <3>2
    <3> QED
      BY <1>4, <3>1, <3>2
  <2> QED
    BY <1>3, <2>1, <2>2, <2>3, <2>4
<1> QED
  BY <1>12, <1>13, <1>14, <1>15, <1>16 DEF Laid, m

LEMMA InitLaid == Laid(InitHeap)
<1>1. Limit \in Nat /\ BLK \in Nat /\ BLK > 0 /\ BLK <= Limit
  BY HeapAssumption DEF Limit
<1>2. Blocks(InitHeap) = {[at |-> 0, size |-> Limit]}
  BY DEF Blocks, InitHeap
<1>3. [at |-> 0, size |-> Limit] \in Block /\ End([at |-> 0, size |-> Limit]) = Limit
  BY <1>1 DEF Block, End
<1>4. InitHeap.free \cap InitHeap.busy = {} /\ InitHeap.free = {[at |-> 0, size |-> Limit]}
  BY DEF InitHeap
<1> QED
  BY <1>1, <1>2, <1>3, <1>4 DEF Laid

\* For every arena and header, after any sequence of xc_allocator_bestfit_malloc
\* and _free the blocks tile the arena, none overlaps another, each can hold the
\* header of a free block, and no two free ones are left unjoined.
THEOREM HeapStaysLaid ==
    /\ Laid(InitHeap)
    /\ \A h : Laid(h) =>
         /\ \A real \in Nat : real >= BLK /\ CanMalloc(h, real) => Laid(Malloc(h, real))
         /\ \A b \in h.busy : Laid(Free(h, b.at))
BY InitLaid, MallocLaid, FreeLaid
-----------------------------------------------------------------------------
(***************************************************************************)
(* The shared memory.                                                      *)
(***************************************************************************)
Addrs == 0 .. Limit

Code  == [md5 : Sources, code : Sources, refcount : Nat]
Entry == [file : Files, mtime : Nat, php : Addrs, refcount : Nat, atime : Nat, dtime : Nat]

Fields == {"heap", "phps", "entries", "deletes", "php", "entry"}

Shm(s) ==
    /\ DOMAIN s = Fields
    /\ s.phps \in Seq(Addrs) /\ s.entries \in Seq(Addrs)
    /\ DOMAIN s.php \subseteq Addrs /\ s.php \in [DOMAIN s.php -> Code]
    /\ DOMAIN s.entry \subseteq Addrs /\ s.entry \in [DOMAIN s.entry -> Entry]

PhpBlock(a)   == [at |-> a, size |-> RealPhp]
EntryBlock(a) == [at |-> a, size |-> RealEntry]

\* The arena is sound, and its blocks are the codes and the entries.
Stored(s) ==
    /\ Sound(s.heap) /\ DOMAIN s.php \cap DOMAIN s.entry = {}
    /\ s.heap.busy = {PhpBlock(a) : a \in DOMAIN s.php} \cup {EntryBlock(a) : a \in DOMAIN s.entry}

\* The chains reach them all, but for the entries of L.
Chained(s, L) ==
    /\ Range(s.phps) = DOMAIN s.php /\ IsInjective(s.phps) /\ IsInjective(s.entries)
    /\ Range(s.entries) \cup s.deletes \cup L = DOMAIN s.entry
    /\ Range(s.entries) \cap s.deletes = {} /\ L \cap (Range(s.entries) \cup s.deletes) = {}

Sharers(s, b) == {a \in DOMAIN s.entry : s.entry[a].php = b}

\* Each code is counted by its entries, and found by the digest of its source.
Coded(s) ==
    /\ \A a \in DOMAIN s.entry : s.entry[a].php \in DOMAIN s.php
    /\ \A b \in DOMAIN s.php : /\ s.php[b].refcount = Cardinality(Sharers(s, b))
                               /\ s.php[b].code = s.php[b].md5
    /\ \A a, b \in DOMAIN s.php : s.php[a].md5 = s.php[b].md5 => a = b

Memory(s, L) == Shm(s) /\ Stored(s) /\ Chained(s, L) /\ Coded(s)

(***************************************************************************)
(* The entries, to the processes and the files.                            *)
(***************************************************************************)
\* What was compiled of file f when it was last changed at m, or later.
Version(f, m, c) ==
    /\ m <= disk[f].mtime /\ (m = disk[f].mtime => c = disk[f].source)
    /\ \A q \in Procs : seen[q] # {} /\ compiler[q].file = f /\ compiler[q].mtime = m => c \in seen[q]

Versions(s) == \A a \in DOMAIN s.entry : Version(s.entry[a].file, s.entry[a].mtime, s.php[s.entry[a].php].code)

\* HoldsCounted; and an entry that was deleted while it was held was not deleted long ago.
HoldsKept(s) ==
    /\ \A p \in Procs : \A a \in Range(holds[p]) :
         /\ a \in DOMAIN s.entry
         /\ a \in s.deletes => s.entry[a].dtime + Window > request_time[p]
    /\ \A a \in DOMAIN s.entry : /\ s.entry[a].refcount >= Cardinality(HoldersOf(a))
                                 /\ crashes = 0 => s.entry[a].refcount = Cardinality(HoldersOf(a))

\* A process restores what it included.
InHand(s) == \A p \in Procs : pc[p] \in {"stored", "restore"} =>
    /\ holds[p] # << >>
    /\ LET e == s.entry[holds[p][Len(holds[p])]]
       IN  e.file = compiler[p].file /\ e.mtime = compiler[p].mtime

Good(s) == Memory(s, {}) /\ Versions(s) /\ HoldsKept(s) /\ InHand(s)

(***************************************************************************)
(* The processes.                                                          *)
(***************************************************************************)
PcValues == {"idle", "run", "lookup", "restore", "compile", "store", "finish",
             "stored", "expire", "delete", "cleared"}

Types ==
    /\ pc \in [Procs -> PcValues]
    /\ request_time \in [Procs -> Nat]
    /\ compiler \in [Procs -> [file : Files \cup {None}, mtime : Nat,
                               md5 : Sources \cup {None}, code : Sources \cup {None}]]
    /\ holds \in [Procs -> Seq(Addrs)] /\ seen \in [Procs -> SUBSET Sources]
    /\ disk \in [Files -> [source : Sources, mtime : Nat]]
    /\ now \in Nat /\ crashes \in Nat
    /\ compiling \in 0 .. now /\ disabled \in 0 .. now
    /\ last_gc_expires \in 0 .. now /\ last_gc_deletes \in 0 .. now

\* Times are past, and those of requests not long.
Times ==
    /\ \A f \in Files : disk[f].mtime <= now
    /\ \A p \in Procs : request_time[p] <= now
    /\ \A p \in Procs : pc[p] # "idle" => now < request_time[p] + Window

HoldsBounded == \A p \in Procs :
    /\ Len(holds[p]) <= MaxHolds
    /\ pc[p] \in {"lookup", "compile", "store"} => Len(holds[p]) < MaxHolds
    /\ pc[p] \in {"idle", "expire", "delete"} => holds[p] = << >>

OneCompiles ==
    /\ \A p, q \in Procs : pc[p] \in Compiling /\ pc[q] \in Compiling => p = q
    /\ \A p \in Procs : pc[p] \in Compiling => compiling = request_time[p]

\* A process that includes a file has seen its present source.
Looks == \A p \in Procs :
    /\ pc[p] \in {"lookup", "compile", "store", "stored", "restore"} => seen[p] # {}
    /\ seen[p] # {} => /\ compiler[p].file \in Files
                       /\ compiler[p].mtime <= disk[compiler[p].file].mtime
                       /\ disk[compiler[p].file].source \in seen[p]

\* What is being compiled is not there yet.
Compiles == \A p \in Procs : pc[p] \in {"compile", "store"} =>
    /\ compiler[p].md5 \in Sources /\ WithDigest(shm, compiler[p].md5) = {}
    /\ Version(compiler[p].file, compiler[p].mtime, compiler[p].md5)
    /\ pc[p] = "compile" => compiler[p].md5 = disk[compiler[p].file].source
    /\ pc[p] = "store" => compiler[p].code = compiler[p].md5
-----------------------------------------------------------------------------
(***************************************************************************)
(* avail: a block counts with its words, and blocks share none.            *)
(***************************************************************************)
Span(b) == b.at .. End(b) - 1

LEMMA SpanFacts ==
    ASSUME NEW b \in Block
    PROVE  IsFiniteSet(Span(b)) /\ Cardinality(Span(b)) = b.size /\ Span(b) # {}
<1>1. b.at \in Nat /\ b.size \in Nat /\ b.size > 0 /\ End(b) \in Nat /\ End(b) = b.at + b.size
  BY BlockFacts
<1>2. b.at \in Int /\ End(b) - 1 \in Int /\ ~(b.at > End(b) - 1) /\ (End(b) - 1) - b.at + 1 = b.size
  BY <1>1
<1>3. IsFiniteSet(b.at .. End(b) - 1) /\ Cardinality(b.at .. End(b) - 1) = b.size
  BY <1>2, FS_Interval
<1>4. b.at \in b.at .. End(b) - 1
  BY <1>1
<1> QED
  BY <1>3, <1>4 DEF Span

LEMMA SpansApart ==
    ASSUME NEW h, Laid(h), NEW b \in Blocks(h), NEW c \in Blocks(h), b # c
    PROVE  Span(b) \cap Span(c) = {} /\ b.at # c.at
<1>1. b \in Block /\ c \in Block /\ Apart(b, c)
  BY DEF Laid
<1>2. /\ b.at \in Nat /\ End(b) \in Nat /\ End(b) > b.at
      /\ c.at \in Nat /\ End(c) \in Nat /\ End(c) > c.at
  BY <1>1, BlockFacts
<1> QED
  BY <1>1, <1>2 DEF Span, Apart

LEMMA WordsFinite ==
    ASSUME NEW h, Laid(h), NEW B \in SUBSET Blocks(h)
    PROVE  Words(B) \subseteq 0 .. Limit - 1 /\ IsFiniteSet(Words(B)) /\ Cardinality(Words(B)) \in Nat
<1>1. Limit \in Nat
  BY HeapAssumption DEF Limit
<1>2. \A b \in B : b.at \in Nat /\ End(b) \in Nat /\ End(b) <= Limit
  BY BlockFacts DEF Laid
<1>3. Words(B) \subseteq 0 .. Limit - 1
  <2> SUFFICES ASSUME NEW b \in B, NEW w \in b.at .. End(b) - 1 PROVE w \in 0 .. Limit - 1
    BY DEF Words
  <2> QED
    BY <1>1, <1>2
<1>4. IsFiniteSet(0 .. Limit - 1)
  BY <1>1, FS_Interval
<1> QED
  BY <1>3, <1>4, FS_Subset, FS_CardinalityType

LEMMA WordsGrow ==
    ASSUME NEW h, Laid(h), NEW B \in SUBSET Blocks(h), NEW b \in Blocks(h), b \notin B
    PROVE  Cardinality(Words(B \cup {b})) = Cardinality(Words(B)) + b.size
<1>1. Words(B \cup {b}) = Words(B) \cup Span(b)
  BY DEF Words, Span
<1>2. Words(B) \cap Span(b) = {}
  <2> SUFFICES ASSUME NEW c \in B, NEW w \in Span(c) PROVE w \notin Span(b)
    BY DEF Words, Span
  <2> QED
    BY SpansApart
<1>3. b \in Block
  BY DEF Laid
<1>4. /\ IsFiniteSet(Words(B)) /\ Cardinality(Words(B)) \in Nat
      /\ IsFiniteSet(Span(b)) /\ Cardinality(Span(b)) = b.size /\ b.size \in Nat
  BY <1>3, WordsFinite, SpanFacts, BlockFacts
<1>5. Cardinality(Words(B) \cup Span(b)) = Cardinality(Words(B)) + Cardinality(Span(b)) - Cardinality({})
  BY <1>2, <1>4, FS_Union
<1>6. Cardinality({}) = 0
  BY FS_EmptySet
<1>7. Cardinality(Words(B \cup {b})) = Cardinality(Words(B) \cup Span(b))
  BY <1>1
<1>8. Cardinality(Words(B) \cup Span(b)) = Cardinality(Words(B)) + b.size
  BY <1>4, <1>5, <1>6
<1> QED
  BY <1>7, <1>8

LEMMA InitSound == Sound(InitHeap)
<1>1. InitHeap.busy = {} /\ InitHeap.avail = Limit /\ Limit \in Nat
  BY HeapAssumption DEF InitHeap, Limit
<1>2. Words({}) = {}
  BY DEF Words
<1>3. Cardinality({}) = 0
  BY FS_EmptySet
<1> QED
  BY <1>1, <1>2, <1>3, InitLaid DEF Sound

\* What malloc adds to the blocks in use begins where none of them does.
LEMMA MallocSound ==
    ASSUME NEW h, Sound(h), NEW real \in Nat, real >= BLK, CanMalloc(h, real)
    PROVE  LET a == Found(h, real).at
           IN  /\ Sound(Malloc(h, real)) /\ a \in 0 .. Limit
               /\ Malloc(h, real).busy = h.busy \cup {[at |-> a, size |-> real]}
               /\ \A c \in h.busy : c.at # a
<1> DEFINE b == Found(h, real)
           m == Malloc(h, real)
           cut == [at |-> b.at, size |-> real]
<1>1. Laid(h) /\ Laid(m) /\ h.avail = Limit - Cardinality(Words(h.busy)) /\ Limit \in Nat
  BY MallocLaid, HeapAssumption DEF Sound, Limit
<1>2. b \in h.free /\ b \in Blocks(h) /\ b \in Block
  BY <1>1, FoundFacts DEF Blocks, Laid
<1>3. m.busy = h.busy \cup {cut} /\ m.avail = h.avail - real
  BY DEF Malloc
<1>4. \A c \in h.busy : c \in Blocks(h) /\ c # b /\ c.at # b.at
  <2>1. \A c \in h.busy : c \in Blocks(h) /\ c # b
    BY <1>1, <1>2 DEF Laid, Blocks
  <2> QED
    BY <1>1, <1>2, <2>1, SpansApart
<1>5. cut \notin h.busy /\ cut \in Blocks(m) /\ h.busy \subseteq Blocks(m)
  BY <1>3, <1>4 DEF Blocks
<1>6. Cardinality(Words(m.busy)) = Cardinality(Words(h.busy)) + real
  <2>1. Cardinality(Words(h.busy \cup {cut})) = Cardinality(Words(h.busy)) + cut.size
    <3> HIDE DEF cut, m
    <3> QED
      BY <1>1, <1>5, WordsGrow
  <2> QED
    BY <1>3, <2>1
<1>7. Cardinality(Words(h.busy)) \in Nat
  BY <1>1, WordsFinite DEF Blocks
<1>8. m.avail = Limit - Cardinality(Words(m.busy))
  BY <1>1, <1>3, <1>6, <1>7
<1>9. b.at \in 0 .. Limit
  BY <1>2 DEF Block
<1> QED
  BY <1>1, <1>3, <1>4, <1>8, <1>9 DEF Sound

\* What free takes from them is the block with the header it was given.
LEMMA FreeSound ==
    ASSUME NEW h, Sound(h), NEW cur \in h.busy
    PROVE  Sound(Free(h, cur.at)) /\ Free(h, cur.at).busy = h.busy \ {cur}
<1> DEFINE m == Free(h, cur.at)
<1>1. Laid(h) /\ Laid(m) /\ h.avail = Limit - Cardinality(Words(h.busy)) /\ Limit \in Nat
  BY FreeLaid, HeapAssumption DEF Sound, Limit
<1>2. BlockAt(h, cur.at) = cur
  <2>1. \A b \in h.busy : b.at = cur.at => b = cur
    BY <1>1, SpansApart DEF Blocks
  <2> QED
    BY <2>1 DEF BlockAt
<1>3. m.busy = h.busy \ {cur} /\ m.avail = h.avail + cur.size
  BY <1>2 DEF Free
<1>4. cur \in Blocks(h) /\ m.busy \subseteq Blocks(h) /\ cur \notin m.busy /\ m.busy \cup {cur} = h.busy
  BY <1>3 DEF Blocks
<1>5. Cardinality(Words(h.busy)) = Cardinality(Words(m.busy)) + cur.size
  <2> HIDE DEF m
  <2> QED
    BY <1>1, <1>4, WordsGrow
<1>6. Cardinality(Words(m.busy)) \in Nat /\ cur.size \in Nat
  <2> HIDE DEF m
  <2>1. cur \in Block
    BY <1>1, <1>4 DEF Laid
  <2> QED
    BY <1>1, <1>4, <2>1, WordsFinite, BlockFacts
<1>7. m.avail = Limit - Cardinality(Words(m.busy))
  BY <1>1, <1>3, <1>5, <1>6
<1> QED
  BY <1>1, <1>3, <1>7 DEF Sound

(***************************************************************************)
(* Chains.                                                                 *)
(***************************************************************************)
LEMMA InRange ==
    ASSUME NEW S, NEW c \in Seq(S)
    PROVE  /\ DOMAIN c = 1 .. Len(c) /\ Len(c) \in Nat /\ Range(c) \subseteq S
           /\ \A a : a \in Range(c) <=> \E i \in 1 .. Len(c) : c[i] = a
  BY LenProperties DEF Range

LEMMA UnlinkedFacts ==
    ASSUME NEW S, NEW c \in Seq(S), IsInjective(c), NEW a \in Range(c)
    PROVE  LET u == Unlinked(c, a)
           IN  u \in Seq(S) /\ IsInjective(u) /\ Range(u) = Range(c) \ {a}
<1> DEFINE k == CHOOSE i \in DOMAIN c : c[i] = a
           n == Len(c) - 1
           u == Unlinked(c, a)
<1>1. DOMAIN c = 1 .. Len(c) /\ Len(c) \in Nat /\ \A i \in 1 .. Len(c) : c[i] \in S
  BY LenProperties
<1>2. k \in 1 .. Len(c) /\ c[k] = a
  BY <1>1 DEF Range
<1>3. \A i, j \in 1 .. Len(c) : c[i] = c[j] => i = j
  BY <1>1 DEF IsInjective
<1>4. u = [i \in 1 .. n |-> c[IF i < k THEN i ELSE i + 1]]
  BY DEF Unlinked
<1> HIDE DEF k, u
<1>5. n \in Nat /\ \A i \in 1 .. n : (IF i < k THEN i ELSE i + 1) \in 1 .. Len(c)
  BY <1>1, <1>2
<1>6. DOMAIN u = 1 .. n /\ u \in [1 .. n -> S]
  BY <1>1, <1>4, <1>5
<1>7. u \in Seq(S)
  BY <1>5, <1>6, SeqDef
<1>8. \A i \in 1 .. n : u[i] = c[IF i < k THEN i ELSE i + 1]
  BY <1>4
<1>9. IsInjective(u)
  <2> SUFFICES ASSUME NEW i \in 1 .. n, NEW j \in 1 .. n, u[i] = u[j] PROVE i = j
    BY <1>6 DEF IsInjective
  <2>1. (IF i < k THEN i ELSE i + 1) = (IF j < k THEN j ELSE j + 1)
    BY <1>3, <1>5, <1>8
  <2> QED
    BY <1>2, <1>5, <2>1
<1>10. ASSUME NEW x \in Range(u) PROVE x \in Range(c) /\ x # a
  <2>1. PICK i \in 1 .. n : u[i] = x
    BY <1>6 DEF Range
  <2>2. (IF i < k THEN i ELSE i + 1) # k
    BY <1>2, <1>5
  <2> QED
    BY <1>1, <1>2, <1>3, <1>5, <1>8, <2>1, <2>2 DEF Range
<1>11. ASSUME NEW x \in Range(c), x # a PROVE x \in Range(u)
  <2>1. PICK i \in 1 .. Len(c) : c[i] = x
    BY <1>1 DEF Range
  <2>2. i # k
    BY <1>2, <1>11, <2>1
  <2>3. CASE i < k
    <3>1. i \in 1 .. n
      BY <1>1, <1>2, <2>3
    <3> QED
      BY <1>6, <1>8, <2>1, <2>3, <3>1 DEF Range
  <2>4. CASE i > k
    <3>1. i - 1 \in 1 .. n /\ ~(i - 1 < k) /\ (i - 1) + 1 = i
      BY <1>1, <1>2, <2>4
    <3>2. u[i - 1] = x
      BY <1>8, <2>1, <3>1
    <3> QED
      BY <1>6, <3>1, <3>2 DEF Range
  <2> QED
    BY <1>1, <1>2, <2>2, <2>3, <2>4
<1> QED
  BY <1>7, <1>9, <1>10, <1>11 DEF u

LEMMA PrependedFacts ==
    ASSUME NEW S, NEW c \in Seq(S), IsInjective(c), NEW a \in S, a \notin Range(c)
    PROVE  LET u == <<a>> \o c
           IN  u \in Seq(S) /\ IsInjective(u) /\ Range(u) = Range(c) \cup {a}
<1> DEFINE u == <<a>> \o c
<1>1. DOMAIN c = 1 .. Len(c) /\ Len(c) \in Nat
  BY LenProperties
<1>2. <<a>> \in Seq(S) /\ Len(<<a>>) = 1 /\ <<a>>[1] = a
  OBVIOUS
<1>3. /\ u \in Seq(S) /\ Len(u) = Len(c) + 1
      /\ \A i \in 1 .. Len(c) + 1 : u[i] = IF i <= 1 THEN <<a>>[i] ELSE c[i - 1]
  BY <1>1, <1>2, ConcatProperties
<1> HIDE DEF u
<1>4. DOMAIN u = 1 .. Len(c) + 1 /\ u[1] = a /\ \A i \in 1 .. Len(c) : u[i + 1] = c[i]
  <2>1. DOMAIN u = 1 .. Len(c) + 1
    BY <1>3, LenProperties
  <2>2. u[1] = a
    BY <1>1, <1>2, <1>3
  <2>3. ASSUME NEW i \in 1 .. Len(c) PROVE u[i + 1] = c[i]
    <3>1. i + 1 \in 1 .. Len(c) + 1 /\ ~(i + 1 <= 1) /\ (i + 1) - 1 = i
      BY <1>1
    <3> QED
      BY <1>3, <3>1
  <2> QED
    BY <2>1, <2>2, <2>3
<1>5. \A j \in 1 .. Len(c) + 1 : j = 1 \/ (j - 1 \in 1 .. Len(c) /\ u[j] = c[j - 1])
  <2> SUFFICES ASSUME NEW j \in 1 .. Len(c) + 1, j # 1 PROVE j - 1 \in 1 .. Len(c) /\ u[j] = c[j - 1]
    OBVIOUS
  <2>1. j - 1 \in 1 .. Len(c) /\ (j - 1) + 1 = j
    BY <1>1
  <2> QED
    BY <1>4, <2>1
<1>6. Range(u) = Range(c) \cup {a}
  <2>1. \A x \in Range(u) : x \in Range(c) \/ x = a
    BY <1>1, <1>4, <1>5 DEF Range
  <2>2. a \in Range(u)
    <3>1. 1 \in DOMAIN u
      BY <1>1, <1>4
    <3> QED
      BY <1>4, <3>1 DEF Range
  <2>3. ASSUME NEW x \in Range(c) PROVE x \in Range(u)
    <3>1. PICK i \in 1 .. Len(c) : c[i] = x
      BY <1>1 DEF Range
    <3>2. i + 1 \in DOMAIN u
      BY <1>1, <1>4
    <3> QED
      BY <1>4, <3>1, <3>2 DEF Range
  <2> QED
    BY <2>1, <2>2, <2>3
<1>7. IsInjective(u)
  <2> SUFFICES ASSUME NEW i \in 1 .. Len(c) + 1, NEW j \in 1 .. Len(c) + 1, u[i] = u[j] PROVE i = j
    BY <1>4 DEF IsInjective
  <2>1. \A l \in 1 .. Len(c) : c[l] # a
    BY <1>1 DEF Range
  <2>2. CASE i = 1 \/ j = 1
    BY <1>4, <1>5, <2>1, <2>2
  <2>3. CASE i # 1 /\ j # 1
    <3>1. i - 1 = j - 1
      BY <1>1, <1>5, <2>3 DEF IsInjective
    <3> QED
      BY <1>1, <3>1
  <2> QED
    BY <2>2, <2>3
<1> QED
  BY <1>3, <1>6, <1>7 DEF u

LEMMA FirstOfFacts ==
    ASSUME NEW S, NEW c \in Seq(S), NEW A, \E a \in A : a \in Range(c)
    PROVE  FirstOf(c, A) \in A /\ FirstOf(c, A) \in Range(c)
<1>1. DOMAIN c = 1 .. Len(c) /\ Len(c) \in Nat
  BY LenProperties
<1> DEFINE T == {i \in 1 .. Len(c) : c[i] \in A}
<1>2. T \in SUBSET Nat /\ T # {}
  BY <1>1 DEF Range
<1>3. PICK i \in T : \A j \in T : i <= j
  <2> HIDE DEF T
  <2> QED
    BY <1>2, LeastNat
<1>4. i \in DOMAIN c /\ c[i] \in A /\ \A j \in 1 .. i - 1 : c[j] \notin A
  BY <1>1, <1>3
<1> QED
  BY <1>4 DEF FirstOf, Range
-----------------------------------------------------------------------------
(***************************************************************************)
(* The blocks of codes and entries.                                        *)
(***************************************************************************)
LEMMA RealSizes == /\ RealPhp \in Nat /\ RealPhp >= BLK /\ RealEntry \in Nat /\ RealEntry >= BLK
                   /\ Limit \in Nat /\ Window \in Nat /\ KeepTime \in Nat /\ MaxHolds \in Nat
  BY HeapAssumption, CacherAssumption DEF RealPhp, RealEntry, Limit

LEMMA SharersFinite ==
    ASSUME NEW s, Shm(s), NEW b
    PROVE  IsFiniteSet(Sharers(s, b)) /\ Cardinality(Sharers(s, b)) \in Nat
<1>1. Sharers(s, b) \subseteq 0 .. Limit
  BY DEF Sharers, Shm, Addrs
<1>2. IsFiniteSet(0 .. Limit)
  <2>1. 0 \in Int /\ Limit \in Int
    BY RealSizes
  <2> QED
    BY <2>1, FS_Interval
<1> QED
  BY <1>1, <1>2, FS_Subset, FS_CardinalityType

\* A table with the same codes and entries, which other chains reach.
LEMMA Rearranged ==
    ASSUME NEW s, NEW L, Memory(s, L), NEW d, NEW M, Shm(d), Chained(d, M),
           d.heap = s.heap, d.php = s.php, DOMAIN d.entry = DOMAIN s.entry,
           \A a \in DOMAIN s.entry : d.entry[a].php = s.entry[a].php
    PROVE  Memory(d, M)
<1>1. Stored(d)
  BY DEF Memory, Stored
<1>2. \A b : Sharers(d, b) = Sharers(s, b)
  BY DEF Sharers
<1>3. Coded(d)
  BY <1>2 DEF Memory, Coded
<1> QED
  BY <1>1, <1>3 DEF Memory

LEMMA DropFacts ==
    ASSUME NEW f, NEW a
    PROVE  DOMAIN Drop(f, a) = DOMAIN f \ {a} /\ \A x \in DOMAIN f \ {a} : Drop(f, a)[x] = f[x]
  BY DEF Drop

LEMMA PutFacts ==
    ASSUME NEW f, NEW a, NEW v
    PROVE  /\ DOMAIN Put(f, a, v) = DOMAIN f \cup {a} /\ Put(f, a, v)[a] = v
           /\ \A x \in DOMAIN f : x # a => Put(f, a, v)[x] = f[x]
  BY DEF Put

(***************************************************************************)
(* xc_entry_free_real_unlocked, of an entry that is in no list: its code   *)
(* goes with it when no other entry shares it.                             *)
(***************************************************************************)
Freed(s, a, d) ==
    /\ Memory(d, {}) /\ d.entries = s.entries /\ d.deletes = s.deletes
    /\ DOMAIN d.entry = DOMAIN s.entry \ {a} /\ \A e \in DOMAIN d.entry : d.entry[e] = s.entry[e]
    /\ DOMAIN d.php \subseteq DOMAIN s.php
    /\ \A b \in DOMAIN d.php : d.php[b].md5 = s.php[b].md5 /\ d.php[b].code = s.php[b].code

\* What the shared memory is made of.
Parts(s, h, c, l, x, p, e) ==
    /\ DOMAIN s = Fields
    /\ s.heap = h /\ s.phps = c /\ s.entries = l /\ s.deletes = x /\ s.php = p /\ s.entry = e

LEMMA LastFreed ==
    ASSUME NEW s, NEW a, NEW h, NEW c, NEW l, NEW x, NEW p, NEW e,
           Parts(Released(s, s.entry[a].php), h, c, l, x, p, e)
    PROVE  Parts(FreedReal(s, a), Free(h, a), c, l, x, p, Drop(e, a))
<1> DEFINE r == Released(s, s.entry[a].php)
<1>1. FreedReal(s, a) = [r EXCEPT !.heap = Free(@, a), !.entry = Drop(@, a)]
  BY DEF FreedReal
<1>2. Parts(r, h, c, l, x, p, e)
  OBVIOUS
<1> HIDE DEF r
<1> QED
  BY <1>1, <1>2 DEF Parts, Fields

LEMMA FreedFacts ==
    ASSUME NEW s, NEW a, Memory(s, {a})
    PROVE  Freed(s, a, FreedReal(s, a))
<1> DEFINE d == FreedReal(s, a)
           b == s.entry[a].php
           F == Drop(s.entry, a)
<1> SUFFICES Freed(s, a, d)
  OBVIOUS
<1>1. /\ DOMAIN s = Fields
      /\ s.phps \in Seq(Addrs) /\ s.entries \in Seq(Addrs)
      /\ DOMAIN s.php \subseteq Addrs /\ s.php \in [DOMAIN s.php -> Code]
      /\ DOMAIN s.entry \subseteq Addrs /\ s.entry \in [DOMAIN s.entry -> Entry]
  BY DEF Memory, Shm
<1>2. a \in DOMAIN s.entry /\ b \in DOMAIN s.php /\ b # a
  BY DEF Memory, Chained, Coded, Stored
<1>3. DOMAIN F = DOMAIN s.entry \ {a} /\ (\A e \in DOMAIN F : F[e] = s.entry[e]) /\ F \in [DOMAIN F -> Entry]
  <2>1. DOMAIN F = DOMAIN s.entry \ {a} /\ \A e \in DOMAIN F : F[e] = s.entry[e]
    BY DropFacts
  <2>2. F \in [DOMAIN F -> Entry]
    BY <1>1, <2>1 DEF Drop
  <2> QED
    BY <2>1, <2>2
<1>4. /\ Sound(s.heap) /\ EntryBlock(a) \in s.heap.busy /\ PhpBlock(b) \in s.heap.busy
      /\ EntryBlock(a).at = a /\ PhpBlock(b).at = b
      /\ s.heap.busy = {PhpBlock(x) : x \in DOMAIN s.php} \cup {EntryBlock(x) : x \in DOMAIN s.entry}
      /\ DOMAIN s.php \cap DOMAIN s.entry = {}
  BY <1>2 DEF Memory, Stored, EntryBlock, PhpBlock
<1>5. \A x, y : PhpBlock(x).at = x /\ EntryBlock(y).at = y
  BY DEF PhpBlock, EntryBlock
<1>6. IsFiniteSet(Sharers(s, b)) /\ a \in Sharers(s, b) /\ s.php[b].refcount = Cardinality(Sharers(s, b))
  <2>1. IsFiniteSet(Sharers(s, b))
    BY SharersFinite DEF Memory
  <2>2. a \in Sharers(s, b)
    BY <1>2 DEF Sharers
  <2> QED
    BY <1>2, <2>1, <2>2 DEF Memory, Coded
<1>7. /\ Cardinality(Sharers(s, b)) \in Nat
      /\ Cardinality(Sharers(s, b) \ {a}) = Cardinality(Sharers(s, b)) - 1
  BY <1>6, FS_RemoveElement, FS_CardinalityType
<1>8. /\ Range(s.phps) = DOMAIN s.php /\ IsInjective(s.phps) /\ IsInjective(s.entries)
      /\ Range(s.entries) \cup s.deletes = DOMAIN s.entry \ {a}
      /\ Range(s.entries) \cap s.deletes = {}
  BY DEF Memory, Chained
<1>9. /\ \A e \in DOMAIN s.entry : s.entry[e].php \in DOMAIN s.php
      /\ \A x \in DOMAIN s.php : s.php[x].refcount = Cardinality(Sharers(s, x)) /\ s.php[x].code = s.php[x].md5
      /\ \A x, y \in DOMAIN s.php : s.php[x].md5 = s.php[y].md5 => x = y
  BY DEF Memory, Coded
<1> HIDE DEF F
<1>10. CASE s.php[b].refcount > 1
  <2> DEFINE G == [s.php EXCEPT ![b].refcount = @ - 1]
  <2>1. Parts(d, Free(s.heap, a), s.phps, s.entries, s.deletes, G, F)
    <3>1. Parts(Released(s, b), s.heap, s.phps, s.entries, s.deletes, G, s.entry)
      BY <1>1, <1>10 DEF Released, Parts, Fields
    <3> HIDE DEF G
    <3> QED
      BY <3>1, LastFreed DEF F
  <2>2. /\ DOMAIN G = DOMAIN s.php /\ G[b] = [s.php[b] EXCEPT !.refcount = @ - 1]
        /\ \A x \in DOMAIN s.php : x # b => G[x] = s.php[x]
    BY <1>2
  <2>3. s.php[b] \in Code /\ s.php[b].refcount - 1 \in Nat
    BY <1>1, <1>2, <1>6, <1>7, <1>10
  <2>4. /\ G[b].md5 = s.php[b].md5 /\ G[b].code = s.php[b].code /\ G[b].refcount = s.php[b].refcount - 1
        /\ G[b] \in Code
    BY <2>2, <2>3 DEF Code
  <2> HIDE DEF G, d
  <2>5. G \in [DOMAIN s.php -> Code]
    <3>1. \A x \in DOMAIN s.php : G[x] \in Code
      BY <1>1, <2>2, <2>4
    <3>2. G = [x \in DOMAIN G |-> G[x]]
      BY DEF G
    <3> QED
      BY <2>2, <3>1, <3>2
  <2>6. Shm(d)
    BY <1>1, <1>3, <2>1, <2>2, <2>5 DEF Shm, Parts
  <2>7. Stored(d)
    <3>1. Sound(d.heap) /\ d.heap.busy = s.heap.busy \ {EntryBlock(a)}
      <4>1. d.heap = Free(s.heap, EntryBlock(a).at)
        BY <1>4, <2>1 DEF Parts
      <4>2. /\ Sound(Free(s.heap, EntryBlock(a).at))
            /\ Free(s.heap, EntryBlock(a).at).busy = s.heap.busy \ {EntryBlock(a)}
        BY <1>4, FreeSound
      <4> QED
        BY <4>1, <4>2
    <3>2. \A x \in DOMAIN s.php : PhpBlock(x) # EntryBlock(a)
      BY <1>2, <1>4, <1>5
    <3>3. \A x \in DOMAIN s.entry : x # a => EntryBlock(x) # EntryBlock(a)
      BY <1>5
    <3>4. d.heap.busy = {PhpBlock(x) : x \in DOMAIN d.php} \cup {EntryBlock(x) : x \in DOMAIN d.entry}
      BY <1>3, <1>4, <2>1, <2>2, <3>1, <3>2, <3>3 DEF Parts
    <3> QED
      BY <1>3, <1>4, <2>1, <2>2, <3>1, <3>4 DEF Stored, Parts
  <2>8. Chained(d, {})
    BY <1>3, <1>8, <2>1, <2>2 DEF Chained, Parts
  <2>9. \A x : Sharers(d, x) = Sharers(s, x) \ {a}
    BY <1>3, <2>1 DEF Sharers, Parts
  <2>10. Coded(d)
    <3>1. \A e \in DOMAIN d.entry : d.entry[e].php \in DOMAIN d.php
      BY <1>3, <1>9, <2>1, <2>2 DEF Parts
    <3>2. ASSUME NEW x \in DOMAIN d.php PROVE d.php[x].refcount = Cardinality(Sharers(d, x)) /\ d.php[x].code = d.php[x].md5
      <4>1. CASE x = b
        BY <1>2, <1>6, <1>7, <1>9, <2>1, <2>4, <2>9, <4>1 DEF Parts
      <4>2. CASE x # b
        <5>1. Sharers(d, x) = Sharers(s, x)
          BY <2>9, <4>2 DEF Sharers
        <5> QED
          BY <1>9, <2>1, <2>2, <3>2, <4>2, <5>1 DEF Parts
      <4> QED
        BY <4>1, <4>2
    <3>3. \A x \in DOMAIN d.php : d.php[x].md5 = s.php[x].md5 /\ x \in DOMAIN s.php
      BY <2>1, <2>2, <2>4 DEF Parts
    <3> QED
      BY <1>9, <3>1, <3>2, <3>3 DEF Coded
  <2> QED
    BY <1>3, <2>1, <2>2, <2>4, <2>6, <2>7, <2>8, <2>10 DEF Memory, Freed, Parts
<1>11. CASE ~(s.php[b].refcount > 1)
  <2> DEFINE G == Drop(s.php, b)
             P == Unlinked(s.phps, b)
  <2>1. Sharers(s, b) = {a}
    <3>1. Cardinality(Sharers(s, b) \ {a}) = 0
      BY <1>6, <1>7, <1>11, FS_RemoveElement, FS_CardinalityType
    <3>2. IsFiniteSet(Sharers(s, b) \ {a})
      BY <1>6, FS_RemoveElement
    <3> QED
      BY <1>6, <3>1, <3>2, FS_EmptySet
  <2>2. PhpFound(s, s.php[b].md5) = b
    <3>1. \A x : x \in WithDigest(s, s.php[b].md5) <=> x = b
      BY <1>2, <1>8, <1>9 DEF WithDigest
    <3>2. \E x \in WithDigest(s, s.php[b].md5) : x \in Range(s.phps)
      BY <1>2, <1>8, <3>1
    <3> QED
      BY <1>1, <3>1, <3>2, FirstOfFacts DEF PhpFound
  <2>3. Parts(d, Free(Free(s.heap, b), a), P, s.entries, s.deletes, G, F)
    <3>1. Parts(Released(s, b), Free(s.heap, b), P, s.entries, s.deletes, G, s.entry)
      BY <1>1, <1>11, <2>2 DEF Released, Parts, Fields
    <3> HIDE DEF G, P
    <3> QED
      BY <3>1, LastFreed DEF F
  <2>4. DOMAIN G = DOMAIN s.php \ {b} /\ \A x \in DOMAIN G : G[x] = s.php[x]
    BY DropFacts
  <2>5. G \in [DOMAIN G -> Code]
    BY <1>1, <2>4 DEF Drop
  <2>6. P \in Seq(Addrs) /\ IsInjective(P) /\ Range(P) = DOMAIN s.php \ {b}
    BY <1>1, <1>2, <1>8, UnlinkedFacts
  <2> HIDE DEF G, P, d
  <2>7. Shm(d)
    BY <1>1, <1>3, <2>3, <2>4, <2>5, <2>6 DEF Shm, Parts
  <2>8. Stored(d)
    <3> DEFINE h == Free(s.heap, b)
    <3>1. Sound(h) /\ h.busy = s.heap.busy \ {PhpBlock(b)}
      BY <1>4, FreeSound
    <3>2. EntryBlock(a) \in h.busy
      BY <1>2, <1>4, <1>5, <3>1
    <3>3. Sound(d.heap) /\ d.heap.busy = h.busy \ {EntryBlock(a)}
      <4> HIDE DEF h
      <4>1. d.heap = Free(h, EntryBlock(a).at)
        BY <1>4, <2>3 DEF h, Parts
      <4>2. Sound(Free(h, EntryBlock(a).at)) /\ Free(h, EntryBlock(a).at).busy = h.busy \ {EntryBlock(a)}
        BY <3>1, <3>2, FreeSound
      <4> QED
        BY <4>1, <4>2
    <3>4. \A x \in DOMAIN s.php : PhpBlock(x) # EntryBlock(a) /\ (x # b => PhpBlock(x) # PhpBlock(b))
      BY <1>2, <1>4, <1>5
    <3>5. \A x \in DOMAIN s.entry : EntryBlock(x) # PhpBlock(b) /\ (x # a => EntryBlock(x) # EntryBlock(a))
      BY <1>2, <1>4, <1>5
    <3> HIDE DEF h
    <3>6. d.heap.busy = {PhpBlock(x) : x \in DOMAIN d.php} \cup {EntryBlock(x) : x \in DOMAIN d.entry}
      BY <1>3, <1>4, <2>3, <2>4, <3>1, <3>3, <3>4, <3>5 DEF Parts
    <3> QED
      BY <1>3, <1>4, <2>3, <2>4, <3>3, <3>6 DEF Stored, Parts
  <2>9. Chained(d, {})
    BY <1>3, <1>8, <2>3, <2>4, <2>6 DEF Chained, Parts
  <2>10. \A x : x # b => Sharers(d, x) = Sharers(s, x)
    BY <1>3, <2>3 DEF Sharers, Parts
  <2>11. Coded(d)
    <3>1. \A e \in DOMAIN d.entry : d.entry[e].php \in DOMAIN d.php
      BY <1>3, <1>9, <2>1, <2>3, <2>4 DEF Sharers, Parts
    <3>2. ASSUME NEW x \in DOMAIN d.php PROVE d.php[x].refcount = Cardinality(Sharers(d, x)) /\ d.php[x].code = d.php[x].md5
      <4>1. x # b /\ x \in DOMAIN s.php /\ d.php[x] = s.php[x]
        BY <2>3, <2>4 DEF Parts
      <4> QED
        BY <1>9, <2>10, <4>1
    <3> QED
      BY <1>9, <2>3, <2>4, <3>1, <3>2 DEF Coded, Parts
  <2> QED
    BY <1>3, <2>3, <2>4, <2>7, <2>8, <2>9, <2>11 DEF Memory, Freed, Parts
<1> QED
  BY <1>10, <1>11
-----------------------------------------------------------------------------
(***************************************************************************)
(* What is stored: a new block is none of the codes and entries there are. *)
(***************************************************************************)
LEMMA NewBlock ==
    ASSUME NEW s, Shm(s), Stored(s), NEW real \in {RealPhp, RealEntry}, CanMalloc(s.heap, real)
    PROVE  LET a == Addr(s, real)
           IN  /\ a \in Addrs /\ a \notin DOMAIN s.php /\ a \notin DOMAIN s.entry
               /\ Sound(Malloc(s.heap, real))
               /\ Malloc(s.heap, real).busy = s.heap.busy \cup {[at |-> a, size |-> real]}
<1> DEFINE a == Addr(s, real)
<1>1. real \in Nat /\ real >= BLK
  BY RealSizes
<1>2. /\ Sound(Malloc(s.heap, real)) /\ a \in 0 .. Limit
      /\ Malloc(s.heap, real).busy = s.heap.busy \cup {[at |-> a, size |-> real]}
      /\ \A c \in s.heap.busy : c.at # a
  BY <1>1, MallocSound DEF Stored, Addr
<1>3. \A x \in DOMAIN s.php : PhpBlock(x) \in s.heap.busy /\ PhpBlock(x).at = x
  BY DEF Stored, PhpBlock
<1>4. \A x \in DOMAIN s.entry : EntryBlock(x) \in s.heap.busy /\ EntryBlock(x).at = x
  BY DEF Stored, EntryBlock
<1> HIDE DEF a
<1>5. a \notin DOMAIN s.php /\ a \notin DOMAIN s.entry
  BY <1>2, <1>3, <1>4
<1> QED
  BY <1>2, <1>5 DEF Addrs, a

PhpAdded(s, m, d) ==
    LET a == Addr(s, RealPhp)
    IN  /\ Memory(d, {}) /\ a \notin DOMAIN s.php /\ a \in Addrs
        /\ DOMAIN d.php = DOMAIN s.php \cup {a} /\ d.php[a] = [md5 |-> m, code |-> m, refcount |-> 0]
        /\ \A x \in DOMAIN s.php : d.php[x] = s.php[x]
        /\ d.entries = s.entries /\ d.deletes = s.deletes /\ d.entry = s.entry

LEMMA PhpAdds ==
    ASSUME NEW s, Memory(s, {}), NEW m \in Sources, WithDigest(s, m) = {}, CanMalloc(s.heap, RealPhp)
    PROVE  PhpAdded(s, m, PhpStored(s, m, m))
<1> DEFINE a == Addr(s, RealPhp)
           v == [md5 |-> m, code |-> m, refcount |-> 0]
           d == PhpStored(s, m, m)
           G == Put(s.php, a, v)
           Q == <<a>> \o s.phps
<1> SUFFICES PhpAdded(s, m, d)
  OBVIOUS
<1>1. /\ DOMAIN s = Fields
      /\ s.phps \in Seq(Addrs) /\ s.entries \in Seq(Addrs)
      /\ DOMAIN s.php \subseteq Addrs /\ s.php \in [DOMAIN s.php -> Code]
      /\ DOMAIN s.entry \subseteq Addrs /\ s.entry \in [DOMAIN s.entry -> Entry]
  BY DEF Memory, Shm
<1>2. /\ a \in Addrs /\ a \notin DOMAIN s.php /\ a \notin DOMAIN s.entry
      /\ Sound(Malloc(s.heap, RealPhp))
      /\ Malloc(s.heap, RealPhp).busy = s.heap.busy \cup {PhpBlock(a)}
  <2>1. Shm(s) /\ Stored(s)
    BY DEF Memory
  <2> QED
    BY <2>1, NewBlock DEF PhpBlock
<1>3. Parts(d, Malloc(s.heap, RealPhp), Q, s.entries, s.deletes, G, s.entry)
  BY <1>1 DEF Parts, Fields, PhpStored
<1>4. DOMAIN G = DOMAIN s.php \cup {a} /\ G[a] = v /\ \A x \in DOMAIN s.php : G[x] = s.php[x]
  <2> HIDE DEF a, v
  <2> QED
    BY <1>2 DEF Put
<1>5. v \in Code /\ v.md5 = m /\ v.code = m /\ v.refcount = 0
  BY DEF Code
<1>6. G \in [DOMAIN G -> Code]
  <2>1. \A x \in DOMAIN G : G[x] \in Code
    <3> HIDE DEF G, v
    <3> QED
      BY <1>1, <1>4, <1>5
  <2> QED
    BY <1>4, <2>1 DEF Put
<1>7. Range(s.phps) = DOMAIN s.php /\ IsInjective(s.phps)
  BY DEF Memory, Chained
<1>8. Q \in Seq(Addrs) /\ IsInjective(Q) /\ Range(Q) = DOMAIN s.php \cup {a}
  BY <1>1, <1>2, <1>7, PrependedFacts
<1> HIDE DEF a, v, d, G, Q
<1>9. Shm(d)
  BY <1>1, <1>2, <1>3, <1>4, <1>6, <1>8 DEF Shm, Parts
<1>10. Stored(d)
  <2>1. d.heap.busy = {PhpBlock(x) : x \in DOMAIN d.php} \cup {EntryBlock(x) : x \in DOMAIN d.entry}
    BY <1>2, <1>3, <1>4 DEF Memory, Stored, Parts
  <2> QED
    BY <1>2, <1>3, <1>4, <2>1 DEF Memory, Stored, Parts
<1>11. Chained(d, {})
  BY <1>3, <1>4, <1>8 DEF Memory, Chained, Parts
<1>12. Coded(d)
  <2>1. \A x : Sharers(d, x) = Sharers(s, x)
    BY <1>3 DEF Sharers, Parts
  <2>2. /\ \A e \in DOMAIN s.entry : s.entry[e].php \in DOMAIN s.php
        /\ \A x \in DOMAIN s.php : s.php[x].refcount = Cardinality(Sharers(s, x)) /\ s.php[x].code = s.php[x].md5
        /\ \A x, y \in DOMAIN s.php : s.php[x].md5 = s.php[y].md5 => x = y
    BY DEF Memory, Coded
  <2>3. Cardinality(Sharers(s, a)) = 0
    <3>1. Sharers(s, a) = {}
      BY <1>2, <2>2 DEF Sharers
    <3> QED
      BY <3>1, FS_EmptySet
  <2>4. ASSUME NEW x \in DOMAIN d.php PROVE d.php[x].refcount = Cardinality(Sharers(d, x)) /\ d.php[x].code = d.php[x].md5
    <3>1. CASE x = a
      BY <1>3, <1>4, <1>5, <2>1, <2>3, <3>1 DEF Parts
    <3>2. CASE x # a
      BY <1>3, <1>4, <2>1, <2>2, <2>4, <3>2 DEF Parts
    <3> QED
      BY <3>1, <3>2
  <2>5. \A x \in DOMAIN s.php : s.php[x].md5 # m
    BY <1>7 DEF WithDigest
  <2>6. \A x, y \in DOMAIN d.php : d.php[x].md5 = d.php[y].md5 => x = y
    BY <1>3, <1>4, <1>5, <2>2, <2>5 DEF Parts
  <2> QED
    BY <1>3, <1>4, <2>2, <2>4, <2>6 DEF Coded, Parts
<1> QED
  BY <1>2, <1>3, <1>4, <1>9, <1>10, <1>11, <1>12 DEF Memory, PhpAdded, Parts, a, v

EntryAdded(s, e, d) ==
    LET a == Addr(s, RealEntry)
    IN  /\ Memory(d, {}) /\ a \notin DOMAIN s.entry /\ a \in Addrs
        /\ DOMAIN d.entry = DOMAIN s.entry \cup {a} /\ d.entry[a] = e
        /\ \A x \in DOMAIN s.entry : d.entry[x] = s.entry[x]
        /\ Range(d.entries) = Range(s.entries) \cup {a} /\ d.deletes = s.deletes
        /\ DOMAIN d.php = DOMAIN s.php
        /\ \A b \in DOMAIN s.php : d.php[b].md5 = s.php[b].md5 /\ d.php[b].code = s.php[b].code

LEMMA EntryAdds ==
    ASSUME NEW s, Memory(s, {}), NEW e \in Entry, e.php \in DOMAIN s.php, CanMalloc(s.heap, RealEntry)
    PROVE  EntryAdded(s, e, EntryStored(s, e))
<1> DEFINE a == Addr(s, RealEntry)
           b == e.php
           d == EntryStored(s, e)
           G == [s.php EXCEPT ![b].refcount = @ + 1]
           F == Put(s.entry, a, e)
           Q == <<a>> \o s.entries
<1> SUFFICES EntryAdded(s, e, d)
  OBVIOUS
<1>1. /\ DOMAIN s = Fields
      /\ s.phps \in Seq(Addrs) /\ s.entries \in Seq(Addrs)
      /\ DOMAIN s.php \subseteq Addrs /\ s.php \in [DOMAIN s.php -> Code]
      /\ DOMAIN s.entry \subseteq Addrs /\ s.entry \in [DOMAIN s.entry -> Entry]
  BY DEF Memory, Shm
<1>2. /\ a \in Addrs /\ a \notin DOMAIN s.php /\ a \notin DOMAIN s.entry
      /\ Sound(Malloc(s.heap, RealEntry))
      /\ Malloc(s.heap, RealEntry).busy = s.heap.busy \cup {EntryBlock(a)}
  <2>1. Shm(s) /\ Stored(s)
    BY DEF Memory
  <2> QED
    BY <2>1, NewBlock DEF EntryBlock
<1>3. Parts(d, Malloc(s.heap, RealEntry), s.phps, Q, s.deletes, G, F)
  BY <1>1 DEF Parts, Fields, EntryStored
<1>4. DOMAIN F = DOMAIN s.entry \cup {a} /\ F[a] = e /\ \A x \in DOMAIN s.entry : F[x] = s.entry[x]
  <2> HIDE DEF a
  <2> QED
    BY <1>2 DEF Put
<1>5. F \in [DOMAIN F -> Entry]
  <2>1. \A x \in DOMAIN F : F[x] \in Entry
    <3> HIDE DEF F
    <3> QED
      BY <1>1, <1>4
  <2> QED
    BY <1>4, <2>1 DEF Put
<1>6. /\ DOMAIN G = DOMAIN s.php /\ G[b] = [s.php[b] EXCEPT !.refcount = @ + 1]
      /\ \A x \in DOMAIN s.php : x # b => G[x] = s.php[x]
  OBVIOUS
<1>7. /\ G[b].md5 = s.php[b].md5 /\ G[b].code = s.php[b].code /\ G[b].refcount = s.php[b].refcount + 1
      /\ G[b] \in Code
  <2>1. s.php[b] \in Code
    BY <1>1
  <2> HIDE DEF G, b
  <2> QED
    BY <1>6, <2>1 DEF Code
<1>8. G \in [DOMAIN s.php -> Code]
  <2>1. G = [x \in DOMAIN G |-> G[x]]
    OBVIOUS
  <2> HIDE DEF G
  <2>2. \A x \in DOMAIN s.php : G[x] \in Code
    BY <1>1, <1>6, <1>7
  <2> QED
    BY <1>6, <2>1, <2>2
<1>9. /\ Range(s.phps) = DOMAIN s.php /\ IsInjective(s.phps) /\ IsInjective(s.entries)
      /\ Range(s.entries) \cup s.deletes = DOMAIN s.entry /\ Range(s.entries) \cap s.deletes = {}
  BY DEF Memory, Chained
<1>10. Q \in Seq(Addrs) /\ IsInjective(Q) /\ Range(Q) = Range(s.entries) \cup {a}
  BY <1>1, <1>2, <1>9, PrependedFacts
<1> HIDE DEF a, d, G, F, Q
<1>11. Shm(d)
  BY <1>1, <1>2, <1>3, <1>4, <1>5, <1>6, <1>8, <1>10 DEF Shm, Parts
<1>12. Stored(d)
  <2>1. d.heap.busy = {PhpBlock(x) : x \in DOMAIN d.php} \cup {EntryBlock(x) : x \in DOMAIN d.entry}
    BY <1>2, <1>3, <1>4, <1>6 DEF Memory, Stored, Parts
  <2> QED
    BY <1>2, <1>3, <1>4, <1>6, <2>1 DEF Memory, Stored, Parts
<1>13. Chained(d, {})
  BY <1>2, <1>3, <1>4, <1>6, <1>9, <1>10 DEF Chained, Parts
<1>14. Coded(d)
  <2>1. /\ \A x \in DOMAIN s.entry : s.entry[x].php \in DOMAIN s.php
        /\ \A x \in DOMAIN s.php : s.php[x].refcount = Cardinality(Sharers(s, x)) /\ s.php[x].code = s.php[x].md5
        /\ \A x, y \in DOMAIN s.php : s.php[x].md5 = s.php[y].md5 => x = y
    BY DEF Memory, Coded
  <2>2. Sharers(d, b) = Sharers(s, b) \cup {a} /\ a \notin Sharers(s, b)
    BY <1>2, <1>3, <1>4 DEF Sharers, Parts
  <2>3. \A x : x # b => Sharers(d, x) = Sharers(s, x)
    BY <1>2, <1>3, <1>4 DEF Sharers, Parts
  <2>4. Cardinality(Sharers(d, b)) = Cardinality(Sharers(s, b)) + 1
    <3>1. IsFiniteSet(Sharers(s, b))
      BY SharersFinite DEF Memory
    <3> QED
      BY <2>2, <3>1, FS_AddElement
  <2>5. ASSUME NEW x \in DOMAIN d.php PROVE d.php[x].refcount = Cardinality(Sharers(d, x)) /\ d.php[x].code = d.php[x].md5
    <3>1. CASE x = b
      BY <1>3, <1>6, <1>7, <2>1, <2>4, <3>1 DEF Parts
    <3>2. CASE x # b
      BY <1>3, <1>6, <2>1, <2>3, <2>5, <3>2 DEF Parts
    <3> QED
      BY <3>1, <3>2
  <2>6. \A x \in DOMAIN d.php : x \in DOMAIN s.php /\ d.php[x].md5 = s.php[x].md5
    BY <1>3, <1>6, <1>7 DEF Parts
  <2>7. \A x \in DOMAIN d.entry : d.entry[x].php \in DOMAIN d.php
    BY <1>3, <1>4, <1>6, <2>1 DEF Parts
  <2> QED
    BY <2>1, <2>5, <2>6, <2>7 DEF Coded
<1> QED
  BY <1>2, <1>3, <1>4, <1>6, <1>7, <1>10, <1>11, <1>12, <1>13, <1>14 DEF Memory, EntryAdded, Parts, a
-----------------------------------------------------------------------------
(***************************************************************************)
(* What is removed and collected in a request of time t: the entries of K  *)
(* stay, and those that stay keep their file, code and holders.            *)
(***************************************************************************)
Swept(s, d, t, K) ==
    /\ Memory(d, {}) /\ K \subseteq DOMAIN d.entry /\ DOMAIN d.entry \subseteq DOMAIN s.entry
    /\ Range(d.entries) \subseteq Range(s.entries)
    /\ \A a \in DOMAIN d.entry :
         /\ d.entry[a].file = s.entry[a].file /\ d.entry[a].mtime = s.entry[a].mtime
         /\ d.entry[a].php = s.entry[a].php /\ d.entry[a].refcount = s.entry[a].refcount
    /\ \A a \in d.deletes : d.entry[a].dtime = t \/ (a \in s.deletes /\ d.entry[a].dtime = s.entry[a].dtime)
    /\ DOMAIN d.php \subseteq DOMAIN s.php
    /\ \A b \in DOMAIN d.php : d.php[b].md5 = s.php[b].md5 /\ d.php[b].code = s.php[b].code

LEMMA SweptNot ==
    ASSUME NEW s, Memory(s, {}), NEW t, NEW K \in SUBSET DOMAIN s.entry
    PROVE  Swept(s, s, t, K)
  BY DEF Swept

LEMMA SweptTwice ==
    ASSUME NEW s, NEW d, NEW u, NEW t, NEW K, Memory(s, {}), Swept(s, d, t, K), Swept(d, u, t, K)
    PROVE  Swept(s, u, t, K)
<1>1. /\ Memory(u, {}) /\ K \subseteq DOMAIN u.entry /\ DOMAIN u.entry \subseteq DOMAIN s.entry
      /\ Range(u.entries) \subseteq Range(s.entries)
  BY DEF Swept
<1>2. \A a \in DOMAIN u.entry :
         /\ u.entry[a].file = s.entry[a].file /\ u.entry[a].mtime = s.entry[a].mtime
         /\ u.entry[a].php = s.entry[a].php /\ u.entry[a].refcount = s.entry[a].refcount
  BY DEF Swept
<1>3. \A a \in u.deletes : u.entry[a].dtime = t \/ (a \in s.deletes /\ u.entry[a].dtime = s.entry[a].dtime)
  BY DEF Swept
<1>4. /\ DOMAIN u.php \subseteq DOMAIN s.php
      /\ \A b \in DOMAIN u.php : u.php[b].md5 = s.php[b].md5 /\ u.php[b].code = s.php[b].code
  BY DEF Swept
<1> QED
  BY <1>1, <1>2, <1>3, <1>4 DEF Swept

\* xc_entry_remove_unlocked: the entry leaves its chain, and the memory only if nobody holds it.
LEMMA RemovedFacts ==
    ASSUME NEW s, Memory(s, {}), NEW a \in Range(s.entries), NEW t \in Nat,
           NEW K \in SUBSET DOMAIN s.entry, \A e \in K : s.entry[e].refcount # 0
    PROVE  /\ Swept(s, Removed(s, a, t), t, K)
           /\ Range(Removed(s, a, t).entries) = Range(s.entries) \ {a}
<1> DEFINE Q == Unlinked(s.entries, a)
           u == [s EXCEPT !.entries = Q]
           d == Removed(s, a, t)
<1>1. /\ DOMAIN s = Fields
      /\ s.phps \in Seq(Addrs) /\ s.entries \in Seq(Addrs)
      /\ DOMAIN s.php \subseteq Addrs /\ s.php \in [DOMAIN s.php -> Code]
      /\ DOMAIN s.entry \subseteq Addrs /\ s.entry \in [DOMAIN s.entry -> Entry]
  BY DEF Memory, Shm
<1>2. /\ Range(s.phps) = DOMAIN s.php /\ IsInjective(s.phps) /\ IsInjective(s.entries)
      /\ Range(s.entries) \cup s.deletes = DOMAIN s.entry /\ Range(s.entries) \cap s.deletes = {}
  BY DEF Memory, Chained
<1>3. a \in DOMAIN s.entry /\ a \notin s.deletes
  BY <1>2
<1>4. Q \in Seq(Addrs) /\ IsInjective(Q) /\ Range(Q) = Range(s.entries) \ {a}
  BY <1>1, <1>2, UnlinkedFacts
<1>5. Parts(u, s.heap, s.phps, Q, s.deletes, s.php, s.entry)
  BY <1>1 DEF Parts, Fields
<1>6. d = IF s.entry[a].refcount = 0 THEN FreedReal(u, a)
            ELSE [u EXCEPT !.deletes = @ \cup {a}, !.entry[a].dtime = t]
  BY DEF Removed
<1> HIDE DEF Q, u, d
<1> SUFFICES Swept(s, d, t, K) /\ Range(d.entries) = Range(s.entries) \ {a}
  BY DEF d
<1>7. CASE s.entry[a].refcount = 0
  <2>1. Memory(u, {a})
    <3>1. Shm(u)
      BY <1>1, <1>4, <1>5 DEF Shm, Parts
    <3>2. Chained(u, {a})
      BY <1>2, <1>3, <1>4, <1>5 DEF Chained, Parts
    <3> QED
      BY <1>5, <3>1, <3>2, Rearranged DEF Parts
  <2>2. Freed(u, a, d)
    BY <1>6, <1>7, <2>1, FreedFacts
  <2> QED
    BY <1>2, <1>3, <1>4, <1>5, <1>7, <2>2 DEF Freed, Swept, Parts
<1>8. CASE s.entry[a].refcount # 0
  <2> DEFINE F == [s.entry EXCEPT ![a].dtime = t]
  <2>1. Parts(d, s.heap, s.phps, Q, s.deletes \cup {a}, s.php, F)
    BY <1>5, <1>6, <1>8 DEF Parts, Fields
  <2>2. /\ DOMAIN F = DOMAIN s.entry /\ F[a] = [s.entry[a] EXCEPT !.dtime = t]
        /\ \A x \in DOMAIN s.entry : x # a => F[x] = s.entry[x]
    BY <1>3
  <2>3. s.entry[a] \in Entry
    BY <1>1, <1>3
  <2>4. /\ F[a] \in Entry /\ F[a].dtime = t
        /\ F[a].file = s.entry[a].file /\ F[a].mtime = s.entry[a].mtime
        /\ F[a].php = s.entry[a].php /\ F[a].refcount = s.entry[a].refcount
    BY <2>2, <2>3 DEF Entry
  <2>5. F \in [DOMAIN s.entry -> Entry]
    <3>1. F = [x \in DOMAIN F |-> F[x]]
      OBVIOUS
    <3> HIDE DEF F
    <3>2. \A x \in DOMAIN s.entry : F[x] \in Entry
      BY <1>1, <2>2, <2>4
    <3> QED
      BY <2>2, <3>1, <3>2
  <2> HIDE DEF F
  <2>6. \A x \in DOMAIN s.entry : /\ F[x].file = s.entry[x].file /\ F[x].mtime = s.entry[x].mtime
                                  /\ F[x].php = s.entry[x].php /\ F[x].refcount = s.entry[x].refcount
    BY <2>2, <2>4
  <2>7. Shm(d)
    BY <1>1, <1>4, <2>1, <2>2, <2>5 DEF Shm, Parts
  <2>8. Chained(d, {})
    BY <1>2, <1>3, <1>4, <2>1, <2>2 DEF Chained, Parts
  <2>9. Memory(d, {})
    BY <2>1, <2>2, <2>6, <2>7, <2>8, Rearranged DEF Parts
  <2> QED
    BY <1>2, <1>3, <1>4, <2>1, <2>2, <2>4, <2>6, <2>9 DEF Swept, Parts
<1> QED
  BY <1>7, <1>8

\* A step of xc_gc_delete_unlocked.
CollectedNext(s, a) == FreedReal([s EXCEPT !.deletes = @ \ {a}], a)

LEMMA CollectedOne ==
    ASSUME NEW s, Memory(s, {}), NEW a \in s.deletes, NEW t,
           NEW K \in SUBSET DOMAIN s.entry, a \notin K
    PROVE  Swept(s, CollectedNext(s, a), t, K) /\ CollectedNext(s, a).deletes = s.deletes \ {a}
<1> DEFINE u == [s EXCEPT !.deletes = @ \ {a}]
           d == FreedReal(u, a)
<1>1. /\ DOMAIN s = Fields
      /\ s.phps \in Seq(Addrs) /\ s.entries \in Seq(Addrs)
      /\ DOMAIN s.php \subseteq Addrs /\ s.php \in [DOMAIN s.php -> Code]
      /\ DOMAIN s.entry \subseteq Addrs /\ s.entry \in [DOMAIN s.entry -> Entry]
  BY DEF Memory, Shm
<1>2. /\ Range(s.phps) = DOMAIN s.php /\ IsInjective(s.phps) /\ IsInjective(s.entries)
      /\ Range(s.entries) \cup s.deletes = DOMAIN s.entry /\ Range(s.entries) \cap s.deletes = {}
  BY DEF Memory, Chained
<1>3. Parts(u, s.heap, s.phps, s.entries, s.deletes \ {a}, s.php, s.entry)
  BY <1>1 DEF Parts, Fields
<1> HIDE DEF u
<1>4. Memory(u, {a})
  <2>1. Shm(u)
    BY <1>1, <1>3 DEF Shm, Parts
  <2>2. Chained(u, {a})
    BY <1>2, <1>3 DEF Chained, Parts
  <2> QED
    BY <1>3, <2>1, <2>2, Rearranged DEF Parts
<1>5. Freed(u, a, d)
  BY <1>4, FreedFacts
<1> HIDE DEF d
<1>6. Swept(s, d, t, K) /\ d.deletes = s.deletes \ {a}
  BY <1>2, <1>3, <1>5 DEF Freed, Swept, Parts
<1> QED
  BY <1>6 DEF d, u, CollectedNext
-----------------------------------------------------------------------------
(***************************************************************************)
(* The loops. Their recursive functions are defined, and what a step keeps *)
(* the whole keeps.                                                        *)
(***************************************************************************)
Any(B) == CHOOSE a \in B : TRUE

IsRemoved(f, s, A, t) == f = [B \in SUBSET A |-> IF B = {} THEN s ELSE Removed(f[B \ {Any(B)}], Any(B), t)]

LEMMA RemovedDefined ==
    ASSUME NEW s, NEW A, IsFiniteSet(A), NEW t
    PROVE  \E f : IsRemoved(f, s, A, t)
<1> DEFINE D(n) == {B \in SUBSET A : Cardinality(B) <= n}
           Fixed(f, n) == f = [B \in D(n) |-> IF B = {} THEN s ELSE Removed(f[B \ {Any(B)}], Any(B), t)]
           T == {n \in Nat : ~ \E f : Fixed(f, n)}
<1>1. \A B \in SUBSET A : IsFiniteSet(B) /\ Cardinality(B) \in Nat
  BY FS_Subset, FS_CardinalityType
<1>2. T = {}
  <2> SUFFICES ASSUME T # {} PROVE FALSE
    OBVIOUS
  <2>1. PICK n \in T : \A m \in T : n <= m
    <3>1. T \in SUBSET Nat
      OBVIOUS
    <3> HIDE DEF T
    <3> QED
      BY <3>1, LeastNat
  <2>2. CASE n = 0
    <3>1. \A B \in D(0) : B = {}
      BY <1>1, FS_EmptySet
    <3> DEFINE g == [B \in D(0) |-> s]
    <3>2. Fixed(g, 0)
      BY <3>1
    <3> QED
      BY <2>1, <2>2, <3>2
  <2>3. CASE n # 0
    <3>1. n - 1 \in Nat /\ n - 1 \notin T
      <4>1. n \in Nat
        BY <2>1
      <4> HIDE DEF T
      <4>2. n - 1 \in Nat /\ ~(n <= n - 1)
        BY <2>3, <4>1
      <4> QED
        BY <2>1, <4>2
    <3>2. PICK f : Fixed(f, n - 1)
      BY <3>1
    <3> DEFINE g == [B \in D(n) |-> IF B = {} THEN s ELSE Removed(f[B \ {Any(B)}], Any(B), t)]
    <3>3. ASSUME NEW B \in D(n), B # {} PROVE f[B \ {Any(B)}] = g[B \ {Any(B)}]
      <4> DEFINE C == B \ {Any(B)}
      <4>1. Any(B) \in B
        BY <3>3 DEF Any
      <4>2. Cardinality(C) = Cardinality(B) - 1
        BY <1>1, <4>1, FS_RemoveElement
      <4>3. Cardinality(C) <= n - 1 /\ Cardinality(C) <= n
        BY <1>1, <2>1, <4>2
      <4>4. C \in D(n - 1) /\ C \in D(n)
        BY <4>3
      <4> HIDE DEF C, D
      <4>5. f[C] = IF C = {} THEN s ELSE Removed(f[C \ {Any(C)}], Any(C), t)
        BY <3>2, <4>4
      <4>6. g[C] = IF C = {} THEN s ELSE Removed(f[C \ {Any(C)}], Any(C), t)
        BY <4>4
      <4> QED
        BY <4>5, <4>6 DEF C
    <3>4. Fixed(g, n)
      <4> DEFINE k == [B \in D(n) |-> IF B = {} THEN s ELSE Removed(g[B \ {Any(B)}], Any(B), t)]
      <4>1. \A B \in D(n) : g[B] = k[B]
        BY <3>3
      <4>2. g = k
        BY <4>1
      <4> QED
        BY <4>2
    <3> QED
      BY <2>1, <3>4
  <2> QED
    BY <2>2, <2>3
<1>3. Cardinality(A) \in Nat /\ \A B \in SUBSET A : Cardinality(B) <= Cardinality(A)
  BY FS_CardinalityType, FS_Subset
<1>4. PICK f : Fixed(f, Cardinality(A))
  BY <1>2, <1>3
<1>5. D(Cardinality(A)) = SUBSET A
  BY <1>3
<1> QED
  BY <1>4, <1>5 DEF IsRemoved

IsCollected(f, s, A) == f = [B \in SUBSET A |-> IF B = {} THEN s ELSE CollectedNext(f[B \ {Any(B)}], Any(B))]

LEMMA CollectedDefined ==
    ASSUME NEW s, NEW A, IsFiniteSet(A)
    PROVE  \E f : IsCollected(f, s, A)
<1> DEFINE D(n) == {B \in SUBSET A : Cardinality(B) <= n}
           Fixed(f, n) == f = [B \in D(n) |-> IF B = {} THEN s ELSE CollectedNext(f[B \ {Any(B)}], Any(B))]
           T == {n \in Nat : ~ \E f : Fixed(f, n)}
<1>1. \A B \in SUBSET A : IsFiniteSet(B) /\ Cardinality(B) \in Nat
  BY FS_Subset, FS_CardinalityType
<1>2. T = {}
  <2> SUFFICES ASSUME T # {} PROVE FALSE
    OBVIOUS
  <2>1. PICK n \in T : \A m \in T : n <= m
    <3>1. T \in SUBSET Nat
      OBVIOUS
    <3> HIDE DEF T
    <3> QED
      BY <3>1, LeastNat
  <2>2. CASE n = 0
    <3>1. \A B \in D(0) : B = {}
      BY <1>1, FS_EmptySet
    <3> DEFINE g == [B \in D(0) |-> s]
    <3>2. Fixed(g, 0)
      BY <3>1
    <3> QED
      BY <2>1, <2>2, <3>2
  <2>3. CASE n # 0
    <3>1. n - 1 \in Nat /\ n - 1 \notin T
      <4>1. n \in Nat
        BY <2>1
      <4> HIDE DEF T
      <4>2. n - 1 \in Nat /\ ~(n <= n - 1)
        BY <2>3, <4>1
      <4> QED
        BY <2>1, <4>2
    <3>2. PICK f : Fixed(f, n - 1)
      BY <3>1
    <3> DEFINE g == [B \in D(n) |-> IF B = {} THEN s ELSE CollectedNext(f[B \ {Any(B)}], Any(B))]
    <3>3. ASSUME NEW B \in D(n), B # {} PROVE f[B \ {Any(B)}] = g[B \ {Any(B)}]
      <4> DEFINE C == B \ {Any(B)}
      <4>1. Any(B) \in B
        BY <3>3 DEF Any
      <4>2. Cardinality(C) = Cardinality(B) - 1
        BY <1>1, <4>1, FS_RemoveElement
      <4>3. Cardinality(C) <= n - 1 /\ Cardinality(C) <= n
        BY <1>1, <2>1, <4>2
      <4>4. C \in D(n - 1) /\ C \in D(n)
        BY <4>3
      <4> HIDE DEF C, D
      <4>5. f[C] = IF C = {} THEN s ELSE CollectedNext(f[C \ {Any(C)}], Any(C))
        BY <3>2, <4>4
      <4>6. g[C] = IF C = {} THEN s ELSE CollectedNext(f[C \ {Any(C)}], Any(C))
        BY <4>4
      <4> QED
        BY <4>5, <4>6 DEF C
    <3>4. Fixed(g, n)
      <4> DEFINE k == [B \in D(n) |-> IF B = {} THEN s ELSE CollectedNext(g[B \ {Any(B)}], Any(B))]
      <4>1. \A B \in D(n) : g[B] = k[B]
        BY <3>3
      <4>2. g = k
        BY <4>1
      <4> QED
        BY <4>2
    <3> QED
      BY <2>1, <3>4
  <2> QED
    BY <2>2, <2>3
<1>3. Cardinality(A) \in Nat /\ \A B \in SUBSET A : Cardinality(B) <= Cardinality(A)
  BY FS_CardinalityType, FS_Subset
<1>4. PICK f : Fixed(f, Cardinality(A))
  BY <1>2, <1>3
<1>5. D(Cardinality(A)) = SUBSET A
  BY <1>3
<1> QED
  BY <1>4, <1>5 DEF IsCollected

LEMMA RemovedAllFacts ==
    ASSUME NEW s, Memory(s, {}), NEW A \in SUBSET Range(s.entries), NEW t \in Nat,
           NEW K \in SUBSET DOMAIN s.entry, \A e \in K : s.entry[e].refcount # 0
    PROVE  Swept(s, RemovedAll(s, A, t), t, K)
<1> DEFINE f == CHOOSE g : IsRemoved(g, s, A, t)
           Kept(B) == Swept(s, f[B], t, K) /\ Range(f[B].entries) = Range(s.entries) \ B
           T == {n \in Nat : \E B \in SUBSET A : Cardinality(B) = n /\ ~Kept(B)}
<1>1. IsFiniteSet(A)
  <2>1. A \subseteq 0 .. Limit
    BY DEF Memory, Chained, Shm, Addrs
  <2>2. IsFiniteSet(0 .. Limit)
    BY RealSizes, FS_Interval
  <2> QED
    BY <2>1, <2>2, FS_Subset
<1>2. IsRemoved(f, s, A, t)
  BY <1>1, RemovedDefined
<1>3. RemovedAll(s, A, t) = f[A]
  BY DEF RemovedAll, Any, IsRemoved
<1> HIDE DEF f
<1>4. \A B \in SUBSET A : f[B] = IF B = {} THEN s ELSE Removed(f[B \ {Any(B)}], Any(B), t)
  BY <1>2 DEF IsRemoved
<1>5. T = {}
  <2> SUFFICES ASSUME T # {} PROVE FALSE
    OBVIOUS
  <2>1. PICK n \in T : \A m \in T : n <= m
    <3>1. T \in SUBSET Nat
      OBVIOUS
    <3> HIDE DEF T
    <3> QED
      BY <3>1, LeastNat
  <2>2. PICK B \in SUBSET A : Cardinality(B) = n /\ ~Kept(B)
    BY <2>1
  <2>3. B # {}
    <3>1. Swept(s, s, t, K)
      BY SweptNot
    <3> SUFFICES ASSUME B = {} PROVE FALSE
      OBVIOUS
    <3>2. f[B] = s
      BY <1>4
    <3> QED
      BY <2>2, <3>1, <3>2
  <2> DEFINE a == Any(B)
             C == B \ {a}
  <2>4. a \in B /\ C \in SUBSET A
    BY <2>3 DEF Any
  <2>5. Cardinality(C) = n - 1 /\ n - 1 \in Nat /\ n \in Nat
    <3>1. IsFiniteSet(B) /\ IsFiniteSet(C)
      BY <1>1, <2>4, FS_Subset
    <3>2. Cardinality(C) = Cardinality(B) - 1 /\ Cardinality(C) \in Nat /\ Cardinality(B) \in Nat
      BY <2>4, <3>1, FS_RemoveElement, FS_CardinalityType
    <3> QED
      BY <2>2, <3>2
  <2>6. Kept(C)
    <3> HIDE DEF Kept, C
    <3>1. ~(n <= n - 1)
      BY <2>5
    <3>2. n - 1 \notin T
      <4> HIDE DEF T
      <4> QED
        BY <2>1, <3>1
    <3> QED
      BY <2>4, <2>5, <3>2
  <2>7. f[B] = Removed(f[C], a, t)
    BY <1>4, <2>3
  <2> HIDE DEF C, a
  <2>8. /\ Memory(f[C], {}) /\ a \in Range(f[C].entries)
        /\ K \in SUBSET DOMAIN f[C].entry /\ \A e \in K : f[C].entry[e].refcount # 0
    <3>1. a \in Range(s.entries) \ C
      BY <2>4 DEF C
    <3> QED
      BY <2>6, <3>1 DEF Swept
  <2>9. Swept(f[C], f[B], t, K) /\ Range(f[B].entries) = Range(f[C].entries) \ {a}
    BY <2>7, <2>8, RemovedFacts
  <2>10. Swept(s, f[B], t, K)
    BY <2>6, <2>9, SweptTwice
  <2>11. Range(f[B].entries) = Range(s.entries) \ B
    BY <2>4, <2>6, <2>9 DEF C
  <2> QED
    BY <2>2, <2>10, <2>11
<1>6. Kept(A)
  <2>1. Cardinality(A) \in Nat
    BY <1>1, FS_CardinalityType
  <2> QED
    BY <1>5, <2>1
<1> QED
  BY <1>3, <1>6

LEMMA FreedAllFacts ==
    ASSUME NEW s, Memory(s, {}), NEW A \in SUBSET s.deletes, NEW t,
           NEW K \in SUBSET DOMAIN s.entry, A \cap K = {}
    PROVE  Swept(s, FreedAll(s, A), t, K)
<1> DEFINE f == CHOOSE g : IsCollected(g, s, A)
           Kept(B) == Swept(s, f[B], t, K) /\ f[B].deletes = s.deletes \ B
           T == {n \in Nat : \E B \in SUBSET A : Cardinality(B) = n /\ ~Kept(B)}
<1>1. IsFiniteSet(A)
  <2>1. A \subseteq 0 .. Limit
    BY DEF Memory, Chained, Shm, Addrs
  <2>2. IsFiniteSet(0 .. Limit)
    BY RealSizes, FS_Interval
  <2> QED
    BY <2>1, <2>2, FS_Subset
<1>2. IsCollected(f, s, A)
  BY <1>1, CollectedDefined
<1>3. FreedAll(s, A) = f[A]
  BY DEF FreedAll, Any, CollectedNext, IsCollected
<1> HIDE DEF f
<1>4. \A B \in SUBSET A : f[B] = IF B = {} THEN s ELSE CollectedNext(f[B \ {Any(B)}], Any(B))
  BY <1>2 DEF IsCollected
<1>5. T = {}
  <2> SUFFICES ASSUME T # {} PROVE FALSE
    OBVIOUS
  <2>1. PICK n \in T : \A m \in T : n <= m
    <3>1. T \in SUBSET Nat
      OBVIOUS
    <3> HIDE DEF T
    <3> QED
      BY <3>1, LeastNat
  <2>2. PICK B \in SUBSET A : Cardinality(B) = n /\ ~Kept(B)
    BY <2>1
  <2>3. B # {}
    <3>1. Swept(s, s, t, K)
      BY SweptNot
    <3> SUFFICES ASSUME B = {} PROVE FALSE
      OBVIOUS
    <3>2. f[B] = s
      BY <1>4
    <3> QED
      BY <2>2, <3>1, <3>2
  <2> DEFINE a == Any(B)
             C == B \ {a}
  <2>4. a \in B /\ C \in SUBSET A
    BY <2>3 DEF Any
  <2>5. Cardinality(C) = n - 1 /\ n - 1 \in Nat /\ n \in Nat
    <3>1. IsFiniteSet(B) /\ IsFiniteSet(C)
      BY <1>1, <2>4, FS_Subset
    <3>2. Cardinality(C) = Cardinality(B) - 1 /\ Cardinality(C) \in Nat /\ Cardinality(B) \in Nat
      BY <2>4, <3>1, FS_RemoveElement, FS_CardinalityType
    <3> QED
      BY <2>2, <3>2
  <2>6. Kept(C)
    <3> HIDE DEF Kept, C
    <3>1. ~(n <= n - 1)
      BY <2>5
    <3>2. n - 1 \notin T
      <4> HIDE DEF T
      <4> QED
        BY <2>1, <3>1
    <3> QED
      BY <2>4, <2>5, <3>2
  <2>7. f[B] = CollectedNext(f[C], a)
    BY <1>4, <2>3
  <2> HIDE DEF C, a
  <2>8. /\ Memory(f[C], {}) /\ a \in f[C].deletes
        /\ K \in SUBSET DOMAIN f[C].entry /\ a \notin K
    <3>1. a \in s.deletes \ C /\ a \notin K
      BY <2>4 DEF C
    <3> QED
      BY <2>6, <3>1 DEF Swept
  <2>9. Swept(f[C], f[B], t, K) /\ f[B].deletes = f[C].deletes \ {a}
    <3>1. /\ Swept(f[C], CollectedNext(f[C], a), t, K)
          /\ CollectedNext(f[C], a).deletes = f[C].deletes \ {a}
      BY <2>8, CollectedOne
    <3> QED
      BY <2>7, <3>1
  <2>10. Swept(s, f[B], t, K)
    BY <2>6, <2>9, SweptTwice
  <2>11. f[B].deletes = s.deletes \ B
    BY <2>4, <2>6, <2>9 DEF C
  <2> QED
    BY <2>2, <2>10, <2>11
<1>6. Kept(A)
  <2>1. Cardinality(A) \in Nat
    BY <1>1, FS_CardinalityType
  <2> QED
    BY <1>5, <2>1
<1> QED
  BY <1>3, <1>6
-----------------------------------------------------------------------------
LEMMA CollectedFacts ==
    ASSUME NEW s, Memory(s, {}), NEW t
    PROVE  Swept(s, Collected(s, t), t, DOMAIN s.entry \ Collectable(s, t))
<1>1. Collectable(s, t) \in SUBSET s.deletes
  BY DEF Collectable
<1>2. Collectable(s, t) \cap (DOMAIN s.entry \ Collectable(s, t)) = {}
  OBVIOUS
<1> QED
  BY <1>1, <1>2, FreedAllFacts DEF Collected

(***************************************************************************)
(* Holders.                                                                *)
(***************************************************************************)
LEMMA HoldersFinite ==
    ASSUME NEW a
    PROVE  IsFiniteSet(HoldersOf(a)) /\ Cardinality(HoldersOf(a)) \in Nat
<1>1. IsFiniteSet(Procs) /\ IsFiniteSet(1 .. MaxHolds)
  BY RealSizes, CacherAssumption, FS_Interval
<1>2. IsFiniteSet(Procs \X (1 .. MaxHolds))
  BY <1>1, FS_Product
<1>3. HoldersOf(a) \subseteq Procs \X (1 .. MaxHolds)
  BY DEF HoldersOf
<1> QED
  BY <1>2, <1>3, FS_Subset, FS_CardinalityType

LEMMA InHolders ==
    ASSUME NEW a, NEW p, NEW i
    PROVE  <<p, i>> \in HoldersOf(a) <=>
             p \in Procs /\ i \in 1 .. MaxHolds /\ i <= Len(holds[p]) /\ holds[p][i] = a
  BY DEF HoldersOf

LEMMA HeldIsCounted ==
    ASSUME Types, HoldsBounded, NEW p \in Procs, NEW a \in Range(holds[p])
    PROVE  Cardinality(HoldersOf(a)) > 0
<1>1. holds[p] \in Seq(Addrs) /\ Len(holds[p]) \in Nat /\ Len(holds[p]) <= MaxHolds
  BY LenProperties DEF Types, HoldsBounded
<1>2. PICK i \in 1 .. Len(holds[p]) : holds[p][i] = a
  BY <1>1, InRange
<1>3. <<p, i>> \in HoldersOf(a)
  BY <1>1, <1>2, RealSizes, InHolders
<1> QED
  BY <1>3, HoldersFinite, FS_EmptySet

LEMMA LastHeld ==
    ASSUME Types, NEW p \in Procs, holds[p] # << >>
    PROVE  holds[p][Len(holds[p])] \in Range(holds[p])
<1>1. holds[p] \in Seq(Addrs)
  BY DEF Types
<1>2. Len(holds[p]) \in 1 .. Len(holds[p])
  BY <1>1, LenProperties, EmptySeq
<1> QED
  BY <1>1, <1>2, InRange

(***************************************************************************)
(* What is good stays good, as the memory changes under a process.         *)
(***************************************************************************)
LEMMA SweptGood ==
    ASSUME Types, NEW s, Good(s), NEW d, NEW t, NEW K, Swept(s, d, t, K),
           \A p \in Procs : \A a \in Range(holds[p]) : a \in K /\ t + Window > request_time[p]
    PROVE  Good(d)
<1>1. Memory(d, {})
  BY DEF Swept
<1>2. Versions(d)
  <2> SUFFICES ASSUME NEW a \in DOMAIN d.entry
               PROVE  Version(d.entry[a].file, d.entry[a].mtime, d.php[d.entry[a].php].code)
    BY DEF Versions
  <2>1. d.entry[a].php \in DOMAIN d.php
    BY <1>1 DEF Memory, Coded
  <2>2. /\ a \in DOMAIN s.entry /\ d.entry[a].file = s.entry[a].file /\ d.entry[a].mtime = s.entry[a].mtime
        /\ d.php[d.entry[a].php].code = s.php[s.entry[a].php].code
    BY <2>1 DEF Swept
  <2>3. Version(s.entry[a].file, s.entry[a].mtime, s.php[s.entry[a].php].code)
    BY <2>2 DEF Good, Versions
  <2> QED
    BY <2>2, <2>3
<1>3. HoldsKept(d)
  <2>1. ASSUME NEW p \in Procs, NEW a \in Range(holds[p])
        PROVE  a \in DOMAIN d.entry /\ (a \in d.deletes => d.entry[a].dtime + Window > request_time[p])
    BY <2>1 DEF Swept, Good, HoldsKept
  <2>2. ASSUME NEW a \in DOMAIN d.entry
        PROVE  /\ d.entry[a].refcount >= Cardinality(HoldersOf(a))
               /\ crashes = 0 => d.entry[a].refcount = Cardinality(HoldersOf(a))
    BY DEF Swept, Good, HoldsKept
  <2> QED
    BY <2>1, <2>2 DEF HoldsKept
<1>4. InHand(d)
  <2> SUFFICES ASSUME NEW p \in Procs, pc[p] \in {"stored", "restore"}
               PROVE  LET a == holds[p][Len(holds[p])]
                      IN  /\ holds[p] # << >>
                          /\ d.entry[a].file = compiler[p].file /\ d.entry[a].mtime = compiler[p].mtime
    BY DEF InHand
  <2> DEFINE a == holds[p][Len(holds[p])]
  <2>1. holds[p] # << >> /\ s.entry[a].file = compiler[p].file /\ s.entry[a].mtime = compiler[p].mtime
    BY DEF Good, InHand
  <2>3. a \in Range(holds[p])
    BY <2>1, LastHeld
  <2>4. a \in DOMAIN d.entry
    BY <2>3 DEF Swept
  <2> QED
    BY <2>1, <2>4 DEF Swept
<1> QED
  BY <1>1, <1>2, <1>3, <1>4 DEF Good

LEMMA PhpGood ==
    ASSUME Types, NEW s, Good(s), NEW m, NEW d, PhpAdded(s, m, d)
    PROVE  Good(d)
<1>1. /\ Memory(d, {}) /\ d.deletes = s.deletes /\ d.entry = s.entry
      /\ \A x \in DOMAIN s.php : d.php[x] = s.php[x]
  BY DEF PhpAdded
<1>2. Versions(d)
  BY <1>1 DEF Good, Versions, Memory, Coded
<1>3. HoldsKept(d)
  BY <1>1 DEF Good, HoldsKept
<1>4. InHand(d)
  BY <1>1 DEF Good, InHand
<1> QED
  BY <1>1, <1>2, <1>3, <1>4 DEF Good

LEMMA EntryGood ==
    ASSUME Types, NEW s, Good(s), NEW e \in Entry, e.refcount = 0, NEW d, EntryAdded(s, e, d),
           e.php \in DOMAIN s.php, Version(e.file, e.mtime, s.php[e.php].code)
    PROVE  Good(d)
<1> DEFINE n == Addr(s, RealEntry)
<1>1. /\ Memory(d, {}) /\ d.deletes = s.deletes /\ n \notin DOMAIN s.entry
      /\ DOMAIN d.entry = DOMAIN s.entry \cup {n} /\ d.entry[n] = e
      /\ \A x \in DOMAIN s.entry : d.entry[x] = s.entry[x]
      /\ DOMAIN d.php = DOMAIN s.php
      /\ \A b \in DOMAIN s.php : d.php[b].code = s.php[b].code
  BY DEF EntryAdded
<1> HIDE DEF n
<1>2. Versions(d)
  <2>1. \A x \in DOMAIN s.entry : s.entry[x].php \in DOMAIN s.php
    BY DEF Good, Memory, Coded
  <2> QED
    BY <1>1, <2>1 DEF Good, Versions
<1>3. \A p \in Procs : \A a \in Range(holds[p]) : a \in DOMAIN s.entry
  BY DEF Good, HoldsKept
<1>4. HoldsKept(d)
  <2>1. ASSUME NEW p \in Procs, NEW a \in Range(holds[p])
        PROVE  a \in DOMAIN d.entry /\ (a \in d.deletes => d.entry[a].dtime + Window > request_time[p])
    BY <1>1, <2>1 DEF Good, HoldsKept
  <2>2. HoldersOf(n) = {}
    <3> SUFFICES ASSUME NEW h \in HoldersOf(n) PROVE FALSE
      OBVIOUS
    <3>1. h[1] \in Procs /\ h[2] \in 1 .. MaxHolds /\ h[2] <= Len(holds[h[1]]) /\ holds[h[1]][h[2]] = n
      BY DEF HoldersOf
    <3>2. holds[h[1]] \in Seq(Addrs)
      BY <3>1 DEF Types
    <3>3. h[2] \in 1 .. Len(holds[h[1]])
      BY <3>1, <3>2, LenProperties
    <3>4. n \in Range(holds[h[1]])
      BY <3>1, <3>2, <3>3, InRange
    <3> QED
      BY <1>1, <1>3, <3>1, <3>4
  <2>3. Cardinality(HoldersOf(n)) = 0
    BY <2>2, FS_EmptySet
  <2>4. ASSUME NEW a \in DOMAIN d.entry
        PROVE  /\ d.entry[a].refcount >= Cardinality(HoldersOf(a))
               /\ crashes = 0 => d.entry[a].refcount = Cardinality(HoldersOf(a))
    <3>1. CASE a = n
      BY <1>1, <2>3, <3>1
    <3>2. CASE a # n
      BY <1>1, <2>4, <3>2 DEF Good, HoldsKept
    <3> QED
      BY <3>1, <3>2
  <2> QED
    BY <2>1, <2>4 DEF HoldsKept
<1>5. InHand(d)
  <2> SUFFICES ASSUME NEW p \in Procs, pc[p] \in {"stored", "restore"}
               PROVE  LET a == holds[p][Len(holds[p])]
                      IN  /\ holds[p] # << >>
                          /\ d.entry[a].file = compiler[p].file /\ d.entry[a].mtime = compiler[p].mtime
    BY DEF InHand
  <2> DEFINE a == holds[p][Len(holds[p])]
  <2>1. holds[p] # << >> /\ s.entry[a].file = compiler[p].file /\ s.entry[a].mtime = compiler[p].mtime
    BY DEF Good, InHand
  <2>3. a \in Range(holds[p])
    BY <2>1, LastHeld
  <2> QED
    BY <1>1, <1>3, <2>1, <2>3
<1> QED
  BY <1>1, <1>2, <1>4, <1>5 DEF Good
-----------------------------------------------------------------------------
(***************************************************************************)
(* Steps that leave the files alone: a process that has looked at its file *)
(* still does, or looks at it now.                                         *)
(***************************************************************************)
SeenKept == \A q \in Procs : seen'[q] # {} =>
    \/ /\ compiler'[q].file = compiler[q].file /\ compiler'[q].mtime = compiler[q].mtime
       /\ seen'[q] = seen[q]
    \/ /\ compiler'[q].mtime = disk[compiler'[q].file].mtime
       /\ disk[compiler'[q].file].source \in seen'[q]

LEMMA VersionKept ==
    ASSUME disk' = disk, SeenKept, NEW f, NEW m, NEW c, Version(f, m, c)
    PROVE  Version(f, m, c)'
  BY DEF Version, SeenKept

LEMMA MemoryPrimed ==
    ASSUME NEW d, Memory(d, {}), shm' = d
    PROVE  Memory(shm, {})'
  OBVIOUS

HoldsSame == /\ holds' = holds /\ crashes' = crashes
             /\ \A p \in Procs : holds[p] # << >> => request_time'[p] = request_time[p]

HandsSame == \A p \in Procs : pc'[p] \in {"stored", "restore"} =>
                                pc[p] \in {"stored", "restore"} /\ compiler'[p] = compiler[p]

LEMMA KeptGood ==
    ASSUME Types, NEW d, Good(d), shm' = d, disk' = disk, SeenKept, HoldsSame, HandsSame
    PROVE  Good(shm)'
<1>1. Memory(shm, {})'
  BY MemoryPrimed DEF Good
<1>2. Versions(shm)'
  <2>1. \A a \in DOMAIN d.entry : Version(d.entry[a].file, d.entry[a].mtime, d.php[d.entry[a].php].code)'
    <3> SUFFICES ASSUME NEW a \in DOMAIN d.entry
                 PROVE  Version(d.entry[a].file, d.entry[a].mtime, d.php[d.entry[a].php].code)'
      OBVIOUS
    <3>1. Version(d.entry[a].file, d.entry[a].mtime, d.php[d.entry[a].php].code)
      BY DEF Good, Versions
    <3> QED
      BY <3>1, VersionKept
  <2> QED
    BY <2>1 DEF Versions, Version
<1>3. HoldsKept(shm)'
  <2>1. \A a : HoldersOf(a)' = HoldersOf(a)
    BY DEF HoldersOf, HoldsSame
  <2>2. \A p \in Procs : Range(holds[p]) # {} => holds[p] # << >>
    BY DEF Range
  <2>3. ASSUME NEW p \in Procs, NEW a \in Range(holds'[p])
        PROVE  a \in DOMAIN d.entry /\ (a \in d.deletes => d.entry[a].dtime + Window > request_time'[p])
    BY <2>2, <2>3 DEF Good, HoldsKept, HoldsSame
  <2>4. ASSUME NEW a \in DOMAIN d.entry
        PROVE  /\ d.entry[a].refcount >= Cardinality(HoldersOf(a)')
               /\ crashes' = 0 => d.entry[a].refcount = Cardinality(HoldersOf(a)')
    BY <2>1 DEF Good, HoldsKept, HoldsSame
  <2> QED
    BY <2>3, <2>4 DEF HoldsKept, HoldersOf
<1>4. InHand(shm)'
  BY DEF Good, InHand, HoldsSame, HandsSame
<1> QED
  BY <1>1, <1>2, <1>3, <1>4 DEF Good
-----------------------------------------------------------------------------
\* One entry is changed, but for its code.
LEMMA EditedMemory ==
    ASSUME NEW s, Memory(s, {}), NEW a \in DOMAIN s.entry, NEW v \in Entry, v.php = s.entry[a].php,
           NEW d, Parts(d, s.heap, s.phps, s.entries, s.deletes, s.php, [s.entry EXCEPT ![a] = v])
    PROVE  Memory(d, {})
<1> DEFINE F == [s.entry EXCEPT ![a] = v]
<1>1. DOMAIN F = DOMAIN s.entry /\ F[a] = v /\ \A x \in DOMAIN s.entry : x # a => F[x] = s.entry[x]
  OBVIOUS
<1>2. F \in [DOMAIN s.entry -> Entry]
  BY DEF Memory, Shm
<1> HIDE DEF F
<1>3. Shm(d)
  BY <1>1, <1>2 DEF Memory, Shm, Parts, F
<1>4. Chained(d, {})
  BY <1>1 DEF Memory, Chained, Parts, F
<1>5. \A x \in DOMAIN s.entry : d.entry[x].php = s.entry[x].php
  BY <1>1 DEF Parts, F
<1> QED
  BY <1>1, <1>3, <1>4, <1>5, Rearranged DEF Parts, F

\* xc_entry_hold_php_unlocked.
LEMMA HeldFacts ==
    ASSUME NEW s, Memory(s, {}), NEW a \in DOMAIN s.entry
    PROVE  LET d == Held(s, a)
           IN  /\ Memory(d, {}) /\ d.php = s.php /\ d.deletes = s.deletes /\ DOMAIN d.entry = DOMAIN s.entry
               /\ \A x \in DOMAIN s.entry : x # a => d.entry[x] = s.entry[x]
               /\ d.entry[a].refcount = s.entry[a].refcount + 1
               /\ d.entry[a].file = s.entry[a].file /\ d.entry[a].mtime = s.entry[a].mtime
               /\ d.entry[a].php = s.entry[a].php /\ d.entry[a].dtime = s.entry[a].dtime
<1> DEFINE v == [s.entry[a] EXCEPT !.refcount = @ + 1]
           F == [s.entry EXCEPT ![a] = v]
           d == Held(s, a)
<1>1. DOMAIN s = Fields /\ s.entry[a] \in Entry
  BY DEF Memory, Shm
<1>2. /\ v \in Entry /\ v.refcount = s.entry[a].refcount + 1
      /\ v.file = s.entry[a].file /\ v.mtime = s.entry[a].mtime
      /\ v.php = s.entry[a].php /\ v.dtime = s.entry[a].dtime
  BY <1>1 DEF Entry
<1>3. Parts(d, s.heap, s.phps, s.entries, s.deletes, s.php, F)
  BY <1>1 DEF Parts, Fields, Held
<1> HIDE DEF v, d
<1>4. Memory(d, {})
  BY <1>2, <1>3, EditedMemory
<1> QED
  BY <1>2, <1>3, <1>4 DEF Parts, d

\* Hit sets the time of the access.
LEMMA AtimeGood ==
    ASSUME Types, NEW s, Good(s), NEW a \in DOMAIN s.entry, NEW t \in Nat
    PROVE  LET d == [s EXCEPT !.entry[a].atime = t]
           IN  /\ Good(d) /\ d.entries = s.entries /\ d.php = s.php /\ DOMAIN d.entry = DOMAIN s.entry
               /\ d.entry[a].file = s.entry[a].file /\ d.entry[a].mtime = s.entry[a].mtime
<1> DEFINE v == [s.entry[a] EXCEPT !.atime = t]
           F == [s.entry EXCEPT ![a] = v]
           d == [s EXCEPT !.entry[a].atime = t]
<1>1. DOMAIN s = Fields /\ s.entry[a] \in Entry /\ Memory(s, {})
  BY DEF Good, Memory, Shm
<1>2. /\ v \in Entry /\ v.refcount = s.entry[a].refcount
      /\ v.file = s.entry[a].file /\ v.mtime = s.entry[a].mtime
      /\ v.php = s.entry[a].php /\ v.dtime = s.entry[a].dtime
  BY <1>1 DEF Entry
<1>3. Parts(d, s.heap, s.phps, s.entries, s.deletes, s.php, F)
  BY <1>1 DEF Parts, Fields
<1> HIDE DEF v, d
<1>4. Memory(d, {})
  BY <1>1, <1>2, <1>3, EditedMemory
<1>5. /\ DOMAIN d.entry = DOMAIN s.entry
      /\ \A x \in DOMAIN s.entry : /\ d.entry[x].file = s.entry[x].file /\ d.entry[x].mtime = s.entry[x].mtime
                                   /\ d.entry[x].php = s.entry[x].php /\ d.entry[x].dtime = s.entry[x].dtime
                                   /\ d.entry[x].refcount = s.entry[x].refcount
  BY <1>2, <1>3 DEF Parts
<1>6. d.php = s.php /\ d.entries = s.entries /\ d.deletes = s.deletes
  BY <1>3 DEF Parts
<1>7. Range(d.entries) \subseteq Range(s.entries)
  BY <1>6
<1>8. Swept(s, d, now, DOMAIN s.entry)
  BY <1>1, <1>4, <1>5, <1>6, <1>7 DEF Swept, Memory, Chained
<1>9. Versions(d)
  BY <1>5, <1>6 DEF Good, Versions
<1>10. HoldsKept(d)
  BY <1>5, <1>6, <1>4 DEF Good, HoldsKept, Memory, Chained
<1>11. InHand(d)
  <2> SUFFICES ASSUME NEW p \in Procs, pc[p] \in {"stored", "restore"}
               PROVE  LET x == holds[p][Len(holds[p])]
                      IN  /\ holds[p] # << >>
                          /\ d.entry[x].file = compiler[p].file /\ d.entry[x].mtime = compiler[p].mtime
    BY DEF InHand
  <2> DEFINE x == holds[p][Len(holds[p])]
  <2>1. holds[p] # << >> /\ s.entry[x].file = compiler[p].file /\ s.entry[x].mtime = compiler[p].mtime
    BY DEF Good, InHand
  <2>2. x \in DOMAIN s.entry
    BY <2>1, LastHeld DEF Good, HoldsKept
  <2> QED
    BY <1>5, <2>1, <2>2
<1> QED
  BY <1>4, <1>5, <1>6, <1>9, <1>10, <1>11 DEF Good, d

(***************************************************************************)
(* Hit, Share and Store hold the entry they found or made.                 *)
(***************************************************************************)
LEMMA HoldGood ==
    ASSUME Types, HoldsBounded, NEW d, Good(d), NEW p \in Procs, NEW a \in DOMAIN d.entry,
           a \notin d.deletes, Len(holds[p]) < MaxHolds, Hold(p, d, a),
           UNCHANGED <<disk, compiler, seen, request_time, crashes>>,
           \A q \in Procs : q # p => pc'[q] = pc[q],
           d.entry[a].file = compiler[p].file, d.entry[a].mtime = compiler[p].mtime
    PROVE  Good(shm)'
<1> DEFINE u == Held(d, a)
           n == Len(holds[p]) + 1
<1>1. shm' = u /\ holds' = [holds EXCEPT ![p] = Append(@, a)]
  BY DEF Hold
<1>2. /\ Memory(u, {}) /\ u.php = d.php /\ u.deletes = d.deletes /\ DOMAIN u.entry = DOMAIN d.entry
      /\ \A x \in DOMAIN d.entry : x # a => u.entry[x] = d.entry[x]
      /\ u.entry[a].refcount = d.entry[a].refcount + 1
      /\ u.entry[a].file = d.entry[a].file /\ u.entry[a].mtime = d.entry[a].mtime
      /\ u.entry[a].php = d.entry[a].php /\ u.entry[a].dtime = d.entry[a].dtime
  <2>1. Memory(d, {})
    BY DEF Good
  <2> QED
    BY <2>1, HeldFacts
<1>3. /\ holds \in [Procs -> Seq(Addrs)] /\ holds[p] \in Seq(Addrs) /\ a \in Addrs
      /\ Len(holds[p]) \in Nat /\ MaxHolds \in Nat
  <2>1. a \in Addrs
    BY DEF Good, Memory, Shm
  <2> QED
    BY <2>1, LenProperties, RealSizes DEF Types
<1>4. /\ holds'[p] = Append(holds[p], a) /\ Len(holds'[p]) = n
      /\ holds'[p][n] = a /\ \A i \in 1 .. Len(holds[p]) : holds'[p][i] = holds[p][i]
      /\ \A q \in Procs : q # p => holds'[q] = holds[q]
      /\ holds'[p] \in Seq(Addrs)
  BY <1>1, <1>3, AppendProperties
<1> HIDE DEF u
<1>6. Memory(shm, {})'
  BY <1>1, <1>2, MemoryPrimed
<1>7. Versions(shm)'
  <2>1. \A x \in DOMAIN d.entry : Version(d.entry[x].file, d.entry[x].mtime, d.php[d.entry[x].php].code)
    BY DEF Good, Versions
  <2>2. SeenKept
    BY DEF SeenKept
  <2>3. \A x \in DOMAIN d.entry : Version(d.entry[x].file, d.entry[x].mtime, d.php[d.entry[x].php].code)'
    BY <2>1, <2>2, VersionKept
  <2>4. \A x \in DOMAIN u.entry : /\ u.entry[x].file = d.entry[x].file /\ u.entry[x].mtime = d.entry[x].mtime
                                  /\ u.php[u.entry[x].php].code = d.php[d.entry[x].php].code
    BY <1>2
  <2> QED
    BY <1>1, <1>2, <2>3, <2>4 DEF Versions, Version
<1>8. \A q \in Procs : holds[q] \in Seq(Addrs) /\ DOMAIN holds[q] = 1 .. Len(holds[q]) /\ Len(holds[q]) \in Nat
  BY <1>3, LenProperties
<1>9. ASSUME NEW x, x # a PROVE HoldersOf(x)' = HoldersOf(x)
  <2>1. ASSUME NEW q \in Procs, NEW i \in 1 .. MaxHolds
        PROVE  (i <= Len(holds'[q]) /\ holds'[q][i] = x) <=> (i <= Len(holds[q]) /\ holds[q][i] = x)
    <3>1. CASE q # p
      BY <1>4, <3>1
    <3>2. CASE q = p
      <4>1. i \in Nat /\ (i <= n <=> i = n \/ i <= Len(holds[p])) /\ (i <= Len(holds[p]) => i \in 1 .. Len(holds[p]))
        BY <1>3
      <4>2. n \in Nat /\ ~(n <= Len(holds[p]))
        BY <1>3
      <4> QED
        BY <1>4, <1>9, <3>2, <4>1, <4>2
    <3> QED
      BY <3>1, <3>2
  <2>2. \A h \in Procs \X (1 .. MaxHolds) :
          (h[2] <= Len(holds'[h[1]]) /\ holds'[h[1]][h[2]] = x) <=> (h[2] <= Len(holds[h[1]]) /\ holds[h[1]][h[2]] = x)
    BY <2>1
  <2> QED
    BY <2>2 DEF HoldersOf
<1>10. HoldersOf(a)' = HoldersOf(a) \cup {<<p, n>>} /\ <<p, n>> \notin HoldersOf(a)
  <2>1. <<p, n>> \notin HoldersOf(a)
    BY <1>3, InHolders
  <2>2. n \in 1 .. MaxHolds
    BY <1>3
  <2>3. ASSUME NEW q \in Procs, NEW i \in 1 .. MaxHolds
        PROVE  (i <= Len(holds'[q]) /\ holds'[q][i] = a)
                 <=> (i <= Len(holds[q]) /\ holds[q][i] = a) \/ (q = p /\ i = n)
    <3>1. CASE q # p
      BY <1>4, <3>1
    <3>2. CASE q = p
      <4>1. i \in Nat /\ (i <= n <=> i = n \/ i <= Len(holds[p])) /\ (i <= Len(holds[p]) => i \in 1 .. Len(holds[p]))
        BY <1>3
      <4> QED
        BY <1>4, <3>2, <4>1
    <3> QED
      BY <3>1, <3>2
  <2>4. \A h : h \in HoldersOf(a)' <=> h \in HoldersOf(a) \cup {<<p, n>>}
    <3>1. ASSUME NEW h \in HoldersOf(a)' PROVE h \in HoldersOf(a) \cup {<<p, n>>}
      <4>1. h \in Procs \X (1 .. MaxHolds) /\ h[2] <= Len(holds'[h[1]]) /\ holds'[h[1]][h[2]] = a
        BY <3>1 DEF HoldersOf
      <4>2. h = <<h[1], h[2]>> /\ h[1] \in Procs /\ h[2] \in 1 .. MaxHolds
        BY <4>1
      <4>3. (h[2] <= Len(holds[h[1]]) /\ holds[h[1]][h[2]] = a) \/ (h[1] = p /\ h[2] = n)
        BY <2>3, <4>1, <4>2
      <4> QED
        BY <4>1, <4>2, <4>3 DEF HoldersOf
    <3>2. ASSUME NEW h \in HoldersOf(a) PROVE h \in HoldersOf(a)'
      <4>1. h \in Procs \X (1 .. MaxHolds) /\ h[2] <= Len(holds[h[1]]) /\ holds[h[1]][h[2]] = a
        BY <3>2 DEF HoldersOf
      <4>2. h[1] \in Procs /\ h[2] \in 1 .. MaxHolds
        BY <4>1
      <4>3. h[2] <= Len(holds'[h[1]]) /\ holds'[h[1]][h[2]] = a
        BY <2>3, <4>1, <4>2
      <4> QED
        BY <4>1, <4>3 DEF HoldersOf
    <3>3. <<p, n>> \in HoldersOf(a)'
      <4>1. n <= Len(holds'[p]) /\ holds'[p][n] = a
        BY <1>3, <1>4
      <4> QED
        BY <2>2, <4>1 DEF HoldersOf
    <3> QED
      BY <3>1, <3>2, <3>3
  <2> QED
    BY <2>1, <2>4
<1>11. Cardinality(HoldersOf(a)') = Cardinality(HoldersOf(a)) + 1
  BY <1>10, HoldersFinite, FS_AddElement
<1>12. HoldsKept(shm)'
  <2>1. ASSUME NEW q \in Procs, NEW x \in Range(holds'[q])
        PROVE  x \in DOMAIN u.entry /\ (x \in u.deletes => u.entry[x].dtime + Window > request_time[q])
    <3>1. x \in Range(holds[q]) \/ x = a
      <4>1. CASE q # p
        BY <1>4, <2>1, <4>1
      <4>2. CASE q = p
        <5>0. DOMAIN holds'[p] = 1 .. n
          BY <1>4, LenProperties
        <5>1. PICK i \in 1 .. n : holds'[p][i] = x
          BY <2>1, <4>2, <5>0 DEF Range
        <5>2. i = n \/ i \in 1 .. Len(holds[p])
          BY <1>3
        <5> QED
          BY <1>3, <1>4, <4>2, <5>1, <5>2, InRange
      <4> QED
        BY <4>1, <4>2
    <3>2. x \in Range(holds[q]) => x \in DOMAIN d.entry /\ (x \in d.deletes => d.entry[x].dtime + Window > request_time[q])
      BY DEF Good, HoldsKept
    <3> QED
      BY <1>2, <3>1, <3>2
  <2>2. ASSUME NEW x \in DOMAIN u.entry
        PROVE  /\ u.entry[x].refcount >= Cardinality(HoldersOf(x)')
               /\ crashes' = 0 => u.entry[x].refcount = Cardinality(HoldersOf(x)')
    <3>1. /\ d.entry[x].refcount >= Cardinality(HoldersOf(x))
          /\ crashes = 0 => d.entry[x].refcount = Cardinality(HoldersOf(x))
      BY <1>2, <2>2 DEF Good, HoldsKept
    <3>2. CASE x # a
      BY <1>2, <1>9, <2>2, <3>1, <3>2
    <3>3. CASE x = a
      <4>1. d.entry[a] \in Entry
        BY <1>2, <2>2 DEF Good, Memory, Shm
      <4>2. d.entry[a].refcount \in Nat /\ Cardinality(HoldersOf(a)) \in Nat
        BY <4>1, HoldersFinite DEF Entry
      <4> QED
        BY <1>2, <1>11, <3>1, <3>3, <4>2
    <3> QED
      BY <3>2, <3>3
  <2> QED
    BY <1>1, <2>1, <2>2 DEF HoldsKept, HoldersOf
<1>13. InHand(shm)'
  <2> SUFFICES ASSUME NEW q \in Procs, pc'[q] \in {"stored", "restore"}
               PROVE  LET x == holds'[q][Len(holds'[q])]
                      IN  /\ holds'[q] # << >>
                          /\ u.entry[x].file = compiler[q].file /\ u.entry[x].mtime = compiler[q].mtime
    BY <1>1 DEF InHand
  <2>1. CASE q = p
    <3>1. holds'[p] # << >>
      BY <1>3, <1>4
    <3> QED
      BY <1>2, <1>4, <2>1, <3>1
  <2>2. CASE q # p
    <3> DEFINE x == holds[q][Len(holds[q])]
    <3>1. pc[q] \in {"stored", "restore"} /\ holds'[q] = holds[q]
      BY <1>4, <2>2
    <3>2. holds[q] # << >> /\ d.entry[x].file = compiler[q].file /\ d.entry[x].mtime = compiler[q].mtime
      BY <3>1 DEF Good, InHand
    <3>3. x \in DOMAIN d.entry
      BY <3>2, LastHeld DEF Good, HoldsKept
    <3> QED
      BY <1>2, <3>1, <3>2, <3>3
  <2> QED
    BY <2>1, <2>2
<1> QED
  BY <1>6, <1>7, <1>12, <1>13 DEF Good
-----------------------------------------------------------------------------
(***************************************************************************)
(* xc_cacher_request_shutdown unholds what the process holds.              *)
(***************************************************************************)
LEMMA CountHolders ==
    ASSUME Types, HoldsBounded, NEW p \in Procs, NEW a
    PROVE  /\ Count(p, a) \in Nat /\ Count(p, a) <= Cardinality(HoldersOf(a))
           /\ Cardinality({h \in HoldersOf(a) : h[1] # p}) = Cardinality(HoldersOf(a)) - Count(p, a)
<1> DEFINE I == {i \in DOMAIN holds[p] : holds[p][i] = a}
           M == {h \in HoldersOf(a) : h[1] = p}
           R == {h \in HoldersOf(a) : h[1] # p}
           g == [i \in I |-> <<p, i>>]
<1>1. /\ holds[p] \in Seq(Addrs) /\ Len(holds[p]) \in Nat /\ Len(holds[p]) <= MaxHolds
      /\ DOMAIN holds[p] = 1 .. Len(holds[p]) /\ MaxHolds \in Nat
  BY LenProperties, RealSizes DEF Types, HoldsBounded
<1>2. \A i \in I : i \in 1 .. MaxHolds /\ i <= Len(holds[p]) /\ holds[p][i] = a
  BY <1>1
<1>3. \A h \in M : h = <<p, h[2]>> /\ h[2] \in I
  <2> SUFFICES ASSUME NEW h \in M PROVE h = <<p, h[2]>> /\ h[2] \in I
    OBVIOUS
  <2>1. h \in Procs \X (1 .. MaxHolds) /\ h[1] = p /\ h[2] <= Len(holds[p]) /\ holds[p][h[2]] = a
    BY DEF HoldersOf
  <2> QED
    BY <1>1, <2>1
<1>4. \A i \in I : <<p, i>> \in M
  BY <1>2 DEF HoldersOf
<1>5. IsFiniteSet(HoldersOf(a)) /\ IsFiniteSet(M) /\ IsFiniteSet(R)
  <2>1. M \subseteq HoldersOf(a) /\ R \subseteq HoldersOf(a)
    OBVIOUS
  <2> QED
    BY <2>1, HoldersFinite, FS_Subset
<1>6. g \in Bijection(I, M)
  <2> HIDE DEF I, M
  <2>1. g \in [I -> M]
    BY <1>4
  <2>2. \A i, j \in I : g[i] = g[j] => i = j
    OBVIOUS
  <2>3. \A h \in M : \E i \in I : g[i] = h
    BY <1>3
  <2> HIDE DEF g
  <2> QED
    BY <2>1, <2>2, <2>3 DEF Bijection, Injection, Surjection, IsInjective
<1>7. IsFiniteSet(I)
  <2>1. I \subseteq 1 .. Len(holds[p]) /\ IsFiniteSet(1 .. Len(holds[p]))
    BY <1>1, FS_Interval
  <2> QED
    BY <2>1, FS_Subset
<1>8. Cardinality(I) = Cardinality(M) /\ Count(p, a) = Cardinality(I)
  <2>1. Count(p, a) = Cardinality(I)
    BY DEF Count
  <2> HIDE DEF I, M, g
  <2>2. Cardinality(I) = Cardinality(M)
    <3>1. ExistsBijection(I, M)
      BY <1>6 DEF ExistsBijection
    <3> QED
      BY <1>7, <3>1, FS_Bijection
  <2> QED
    BY <2>1, <2>2
<1>9. M \cup R = HoldersOf(a) /\ M \cap R = {}
  OBVIOUS
<1> HIDE DEF I, M, R
<1>10. Cardinality(M) \in Nat /\ Cardinality(R) \in Nat
  BY <1>5, FS_CardinalityType
<1>11. Cardinality(HoldersOf(a)) = Cardinality(M) + Cardinality(R)
  <2>1. Cardinality(M \cup R) = Cardinality(M) + Cardinality(R) - Cardinality(M \cap R)
    BY <1>5, FS_Union
  <2>2. Cardinality(M \cap R) = 0
    BY <1>9, FS_EmptySet
  <2>3. Cardinality(M \cup R) = Cardinality(HoldersOf(a))
    BY <1>9
  <2> QED
    BY <1>10, <2>1, <2>2, <2>3
<1> QED
  BY <1>8, <1>10, <1>11 DEF R

LEMMA UnholdGood ==
    ASSUME Types, HoldsBounded, Good(shm), NEW p \in Procs, Unhold(p)
    PROVE  Good(shm)'
<1> DEFINE F == [a \in DOMAIN shm.entry |-> [shm.entry[a] EXCEPT !.refcount = @ - Count(p, a)]]
           d == [shm EXCEPT !.entry = F]
<1>1. shm' = d /\ holds' = [holds EXCEPT ![p] = << >>] /\ pc[p] = "run" /\ pc' = [pc EXCEPT ![p] = "expire"]
      /\ UNCHANGED <<compiler, seen, disk, crashes, request_time>>
  BY DEF Unhold, Goes, world
<1>2. DOMAIN shm = Fields /\ Memory(shm, {}) /\ shm.entry \in [DOMAIN shm.entry -> Entry]
  BY DEF Good, Memory, Shm
<1>3. Parts(d, shm.heap, shm.phps, shm.entries, shm.deletes, shm.php, F)
  BY <1>2 DEF Parts, Fields
<1>4. /\ DOMAIN F = DOMAIN shm.entry
      /\ \A a \in DOMAIN shm.entry :
           /\ F[a] \in Entry /\ F[a].refcount = shm.entry[a].refcount - Count(p, a)
           /\ F[a].file = shm.entry[a].file /\ F[a].mtime = shm.entry[a].mtime
           /\ F[a].php = shm.entry[a].php /\ F[a].dtime = shm.entry[a].dtime
  <2> SUFFICES ASSUME NEW a \in DOMAIN shm.entry
               PROVE  /\ F[a] \in Entry /\ F[a].refcount = shm.entry[a].refcount - Count(p, a)
                      /\ F[a].file = shm.entry[a].file /\ F[a].mtime = shm.entry[a].mtime
                      /\ F[a].php = shm.entry[a].php /\ F[a].dtime = shm.entry[a].dtime
    OBVIOUS
  <2>1. shm.entry[a] \in Entry
    BY <1>2
  <2>2. shm.entry[a].refcount >= Cardinality(HoldersOf(a))
    BY DEF Good, HoldsKept
  <2>3. Count(p, a) \in Nat /\ Count(p, a) <= Cardinality(HoldersOf(a)) /\ Cardinality(HoldersOf(a)) \in Nat
    BY CountHolders, HoldersFinite
  <2>4. shm.entry[a].refcount - Count(p, a) \in Nat
    BY <2>1, <2>2, <2>3 DEF Entry
  <2>5. F[a] = [shm.entry[a] EXCEPT !.refcount = @ - Count(p, a)]
    OBVIOUS
  <2> HIDE DEF F
  <2> QED
    BY <2>1, <2>4, <2>5 DEF Entry
<1>5. F \in [DOMAIN shm.entry -> Entry]
  BY <1>4
<1> HIDE DEF F, d
<1>6. Memory(d, {})
  <2>1. Shm(d)
    BY <1>2, <1>3, <1>4, <1>5 DEF Memory, Shm, Parts
  <2>2. Chained(d, {})
    BY <1>2, <1>3, <1>4 DEF Memory, Chained, Parts
  <2> QED
    BY <1>2, <1>3, <1>4, <2>1, <2>2, Rearranged DEF Parts
<1>7. Memory(shm, {})'
  BY <1>1, <1>6, MemoryPrimed
<1>8. Versions(shm)'
  <2>1. \A x \in DOMAIN shm.entry : Version(shm.entry[x].file, shm.entry[x].mtime, shm.php[shm.entry[x].php].code)
    BY DEF Good, Versions
  <2>2. \A x \in DOMAIN d.entry : Version(d.entry[x].file, d.entry[x].mtime, d.php[d.entry[x].php].code)
    BY <1>3, <1>4, <2>1 DEF Parts
  <2> QED
    BY <1>1, <2>2 DEF Versions, Version
<1>9. holds'[p] = << >> /\ \A q \in Procs : q # p => holds'[q] = holds[q]
  BY <1>1 DEF Types
<1>10. ASSUME NEW a PROVE HoldersOf(a)' = {h \in HoldersOf(a) : h[1] # p}
  <2>1. Len(<< >>) = 0
    BY EmptySeq
  <2>2. \A h \in Procs \X (1 .. MaxHolds) :
          (h[2] <= Len(holds'[h[1]]) /\ holds'[h[1]][h[2]] = a)
             <=> (h[2] <= Len(holds[h[1]]) /\ holds[h[1]][h[2]] = a /\ h[1] # p)
    <3> SUFFICES ASSUME NEW q \in Procs, NEW i \in 1 .. MaxHolds
                 PROVE  (i <= Len(holds'[q]) /\ holds'[q][i] = a) <=> (i <= Len(holds[q]) /\ holds[q][i] = a /\ q # p)
      OBVIOUS
    <3>1. ~(i <= 0)
      BY RealSizes
    <3> QED
      BY <1>9, <2>1, <3>1
  <2> QED
    BY <2>2 DEF HoldersOf
<1>11. HoldsKept(shm)'
  <2>1. ASSUME NEW q \in Procs, NEW x \in Range(holds'[q])
        PROVE  x \in DOMAIN d.entry /\ (x \in d.deletes => d.entry[x].dtime + Window > request_time[q])
    <3>1. q # p
      BY <1>9, <2>1 DEF Range
    <3>2. x \in DOMAIN shm.entry /\ (x \in shm.deletes => shm.entry[x].dtime + Window > request_time[q])
      BY <1>9, <2>1, <3>1 DEF Good, HoldsKept
    <3> QED
      BY <1>3, <1>4, <3>2 DEF Parts
  <2>2. ASSUME NEW x \in DOMAIN d.entry
        PROVE  /\ d.entry[x].refcount >= Cardinality(HoldersOf(x)')
               /\ crashes' = 0 => d.entry[x].refcount = Cardinality(HoldersOf(x)')
    <3>1. x \in DOMAIN shm.entry /\ d.entry[x].refcount = shm.entry[x].refcount - Count(p, x)
      BY <1>3, <1>4, <2>2 DEF Parts
    <3>2. /\ shm.entry[x].refcount >= Cardinality(HoldersOf(x))
          /\ crashes = 0 => shm.entry[x].refcount = Cardinality(HoldersOf(x))
      BY <3>1 DEF Good, HoldsKept
    <3>3. Cardinality(HoldersOf(x)') = Cardinality(HoldersOf(x)) - Count(p, x)
      BY <1>10, CountHolders
    <3>4. Count(p, x) \in Nat /\ Cardinality(HoldersOf(x)) \in Nat /\ shm.entry[x].refcount \in Nat
      <4>1. shm.entry[x] \in Entry
        BY <1>2, <3>1
      <4> QED
        BY <4>1, CountHolders, HoldersFinite DEF Entry
    <3> QED
      BY <1>1, <3>1, <3>2, <3>3, <3>4
  <2> QED
    BY <1>1, <2>1, <2>2 DEF HoldsKept, HoldersOf
<1>12. InHand(shm)'
  <2> SUFFICES ASSUME NEW q \in Procs, pc'[q] \in {"stored", "restore"}
               PROVE  LET x == holds'[q][Len(holds'[q])]
                      IN  /\ holds'[q] # << >>
                          /\ d.entry[x].file = compiler[q].file /\ d.entry[x].mtime = compiler[q].mtime
    BY <1>1 DEF InHand
  <2> DEFINE x == holds[q][Len(holds[q])]
  <2>1. q # p /\ pc[q] \in {"stored", "restore"} /\ holds'[q] = holds[q]
    BY <1>1, <1>9 DEF Types
  <2>2. holds[q] # << >> /\ shm.entry[x].file = compiler[q].file /\ shm.entry[x].mtime = compiler[q].mtime
    BY <2>1 DEF Good, InHand
  <2>3. x \in DOMAIN shm.entry
    BY <2>2, LastHeld DEF Good, HoldsKept
  <2> QED
    BY <1>3, <1>4, <2>1, <2>2, <2>3 DEF Parts
<1> QED
  BY <1>7, <1>8, <1>11, <1>12 DEF Good

\* What a dead process held stays counted.
LEMMA CrashGood ==
    ASSUME Types, Good(shm), NEW p \in Procs, Crash(p)
    PROVE  Good(shm)'
<1>1. /\ shm' = shm /\ disk' = disk /\ holds' = [holds EXCEPT ![p] = << >>] /\ crashes' = crashes + 1
      /\ pc' = [pc EXCEPT ![p] = "idle"] /\ request_time' = [request_time EXCEPT ![p] = 0]
      /\ compiler' = [compiler EXCEPT ![p] = Idle] /\ seen' = [seen EXCEPT ![p] = {}]
  BY DEF Crash, Returns
<1>2. /\ holds'[p] = << >> /\ pc'[p] = "idle" /\ seen'[p] = {}
      /\ \A q \in Procs : q # p => /\ holds'[q] = holds[q] /\ pc'[q] = pc[q] /\ request_time'[q] = request_time[q]
                                   /\ compiler'[q] = compiler[q] /\ seen'[q] = seen[q]
  BY <1>1 DEF Types
<1>3. Memory(shm, {})'
  BY <1>1, MemoryPrimed DEF Good
<1>4. Versions(shm)'
  <2>1. \A x \in DOMAIN shm.entry : Version(shm.entry[x].file, shm.entry[x].mtime, shm.php[shm.entry[x].php].code)
    BY DEF Good, Versions
  <2>2. SeenKept
    BY <1>2 DEF SeenKept
  <2>3. \A x \in DOMAIN shm.entry : Version(shm.entry[x].file, shm.entry[x].mtime, shm.php[shm.entry[x].php].code)'
    <3> SUFFICES ASSUME NEW x \in DOMAIN shm.entry
                 PROVE  Version(shm.entry[x].file, shm.entry[x].mtime, shm.php[shm.entry[x].php].code)'
      OBVIOUS
    <3> DEFINE f == shm.entry[x].file
               m == shm.entry[x].mtime
               c == shm.php[shm.entry[x].php].code
    <3>1. Version(f, m, c)
      BY <2>1
    <3>2. f' = f /\ m' = m /\ c' = c
      BY <1>1
    <3> QED
      BY <1>1, <1>2, <3>1, <3>2 DEF Version
  <2> QED
    BY <1>1, <2>3 DEF Versions
<1>5. ASSUME NEW a PROVE HoldersOf(a)' \subseteq HoldersOf(a)
  <2>1. Len(<< >>) = 0
    BY EmptySeq
  <2>2. \A h \in Procs \X (1 .. MaxHolds) :
          (h[2] <= Len(holds'[h[1]]) /\ holds'[h[1]][h[2]] = a) => (h[2] <= Len(holds[h[1]]) /\ holds[h[1]][h[2]] = a)
    <3> SUFFICES ASSUME NEW q \in Procs, NEW i \in 1 .. MaxHolds
                 PROVE  (i <= Len(holds'[q]) /\ holds'[q][i] = a) => (i <= Len(holds[q]) /\ holds[q][i] = a)
      OBVIOUS
    <3>1. ~(i <= 0)
      BY RealSizes
    <3> QED
      BY <1>2, <2>1, <3>1
  <2> QED
    BY <2>2 DEF HoldersOf
<1>6. HoldsKept(shm)'
  <2>1. ASSUME NEW q \in Procs, NEW x \in Range(holds'[q])
        PROVE  x \in DOMAIN shm.entry /\ (x \in shm.deletes => shm.entry[x].dtime + Window > request_time'[q])
    <3>1. q # p
      BY <1>2, <2>1 DEF Range
    <3> QED
      BY <1>2, <2>1, <3>1 DEF Good, HoldsKept
  <2>2. ASSUME NEW x \in DOMAIN shm.entry PROVE shm.entry[x].refcount >= Cardinality(HoldersOf(x)')
    <3>1. shm.entry[x].refcount >= Cardinality(HoldersOf(x))
      BY DEF Good, HoldsKept
    <3>2. Cardinality(HoldersOf(x)') <= Cardinality(HoldersOf(x)) /\ Cardinality(HoldersOf(x)') \in Nat
          /\ Cardinality(HoldersOf(x)) \in Nat
      BY <1>5, HoldersFinite, FS_Subset, FS_CardinalityType
    <3>3. shm.entry[x].refcount \in Nat
      <4>1. shm.entry[x] \in Entry
        BY DEF Good, Memory, Shm
      <4> QED
        BY <4>1 DEF Entry
    <3> QED
      BY <3>1, <3>2, <3>3
  <2>3. crashes' # 0
    BY <1>1 DEF Types
  <2> QED
    BY <1>1, <2>1, <2>2, <2>3 DEF HoldsKept, HoldersOf
<1>7. InHand(shm)'
  BY <1>1, <1>2 DEF Good, InHand
<1> QED
  BY <1>3, <1>4, <1>6, <1>7 DEF Good

(***************************************************************************)
(* A file changes to a version that is later than what was compiled of it. *)
(***************************************************************************)
LEMMA EditVersion ==
    ASSUME Timely, Types, Times, NEW f \in Files, NEW n \in Sources, Edit(f, n),
           NEW g, NEW m \in Nat, NEW c, g \in Files, Version(g, m, c)
    PROVE  Version(g, m, c)'
<1>1. /\ disk[f].mtime # now /\ disk' = [disk EXCEPT ![f] = [source |-> n, mtime |-> now]]
      /\ compiler' = compiler
      /\ \A q \in Procs : seen[q] \subseteq seen'[q] /\ (seen'[q] # {} => seen[q] # {})
  BY DEF Edit, Quiet, Types
<1>2. disk[f].mtime \in Nat /\ disk[f].mtime <= now /\ now \in Nat
  BY DEF Types, Times
<1>3. /\ disk'[f].mtime = now /\ \A h \in Files : h # f => disk'[h] = disk[h]
  BY <1>1 DEF Types
<1>4. m <= disk[g].mtime /\ (m = disk[g].mtime => c = disk[g].source)
  BY DEF Version
<1>5. m <= disk'[g].mtime /\ (m = disk'[g].mtime => c = disk'[g].source)
  <2>1. CASE g = f
    BY <1>1, <1>2, <1>3, <1>4, <2>1
  <2>2. CASE g # f
    BY <1>3, <1>4, <2>2
  <2> QED
    BY <2>1, <2>2
<1>6. \A q \in Procs : seen'[q] # {} /\ compiler'[q].file = g /\ compiler'[q].mtime = m => c \in seen'[q]
  BY <1>1 DEF Version
<1> QED
  BY <1>5, <1>6 DEF Version

LEMMA EditGood ==
    ASSUME Timely, Types, Times, Good(shm), NEW f \in Files, NEW n \in Sources, Edit(f, n)
    PROVE  Good(shm)'
<1>1. UNCHANGED <<shm, holds, crashes, request_time, pc, compiler>>
  BY DEF Edit
<1>2. Memory(shm, {})'
  BY <1>1, MemoryPrimed DEF Good
<1>3. Versions(shm)'
  <2>1. ASSUME NEW x \in DOMAIN shm.entry
        PROVE  Version(shm.entry[x].file, shm.entry[x].mtime, shm.php[shm.entry[x].php].code)'
    <3>1. \E g, m, c : g = shm.entry[x].file /\ m = shm.entry[x].mtime /\ c = shm.php[shm.entry[x].php].code
      OBVIOUS
    <3>2. PICK g, m, c : g = shm.entry[x].file /\ m = shm.entry[x].mtime /\ c = shm.php[shm.entry[x].php].code
      BY <3>1
    <3>3. g \in Files /\ m \in Nat
      <4>1. shm.entry[x] \in Entry
        BY DEF Good, Memory, Shm
      <4> QED
        BY <3>2, <4>1 DEF Entry
    <3>4. Version(g, m, c)
      BY <3>2 DEF Good, Versions
    <3>5. Version(g, m, c)'
      BY <3>3, <3>4, EditVersion
    <3> QED
      BY <1>1, <3>2, <3>5 DEF Version
  <2> QED
    BY <1>1, <2>1 DEF Versions
<1>4. HoldsKept(shm)'
  BY <1>1 DEF Good, HoldsKept, HoldersOf
<1>5. InHand(shm)'
  BY <1>1 DEF Good, InHand
<1> QED
  BY <1>2, <1>3, <1>4, <1>5 DEF Good
-----------------------------------------------------------------------------
(***************************************************************************)
(* What a process finds, removes and adds.                                 *)
(***************************************************************************)
LEMMA HolderSafe ==
    ASSUME Types, Times, HoldsBounded, Good(shm), NEW q \in Procs, NEW a \in Range(holds[q])
    PROVE  /\ a \in DOMAIN shm.entry /\ shm.entry[a].refcount \in Nat /\ shm.entry[a].refcount # 0
           /\ a \in shm.deletes => shm.entry[a].dtime + Window > request_time[q]
           /\ pc[q] # "idle" /\ request_time[q] <= now /\ now < request_time[q] + Window
<1>1. /\ a \in DOMAIN shm.entry /\ shm.entry[a] \in Entry
      /\ shm.entry[a].refcount >= Cardinality(HoldersOf(a))
      /\ a \in shm.deletes => shm.entry[a].dtime + Window > request_time[q]
  BY DEF Good, HoldsKept, Memory, Shm
<1>2. Cardinality(HoldersOf(a)) > 0 /\ Cardinality(HoldersOf(a)) \in Nat
  BY HeldIsCounted, HoldersFinite
<1>3. shm.entry[a].refcount \in Nat
  BY <1>1 DEF Entry
<1>4. holds[q] # << >>
  BY DEF Range
<1>5. pc[q] # "idle"
  BY <1>4 DEF HoldsBounded
<1> QED
  BY <1>1, <1>2, <1>3, <1>5 DEF Times

LEMMA MineFacts ==
    ASSUME Good(shm), NEW p \in Procs, Known(p)
    PROVE  /\ Mine(p) \in Range(shm.entries) /\ Mine(p) \in DOMAIN shm.entry /\ Mine(p) \notin shm.deletes
           /\ shm.entry[Mine(p)].file = compiler[p].file
<1>1. shm.entries \in Seq(Addrs) /\ Range(shm.entries) \subseteq DOMAIN shm.entry
      /\ Range(shm.entries) \cap shm.deletes = {}
  BY DEF Good, Memory, Shm, Chained
<1>2. \E a \in OfFile(shm, compiler[p].file) : a \in Range(shm.entries)
  BY DEF Known, OfFile
<1>3. Mine(p) \in OfFile(shm, compiler[p].file)
  BY <1>1, <1>2, FirstOfFacts DEF Mine, EntryFound
<1> QED
  BY <1>1, <1>3 DEF OfFile

\* Codes are only removed.
Fewer(s, d) == /\ DOMAIN d.php \subseteq DOMAIN s.php
               /\ \A b \in DOMAIN d.php : d.php[b].md5 = s.php[b].md5

\* What a running process removes keeps what is held.
LEMMA RemoverGood ==
    ASSUME Types, Times, HoldsBounded, Good(shm), NEW p \in Procs, pc[p] # "idle",
           NEW d, Swept(shm, d, request_time[p], {a \in DOMAIN shm.entry : shm.entry[a].refcount # 0})
    PROVE  Good(d) /\ Fewer(shm, d)
<1>1. request_time[p] \in Nat /\ now \in Nat /\ Window \in Nat /\ now < request_time[p] + Window
  BY RealSizes DEF Types, Times
<1>2. ASSUME NEW q \in Procs, NEW a \in Range(holds[q])
      PROVE  /\ a \in {x \in DOMAIN shm.entry : shm.entry[x].refcount # 0}
             /\ request_time[p] + Window > request_time[q]
  <2>1. request_time[q] \in Nat
    BY DEF Types
  <2> QED
    BY <1>1, <1>2, <2>1, HolderSafe
<1>3. Good(d)
  BY <1>2, SweptGood
<1> QED
  BY <1>3 DEF Swept, Fewer

LEMMA MissedGood ==
    ASSUME Types, Times, HoldsBounded, Good(shm), NEW p \in Procs, pc[p] = "lookup"
    PROVE  Good(Missed(p)) /\ Fewer(shm, Missed(p))
<1>1. Memory(shm, {}) /\ request_time[p] \in Nat
  BY DEF Good, Types
<1>2. CASE Known(p)
  <2>1. Mine(p) \in Range(shm.entries)
    BY <1>2, MineFacts
  <2> DEFINE K == {a \in DOMAIN shm.entry : shm.entry[a].refcount # 0}
  <2>2. K \in SUBSET DOMAIN shm.entry /\ \A a \in K : shm.entry[a].refcount # 0
    OBVIOUS
  <2> HIDE DEF K
  <2>3. Swept(shm, Removed(shm, Mine(p), request_time[p]), request_time[p], K)
    BY <1>1, <2>1, <2>2, RemovedFacts
  <2>4. Missed(p) = Removed(shm, Mine(p), request_time[p])
    BY <1>2 DEF Missed
  <2> QED
    BY <2>3, <2>4, RemoverGood DEF K
<1>3. CASE ~Known(p)
  BY <1>3 DEF Missed, Fewer
<1> QED
  BY <1>2, <1>3

LEMMA RemovedAllGood ==
    ASSUME Types, Times, HoldsBounded, Good(shm), NEW p \in Procs, pc[p] # "idle",
           NEW A \in SUBSET Range(shm.entries)
    PROVE  LET d == RemovedAll(shm, A, request_time[p]) IN Good(d) /\ Fewer(shm, d)
<1> DEFINE K == {a \in DOMAIN shm.entry : shm.entry[a].refcount # 0}
<1>1. Memory(shm, {}) /\ request_time[p] \in Nat
  BY DEF Good, Types
<1>2. K \in SUBSET DOMAIN shm.entry /\ \A a \in K : shm.entry[a].refcount # 0
  OBVIOUS
<1> HIDE DEF K
<1>3. Swept(shm, RemovedAll(shm, A, request_time[p]), request_time[p], K)
  BY <1>1, <1>2, RemovedAllFacts
<1> QED
  BY <1>3, RemoverGood DEF K

\* xc_gc_delete_unlocked frees nothing that is held: whoever holds it would be in a request that is too long.
LEMMA CollectedGood ==
    ASSUME Types, Times, HoldsBounded, Good(shm), NEW p \in Procs, pc[p] # "idle"
    PROVE  LET d == Collected(shm, request_time[p]) IN Good(d) /\ Fewer(shm, d)
<1> DEFINE t == request_time[p]
           K == DOMAIN shm.entry \ Collectable(shm, t)
<1>1. Swept(shm, Collected(shm, t), t, K)
  BY CollectedFacts DEF Good
<1>2. /\ t \in Nat /\ now \in Nat /\ Window \in Nat /\ now < t + Window /\ t <= now /\ KeepTime \in Nat
      /\ 2 * Window <= KeepTime + 2
  BY RealSizes, CacherAssumption DEF Types, Times
<1>3. ASSUME NEW q \in Procs, NEW a \in Range(holds[q])
      PROVE  a \in K /\ t + Window > request_time[q]
  <2>1. /\ a \in DOMAIN shm.entry /\ shm.entry[a].refcount # 0
        /\ a \in shm.deletes => shm.entry[a].dtime + Window > request_time[q]
        /\ request_time[q] <= now /\ now < request_time[q] + Window
    BY <1>3, HolderSafe
  <2>2. request_time[q] \in Nat /\ shm.entry[a].dtime \in Nat
    <3>1. shm.entry[a] \in Entry
      BY <2>1 DEF Good, Memory, Shm
    <3> QED
      BY <3>1 DEF Types, Entry
  <2>3. a \in shm.deletes => ~(t - shm.entry[a].dtime > KeepTime)
    <3> HIDE DEF t
    <3> QED
      BY <1>2, <2>1, <2>2
  <2>4. a \notin Collectable(shm, t)
    BY <2>1, <2>3 DEF Collectable
  <2>5. t + Window > request_time[q]
    <3> HIDE DEF t
    <3> QED
      BY <1>2, <2>1, <2>2
  <2> QED
    BY <2>1, <2>4, <2>5
<1>4. Good(Collected(shm, t))
  <2> HIDE DEF K, t
  <2> QED
    BY <1>1, <1>3, SweptGood
<1> QED
  BY <1>1, <1>4 DEF Swept, Fewer

(***************************************************************************)
(* Share and Store.                                                        *)
(***************************************************************************)
LEMMA PhpFoundFacts ==
    ASSUME NEW s, Memory(s, {}), NEW m, WithDigest(s, m) # {}
    PROVE  LET b == PhpFound(s, m) IN b \in DOMAIN s.php /\ s.php[b].md5 = m /\ s.php[b].code = m
<1>1. s.phps \in Seq(Addrs) /\ Range(s.phps) = DOMAIN s.php
  BY DEF Memory, Shm, Chained
<1>2. \E b \in WithDigest(s, m) : b \in Range(s.phps)
  BY DEF WithDigest
<1>3. PhpFound(s, m) \in WithDigest(s, m)
  BY <1>1, <1>2, FirstOfFacts DEF PhpFound
<1> QED
  BY <1>1, <1>3 DEF WithDigest, Memory, Coded

\* The present source of a file is a version of it that everybody who includes it has seen.
LEMMA DigestVersion ==
    ASSUME Looks, NEW p \in Procs, pc[p] = "lookup"
    PROVE  /\ compiler[p].file \in Files
           /\ Version(compiler[p].file, compiler[p].mtime, Digest(p))
<1>1. compiler[p].file \in Files /\ compiler[p].mtime <= disk[compiler[p].file].mtime
  BY DEF Looks
<1>2. \A q \in Procs : seen[q] # {} /\ compiler[q].file = compiler[p].file => Digest(p) \in seen[q]
  BY DEF Looks, Digest
<1> QED
  BY <1>1, <1>2 DEF Version, Digest

LEMMA NewEntryTyped ==
    ASSUME Types, Looks, NEW p \in Procs, pc[p] \in {"lookup", "store"}, NEW b \in Addrs
    PROVE  /\ NewEntry(p, b) \in Entry /\ NewEntry(p, b).refcount = 0 /\ NewEntry(p, b).php = b
           /\ NewEntry(p, b).file = compiler[p].file /\ NewEntry(p, b).mtime = compiler[p].mtime
<1>1. compiler[p].file \in Files /\ compiler[p].mtime \in Nat /\ request_time[p] \in Nat
  BY DEF Types, Looks
<1> QED
  BY <1>1 DEF NewEntry, Entry

\* An entry for code that is there, of the source that the file has or had.
LEMMA AddGood ==
    ASSUME Types, HoldsBounded, Looks, NEW p \in Procs, pc[p] \in {"lookup", "store"},
           NEW s, Good(s), NEW b \in DOMAIN s.php, CanMalloc(s.heap, RealEntry),
           Version(compiler[p].file, compiler[p].mtime, s.php[b].code),
           Hold(p, EntryStored(s, NewEntry(p, b)), Addr(s, RealEntry)),
           UNCHANGED <<disk, compiler, seen, request_time, crashes>>,
           \A q \in Procs : q # p => pc'[q] = pc[q]
    PROVE  Good(shm)' /\ Addr(s, RealEntry) \in Addrs
           /\ DOMAIN shm'.php = DOMAIN s.php /\ \A x \in DOMAIN s.php : shm'.php[x].md5 = s.php[x].md5
<1> DEFINE e == NewEntry(p, b)
           a == Addr(s, RealEntry)
           d == EntryStored(s, e)
<1>1. Memory(s, {}) /\ b \in Addrs
  BY DEF Good, Memory, Shm
<1>2. e \in Entry /\ e.refcount = 0 /\ e.php = b /\ e.file = compiler[p].file /\ e.mtime = compiler[p].mtime
  BY <1>1, NewEntryTyped
<1> HIDE DEF e
<1>3. EntryAdded(s, e, d)
  BY <1>1, <1>2, EntryAdds
<1> HIDE DEF d
<1>4. Good(d)
  BY <1>2, <1>3, EntryGood
<1>5. a \in Addrs /\ a \in DOMAIN d.entry /\ d.entry[a] = e /\ a \notin d.deletes
  <2>1. a \in Range(d.entries) /\ a \in Addrs /\ a \in DOMAIN d.entry /\ d.entry[a] = e
    BY <1>3 DEF EntryAdded
  <2> HIDE DEF a
  <2> QED
    BY <2>1, <1>4 DEF Good, Memory, Chained
<1>6. Len(holds[p]) < MaxHolds
  BY DEF HoldsBounded
<1>7. Hold(p, d, a)
  BY DEF d, e
<1> HIDE DEF a
<1>8. Good(shm)'
  BY <1>2, <1>4, <1>5, <1>6, <1>7, HoldGood
<1>9. shm'.php = d.php
  <2>1. shm' = Held(d, a) /\ Memory(d, {})
    BY <1>4, <1>7 DEF Hold, Good
  <2> QED
    BY <1>5, <2>1, HeldFacts
<1> QED
  BY <1>3, <1>5, <1>8, <1>9 DEF EntryAdded, a
-----------------------------------------------------------------------------
(***************************************************************************)
(* The memory after each action.                                           *)
(***************************************************************************)
Control == Types /\ Times /\ HoldsBounded /\ OneCompiles /\ Looks

LEMMA HitGood ==
    ASSUME Control, Good(shm), NEW p \in Procs, Hit(p)
    PROVE  Good(shm)' /\ Mine(p) \in Addrs /\ shm'.php = shm.php
<1> DEFINE a == Mine(p)
           d == [shm EXCEPT !.entry[a].atime = request_time[p]]
<1>1. a \in DOMAIN shm.entry /\ a \in Addrs /\ a \notin shm.deletes /\ shm.entry[a].file = compiler[p].file
      /\ shm.entry[a].mtime = compiler[p].mtime
  <2>1. Known(p) /\ shm.entry[a].mtime = compiler[p].mtime
    BY DEF Hit, Fresh
  <2>2. a \in DOMAIN shm.entry /\ a \notin shm.deletes /\ shm.entry[a].file = compiler[p].file
    BY <2>1, MineFacts
  <2> HIDE DEF a
  <2> QED
    BY <2>1, <2>2 DEF Good, Memory, Shm
<1>2. /\ Hold(p, d, a) /\ pc[p] = "lookup" /\ pc' = [pc EXCEPT ![p] = "restore"]
      /\ UNCHANGED <<disk, compiler, seen, request_time, crashes>>
  BY DEF Hit, Goes, world
<1>3. /\ Good(d) /\ d.php = shm.php /\ DOMAIN d.entry = DOMAIN shm.entry /\ d.entries = shm.entries
      /\ d.entry[a].file = shm.entry[a].file /\ d.entry[a].mtime = shm.entry[a].mtime
  <2>1. request_time[p] \in Nat
    BY DEF Control, Types
  <2> HIDE DEF a
  <2> QED
    BY <1>1, <2>1, AtimeGood DEF Control
<1>4. d.deletes = shm.deletes
  BY DEF Good, Memory, Shm, Fields
<1>5. Len(holds[p]) < MaxHolds
  BY <1>2 DEF Control, HoldsBounded
<1>6. \A q \in Procs : q # p => pc'[q] = pc[q]
  BY <1>2 DEF Control, Types
<1> HIDE DEF a, d
<1>7. Good(shm)'
  BY <1>1, <1>2, <1>3, <1>4, <1>5, <1>6, HoldGood DEF Control
<1>8. shm'.php = d.php
  <2>1. shm' = Held(d, a) /\ Memory(d, {})
    BY <1>2, <1>3 DEF Hold, Good
  <2> QED
    BY <1>1, <1>3, <2>1, HeldFacts
<1> QED
  BY <1>1, <1>3, <1>7, <1>8 DEF a

LEMMA ShareGood ==
    ASSUME Control, Good(shm), NEW p \in Procs, Share(p)
    PROVE  Good(shm)' /\ Addr(Missed(p), RealEntry) \in Addrs /\ Fewer(shm, shm')
<1> DEFINE s == Missed(p)
           b == PhpFound(s, Digest(p))
<1>1. /\ WithDigest(s, Digest(p)) # {} /\ CanMalloc(s.heap, RealEntry) /\ pc[p] = "lookup"
      /\ Hold(p, EntryStored(s, NewEntry(p, b)), Addr(s, RealEntry))
      /\ pc' = [pc EXCEPT ![p] = "restore"]
      /\ UNCHANGED <<disk, compiler, seen, request_time, crashes>>
  BY DEF Share, Goes, world
<1>2. Good(s) /\ Fewer(shm, s)
  BY <1>1, MissedGood DEF Control
<1> HIDE DEF s
<1>3. b \in DOMAIN s.php /\ s.php[b].code = Digest(p)
  BY <1>1, <1>2, PhpFoundFacts DEF Good
<1>4. Version(compiler[p].file, compiler[p].mtime, Digest(p))
  BY <1>1, DigestVersion DEF Control
<1>5. \A q \in Procs : q # p => pc'[q] = pc[q]
  BY <1>1 DEF Control, Types
<1> HIDE DEF b
<1>6. Version(compiler[p].file, compiler[p].mtime, s.php[b].code)
  BY <1>3, <1>4
<1>7. Good(shm)' /\ Addr(s, RealEntry) \in Addrs
      /\ DOMAIN shm'.php = DOMAIN s.php /\ \A x \in DOMAIN s.php : shm'.php[x].md5 = s.php[x].md5
  BY <1>1, <1>2, <1>3, <1>5, <1>6, AddGood DEF Control, b
<1>8. Fewer(shm, shm')
  BY <1>2, <1>7 DEF Fewer
<1> QED
  BY <1>7, <1>8 DEF s

LEMMA StoreGood ==
    ASSUME Control, Compiles, Good(shm), NEW p \in Procs, Store(p)
    PROVE  Good(shm)' /\ (holds' = holds \/ \E a \in Addrs : holds' = [holds EXCEPT ![p] = Append(@, a)])
<1> DEFINE m == compiler[p].md5
           s == PhpStored(shm, m, compiler[p].code)
           b == Addr(shm, RealPhp)
<1>1. /\ CanMalloc(shm.heap, RealPhp) /\ pc[p] = "store"
      /\ UNCHANGED <<disk, compiler, seen, request_time, crashes>>
      /\ \/ /\ CanMalloc(s.heap, RealEntry) /\ pc' = [pc EXCEPT ![p] = "stored"]
            /\ Hold(p, EntryStored(s, NewEntry(p, b)), Addr(s, RealEntry))
         \/ /\ pc' = [pc EXCEPT ![p] = "finish"] /\ shm' = s /\ UNCHANGED holds
  BY DEF Store, Goes, world
<1>2. /\ m \in Sources /\ WithDigest(shm, m) = {} /\ Version(compiler[p].file, compiler[p].mtime, m)
      /\ compiler[p].code = m
  BY <1>1 DEF Compiles
<1> HIDE DEF m
<1>3. PhpAdded(shm, m, s)
  <2>1. s = PhpStored(shm, m, m)
    BY <1>2
  <2> HIDE DEF s
  <2> QED
    BY <1>1, <1>2, <2>1, PhpAdds DEF Good
<1> HIDE DEF s
<1>4. Good(s)
  BY <1>3, PhpGood DEF Control
<1>5. b \in DOMAIN s.php /\ s.php[b].code = m
  BY <1>3 DEF PhpAdded
<1>6. \A q \in Procs : q # p => pc'[q] = pc[q]
  BY <1>1 DEF Control, Types
<1> HIDE DEF b
<1>7. CASE /\ CanMalloc(s.heap, RealEntry)
           /\ Hold(p, EntryStored(s, NewEntry(p, b)), Addr(s, RealEntry))
  <2>1. Version(compiler[p].file, compiler[p].mtime, s.php[b].code)
    BY <1>2, <1>5
  <2> QED
    BY <1>1, <1>4, <1>5, <1>6, <1>7, <2>1, AddGood DEF Control, Hold
<1>8. CASE pc' = [pc EXCEPT ![p] = "finish"] /\ shm' = s /\ UNCHANGED holds
  <2>1. SeenKept /\ HoldsSame
    BY <1>1, <1>8 DEF SeenKept, HoldsSame
  <2>2. HandsSame
    BY <1>1, <1>6, <1>8 DEF HandsSame, Control, Types
  <2> QED
    BY <1>1, <1>4, <1>8, <2>1, <2>2, KeptGood DEF Control
<1> QED
  BY <1>1, <1>7, <1>8
-----------------------------------------------------------------------------
\* The actions that hold nothing more, and change no file.
Quietly(p) == \/ Begin(p) \/ (\E f \in Files : Include(p, f))
              \/ GiveUp(p) \/ LookupBails(p) \/ GoCompile(p) \/ Compile(p) \/ CompileFails(p) \/ StoreFails(p)
              \/ Finish(p) \/ Restore(p) \/ GcExpires(p) \/ GcDeletes(p) \/ Clear(p) \/ Enable(p)

LEMMA QuietMemory ==
    ASSUME Control, Good(shm), NEW p \in Procs, Quietly(p)
    PROVE  Good(shm') /\ Fewer(shm, shm')
<1>1. Fewer(shm, shm)
  BY DEF Fewer
<1>2. CASE shm' = shm
  BY <1>1, <1>2
<1>3. CASE pc[p] = "lookup" /\ shm' = Missed(p)
  BY <1>3, MissedGood DEF Control
<1>4. ASSUME NEW A \in SUBSET Range(shm.entries), pc[p] # "idle", shm' = RemovedAll(shm, A, request_time[p])
      PROVE  Good(shm') /\ Fewer(shm, shm')
  BY <1>4, RemovedAllGood DEF Control
<1>5. CASE pc[p] # "idle" /\ shm' = Collected(shm, request_time[p])
  BY <1>5, CollectedGood DEF Control
<1>6. CASE GiveUp(p) \/ GoCompile(p) \/ LookupBails(p)
  BY <1>2, <1>3, <1>6 DEF GiveUp, GoCompile, LookupBails, Goes
<1>7. CASE GcExpires(p)
  <2>1. Expired(p) \in SUBSET Range(shm.entries) /\ pc[p] # "idle"
    BY <1>7 DEF Expired, GcExpires, Goes
  <2>2. shm' = shm \/ shm' = RemovedAll(shm, Expired(p), request_time[p])
    BY <1>7 DEF GcExpires
  <2> QED
    BY <1>2, <1>4, <2>1, <2>2
<1>8. CASE Clear(p)
  <2>1. shm' = RemovedAll(shm, Range(shm.entries), request_time[p]) /\ pc[p] # "idle"
    BY <1>8 DEF Clear, Goes
  <2> QED
    BY <1>4, <2>1
<1>9. CASE GcDeletes(p)
  <2>1. pc[p] # "idle" /\ (shm' = shm \/ shm' = Collected(shm, request_time[p]))
    BY <1>9 DEF GcDeletes, Goes
  <2> QED
    BY <1>2, <1>5, <2>1
<1>10. CASE \/ Begin(p) \/ (\E f \in Files : Include(p, f)) \/ Compile(p) \/ CompileFails(p) \/ StoreFails(p)
            \/ Finish(p) \/ Restore(p) \/ Enable(p)
  BY <1>2, <1>10 DEF Begin, Include, Compile, CompileFails, StoreFails, Finish, Restore, Enable
<1> QED
  BY <1>6, <1>7, <1>8, <1>9, <1>10 DEF Quietly

Alone(p) == \A q \in Procs : q # p =>
    /\ pc'[q] = pc[q] /\ request_time'[q] = request_time[q] /\ compiler'[q] = compiler[q]
    /\ holds'[q] = holds[q] /\ seen'[q] = seen[q]

LEMMA StepAlone ==
    ASSUME Types, NEW p \in Procs, Step(p)
    PROVE  Alone(p) /\ disk' = disk /\ now' = now
<1> USE DEF Types, Alone, Goes, world, request, cached
<1>1. CASE Begin(p) \/ (\E f \in Files : Include(p, f))
  BY <1>1 DEF Begin, Include
<1>2. CASE Hit(p) \/ Share(p)
  BY <1>2 DEF Hit, Share, Hold
<1>3. CASE GiveUp(p) \/ LookupBails(p) \/ GoCompile(p) \/ Compile(p) \/ CompileFails(p)
  BY <1>3 DEF GiveUp, LookupBails, GoCompile, Compile, CompileFails, Returns
<1>4. CASE Store(p)
  BY <1>4 DEF Store, Hold
<1>5. CASE StoreFails(p) \/ Finish(p) \/ Restore(p)
  BY <1>5 DEF StoreFails, Finish, Restore, Returns
<1>6. CASE Unhold(p) \/ GcExpires(p)
  BY <1>6 DEF Unhold, GcExpires
<1>7. CASE GcDeletes(p)
  BY <1>7 DEF GcDeletes
<1>8. CASE Clear(p) \/ Enable(p) \/ Crash(p)
  BY <1>8 DEF Clear, Enable, Crash, Returns
<1> QED
  BY <1>1, <1>2, <1>3, <1>4, <1>5, <1>6, <1>7, <1>8 DEF Step

LEMMA QuietGood ==
    ASSUME Control, Good(shm), NEW p \in Procs, Quietly(p)
    PROVE  Good(shm)'
<1>1. Types /\ Alone(p) /\ disk' = disk
  BY StepAlone DEF Control, Quietly, Step
<1>2. holds' = holds /\ crashes' = crashes
  BY DEF Quietly, Begin, Include, GiveUp, LookupBails, GoCompile, Compile, CompileFails, StoreFails, Finish, Restore,
         GcExpires, GcDeletes, Clear, Enable, world, request
<1>3. seen'[p] # {} =>
        \/ /\ compiler'[p].file = compiler[p].file /\ compiler'[p].mtime = compiler[p].mtime
           /\ seen'[p] = seen[p]
        \/ /\ compiler'[p].mtime = disk[compiler'[p].file].mtime
           /\ disk[compiler'[p].file].source \in seen'[p]
  <2>1. CASE \E f \in Files : Include(p, f)
    BY <1>1, <2>1 DEF Include, Types, Idle
  <2>2. CASE GiveUp(p) \/ LookupBails(p) \/ CompileFails(p) \/ Restore(p) \/ (Finish(p) /\ Returns(p))
    BY <1>1, <2>2 DEF GiveUp, LookupBails, CompileFails, Restore, Returns, Types
  <2>3. CASE GoCompile(p) \/ Compile(p)
    BY <1>1, <2>3 DEF GoCompile, Compile, Types
  <2>4. CASE \/ Begin(p) \/ StoreFails(p) \/ (Finish(p) /\ UNCHANGED <<compiler, seen>>)
             \/ GcExpires(p) \/ GcDeletes(p) \/ Clear(p) \/ Enable(p)
    BY <2>4 DEF Begin, StoreFails, GcExpires, GcDeletes, Clear, Enable, request
  <2> QED
    BY <2>1, <2>2, <2>3, <2>4 DEF Quietly, Finish
<1>4. SeenKept
  BY <1>1, <1>3 DEF Alone, SeenKept
<1>5. HoldsSame
  <2>1. holds[p] # << >> => request_time'[p] = request_time[p]
    <3>1. CASE Begin(p) \/ (GcDeletes(p) /\ pc[p] = "delete")
      <4>1. pc[p] \in {"idle", "delete"}
        BY <3>1 DEF Begin, Goes
      <4> QED
        BY <4>1 DEF Control, HoldsBounded
    <3>2. CASE ~(Begin(p) \/ (GcDeletes(p) /\ pc[p] = "delete"))
      BY <3>2 DEF Quietly, Include, GiveUp, LookupBails, GoCompile, Compile, CompileFails, StoreFails, Finish, Restore,
                  GcExpires, GcDeletes, Clear, Enable, request, Goes
    <3> QED
      BY <3>1, <3>2
  <2> QED
    BY <1>1, <1>2, <2>1 DEF HoldsSame, Alone
<1>6. HandsSame
  <2>1. pc'[p] \in {"stored", "restore"} => pc[p] \in {"stored", "restore"} /\ compiler'[p] = compiler[p]
    BY <1>1 DEF Quietly, Begin, Include, GiveUp, LookupBails, GoCompile, Compile, CompileFails, StoreFails, Finish, Restore,
                GcExpires, GcDeletes, Clear, Enable, request, Goes, At, Types
  <2> QED
    BY <1>1, <2>1 DEF HandsSame, Alone
<1>7. Good(shm')
  BY QuietMemory
<1> QED
  BY <1>1, <1>2, <1>4, <1>5, <1>6, <1>7, KeptGood
-----------------------------------------------------------------------------
(***************************************************************************)
(* The processes after each action.                                        *)
(***************************************************************************)
LEMMA Holding ==
    ASSUME Control, NEW p \in Procs, NEW a \in Addrs, holds' = [holds EXCEPT ![p] = Append(@, a)]
    PROVE  holds' \in [Procs -> Seq(Addrs)] /\ Len(holds'[p]) = Len(holds[p]) + 1
<1>1. holds[p] \in Seq(Addrs) /\ holds \in [Procs -> Seq(Addrs)]
  BY DEF Control, Types
<1>2. Append(holds[p], a) \in Seq(Addrs) /\ Len(Append(holds[p], a)) = Len(holds[p]) + 1
  BY <1>1, AppendProperties
<1> QED
  BY <1>1, <1>2

LEMMA StepHolds ==
    ASSUME Control, Compiles, Good(shm), NEW p \in Procs, Step(p)
    PROVE  /\ holds' \in [Procs -> Seq(Addrs)]
           /\ \/ holds' = holds /\ ~Crash(p) /\ ~Unhold(p)
              \/ holds'[p] = << >>
              \/ pc[p] \in {"lookup", "store"} /\ Len(holds'[p]) = Len(holds[p]) + 1
<1>1. CASE Hit(p)
  <2>1. Mine(p) \in Addrs /\ holds' = [holds EXCEPT ![p] = Append(@, Mine(p))] /\ pc[p] = "lookup"
    BY <1>1, HitGood DEF Hit, Hold, Goes
  <2> QED
    BY <2>1, Holding
<1>2. CASE Share(p)
  <2>1. /\ Addr(Missed(p), RealEntry) \in Addrs /\ pc[p] = "lookup"
        /\ holds' = [holds EXCEPT ![p] = Append(@, Addr(Missed(p), RealEntry))]
    BY <1>2, ShareGood DEF Share, Hold, Goes
  <2> QED
    BY <2>1, Holding
<1>3. CASE Store(p)
  <2>1. pc[p] = "store"
    BY <1>3 DEF Store, Goes
  <2>2. holds' = holds \/ \E a \in Addrs : holds' = [holds EXCEPT ![p] = Append(@, a)]
    BY <1>3, StoreGood
  <2>3. ~Crash(p) /\ ~Unhold(p)
    BY <1>3 DEF Store, Crash, Unhold, Goes, Control, Types
  <2> QED
    BY <2>1, <2>2, <2>3, Holding DEF Control, Types
<1>4. CASE Unhold(p) \/ Crash(p)
  <2>1. holds' = [holds EXCEPT ![p] = << >>] /\ holds \in [Procs -> Seq(Addrs)]
    BY <1>4 DEF Unhold, Crash, Control, Types
  <2>2. << >> \in Seq(Addrs)
    BY EmptySeq
  <2> QED
    BY <2>1, <2>2
<1>5. CASE Quietly(p)
  <2>1. holds' = holds
    BY <1>5 DEF Quietly, Begin, Include, GiveUp, LookupBails, GoCompile, Compile, CompileFails, StoreFails, Finish, Restore,
         GcExpires, GcDeletes, Clear, Enable, world, request
  <2> QED
    BY <1>4, <2>1 DEF Control, Types
<1> QED
  BY <1>1, <1>2, <1>3, <1>4, <1>5 DEF Step, Quietly

LEMMA StepTypes ==
    ASSUME Control, Compiles, Good(shm), NEW p \in Procs, Step(p)
    PROVE  Types'
<1>1. holds' \in [Procs -> Seq(Addrs)] /\ disk' = disk /\ now' = now
  BY StepHolds, StepAlone DEF Control
<1>2. request_time[p] \in 0 .. now
  BY DEF Control, Types, Times
<1>3. /\ pc' \in [Procs -> PcValues]
      /\ request_time' \in [Procs -> Nat] /\ crashes' \in Nat
      /\ compiling' \in 0 .. now /\ disabled' \in 0 .. now
      /\ last_gc_expires' \in 0 .. now /\ last_gc_deletes' \in 0 .. now
  <2>1. /\ pc \in [Procs -> PcValues]
        /\ request_time \in [Procs -> Nat] /\ crashes \in Nat /\ now \in Nat
        /\ compiling \in 0 .. now /\ disabled \in 0 .. now
        /\ last_gc_expires \in 0 .. now /\ last_gc_deletes \in 0 .. now
    BY DEF Control, Types
  <2>2. CASE Begin(p)
    BY <1>2, <2>1, <2>2 DEF Begin, Goes, world, request, cached, PcValues
  <2>3. CASE \E f \in Files : Include(p, f)
    BY <1>2, <2>1, <2>3 DEF Include, Goes, world, request, cached, PcValues
  <2>4. CASE Hit(p)
    BY <1>2, <2>1, <2>4 DEF Hit, Hold, Goes, world, request, cached, PcValues
  <2>5. CASE Share(p)
    BY <1>2, <2>1, <2>5 DEF Share, Hold, Goes, world, request, cached, PcValues
  <2>6. CASE GiveUp(p)
    BY <1>2, <2>1, <2>6 DEF GiveUp, Returns, Goes, world, request, cached, PcValues
  <2>7. CASE GoCompile(p)
    BY <1>2, <2>1, <2>7 DEF GoCompile, Goes, world, request, cached, PcValues
  <2>8. CASE Compile(p)
    BY <1>2, <2>1, <2>8 DEF Compile, Goes, world, request, cached, PcValues
  <2>9. CASE CompileFails(p)
    BY <1>2, <2>1, <2>9 DEF CompileFails, Returns, Goes, world, request, cached, PcValues
  <2>10. CASE Store(p)
    BY <1>2, <2>1, <2>10 DEF Store, Hold, Goes, world, request, cached, PcValues
  <2>11. CASE StoreFails(p)
    BY <1>2, <2>1, <2>11 DEF StoreFails, Goes, world, request, cached, PcValues
  <2>12. CASE Finish(p)
    BY <1>2, <2>1, <2>12 DEF Finish, Returns, Goes, world, request, cached, PcValues
  <2>13. CASE Restore(p)
    BY <1>2, <2>1, <2>13 DEF Restore, Returns, Goes, world, request, cached, PcValues
  <2>14. CASE Unhold(p)
    BY <1>2, <2>1, <2>14 DEF Unhold, Goes, world, request, cached, PcValues
  <2>15. CASE GcExpires(p)
    BY <1>2, <2>1, <2>15 DEF GcExpires, Goes, world, request, cached, PcValues
  <2>16. CASE GcDeletes(p)
    BY <1>2, <2>1, <2>16 DEF GcDeletes, Goes, world, request, cached, PcValues
  <2>17. CASE Clear(p)
    BY <1>2, <2>1, <2>17 DEF Clear, Goes, world, request, cached, PcValues
  <2>18. CASE Enable(p)
    BY <1>2, <2>1, <2>18 DEF Enable, Goes, world, request, cached, PcValues
  <2>19. CASE Crash(p)
    BY <1>2, <2>1, <2>19 DEF Crash, Returns, Goes, world, request, cached, PcValues
  <2>20. CASE LookupBails(p)
    BY <1>2, <2>1, <2>20 DEF LookupBails, Returns, Goes, world, request, cached, PcValues
  <2> QED
    BY <2>2, <2>3, <2>4, <2>5, <2>6, <2>7, <2>8, <2>9, <2>10, <2>11, <2>12, <2>13, <2>14, <2>15, <2>16, <2>17, <2>18, <2>19, <2>20 DEF Step
<1>4. /\ compiler' \in [Procs -> [file : Files \cup {None}, mtime : Nat,
                                  md5 : Sources \cup {None}, code : Sources \cup {None}]]
      /\ seen' \in [Procs -> SUBSET Sources]
  <2>1. CASE \E f \in Files : Include(p, f)
    <3>1. PICK f \in Files : Include(p, f)
      BY <2>1
    <3>2. disk[f].source \in Sources /\ disk[f].mtime \in Nat
      BY DEF Control, Types
    <3> QED
      BY <3>1, <3>2 DEF Include, Idle, Control, Types
  <2>2. CASE UNCHANGED <<compiler, seen>>
    BY <2>2 DEF Control, Types
  <2>3. CASE Returns(p)
    BY <2>3 DEF Returns, Idle, Control, Types
  <2>4. CASE GoCompile(p) \/ Compile(p)
    <3>1. compiler[p].file \in Files
      BY <2>4 DEF GoCompile, Compile, Goes, Control, Looks
    <3>2. \E c \in Sources : \/ compiler' = [compiler EXCEPT ![p].md5 = c]
                            \/ compiler' = [compiler EXCEPT ![p].code = c]
      BY <2>4, <3>1 DEF GoCompile, Compile, Digest, Control, Types
    <3>3. UNCHANGED seen
      BY <2>4 DEF GoCompile, Compile
    <3>4. PICK c \in Sources : \/ compiler' = [compiler EXCEPT ![p].md5 = c]
                              \/ compiler' = [compiler EXCEPT ![p].code = c]
      BY <3>2
    <3>5. compiler \in [Procs -> [file : Files \cup {None}, mtime : Nat,
                                 md5 : Sources \cup {None}, code : Sources \cup {None}]]
      BY DEF Control, Types
    <3>6. CASE compiler' = [compiler EXCEPT ![p].md5 = c]
      BY <3>3, <3>5, <3>6 DEF Control, Types
    <3>7. CASE compiler' = [compiler EXCEPT ![p].code = c]
      BY <3>3, <3>5, <3>7 DEF Control, Types
    <3> QED
      BY <3>4, <3>6, <3>7
  <2>5. (\E f \in Files : Include(p, f)) \/ UNCHANGED <<compiler, seen>> \/ Returns(p) \/ GoCompile(p) \/ Compile(p)
    BY DEF Step, Begin, Hit, Share, GiveUp, LookupBails, CompileFails, Store, StoreFails, Finish, Restore, Unhold,
           GcExpires, GcDeletes, Clear, Enable, Crash, request
  <2> QED
    BY <2>1, <2>2, <2>3, <2>4, <2>5
<1> QED
  BY <1>1, <1>3, <1>4 DEF Control, Types

\* Where a process goes, and what that does to its times and the flag.
LEMMA StepControl ==
    ASSUME Undisturbed, Control, Compiles, Good(shm), NEW p \in Procs, Step(p)
    PROVE  Times' /\ HoldsBounded' /\ OneCompiles' /\ Looks'
<1>1. Alone(p) /\ disk' = disk /\ now' = now
  BY StepAlone DEF Control
<1>2. /\ holds' \in [Procs -> Seq(Addrs)]
      /\ \/ holds' = holds /\ ~Crash(p) /\ ~Unhold(p)
         \/ holds'[p] = << >>
         \/ pc[p] \in {"lookup", "store"} /\ Len(holds'[p]) = Len(holds[p]) + 1
  BY StepHolds
<1>3. now \in Nat /\ request_time[p] \in Nat /\ request_time[p] <= now /\ Window \in Nat /\ Window > 0
      /\ Len(holds[p]) \in Nat /\ MaxHolds \in Nat /\ Len(<< >>) = 0
  BY RealSizes, CacherAssumption, LenProperties, EmptySeq DEF Control, Types, Times
<1>4. /\ request_time'[p] <= now /\ (pc'[p] # "idle" => now < request_time'[p] + Window)
      /\ pc[p] \in Compiling /\ pc'[p] \in Compiling => request_time'[p] = request_time[p]
  <2>1. /\ pc \in [Procs -> PcValues] /\ request_time \in [Procs -> Nat]
        /\ pc[p] # "idle" => now < request_time[p] + Window
    BY DEF Control, Types, Times
  <2>2. CASE Begin(p)
    BY <1>3, <2>1, <2>2 DEF Begin, Compiling, Goes, At, request
  <2>3. CASE \E f \in Files : Include(p, f)
    BY <1>3, <2>1, <2>3 DEF Include, Compiling, Goes, At, request
  <2>4. CASE Hit(p)
    BY <1>3, <2>1, <2>4 DEF Hit, Hold, Compiling, Goes, At, request
  <2>5. CASE Share(p)
    BY <1>3, <2>1, <2>5 DEF Share, Hold, Compiling, Goes, At, request
  <2>6. CASE GiveUp(p)
    BY <1>3, <2>1, <2>6 DEF GiveUp, Returns, Compiling, Goes, At, request
  <2>7. CASE GoCompile(p)
    BY <1>3, <2>1, <2>7 DEF GoCompile, Compiling, Goes, At, request
  <2>8. CASE Compile(p)
    BY <1>3, <2>1, <2>8 DEF Compile, Compiling, Goes, At, request
  <2>9. CASE CompileFails(p)
    BY <1>3, <2>1, <2>9 DEF CompileFails, Returns, Compiling, Goes, At, request
  <2>10. CASE Store(p)
    BY <1>3, <2>1, <2>10 DEF Store, Hold, Compiling, Goes, At, request
  <2>11. CASE StoreFails(p)
    BY <1>3, <2>1, <2>11 DEF StoreFails, Compiling, Goes, At, request
  <2>12. CASE Finish(p)
    BY <1>3, <2>1, <2>12 DEF Finish, Returns, Compiling, Goes, At, request
  <2>13. CASE Restore(p)
    BY <1>3, <2>1, <2>13 DEF Restore, Returns, Compiling, Goes, At, request
  <2>14. CASE Unhold(p)
    BY <1>3, <2>1, <2>14 DEF Unhold, Compiling, Goes, At, request
  <2>15. CASE GcExpires(p)
    BY <1>3, <2>1, <2>15 DEF GcExpires, Compiling, Goes, At, request
  <2>16. CASE GcDeletes(p)
    BY <1>3, <2>1, <2>16 DEF GcDeletes, Compiling, Goes, At, request
  <2>17. CASE Clear(p)
    BY <1>3, <2>1, <2>17 DEF Clear, Compiling, Goes, At, request
  <2>18. CASE Enable(p)
    BY <1>3, <2>1, <2>18 DEF Enable, Compiling, Goes, At, request
  <2>19. CASE Crash(p)
    BY <1>3, <2>1, <2>19 DEF Crash, Returns, Compiling, Goes, At, request
  <2>20. CASE LookupBails(p)
    BY <1>3, <2>1, <2>20 DEF LookupBails, Returns, Compiling, Goes, At, request
  <2> QED
    BY <2>2, <2>3, <2>4, <2>5, <2>6, <2>7, <2>8, <2>9, <2>10, <2>11, <2>12, <2>13, <2>14, <2>15, <2>16, <2>17, <2>18, <2>19, <2>20 DEF Step
<1>5. Times'
  BY <1>1, <1>4 DEF Times, Alone, Control
<1>6. HoldsBounded'
  <2>1. /\ Len(holds[p]) <= MaxHolds /\ (pc[p] \in {"lookup", "compile", "store"} => Len(holds[p]) < MaxHolds)
        /\ pc[p] \in {"idle", "expire", "delete"} => holds[p] = << >>
    BY DEF Control, HoldsBounded
  <2>2. Len(holds'[p]) <= MaxHolds
    BY <1>2, <1>3, <2>1
  <2>3. /\ pc'[p] \in {"lookup", "compile", "store"} => pc[p] \in {"lookup", "compile"} \/ Len(holds[p]) < MaxHolds
        /\ pc'[p] \in {"lookup", "compile", "store"} => holds' = holds
        /\ pc'[p] \in {"idle", "expire", "delete"} => pc[p] \in {"expire", "delete"} \/ Unhold(p) \/ Crash(p)
    BY DEF Step, Begin, Include, Hit, Share, GiveUp, LookupBails, GoCompile, Compile, CompileFails, Store, StoreFails,
           Finish, Restore, Unhold, GcExpires, GcDeletes, Clear, Enable, Crash, Goes, At, Control, Types,
           request, world
  <2>4. pc'[p] \in {"lookup", "compile", "store"} => Len(holds'[p]) < MaxHolds
    BY <2>1, <2>3
  <2>5. Unhold(p) \/ Crash(p) => holds'[p] = << >>
    BY DEF Unhold, Crash, Control, Types
  <2>6. pc'[p] \in {"idle", "expire", "delete"} => holds'[p] = << >>
    BY <1>2, <2>1, <2>3, <2>5
  <2> QED
    BY <1>1, <2>2, <2>4, <2>6 DEF HoldsBounded, Alone, Control
<1>7. OneCompiles'
  <2>1. CASE GoCompile(p)
    <3>1. ~(request_time[p] - compiling < Window) /\ compiling' = request_time[p] /\ request_time' = request_time
      BY <2>1 DEF GoCompile, FlagFree, OthersCompile
    <3>2. ASSUME NEW q \in Procs, pc[q] \in Compiling PROVE FALSE
      <4>1. compiling = request_time[q] /\ pc[q] # "idle"
        BY <3>2 DEF Control, OneCompiles, Compiling
      <4>2. now < request_time[q] + Window /\ request_time[q] \in Nat
        BY <4>1 DEF Control, Times, Types
      <4> QED
        BY <1>3, <3>1, <4>1, <4>2
    <3> QED
      BY <1>1, <3>1, <3>2 DEF OneCompiles, Alone
  <2>2. CASE CompileFails(p) \/ Finish(p)
    <3>1. pc[p] \in Compiling /\ pc'[p] \notin Compiling
      BY <2>2 DEF CompileFails, Finish, Goes, Compiling, Control, Types
    <3> QED
      BY <1>1, <3>1 DEF OneCompiles, Alone, Control
  <2>3. CASE LookupBails(p)
    <3>1. (\A q \in Procs : pc[q] \notin Compiling) /\ pc'[p] = "run"
      BY <2>3 DEF LookupBails, Goes, Control, Types
    <3> QED
      BY <1>1, <3>1 DEF OneCompiles, Alone, Compiling
  <2>4. CASE ~(GoCompile(p) \/ LookupBails(p) \/ CompileFails(p) \/ Finish(p))
    <3>1. compiling' = compiling /\ (pc'[p] \in Compiling => pc[p] \in Compiling)
      <4>1. pc \in [Procs -> PcValues]
        BY DEF Control, Types
      <4>2. CASE Begin(p)
        BY <4>1, <4>2 DEF Begin, Goes, At, Compiling, cached, request
      <4>3. CASE \E f \in Files : Include(p, f)
        BY <4>1, <4>3 DEF Include, Goes, At, Compiling, cached, request
      <4>4. CASE Hit(p)
        BY <4>1, <4>4 DEF Hit, Hold, Goes, At, Compiling, cached, request
      <4>5. CASE Share(p)
        BY <4>1, <4>5 DEF Share, Hold, Goes, At, Compiling, cached, request
      <4>6. CASE GiveUp(p)
        BY <4>1, <4>6 DEF GiveUp, Returns, Goes, At, Compiling, cached, request
      <4>7. CASE Compile(p)
        BY <4>1, <4>7 DEF Compile, Goes, At, Compiling, cached, request
      <4>8. CASE Store(p)
        BY <4>1, <4>8 DEF Store, Hold, Goes, At, Compiling, cached, request
      <4>9. CASE StoreFails(p)
        BY <4>1, <4>9 DEF StoreFails, Goes, At, Compiling, cached, request
      <4>10. CASE Restore(p)
        BY <4>1, <4>10 DEF Restore, Returns, Goes, At, Compiling, cached, request
      <4>11. CASE Unhold(p)
        BY <4>1, <4>11 DEF Unhold, Goes, At, Compiling, cached, request
      <4>12. CASE GcExpires(p)
        BY <4>1, <4>12 DEF GcExpires, Goes, At, Compiling, cached, request
      <4>13. CASE GcDeletes(p)
        BY <4>1, <4>13 DEF GcDeletes, Goes, At, Compiling, cached, request
      <4>14. CASE Clear(p)
        BY <4>1, <4>14 DEF Clear, Goes, At, Compiling, cached, request
      <4>15. CASE Enable(p)
        BY <4>1, <4>15 DEF Enable, Goes, At, Compiling, cached, request
      <4>16. CASE Crash(p)
        BY <4>1, <4>16 DEF Crash, Returns, Goes, At, Compiling, cached, request
      <4> QED
        BY <2>4, <4>2, <4>3, <4>4, <4>5, <4>6, <4>7, <4>8, <4>9, <4>10, <4>11, <4>12, <4>13, <4>14, <4>15, <4>16 DEF Step
    <3> QED
      BY <1>1, <1>4, <3>1 DEF OneCompiles, Alone, Control
  <2> QED
    BY <2>1, <2>2, <2>3, <2>4
<1>8. Looks'
  <2>1. CASE \E f \in Files : Include(p, f)
    <3>1. PICK f \in Files : Include(p, f)
      BY <2>1
    <3>2. disk[f].mtime \in Nat
      BY DEF Control, Types
    <3>3. compiler'[p].file = f /\ compiler'[p].mtime = disk[f].mtime /\ seen'[p] = {disk[f].source}
      BY <3>1 DEF Include, Idle, Control, Types
    <3>4. UNCHANGED disk
      BY <3>1 DEF Include, world
    <3>5. ASSUME NEW q \in Procs, q # p
          PROVE  pc'[q] = pc[q] /\ compiler'[q] = compiler[q] /\ seen'[q] = seen[q]
      BY <1>1, <3>5 DEF Alone
    <3>6. SUFFICES ASSUME NEW q \in Procs
          PROVE  /\ pc'[q] \in {"lookup", "compile", "store", "stored", "restore"} => seen'[q] # {}
                 /\ seen'[q] # {} => /\ compiler'[q].file \in Files
                                    /\ compiler'[q].mtime <= disk[compiler'[q].file].mtime
                                    /\ disk[compiler'[q].file].source \in seen'[q]
      BY <3>4 DEF Looks
    <3>7. CASE q = p
      BY <3>2, <3>3, <3>7
    <3>8. CASE q # p
      BY <3>5, <3>8 DEF Looks, Control
    <3> QED
      BY <3>7, <3>8
  <2>2. CASE Returns(p)
    <3>1. seen'[p] = {} /\ pc'[p] \notin {"lookup", "compile", "store", "stored", "restore"}
      BY <2>2 DEF Returns, Step, Begin, Include, Hit, Share, GiveUp, LookupBails, GoCompile, Compile, CompileFails, Store,
           StoreFails, Finish, Restore, Unhold, GcExpires, GcDeletes, Clear, Enable, Crash, Goes, At, Control, Types,
           Looks, request, world
    <3> QED
      BY <1>1, <3>1 DEF Looks, Alone, Control
  <2>3. CASE ~Returns(p) /\ ~ \E f \in Files : Include(p, f)
    <3>1. /\ seen'[p] = seen[p] /\ compiler'[p].file = compiler[p].file /\ compiler'[p].mtime = compiler[p].mtime
          /\ pc'[p] \in {"lookup", "compile", "store", "stored", "restore"}
               => pc[p] \in {"lookup", "compile", "store", "stored", "restore"}
      BY <2>3 DEF Step, Begin, Hit, Share, GiveUp, LookupBails, GoCompile, Compile, CompileFails, Store,
           StoreFails, Finish, Restore, Unhold, GcExpires, GcDeletes, Clear, Enable, Crash, Goes, At, Control, Types,
           request
    <3> QED
      BY <1>1, <3>1 DEF Looks, Alone, Control
  <2> QED
    BY <2>1, <2>2, <2>3
<1> QED
  BY <1>5, <1>6, <1>7, <1>8
-----------------------------------------------------------------------------
\* What is being compiled is still what it was.
LEMMA ReadyKept ==
    ASSUME Compiles, Memory(shm, {}), Memory(shm', {}), Fewer(shm, shm'), disk' = disk, SeenKept,
           NEW q \in Procs, pc'[q] = pc[q], compiler'[q] = compiler[q], pc[q] \in {"compile", "store"}
    PROVE  /\ compiler'[q].md5 \in Sources /\ WithDigest(shm', compiler'[q].md5) = {}
           /\ Version(compiler[q].file, compiler[q].mtime, compiler[q].md5)'
           /\ pc'[q] = "compile" => compiler'[q].md5 = disk'[compiler'[q].file].source
           /\ pc'[q] = "store" => compiler'[q].code = compiler'[q].md5
<1> DEFINE m == compiler[q].md5
<1>1. /\ m \in Sources /\ WithDigest(shm, m) = {} /\ Version(compiler[q].file, compiler[q].mtime, m)
      /\ pc[q] = "compile" => m = disk[compiler[q].file].source
      /\ pc[q] = "store" => compiler[q].code = m
  BY DEF Compiles
<1>2. WithDigest(shm', m) = {}
  <2>1. Range(shm.phps) = DOMAIN shm.php /\ Range(shm'.phps) = DOMAIN shm'.php
    BY DEF Memory, Chained
  <2> QED
    BY <1>1, <2>1 DEF Fewer, WithDigest
<1>3. Version(compiler[q].file, compiler[q].mtime, m)'
  <2>1. PICK f, g, c : f = compiler[q].file /\ g = compiler[q].mtime /\ c = m
    OBVIOUS
  <2>2. Version(f, g, c)'
    BY <1>1, <2>1, VersionKept
  <2> QED
    BY <2>1, <2>2 DEF Version
<1> QED
  BY <1>1, <1>2, <1>3

LEMMA StepCompiles ==
    ASSUME Control, Compiles, Good(shm), NEW p \in Procs, Step(p), Good(shm)', OneCompiles'
    PROVE  Compiles'
<1>1. Alone(p) /\ disk' = disk
  BY StepAlone DEF Control
<1>2. Memory(shm, {}) /\ Memory(shm', {})
  BY DEF Good
<1>3. CASE Store(p)
  <2>1. pc[p] = "store" /\ pc'[p] \notin {"compile", "store"}
    BY <1>3 DEF Store, Goes, Control, Types
  <2>2. \A q \in Procs : q # p => pc'[q] \notin {"compile", "store"}
    BY <1>1, <2>1 DEF Control, OneCompiles, Compiling, Alone
  <2> QED
    BY <2>1, <2>2 DEF Compiles
<1>4. CASE ~Store(p)
  <2>1. Fewer(shm, shm')
    <3>1. CASE Hit(p)
      BY <3>1, HitGood DEF Fewer
    <3>2. CASE Share(p)
      BY <3>2, ShareGood
    <3>3. CASE Unhold(p)
      <4>1. shm'.php = shm.php
        BY <1>2, <3>3 DEF Unhold, Memory, Shm, Fields
      <4> QED
        BY <4>1 DEF Fewer
    <3>4. CASE Crash(p)
      BY <3>4 DEF Crash, Fewer
    <3>5. CASE Quietly(p)
      BY <3>5, QuietMemory
    <3> QED
      BY <1>4, <3>1, <3>2, <3>3, <3>4, <3>5 DEF Step, Quietly
  <2>2. SeenKept
    <3>1. seen'[p] # {} =>
            \/ /\ compiler'[p].file = compiler[p].file /\ compiler'[p].mtime = compiler[p].mtime
               /\ seen'[p] = seen[p]
            \/ /\ compiler'[p].mtime = disk[compiler'[p].file].mtime
               /\ disk[compiler'[p].file].source \in seen'[p]
      <4>1. CASE \E f \in Files : Include(p, f)
        BY <4>1 DEF Include, Idle, Control, Types
      <4>2. CASE Returns(p)
        BY <4>2 DEF Returns, Control, Types
      <4>3. CASE UNCHANGED <<compiler, seen>>
        BY <4>3
      <4>4. CASE GoCompile(p) \/ Compile(p)
        BY <4>4 DEF GoCompile, Compile, Control, Types
      <4> QED
        BY <4>1, <4>2, <4>3, <4>4
        DEF Step, Begin, Hit, Share, GiveUp, LookupBails, CompileFails, Store, StoreFails, Finish, Restore, Unhold,
            GcExpires, GcDeletes, Clear, Enable, Crash, request
    <3> QED
      BY <1>1, <3>1 DEF SeenKept, Alone
  <2>3. ASSUME NEW q \in Procs, q # p, pc'[q] \in {"compile", "store"}
        PROVE  /\ compiler'[q].md5 \in Sources /\ WithDigest(shm', compiler'[q].md5) = {}
               /\ Version(compiler[q].file, compiler[q].mtime, compiler[q].md5)'
               /\ pc'[q] = "compile" => compiler'[q].md5 = disk'[compiler'[q].file].source
               /\ pc'[q] = "store" => compiler'[q].code = compiler'[q].md5
    <3>1. pc'[q] = pc[q] /\ compiler'[q] = compiler[q]
      BY <1>1, <2>3 DEF Alone
    <3> QED
      BY <1>1, <1>2, <2>1, <2>2, <2>3, <3>1, ReadyKept
  <2>4. ASSUME pc'[p] \in {"compile", "store"}
        PROVE  /\ compiler'[p].md5 \in Sources /\ WithDigest(shm', compiler'[p].md5) = {}
               /\ Version(compiler[p].file, compiler[p].mtime, compiler[p].md5)'
               /\ pc'[p] = "compile" => compiler'[p].md5 = disk'[compiler'[p].file].source
               /\ pc'[p] = "store" => compiler'[p].code = compiler'[p].md5
    <3>1. CASE GoCompile(p)
      <4>1. /\ pc[p] = "lookup" /\ shm' = Missed(p) /\ WithDigest(Missed(p), Digest(p)) = {}
            /\ compiler' = [compiler EXCEPT ![p].md5 = Digest(p)] /\ pc' = [pc EXCEPT ![p] = "compile"]
        BY <3>1 DEF GoCompile, Goes
      <4>2. /\ compiler'[p].md5 = Digest(p) /\ compiler'[p].file = compiler[p].file
            /\ compiler'[p].mtime = compiler[p].mtime /\ pc'[p] = "compile"
        BY <4>1 DEF Control, Types
      <4>3. compiler[p].file \in Files /\ Version(compiler[p].file, compiler[p].mtime, Digest(p))
        BY <4>1, DigestVersion DEF Control
      <4>4. Digest(p) \in Sources /\ Digest(p) = disk[compiler[p].file].source
        BY <4>3 DEF Digest, Control, Types
      <4>5. PICK f, g, c : f = compiler[p].file /\ g = compiler[p].mtime /\ c = Digest(p)
        OBVIOUS
      <4>6. Version(f, g, c)'
        BY <1>1, <2>2, <4>3, <4>5, VersionKept
      <4>7. Version(compiler[p].file, compiler[p].mtime, compiler[p].md5)'
        BY <4>2, <4>5, <4>6 DEF Version
      <4> QED
        BY <1>1, <4>1, <4>2, <4>4, <4>7
    <3>2. CASE Compile(p)
      <4>1. /\ pc[p] = "compile" /\ pc' = [pc EXCEPT ![p] = "store"] /\ shm' = shm
            /\ compiler' = [compiler EXCEPT ![p].code = disk[compiler[p].file].source]
        BY <3>2 DEF Compile, Goes
      <4>2. /\ compiler[p].md5 \in Sources /\ WithDigest(shm, compiler[p].md5) = {}
            /\ Version(compiler[p].file, compiler[p].mtime, compiler[p].md5)
            /\ compiler[p].md5 = disk[compiler[p].file].source
        BY <4>1 DEF Compiles
      <4>3. /\ compiler'[p].md5 = compiler[p].md5 /\ compiler'[p].file = compiler[p].file
            /\ compiler'[p].mtime = compiler[p].mtime /\ pc'[p] = "store"
            /\ compiler'[p].code = disk[compiler[p].file].source
        BY <4>1 DEF Control, Types
      <4>5. PICK f, g, c : f = compiler[p].file /\ g = compiler[p].mtime /\ c = compiler[p].md5
        OBVIOUS
      <4>6. Version(f, g, c)'
        BY <1>1, <2>2, <4>2, <4>5, VersionKept
      <4>7. Version(compiler[p].file, compiler[p].mtime, compiler[p].md5)'
        BY <4>3, <4>5, <4>6 DEF Version
      <4> QED
        BY <4>1, <4>2, <4>3, <4>7
    <3>3. CASE ~(GoCompile(p) \/ Compile(p))
      <4>1. pc'[p] = pc[p] /\ compiler'[p] = compiler[p]
        <5>1. pc \in [Procs -> PcValues]
          BY DEF Control, Types
        <5>2. CASE Enable(p)
          BY <5>2 DEF Enable, request
        <5>3. CASE ~Enable(p)
          BY <1>4, <2>4, <3>3, <5>1, <5>3
          DEF Step, Begin, Include, Hit, Share, GiveUp, LookupBails, CompileFails, StoreFails, Finish, Restore, Unhold,
              GcExpires, GcDeletes, Clear, Crash, Goes, At
        <5> QED
          BY <5>2, <5>3
      <4>2. pc[p] \in {"compile", "store"}
        BY <2>4, <4>1
      <4> QED
        BY <1>1, <1>2, <2>1, <2>2, <4>1, <4>2, ReadyKept
    <3> QED
      BY <3>1, <3>2, <3>3
  <2> QED
    BY <2>3, <2>4 DEF Compiles
<1> QED
  BY <1>3, <1>4

LEMMA StepGood ==
    ASSUME Control, Compiles, Good(shm), NEW p \in Procs, Step(p)
    PROVE  Good(shm)'
<1>1. CASE Hit(p)
  BY <1>1, HitGood
<1>2. CASE Share(p)
  BY <1>2, ShareGood
<1>3. CASE Store(p)
  BY <1>3, StoreGood
<1>4. CASE Unhold(p)
  BY <1>4, UnholdGood DEF Control
<1>5. CASE Crash(p)
  BY <1>5, CrashGood DEF Control
<1>6. CASE Quietly(p)
  BY <1>6, QuietGood
<1> QED
  BY <1>1, <1>2, <1>3, <1>4, <1>5, <1>6 DEF Step, Quietly

LEMMA EditKeeps ==
    ASSUME Timely, Control, Compiles, Good(shm), NEW f \in Files, NEW n \in Sources, Edit(f, n)
    PROVE  Control' /\ Compiles' /\ Good(shm)'
<1>1. /\ disk' = [disk EXCEPT ![f] = [source |-> n, mtime |-> now]]
      /\ UNCHANGED <<shm, cached, pc, request_time, compiler, holds, now, crashes>>
      /\ seen' = [p \in Procs |-> IF compiler[p].file = f /\ seen[p] # {} THEN seen[p] \cup {n} ELSE seen[p]]
      /\ \A p \in Procs : ~(pc[p] = "compile" /\ compiler[p].file = f)
  BY DEF Edit, Quiet, At
<1>2. disk'[f] = [source |-> n, mtime |-> now] /\ \A g \in Files : g # f => disk'[g] = disk[g]
  BY <1>1 DEF Control, Types
<1>3. Types'
  <2>1. [source |-> n, mtime |-> now] \in [source : Sources, mtime : Nat]
    BY DEF Control, Types
  <2>2. disk' \in [Files -> [source : Sources, mtime : Nat]]
    BY <1>1, <2>1 DEF Control, Types
  <2>3. seen' \in [Procs -> SUBSET Sources]
    BY <1>1 DEF Control, Types
  <2> QED
    BY <1>1, <2>2, <2>3 DEF Control, Types, cached
<1>4. now \in Nat /\ \A g \in Files : disk[g].mtime <= now /\ disk[g].mtime \in Nat
  BY DEF Control, Types, Times
<1>5. \A g \in Files : disk'[g].mtime <= now /\ disk[g].mtime <= disk'[g].mtime /\ disk'[g].mtime \in Nat
  <2> SUFFICES ASSUME NEW g \in Files
               PROVE  disk'[g].mtime <= now /\ disk[g].mtime <= disk'[g].mtime /\ disk'[g].mtime \in Nat
    OBVIOUS
  <2>1. CASE g = f
    BY <1>2, <1>4, <2>1
  <2>2. CASE g # f
    BY <1>2, <1>4, <2>2
  <2> QED
    BY <2>1, <2>2
<1>6. Times'
  BY <1>1, <1>5 DEF Control, Times
<1>7. HoldsBounded' /\ OneCompiles'
  BY <1>1 DEF Control, HoldsBounded, OneCompiles, cached
<1>8. Looks'
  <2> SUFFICES ASSUME NEW p \in Procs
               PROVE  /\ pc[p] \in {"lookup", "compile", "store", "stored", "restore"} => seen'[p] # {}
                      /\ seen'[p] # {} => /\ compiler[p].file \in Files
                                          /\ compiler[p].mtime <= disk'[compiler[p].file].mtime
                                          /\ disk'[compiler[p].file].source \in seen'[p]
    BY <1>1 DEF Looks
  <2>1. /\ pc[p] \in {"lookup", "compile", "store", "stored", "restore"} => seen[p] # {}
        /\ seen[p] # {} => /\ compiler[p].file \in Files /\ compiler[p].mtime <= disk[compiler[p].file].mtime
                           /\ disk[compiler[p].file].source \in seen[p]
    BY DEF Control, Looks
  <2>2. (seen'[p] # {} <=> seen[p] # {}) /\ seen[p] \subseteq seen'[p]
        /\ (compiler[p].file = f /\ seen[p] # {} => n \in seen'[p])
    BY <1>1
  <2>3. compiler[p].mtime \in Nat
    BY DEF Control, Types
  <2>4. ASSUME seen[p] # {}
        PROVE  /\ compiler[p].mtime <= disk'[compiler[p].file].mtime
               /\ disk'[compiler[p].file].source \in seen'[p]
    <3>1. compiler[p].mtime <= disk'[compiler[p].file].mtime
      BY <1>4, <1>5, <2>1, <2>3, <2>4
    <3>2. CASE compiler[p].file = f
      BY <1>2, <2>2, <2>4, <3>1, <3>2
    <3>3. CASE compiler[p].file # f
      BY <1>2, <2>1, <2>2, <2>4, <3>1, <3>3
    <3> QED
      BY <3>2, <3>3
  <2> QED
    BY <2>1, <2>2, <2>4
<1>9. Compiles'
  <2> SUFFICES ASSUME NEW p \in Procs, pc[p] \in {"compile", "store"}
               PROVE  /\ compiler[p].md5 \in Sources /\ WithDigest(shm, compiler[p].md5) = {}
                      /\ Version(compiler[p].file, compiler[p].mtime, compiler[p].md5)'
                      /\ pc[p] = "compile" => compiler[p].md5 = disk'[compiler[p].file].source
                      /\ pc[p] = "store" => compiler[p].code = compiler[p].md5
    BY <1>1 DEF Compiles
  <2>1. /\ compiler[p].md5 \in Sources /\ WithDigest(shm, compiler[p].md5) = {}
        /\ Version(compiler[p].file, compiler[p].mtime, compiler[p].md5)
        /\ pc[p] = "compile" => compiler[p].md5 = disk[compiler[p].file].source
        /\ pc[p] = "store" => compiler[p].code = compiler[p].md5
    BY DEF Compiles
  <2>2. compiler[p].file \in Files /\ compiler[p].mtime \in Nat
    BY DEF Control, Looks, Types
  <2>3. PICK g, m, c : g = compiler[p].file /\ m = compiler[p].mtime /\ c = compiler[p].md5
    OBVIOUS
  <2>4. Version(g, m, c)'
    BY <2>1, <2>2, <2>3, EditVersion DEF Control
  <2>5. Version(compiler[p].file, compiler[p].mtime, compiler[p].md5)'
    BY <1>1, <2>3, <2>4 DEF Version
  <2> QED
    BY <1>1, <1>2, <2>1, <2>2, <2>5
<1>10. Good(shm)'
  BY EditGood DEF Control
<1> QED
  BY <1>3, <1>6, <1>7, <1>8, <1>9, <1>10 DEF Control

LEMMA TickKeeps ==
    ASSUME Timely, Control, Compiles, Good(shm), Tick
    PROVE  Control' /\ Compiles' /\ Good(shm)'
<1>1. /\ now' = now + 1 /\ UNCHANGED <<shm, cached, request, disk, crashes>>
      /\ \A p \in Procs : pc[p] = "idle" \/ now + 1 - request_time[p] < Window
  BY DEF Tick, Short, At
<1>2. UNCHANGED <<shm, pc, request_time, compiler, holds, seen, disk, crashes>>
      /\ UNCHANGED <<compiling, disabled, last_gc_expires, last_gc_deletes>>
  BY <1>1 DEF request, cached
<1>3. now \in Nat /\ Window \in Nat /\ \A p \in Procs : request_time[p] \in Nat /\ request_time[p] <= now
  BY RealSizes DEF Control, Types, Times
<1>4. Types'
  BY <1>1, <1>2 DEF Control, Types
<1>5. Times'
  <2>1. \A g \in Files : disk[g].mtime <= now /\ disk[g].mtime \in Nat
    BY DEF Control, Types, Times
  <2> QED
    BY <1>1, <1>2, <1>3, <2>1 DEF Times
<1>6. HoldsBounded' /\ OneCompiles' /\ Looks'
  BY <1>2 DEF Control, HoldsBounded, OneCompiles, Looks
<1>7. Compiles' /\ Good(shm)'
  BY <1>2 DEF Compiles, Version, Good, Versions, HoldsKept, HoldersOf, InHand
<1> QED
  BY <1>4, <1>5, <1>6, <1>7 DEF Control

LEMMA Initially ==
    ASSUME Init
    PROVE  Control /\ Compiles /\ Good(shm)
<1>1. Window \in Nat /\ Window > 0 /\ MaxHolds \in Nat /\ Len(<< >>) = 0
  BY RealSizes, CacherAssumption, EmptySeq
<1>2. Types
  <2>1. << >> \in Seq(Addrs)
    BY EmptySeq
  <2>2. compiler \in [Procs -> [file : Files \cup {None}, mtime : Nat, md5 : Sources \cup {None}, code : Sources \cup {None}]]
    BY DEF Init, Idle
  <2>3. disk \in [Files -> [source : Sources, mtime : Nat]]
    BY DEF Init
  <2> QED
    BY <1>1, <2>1, <2>2, <2>3 DEF Init, Types, PcValues
<1>3. Times /\ HoldsBounded /\ OneCompiles /\ Looks /\ Compiles
  BY <1>1 DEF Init, Times, HoldsBounded, OneCompiles, Looks, Compiles, Compiling
<1>4. /\ DOMAIN shm = Fields /\ shm.heap = InitHeap /\ shm.phps = << >> /\ shm.entries = << >>
      /\ shm.deletes = {} /\ shm.php = << >> /\ shm.entry = << >>
  BY DEF Init, Fields
<1>5. DOMAIN << >> = {} /\ << >> \in Seq(Addrs) /\ Range(<< >>) = {} /\ IsInjective(<< >>)
  BY EmptySeq DEF Range, IsInjective
<1>6. Memory(shm, {})
  <2>1. Shm(shm)
    BY <1>4, <1>5 DEF Shm
  <2>2. Stored(shm)
    BY <1>4, <1>5, InitSound DEF Stored, InitHeap
  <2>3. Chained(shm, {})
    BY <1>4, <1>5 DEF Chained
  <2>4. Coded(shm)
    BY <1>4, <1>5 DEF Coded
  <2> QED
    BY <2>1, <2>2, <2>3, <2>4 DEF Memory
<1>7. Versions(shm) /\ HoldsKept(shm) /\ InHand(shm)
  <2>1. \A p \in Procs : Range(holds[p]) = {} /\ pc[p] = "idle"
    BY <1>5 DEF Init
  <2> QED
    BY <1>4, <1>5, <2>1 DEF Versions, HoldsKept, InHand
<1> QED
  BY <1>2, <1>3, <1>6, <1>7 DEF Control, Good

(***************************************************************************)
(* The theorems.                                                           *)
(***************************************************************************)
LEMMA InvConsistent ==
    ASSUME Control, Good(shm)
    PROVE  CacheConsistent
<1>1. Memory(shm, {})
  BY DEF Good
<1>2. Ranges
  BY <1>1 DEF Ranges, Control, Types, PcValues, Memory, Shm, Addrs
<1>3. Sound(shm.heap)
  BY <1>1 DEF Memory, Stored
<1>4. Reachable
  BY <1>1 DEF Reachable, Memory, Chained, Stored, PhpBlock, EntryBlock
<1>5. PhpsCounted /\ DigestsUnique
  BY <1>1 DEF PhpsCounted, DigestsUnique, Memory, Coded, Sharers
<1>6. HoldsCounted
  BY DEF HoldsCounted, Good, HoldsKept
<1> QED
  BY <1>2, <1>3, <1>4, <1>5, <1>6 DEF CacheConsistent

LEMMA InvRight ==
    ASSUME Control, Good(shm)
    PROVE  RightCode
<1> SUFFICES ASSUME NEW p \in Procs, pc[p] = "restore"
             PROVE  shm.php[Got(p).php].code \in seen[p]
  BY DEF RightCode, At
<1> DEFINE a == holds[p][Len(holds[p])]
<1>1. holds[p] # << >> /\ shm.entry[a].file = compiler[p].file /\ shm.entry[a].mtime = compiler[p].mtime
  BY DEF Good, InHand
<1>2. a \in DOMAIN shm.entry
  BY <1>1, LastHeld DEF Good, HoldsKept, Control
<1>3. seen[p] # {}
  BY DEF Control, Looks
<1>4. Version(shm.entry[a].file, shm.entry[a].mtime, shm.php[shm.entry[a].php].code)
  BY <1>2 DEF Good, Versions
<1>5. shm.php[shm.entry[a].php].code \in seen[p]
  BY <1>1, <1>3, <1>4 DEF Version
<1> QED
  BY <1>5 DEF Got

\* The inductive invariant: the control of the processes, what is being compiled,
\* and the memory with its versions and holds.
LEMMA Inductive ==
    ASSUME Timely, Undisturbed
    PROVE  Spec => [](Control /\ Compiles /\ Good(shm))
<1>1. Init => Control /\ Compiles /\ Good(shm)
  BY Initially
<1>2. Control /\ Compiles /\ Good(shm) /\ [Next]_vars => Control' /\ Compiles' /\ Good(shm)'
  <2> SUFFICES ASSUME Control, Compiles, Good(shm), [Next]_vars
               PROVE  Control' /\ Compiles' /\ Good(shm)'
    OBVIOUS
  <2>1. ASSUME NEW p \in Procs, Step(p) PROVE Control' /\ Compiles' /\ Good(shm)'
    <3>1. Types' /\ Times' /\ HoldsBounded' /\ OneCompiles' /\ Looks'
      BY <2>1, StepTypes, StepControl
    <3>2. Good(shm)'
      BY <2>1, StepGood
    <3>3. Compiles'
      BY <2>1, <3>1, <3>2, StepCompiles
    <3> QED
      BY <3>1, <3>2, <3>3 DEF Control
  <2>2. ASSUME NEW f \in Files, NEW n \in Sources, Edit(f, n) PROVE Control' /\ Compiles' /\ Good(shm)'
    BY <2>2, EditKeeps
  <2>3. CASE Tick
    BY <2>3, TickKeeps
  <2>4. CASE UNCHANGED vars
    <3>1. /\ UNCHANGED <<shm, compiling, disabled, last_gc_expires, last_gc_deletes>>
          /\ UNCHANGED <<pc, request_time, compiler, holds, seen, disk, now, crashes>>
      BY <2>4 DEF vars, cached, request, world
    <3>2. Control'
      BY <3>1 DEF Control, Types, Times, HoldsBounded, OneCompiles, Looks
    <3>3. Compiles'
      BY <3>1 DEF Compiles, Version
    <3>4. Good(shm)'
      BY <3>1 DEF Good, Versions, Version, HoldsKept, HoldersOf, InHand
    <3> QED
      BY <3>2, <3>3, <3>4
  <2> QED
    BY <2>1, <2>2, <2>3, <2>4 DEF Next
<1> QED
  BY <1>1, <1>2, PTL DEF Spec

\* For every arena, set of processes, files and sources, ttl and gc interval, and
\* whatever dies: the chains xc_entry_find_unlocked and xc_php_find_unlocked walk
\* reach exactly the blocks in use, refcounts agree with who shares and who holds,
\* and xc_gc_deletes frees nothing a request holds, if requests end in time and no
\* bailout of a lookup (xc_cacher.c:2138) resets the flag of a process that compiles.
THEOREM ConsistentCache ==
    ASSUME Timely, Undisturbed
    PROVE  Spec => []CacheConsistent
<1>1. Control /\ Compiles /\ Good(shm) => CacheConsistent
  BY InvConsistent
<1> QED
  BY <1>1, Inductive, PTL

\* Under the same conditions xc_compile_restore gives a script the compilation of a
\* source its file has had since xc_entry_php_init_key looked at it.
THEOREM CodeIsRight ==
    ASSUME Timely, Undisturbed
    PROVE  Spec => []RightCode
<1>1. Control /\ Compiles /\ Good(shm) => RightCode
  BY InvRight
<1> QED
  BY <1>1, Inductive, PTL
=============================================================================
