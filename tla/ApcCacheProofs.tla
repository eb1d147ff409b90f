--------------------------- MODULE ApcCacheProofs ---------------------------
(***************************************************************************)
(* Theorems about ApcCache and their proofs: who is inside the lock of the *)
(* cache's header and what the busy flag says of it to those outside; and  *)
(* that every call leaves the table whole: no entry lost, none in two      *)
(* places, none taken from a process that uses it, and the counters right. *)
(***************************************************************************)
EXTENDS ApcCache, FiniteSetTheorems, SequenceTheorems, TLAPS

\* The calls in a critical section of two steps.
Inside == {p \in Procs : proc[p].pc \in {"expunging", "clearing"}}

CallsTyped == clock \in Time /\ proc \in [Procs -> Call]

\* An expunge is asked for only while a restart is left (malloc_ex).
TriesLeft == \A p \in Procs : proc[p].pc \in {"expwait", "expunging"} => proc[p].tries < 3

\* The busy flag is up exactly while one process is inside, and no other is.
FlagTellsInside == (busy => Inside # {}) /\ (Inside # {} => busy)

OneInside == \A p, q \in Inside : p = q

Inv == CallsTyped /\ TriesLeft /\ FlagTellsInside /\ OneInside

LEMMA IdleIsCall == Idle \in Call
<1>1. 0 \in Time /\ 0 \in 0 .. 3
  BY CacheAssumption DEF Time
<1> QED
  BY <1>1 DEF Idle, Call, PCs

LEMMA InitInv == Init => Inv
<1> SUFFICES ASSUME Init PROVE Inv
  OBVIOUS
<1>1. CallsTyped
  BY IdleIsCall, CacheAssumption DEF Init, CallsTyped, Time
<1>2. \A p \in Procs : proc[p].pc = "idle"
  BY DEF Init, Idle
<1>3. Inside = {}
  BY <1>2 DEF Inside
<1> QED
  BY <1>1, <1>2, <1>3 DEF Init, Inv, TriesLeft, FlagTellsInside, OneInside

(***************************************************************************)
(* The steps of a call that neither enter nor leave the inside.            *)
(***************************************************************************)
Outside == {"idle", "alloc", "expwait", "insert", "inswait", "findwait", "holding", "clrwait"}

LEMMA OutsideInv ==
    ASSUME Inv, NEW p \in Procs, NEW c \in Call, proc[p].pc \in Outside, c.pc \in Outside,
           proc' = [proc EXCEPT ![p] = c], c.pc = "expwait" => c.tries < 3,
           busy' = busy, clock' = clock
    PROVE  Inv'
<1>1. CallsTyped'
  BY DEF Inv, CallsTyped
<1>2. \A q \in Procs : proc'[q] = IF q = p THEN c ELSE proc[q]
  BY DEF Inv, CallsTyped
<1>3. Inside' = Inside
  BY <1>2 DEF Inside, Outside
<1>4. TriesLeft'
  BY <1>2 DEF Inv, TriesLeft, Outside
<1> QED
  BY <1>1, <1>3, <1>4 DEF Inv, FlagTellsInside, OneInside

\* ... or change no call at all.
LEMMA StillInv == Inv /\ UNCHANGED <<busy, proc>> /\ clock' \in Time => Inv'
  BY DEF Inv, CallsTyped, TriesLeft, FlagTellsInside, OneInside, Inside

LEMMA ReturnInv ==
    ASSUME Inv, NEW p \in Procs, proc[p].pc \in Outside, Return(p), UNCHANGED <<busy, clock>>
    PROVE  Inv'
<1>1. Idle.pc = "idle"
  BY DEF Idle
<1> QED
  BY <1>1, IdleIsCall, OutsideInv DEF Return, Outside

LEMMA GotoInv ==
    ASSUME Inv, NEW p \in Procs, NEW pc \in Outside, proc[p].pc \in Outside, Goto(p, pc),
           pc = "expwait" => proc[p].tries < 3, UNCHANGED <<busy, clock>>
    PROVE  Inv'
<1> DEFINE c == [proc[p] EXCEPT !.pc = pc]
<1>1. proc[p] \in Call
  BY DEF Inv, CallsTyped
<1>2. c \in Call /\ c.pc = pc /\ c.tries = proc[p].tries
  BY <1>1 DEF Call, PCs, Outside
<1>3. proc' = [proc EXCEPT ![p] = c]
  BY DEF Goto
<1> QED
  BY <1>2, <1>3, OutsideInv

(***************************************************************************)
(* Storing.                                                                *)
(***************************************************************************)
LEMMA StoresInv == ASSUME Inv, NEW p \in Procs, Stores(p) PROVE Inv'
<1>0. proc[p] \in Call
  BY DEF Inv, CallsTyped
<1>1. CASE Store(p)
  <2>1. PICK k \in Keys, ttl \in EntryTTLs, x \in BOOLEAN :
          proc' = [proc EXCEPT ![p] = [Idle EXCEPT !.pc = "alloc", !.key = k, !.ttl = ttl, !.excl = x]]
    BY <1>1 DEF Store
  <2>2. [Idle EXCEPT !.pc = "alloc", !.key = k, !.ttl = ttl, !.excl = x] \in Call
    BY IdleIsCall DEF Call, PCs
  <2>3. [Idle EXCEPT !.pc = "alloc", !.key = k, !.ttl = ttl, !.excl = x].pc = "alloc"
    BY DEF Idle
  <2> QED
    BY <1>1, <2>1, <2>2, <2>3, OutsideInv DEF Store, Outside
<1>2. CASE MakeEntry(p)
  <2>1. CASE Slammed(p)
    BY <1>2, <2>1, ReturnInv DEF MakeEntry, Outside
  <2>2. CASE ~Slammed(p)
    <3>1. PICK e \in Entries :
            proc' = [proc EXCEPT ![p].pc = "insert", ![p].entry = e, ![p].tries = 0]
      BY <1>2, <2>2 DEF MakeEntry
    <3> DEFINE c == [proc[p] EXCEPT !.pc = "insert", !.entry = e, !.tries = 0]
    <3>2. 0 \in 0 .. 3
      OBVIOUS
    <3>3. c \in Call
      BY <1>0, <3>2 DEF Call, PCs
    <3>4. c.pc = "insert"
      BY <1>0 DEF Call
    <3>5. proc' = [proc EXCEPT ![p] = c]
      BY <3>1 DEF Inv, CallsTyped
    <3> QED
      BY <1>2, <3>3, <3>4, <3>5, OutsideInv DEF MakeEntry, Outside
  <2> QED
    BY <2>1, <2>2
<1>3. CASE NoBlock(p)
  <2>1. CASE proc[p].tries = 3
    BY <1>3, <2>1, ReturnInv DEF NoBlock, Outside
  <2>2. proc[p].tries # 3 => proc[p].tries + 1 \in 0 .. 3 /\ proc[p].tries < 3
    BY <1>0 DEF Call
  <2>3. CASE proc[p].tries # 3 /\ busy
    <3> DEFINE c == [proc[p] EXCEPT !.tries = @ + 1]
    <3>1. c \in Call /\ c.pc = "alloc"
      BY <1>0, <1>3, <2>2, <2>3 DEF Call, NoBlock
    <3>2. proc' = [proc EXCEPT ![p] = c]
      BY <1>3, <2>3 DEF NoBlock
    <3> QED
      BY <1>3, <3>1, <3>2, OutsideInv DEF NoBlock, Outside
  <2>4. CASE proc[p].tries # 3 /\ ~busy
    BY <1>3, <2>2, <2>4, GotoInv DEF NoBlock, Outside
  <2> QED
    BY <2>1, <2>3, <2>4
<1>4. CASE InsertTests(p)
  BY <1>4, ReturnInv, GotoInv DEF InsertTests, Outside
<1>5. CASE InsertBails(p)
  BY <1>5, ReturnInv DEF InsertBails, Outside
<1>6. CASE InsertLinks(p)
  BY <1>6, ReturnInv DEF InsertLinks, Outside
<1> QED
  BY <1>1, <1>2, <1>3, <1>4, <1>5, <1>6 DEF Stores

(***************************************************************************)
(* Fetching.                                                               *)
(***************************************************************************)
LEMMA FetchesInv == ASSUME Inv, NEW p \in Procs, Fetches(p) PROVE Inv'
<1>0. proc[p] \in Call /\ clock \in Time
  BY DEF Inv, CallsTyped
<1>1. CASE Find(p)
  <2>1. PICK k \in Keys : proc' = [proc EXCEPT ![p] = [Idle EXCEPT !.pc = "findwait", !.key = k]]
    BY <1>1 DEF Find
  <2>2. [Idle EXCEPT !.pc = "findwait", !.key = k] \in Call
    BY IdleIsCall DEF Call, PCs
  <2>3. [Idle EXCEPT !.pc = "findwait", !.key = k].pc = "findwait"
    BY DEF Idle
  <2> QED
    BY <1>1, <2>1, <2>2, <2>3, OutsideInv DEF Find, Outside
<1>2. CASE Lookup(p)
  <2>1. CASE Return(p)
    BY <1>2, <2>1, ReturnInv DEF Lookup, Outside
  <2>2. CASE \E e \in Entries :
               proc' = [proc EXCEPT ![p].pc = "holding", ![p].entry = e, ![p].since = clock]
    <3>1. PICK e \in Entries :
            proc' = [proc EXCEPT ![p].pc = "holding", ![p].entry = e, ![p].since = clock]
      BY <2>2
    <3> DEFINE c == [proc[p] EXCEPT !.pc = "holding", !.entry = e, !.since = clock]
    <3>2. c \in Call /\ c.pc = "holding"
      BY <1>0 DEF Call, PCs
    <3>3. proc' = [proc EXCEPT ![p] = c]
      BY <3>1 DEF Inv, CallsTyped
    <3> QED
      BY <1>2, <3>2, <3>3, OutsideInv DEF Lookup, Outside
  <2> QED
    BY <1>2, <2>1, <2>2 DEF Lookup, Found
<1>3. CASE Release(p) \/ Abandon(p)
  BY <1>3, ReturnInv DEF Release, Abandon, Outside
<1> QED
  BY <1>1, <1>2, <1>3 DEF Fetches

(***************************************************************************)
(* The lock: whoever takes it finds nobody inside, sets the flag, and      *)
(* takes it down as it leaves.                                             *)
(***************************************************************************)
LEMMA EnterInv ==
    ASSUME Inv, NEW p \in Procs, NEW pc \in {"expunging", "clearing"}, LockFree, Goto(p, pc),
           pc = "expunging" => proc[p].tries < 3, busy' = TRUE, clock' = clock
    PROVE  Inv'
<1>1. proc[p] \in Call
  BY DEF Inv, CallsTyped
<1>2. [proc[p] EXCEPT !.pc = pc] \in Call
  BY <1>1 DEF Call, PCs
<1>3. CallsTyped'
  BY <1>2 DEF Inv, CallsTyped, Goto
<1>4. \A q \in Procs : /\ q # p => proc'[q] = proc[q]
                       /\ q = p => proc'[q].pc = pc /\ proc'[q].tries = proc[q].tries
  BY <1>1 DEF Inv, CallsTyped, Goto, Call
<1>5. Inside' = {p}
  BY <1>4 DEF Inside, LockFree
<1>6. TriesLeft'
  BY <1>4 DEF Inv, TriesLeft
<1> QED
  BY <1>3, <1>5, <1>6 DEF Inv, FlagTellsInside, OneInside

LEMMA LeaveInv ==
    ASSUME Inv, NEW p \in Procs, NEW c \in Call, p \in Inside, c.pc \in {"idle", "alloc"},
           proc' = [proc EXCEPT ![p] = c], busy' = FALSE, clock' = clock
    PROVE  Inv'
<1>1. CallsTyped'
  BY DEF Inv, CallsTyped
<1>2. \A q \in Procs : proc'[q] = IF q = p THEN c ELSE proc[q]
  BY DEF Inv, CallsTyped
<1>3. Inside' = {}
  BY <1>2 DEF Inside, Inv, OneInside
<1>4. TriesLeft'
  BY <1>2 DEF Inv, TriesLeft
<1> QED
  BY <1>1, <1>3, <1>4 DEF Inv, FlagTellsInside, OneInside

LEMMA ExpungesInv == ASSUME Inv, NEW p \in Procs, Expunges(p) PROVE Inv'
<1>0. proc[p] \in Call
  BY DEF Inv, CallsTyped
<1>1. CASE ExpungeLocks(p)
  <2>1. proc[p].tries < 3
    BY <1>1 DEF ExpungeLocks, Inv, TriesLeft
  <2> QED
    BY <1>1, <2>1, EnterInv DEF ExpungeLocks
<1>2. CASE ExpungeRuns(p)
  <2> DEFINE c == [proc[p] EXCEPT !.pc = "alloc", !.tries = @ + 1]
  <2>1. proc[p].tries < 3 /\ proc[p].tries \in 0 .. 3
    BY <1>0, <1>2 DEF ExpungeRuns, Inv, TriesLeft, Call
  <2>2. proc[p].tries + 1 \in 0 .. 3
    BY <2>1
  <2>3. c \in Call /\ c.pc = "alloc"
    BY <1>0, <2>2 DEF Call, PCs
  <2>4. proc' = [proc EXCEPT ![p] = c]
    BY <1>2 DEF ExpungeRuns, Inv, CallsTyped
  <2>5. p \in Inside
    BY <1>2 DEF ExpungeRuns, Inside
  <2> QED
    BY <1>2, <2>3, <2>4, <2>5, LeaveInv DEF ExpungeRuns
<1> QED
  BY <1>1, <1>2 DEF Expunges

LEMMA ClearsInv == ASSUME Inv, NEW p \in Procs, Clears(p) PROVE Inv'
<1>1. CASE Clear(p)
  BY <1>1, GotoInv DEF Clear, Goto, Outside
<1>2. CASE ClearLocks(p)
  BY <1>2, EnterInv DEF ClearLocks
<1>3. CASE ClearRuns(p)
  <2>1. p \in Inside /\ Idle.pc = "idle"
    BY <1>3 DEF ClearRuns, Inside, Idle
  <2> QED
    BY <1>3, <2>1, IdleIsCall, LeaveInv DEF ClearRuns, Return
<1> QED
  BY <1>1, <1>2, <1>3 DEF Clears

LEMMA NextInv == Inv /\ [Next]_vars => Inv'
<1> SUFFICES ASSUME Inv, [Next]_vars PROVE Inv'
  OBVIOUS
<1>1. CASE Tick
  <2>1. clock' \in Time
    BY <1>1, CacheAssumption DEF Tick, Inv, CallsTyped, Time
  <2> QED
    BY <1>1, <2>1, StillInv DEF Tick
<1>2. ASSUME NEW p \in Procs, NewRequest(p) \/ Delete(p) PROVE Inv'
  BY <1>2, StillInv DEF NewRequest, Delete, Inv, CallsTyped
<1>3. CASE UNCHANGED vars
  BY <1>3, StillInv DEF vars, Inv, CallsTyped
<1> QED
  BY <1>1, <1>2, <1>3, StoresInv, FetchesInv, ExpungesInv, ClearsInv DEF Next

(***************************************************************************)
(* The invariant of the lock and its flag (apc_cache_default_expunge,      *)
(* apc_cache_clear).                                                       *)
(***************************************************************************)
THEOREM Invariance == Spec => []Inv
  BY InitInv, NextInv, PTL DEF Spec

(***************************************************************************)
(* However stores, fetches, clears and expunges overlap, the busy flag is  *)
(* never left set: a process that takes the lock to expunge or to clear is *)
(* there to take it down (apc_cache_default_expunge, apc_cache_clear).     *)
(***************************************************************************)
THEOREM NeverStuckBusy == Spec => []BusyHasOwner
<1>1. Inv => BusyHasOwner
  BY DEF Inv, FlagTellsInside, Inside, BusyHasOwner
<1> QED
  BY <1>1, Invariance, PTL

(***************************************************************************)
(* The invariant of the table.  A table c, with the entries of H in the hands *)
(* of processes that store them, is tidy when its chains are well formed,  *)
(* every entry in memory is in one place, and the counters agree.          *)
(***************************************************************************)
Table == [entry : [Entries -> Entry], slots : [Buckets -> Seq(Entries)], gc : SUBSET Entries,
          nentries : Nat, memsize : Nat]

\* No position of a chain repeats an entry.
Distinct(s) == \A i, j \in DOMAIN s : s[i] = s[j] => i = j

On(s) == {s[i] : i \in DOMAIN s}

\* Chains have no entry twice, an entry is in the chain of its key, and no key
\* has two entries.
Chained(c) ==
    /\ \A b \in Buckets : Distinct(c.slots[b])
    /\ \A b \in Buckets : \A e \in On(c.slots[b]) : c.entry[e].key \in Keys /\ HashOf[c.entry[e].key] = b
    /\ \A e, f \in Linked(c) : c.entry[e].key = c.entry[f].key => e = f

\* NothingLost, of a table while the entries of H are in somebody's hands.
Accounted(c, H) ==
    /\ {e \in Entries : c.entry[e].mem > 0} = Linked(c) \cup c.gc \cup H
    /\ Linked(c) \cap c.gc = {} /\ H \cap (Linked(c) \cup c.gc) = {}

\* CountersAgree, of a table.
Counted(c) == c.nentries = Cardinality(Linked(c)) /\ c.memsize = MemOf(c, Linked(c))

Tidy(c, H) == c \in Table /\ Chained(c) /\ Accounted(c, H) /\ Counted(c)

\* What keeps an entry, found at since, where it is.
Kept(c, e, since, now) ==
    /\ e \in Linked(c) \cup c.gc /\ c.entry[e].ref > 0
    /\ e \in c.gc => c.entry[e].dtime >= since
    /\ since <= now /\ (GcTTL # 0 => now - since <= GcTTL)

\* Who has an entry in hand to insert it, and who holds an entry of the table.
Storing == {p \in Procs : proc[p].pc \in {"insert", "inswait"}}

Holding == {p \in Procs : proc[p].pc = "holding"}

Holders(e) == {p \in Procs : proc[p].pc = "holding" /\ proc[p].entry = e}

\* Each storing process has an entry of its own, with the key it stores.
HandsInv ==
    /\ \A p \in Storing : /\ proc[p].entry \in Entries /\ proc[p].key \in Keys
                          /\ cache.entry[proc[p].entry].key = proc[p].key
    /\ \A p, q \in Storing : proc[p].entry = proc[q].entry => p = q

\* HeldIsKept, and why: no entry in use leaves the table but to the gc list,
\* and none has been there for longer than a process holds it.
HoldsInv ==
    /\ \A e \in Entries : cache.entry[e].ref >= Cardinality(Holders(e))
    /\ \A p \in Procs : proc[p].pc = "holding" =>
          /\ proc[p].entry \in Entries /\ Kept(cache, proc[p].entry, proc[p].since, clock)
          /\ cache.entry[proc[p].entry].key = proc[p].key

Tended == Tidy(cache, InHand) /\ HandsInv /\ HoldsInv

\* Who was given a key keeps it until the call returns.
KeysGiven == \A p \in Procs : proc[p].pc \notin {"idle", "clrwait", "clearing"} => proc[p].key \in Keys

\* The inductive invariant: the lock and its flag, the table and its users.
CacheInv ==
    /\ Inv /\ busy \in BOOLEAN /\ rtime \in [Procs -> Time] /\ KeysGiven /\ Tended
    /\ lastkey \in [key : Keys \cup {NoKey}, mtime : Time, owner : Procs \cup {NoKey}]

\* The slot of an entry always fits into the pool of the entry: no allocation
\* expunges the table under the walk of an insertion.
PoolsHaveRoom == SlotNeeds \subseteq {"nothing"}

(***************************************************************************)
(* Chains: what unlinking leaves of one.  Without is defined by recursion; *)
(* its equation has a solution, or there were a smallest length without one. *)
(***************************************************************************)
LEMMA Smallest ==
    ASSUME NEW T, T \subseteq Nat, T # {}
    PROVE  \E n \in T : \A m \in T : n <= m
<1>1. PICK n \in T : \A m \in T : <<m, n>> \notin OpToRel(<, Nat)
  BY NatLessThanWellFounded, WFMin
<1>2. \A m \in T : ~ (m < n)
  BY <1>1 DEF OpToRel
<1> QED
  BY <1>2

\* The equation of the recursive function in Without, up to position k.
Weeds(s, D, k, w) == w = [n \in 0 .. k |-> IF n = 0 THEN <<>>
                             ELSE IF s[n] \in D THEN w[n - 1] ELSE Append(w[n - 1], s[n])]

LEMMA WeedsDefined ==
    ASSUME NEW s, NEW D, NEW k \in Nat
    PROVE  \E w : Weeds(s, D, k, w)
<1> DEFINE Bad == {n \in Nat : ~ \E w : Weeds(s, D, n, w)}
<1> SUFFICES Bad = {}
  OBVIOUS
<1> SUFFICES ASSUME Bad # {} PROVE FALSE
  OBVIOUS
<1>1. PICK n \in Bad : \A m \in Bad : n <= m
  <2>1. Bad \subseteq Nat
    OBVIOUS
  <2> HIDE DEF Bad
  <2> QED
    BY <2>1, Smallest
<1>2. n # 0
  <2>1. Weeds(s, D, 0, [m \in 0 .. 0 |-> <<>>])
    <3> DEFINE v == [m \in 0 .. 0 |-> <<>>]
    <3>1. v = [m \in 0 .. 0 |-> IF m = 0 THEN <<>> ELSE IF s[m] \in D THEN v[m - 1] ELSE Append(v[m - 1], s[m])]
      OBVIOUS
    <3> QED
      BY <3>1 DEF Weeds
  <2> QED
    BY <2>1
<1>3. PICK w : Weeds(s, D, n - 1, w)
  BY <1>1, <1>2
<1> DEFINE v == [m \in 0 .. n |-> IF m = n THEN IF s[n] \in D THEN w[n - 1] ELSE Append(w[n - 1], s[n])
                                 ELSE w[m]]
<1>4. Weeds(s, D, n, v)
  <2>1. ASSUME NEW m \in 0 .. n
        PROVE  v[m] = IF m = 0 THEN <<>> ELSE IF s[m] \in D THEN v[m - 1] ELSE Append(v[m - 1], s[m])
    <3>1. CASE m = n
      <4>1. n - 1 \in 0 .. n /\ n - 1 # n
        BY <1>2
      <4> QED
        BY <1>2, <3>1, <4>1
    <3>2. CASE m # n
      <4>1. m \in 0 .. n - 1 /\ v[m] = w[m] /\ (m # 0 => m - 1 \in 0 .. n /\ m - 1 # n)
        BY <1>2, <3>2
      <4>2. w[m] = IF m = 0 THEN <<>> ELSE IF s[m] \in D THEN w[m - 1] ELSE Append(w[m - 1], s[m])
        BY <1>3, <4>1 DEF Weeds
      <4>3. m # 0 => v[m - 1] = w[m - 1]
        BY <4>1
      <4> HIDE DEF v
      <4> QED
        BY <4>1, <4>2, <4>3
    <3> QED
      BY <3>1, <3>2
  <2>2. v = [m \in 0 .. n |-> v[m]]
    OBVIOUS
  <2> HIDE DEF v
  <2> QED
    BY <2>1, <2>2 DEF Weeds
<1> QED
  BY <1>4

\* What is left of a chain: the entries that are not in D, each once.
LEMMA WithoutFacts ==
    ASSUME NEW S, NEW s \in Seq(S), Distinct(s), NEW D
    PROVE  /\ Without(s, D) \in Seq(S) /\ Distinct(Without(s, D))
           /\ On(Without(s, D)) = On(s) \ D
<1> DEFINE w == CHOOSE v : Weeds(s, D, Len(s), v)
           Passed(n) == {s[i] : i \in 1 .. n} \ D
           Right(n)  == w[n] \in Seq(S) /\ Distinct(w[n]) /\ On(w[n]) = Passed(n)
           Bad == {n \in Nat : n <= Len(s) /\ ~Right(n)}
<1>0. Len(s) \in Nat /\ DOMAIN s = 1 .. Len(s) /\ \A i \in 1 .. Len(s) : s[i] \in S
  OBVIOUS
<1>1. Weeds(s, D, Len(s), w)
  BY <1>0, WeedsDefined
<1>2. Without(s, D) = w[Len(s)]
  BY DEF Without, Weeds
<1> HIDE DEF w
<1>3. w[0] = <<>> /\ \A n \in 1 .. Len(s) : w[n] = IF s[n] \in D THEN w[n - 1] ELSE Append(w[n - 1], s[n])
  <2>1. \A n \in 0 .. Len(s) : w[n] = IF n = 0 THEN <<>>
                                        ELSE IF s[n] \in D THEN w[n - 1] ELSE Append(w[n - 1], s[n])
    BY <1>1 DEF Weeds
  <2>2. 0 \in 0 .. Len(s) /\ \A n \in 1 .. Len(s) : n \in 0 .. Len(s) /\ n # 0
    BY <1>0
  <2> QED
    BY <2>1, <2>2
<1>4. Bad = {}
  <2> SUFFICES ASSUME Bad # {} PROVE FALSE
    OBVIOUS
  <2>1. PICK n \in Bad : \A m \in Bad : n <= m
    <3>1. Bad \subseteq Nat
      OBVIOUS
    <3> HIDE DEF Bad
    <3> QED
      BY <3>1, Smallest
  <2>2. Right(0)
    BY <1>3 DEF On, Distinct
  <2>3. n \in 1 .. Len(s) /\ n - 1 \in Nat /\ n - 1 <= Len(s)
    BY <1>0, <2>1, <2>2
  <2>4. Right(n - 1)
    <3> HIDE DEF Right
    <3> QED
      BY <2>1, <2>3
  <2>5. \A x : x \in Passed(n) <=> (x \in Passed(n - 1) \/ (x = s[n] /\ x \notin D))
    BY <1>0, <2>3
  <2>6. CASE s[n] \in D
    <3>1. w[n] = w[n - 1] /\ Passed(n) = Passed(n - 1)
      BY <1>3, <2>3, <2>5, <2>6
    <3> HIDE DEF Passed
    <3> QED
      BY <2>1, <2>4, <3>1
  <2>7. CASE s[n] \notin D
    <3>1. w[n] = Append(w[n - 1], s[n]) /\ s[n] \in S
      BY <1>0, <1>3, <2>3, <2>7
    <3>2. s[n] \notin On(w[n - 1])
      BY <1>0, <2>3, <2>4 DEF Distinct
    <3> DEFINE u == w[n - 1]
    <3>3. u \in Seq(S) /\ Distinct(u) /\ On(u) = Passed(n - 1)
      BY <2>4
    <3> HIDE DEF u, Passed
    <3>4. /\ w[n] \in Seq(S) /\ DOMAIN w[n] = 1 .. Len(u) + 1 /\ Len(u) \in Nat /\ DOMAIN u = 1 .. Len(u)
          /\ \A i \in 1 .. Len(u) : w[n][i] = u[i]
          /\ w[n][Len(u) + 1] = s[n]
      BY <3>1, <3>3, AppendProperties DEF u
    <3>5. On(w[n]) = On(u) \cup {s[n]}
      BY <3>4 DEF On
    <3>6. Distinct(w[n])
      <4> SUFFICES ASSUME NEW i \in DOMAIN w[n], NEW j \in DOMAIN w[n], w[n][i] = w[n][j] PROVE i = j
        BY DEF Distinct
      <4>1. \A x \in 1 .. Len(u) : u[x] # s[n]
        BY <3>2, <3>4 DEF On, u
      <4> QED
        BY <3>3, <3>4, <4>1 DEF Distinct
    <3>7. On(w[n]) = Passed(n)
      BY <2>5, <2>7, <3>3, <3>5
    <3> QED
      BY <2>1, <3>4, <3>6, <3>7
  <2> QED
    BY <2>6, <2>7
<1>5. Right(Len(s))
  BY <1>0, <1>4
<1>6. Passed(Len(s)) = On(s) \ D
  BY <1>0 DEF On
<1> QED
  BY <1>2, <1>5, <1>6

(***************************************************************************)
(* Counting blocks, and removing entries from a table.  Cleaned says what  *)
(* every sweep keeps: the table is tidy, what is left in it is as it was, and *)
(* what a process keeps stays with its key and its references.             *)
(***************************************************************************)
\* The blocks counted by MemOf.
Held(c, D) == {b \in D \X (1 .. 2) : b[2] <= c.entry[b[1]].mem}

LEMMA HeldFinite ==
    ASSUME NEW c, NEW D, IsFiniteSet(D)
    PROVE  IsFiniteSet(Held(c, D)) /\ MemOf(c, D) = Cardinality(Held(c, D)) /\ MemOf(c, D) \in Nat
<1>1. IsFiniteSet(D \X (1 .. 2))
  <2>1. 1 \in Int /\ 2 \in Int
    OBVIOUS
  <2>2. IsFiniteSet(1 .. 2)
    BY <2>1, FS_Interval
  <2> QED
    BY <2>2, FS_Product
<1>2. IsFiniteSet(Held(c, D))
  BY <1>1, FS_Subset DEF Held
<1> QED
  BY <1>2, FS_CardinalityType DEF MemOf, Held

LEMMA MemSplits ==
    ASSUME NEW c, NEW E, IsFiniteSet(E), NEW D \in SUBSET E
    PROVE  MemOf(c, E) = MemOf(c, D) + MemOf(c, E \ D)
<1>1. IsFiniteSet(D) /\ IsFiniteSet(E \ D)
  BY FS_Subset
<1>2. Held(c, E) = Held(c, D) \cup Held(c, E \ D) /\ Held(c, D) \cap Held(c, E \ D) = {}
  BY DEF Held
<1>3. Cardinality(Held(c, E)) = Cardinality(Held(c, D)) + Cardinality(Held(c, E \ D))
  <2>1. IsFiniteSet(Held(c, D)) /\ IsFiniteSet(Held(c, E \ D))
    BY <1>1, HeldFinite
  <2>2. Cardinality({}) = 0 /\ Cardinality(Held(c, D)) \in Nat /\ Cardinality(Held(c, E \ D)) \in Nat
    BY <2>1, FS_EmptySet, FS_CardinalityType
  <2> QED
    <3> DEFINE A == Held(c, D)
               B == Held(c, E \ D)
    <3>1. Cardinality(A \cup B) = Cardinality(A) + Cardinality(B) - Cardinality(A \cap B)
      BY <2>1, FS_Union
    <3> HIDE DEF A, B
    <3>2. Cardinality(A) \in Nat /\ Cardinality(B) \in Nat /\ Cardinality(A \cap B) = 0
      BY <1>2, <2>2 DEF A, B
    <3>3. Cardinality(A \cup B) = Cardinality(A) + Cardinality(B)
      BY <3>1, <3>2
    <3> QED
      BY <1>2, <3>3 DEF A, B
<1> QED
  BY <1>1, <1>3, HeldFinite

LEMMA SameMem ==
    ASSUME NEW c, NEW d, NEW D, \A e \in D : c.entry[e].mem = d.entry[e].mem
    PROVE  MemOf(c, D) = MemOf(d, D)
<1>1. Held(c, D) = Held(d, D)
  BY DEF Held
<1> QED
  BY <1>1 DEF MemOf, Held

LEMMA MemOfOne ==
    ASSUME NEW c, NEW e, c.entry[e].mem = 1
    PROVE  MemOf(c, {e}) = 1
<1>1. Held(c, {e}) = {<<e, 1>>}
  <2>1. ASSUME NEW b \in Held(c, {e}) PROVE b = <<e, 1>>
    BY DEF Held
  <2>2. <<e, 1>> \in Held(c, {e})
    BY DEF Held
  <2> QED
    BY <2>1, <2>2
<1> QED
  BY <1>1, FS_Singleton DEF MemOf, Held

LEMMA FreeIsEntry == Free \in Entry
<1>1. 0 \in Time /\ 0 \in 0 .. 2 /\ 0 \in Int
  BY CacheAssumption DEF Time
<1> QED
  BY <1>1 DEF Free, Entry

LEMMA LinkedAre ==
    ASSUME NEW c \in Table
    PROVE  /\ Linked(c) = {e \in Entries : \E b \in Buckets : e \in On(c.slots[b])}
           /\ \A b \in Buckets : On(c.slots[b]) \subseteq Linked(c)
           /\ IsFiniteSet(Linked(c)) /\ Linked(c) \subseteq Entries /\ Cardinality(Linked(c)) \in Nat
<1>1. Linked(c) = {e \in Entries : \E b \in Buckets : e \in On(c.slots[b])}
  BY DEF Linked, On
<1>2. \A b \in Buckets : c.slots[b] \in Seq(Entries)
  BY DEF Table
<1>3. \A b \in Buckets : On(c.slots[b]) \subseteq Entries
  BY <1>2 DEF On
<1> QED
  BY <1>1, <1>3, CacheAssumption, FS_Subset, FS_CardinalityType

\* What an operation on the table may do to the entries: d comes from c.
Cleaned(c, d, H, now) ==
    /\ Tidy(d, H) /\ Linked(d) \subseteq Linked(c)
    /\ \A e \in H \cup Linked(d) : d.entry[e] = c.entry[e]
    /\ \A e \in Entries : d.entry[e].ref \in {c.entry[e].ref, 0}
    /\ \A e \in Entries, since \in Time : Kept(c, e, since, now) =>
          Kept(d, e, since, now) /\ d.entry[e].ref = c.entry[e].ref /\ d.entry[e].key = c.entry[e].key

LEMMA CleanedTwice ==
    ASSUME NEW c, NEW d, NEW f, NEW H, NEW now, Cleaned(c, d, H, now), Cleaned(d, f, H, now)
    PROVE  Cleaned(c, f, H, now)
  BY DEF Cleaned

LEMMA CleanedSelf ==
    ASSUME NEW c, NEW H, NEW now, Tidy(c, H)
    PROVE  Cleaned(c, c, H, now)
  BY DEF Cleaned

LEMMA ChainsApart ==
    ASSUME NEW c, NEW H, Tidy(c, H)
    PROVE  /\ \A e \in Linked(c) : c.entry[e].key \in Keys /\ e \in On(c.slots[HashOf[c.entry[e].key]])
           /\ \A b \in Buckets : \A e \in On(c.slots[b]) : HashOf[c.entry[e].key] = b
  BY LinkedAre DEF Tidy, Chained

\* The entries of D are out of the table.
Removed(c, d, H, D, now) ==
    /\ Cleaned(c, d, H, now) /\ Linked(d) = Linked(c) \ D
    /\ \A b \in Buckets : d.slots[b] = Without(c.slots[b], D)

LEMMA RemoveAllCleans ==
    ASSUME NEW c, NEW H, NEW D, NEW now \in Time, Tidy(c, H), D \subseteq Linked(c)
    PROVE  Removed(c, RemoveAll(c, D, now), H, D, now)
<1> DEFINE dead == {e \in D : c.entry[e].ref <= 0}
           d == RemoveAll(c, D, now)
<1>1. /\ c.entry \in [Entries -> Entry] /\ c.slots \in [Buckets -> Seq(Entries)] /\ c.gc \subseteq Entries
      /\ c.nentries \in Nat /\ c.memsize \in Nat
  BY DEF Tidy, Table
<1>2. /\ d.entry = [e \in Entries |-> IF e \in dead THEN Free
                                      ELSE IF e \in D THEN [c.entry[e] EXCEPT !.dtime = now] ELSE c.entry[e]]
      /\ d.slots = [b \in Buckets |-> Without(c.slots[b], D)]
      /\ d.gc = c.gc \cup (D \ dead)
      /\ d.nentries = Max({c.nentries - Cardinality(D), 0})
      /\ d.memsize = c.memsize - MemOf(c, D)
      /\ d = [entry |-> d.entry, slots |-> d.slots, gc |-> d.gc, nentries |-> d.nentries, memsize |-> d.memsize]
  BY DEF RemoveAll
<1> HIDE DEF d
<1>3. D \subseteq Entries /\ IsFiniteSet(D) /\ Cardinality(D) \in Nat /\ IsFiniteSet(Linked(c)) /\ Linked(c) \subseteq Entries
  BY LinkedAre, FS_Subset, FS_CardinalityType DEF Tidy
<1>4. \A e \in Entries :
         /\ d.entry[e] = IF e \in dead THEN Free
                         ELSE IF e \in D THEN [c.entry[e] EXCEPT !.dtime = now] ELSE c.entry[e]
         /\ c.entry[e] \in Entry
  BY <1>1, <1>2
<1>5. \A e \in Entries :
         /\ d.entry[e] \in Entry
         /\ e \in dead => d.entry[e] = Free
         /\ e \in D \ dead => /\ d.entry[e].dtime = now /\ d.entry[e].ref = c.entry[e].ref
                              /\ d.entry[e].key = c.entry[e].key /\ d.entry[e].mem = c.entry[e].mem
                              /\ d.entry[e].ref > 0
         /\ e \notin D => d.entry[e] = c.entry[e]
  <2> SUFFICES ASSUME NEW e \in Entries
               PROVE  /\ d.entry[e] \in Entry
                      /\ e \in dead => d.entry[e] = Free
                      /\ e \in D \ dead => /\ d.entry[e].dtime = now /\ d.entry[e].ref = c.entry[e].ref
                                           /\ d.entry[e].key = c.entry[e].key /\ d.entry[e].mem = c.entry[e].mem
                                           /\ d.entry[e].ref > 0
                      /\ e \notin D => d.entry[e] = c.entry[e]
    OBVIOUS
  <2>1. CASE e \in dead
    BY <1>4, <2>1, FreeIsEntry
  <2>2. CASE e \in D \ dead
    <3>1. d.entry[e] = [c.entry[e] EXCEPT !.dtime = now] /\ c.entry[e] \in Entry
      BY <1>4, <2>2
    <3>2. ~ (c.entry[e].ref <= 0) /\ c.entry[e].ref \in Int
      BY <2>2, <3>1 DEF Entry
    <3> QED
      BY <2>2, <3>1, <3>2 DEF Entry
  <2>3. CASE e \notin D
    BY <1>4, <2>3
  <2> QED
    BY <2>1, <2>2, <2>3
<1>6. \A b \in Buckets : /\ d.slots[b] = Without(c.slots[b], D) /\ d.slots[b] \in Seq(Entries)
                         /\ Distinct(d.slots[b]) /\ On(d.slots[b]) = On(c.slots[b]) \ D
  BY <1>1, <1>2, WithoutFacts DEF Tidy, Chained
<1>7. Linked(d) = Linked(c) \ D
  <2>1. Linked(d) = {e \in Entries : \E b \in Buckets : e \in On(d.slots[b])}
    BY DEF Linked, On
  <2>2. Linked(c) = {e \in Entries : \E b \in Buckets : e \in On(c.slots[b])}
    BY DEF Linked, On
  <2> QED
    BY <1>6, <2>1, <2>2
<1>8. Counted(d) /\ d.nentries \in Nat /\ d.memsize \in Nat
  <2>1. Cardinality(Linked(c) \ D) = Cardinality(Linked(c)) - Cardinality(D) /\ Cardinality(Linked(c) \ D) \in Nat
    <3>1. Linked(c) \cap D = D
      OBVIOUS
    <3> QED
      BY <1>3, <3>1, FS_Difference, FS_Subset, FS_CardinalityType
  <2>2. MemOf(c, Linked(c)) = MemOf(c, D) + MemOf(c, Linked(c) \ D)
    BY <1>3, MemSplits
  <2>3. MemOf(c, D) \in Nat /\ MemOf(c, Linked(c) \ D) \in Nat
    BY <1>3, HeldFinite, FS_Subset
  <2>4. MemOf(d, Linked(c) \ D) = MemOf(c, Linked(c) \ D)
    <3>1. \A e \in Linked(c) \ D : d.entry[e].mem = c.entry[e].mem
      BY <1>3, <1>5
    <3> QED
      BY <3>1, SameMem
  <2>5. c.nentries = Cardinality(Linked(c)) /\ c.memsize = MemOf(c, Linked(c))
    BY DEF Tidy, Counted
  <2>6. \A n \in Nat : Max({n, 0}) = n
    BY DEF Max
  <2>7. d.nentries = Cardinality(Linked(c) \ D)
    BY <1>2, <2>1, <2>5, <2>6
  <2>8. d.memsize = MemOf(c, Linked(c) \ D)
    BY <1>2, <2>2, <2>3, <2>5
  <2> QED
    BY <1>7, <2>1, <2>3, <2>4, <2>7, <2>8 DEF Counted
<1>9. d \in Table
  BY <1>1, <1>2, <1>3, <1>5, <1>6, <1>8 DEF Table
<1>10. Chained(d)
  <2>1. \A e \in Linked(d) : d.entry[e].key = c.entry[e].key /\ e \in Linked(c)
    BY <1>3, <1>5, <1>7
  <2>2. \A b \in Buckets : \A e \in On(d.slots[b]) : e \in On(c.slots[b]) /\ e \in Linked(d)
    BY <1>6, <1>9, LinkedAre
  <2> QED
    BY <1>6, <2>1, <2>2 DEF Chained, Tidy
<1>11. Accounted(d, H) /\ \A e \in H \cup Linked(d) : d.entry[e] = c.entry[e]
  <2>1. H \subseteq Entries /\ H \cap D = {} /\ Linked(c) \cap c.gc = {} /\ H \cap (Linked(c) \cup c.gc) = {}
    BY DEF Tidy, Accounted
  <2>2. \A e \in Entries : c.entry[e].mem > 0 <=> e \in Linked(c) \cup c.gc \cup H
    BY DEF Tidy, Accounted
  <2>3. ~ (Free.mem > 0)
    BY DEF Free
  <2>4. \A e \in Entries : d.entry[e].mem > 0 <=> (c.entry[e].mem > 0 /\ e \notin dead)
    BY <1>5, <2>3
  <2>5. \A e \in Linked(c) \cup c.gc \cup H : e \notin dead <=> e \in Linked(d) \cup d.gc \cup H
    BY <1>2, <1>7, <2>1
  <2>6. Linked(d) \cup d.gc \cup H \subseteq Linked(c) \cup c.gc \cup H
    BY <1>2, <1>7
  <2>7. \A e \in Entries : d.entry[e].mem > 0 <=> e \in Linked(d) \cup d.gc \cup H
    BY <2>2, <2>4, <2>5, <2>6
  <2>8. Linked(d) \cup d.gc \cup H \subseteq Entries
    BY <1>1, <1>3, <2>1, <2>6
  <2>9. {e \in Entries : d.entry[e].mem > 0} = Linked(d) \cup d.gc \cup H
    BY <2>7, <2>8
  <2>10. Linked(d) \cap d.gc = {} /\ H \cap (Linked(d) \cup d.gc) = {}
    BY <1>2, <1>7, <2>1
  <2>11. \A e \in H \cup Linked(d) : d.entry[e] = c.entry[e]
    BY <1>3, <1>5, <1>7, <2>1
  <2> QED
    BY <2>9, <2>10, <2>11 DEF Accounted
<1>12. \A e \in Entries : d.entry[e].ref \in {c.entry[e].ref, 0}
  <2>1. Free.ref = 0
    BY DEF Free
  <2> QED
    BY <1>5, <2>1
<1>13. ASSUME NEW e \in Entries, NEW since \in Time, Kept(c, e, since, now)
       PROVE  Kept(d, e, since, now) /\ d.entry[e].ref = c.entry[e].ref /\ d.entry[e].key = c.entry[e].key
  <2>1. c.entry[e].ref > 0 /\ c.entry[e].ref \in Int
    BY <1>4, <1>13 DEF Kept, Entry
  <2>2. e \notin dead
    BY <2>1
  <2>3. CASE e \in D
    BY <1>2, <1>5, <1>13, <2>2, <2>3 DEF Kept, Time
  <2>4. CASE e \notin D
    <3>1. d.entry[e] = c.entry[e] /\ (e \in d.gc <=> e \in c.gc) /\ (e \in Linked(c) => e \in Linked(d))
      BY <1>2, <1>5, <1>7, <2>4
    <3> QED
      BY <1>13, <3>1 DEF Kept
  <2> QED
    BY <2>3, <2>4
<1>14. Cleaned(c, d, H, now)
  BY <1>7, <1>8, <1>9, <1>10, <1>11, <1>12, <1>13 DEF Cleaned, Tidy
<1> QED
  BY <1>6, <1>7, <1>14 DEF d, Removed

(***************************************************************************)
(* apc_cache_gc, the two expunges, and giving back an entry never linked.  *)
(***************************************************************************)
\* Of a table, the entries were changed, and the list they are freed from.
Remade(c, d, E, G) ==
    /\ d.entry = E /\ d.slots = c.slots /\ d.gc = G /\ d.nentries = c.nentries /\ d.memsize = c.memsize
    /\ E \in [Entries -> Entry] /\ G \subseteq Entries => d \in Table

LEMMA TableChanged ==
    ASSUME NEW c \in Table, NEW E, NEW G
    PROVE  Remade(c, [c EXCEPT !.entry = E, !.gc = G], E, G)
<1> DEFINE d == [c EXCEPT !.entry = E, !.gc = G]
<1>1. d.entry = E /\ d.slots = c.slots /\ d.gc = G /\ d.nentries = c.nentries /\ d.memsize = c.memsize
  BY DEF Table
<1>2. ASSUME E \in [Entries -> Entry], G \in SUBSET Entries PROVE d \in Table
  BY <1>2 DEF Table
<1> QED
  BY <1>1, <1>2 DEF Remade

LEMMA EntriesChanged ==
    ASSUME NEW c \in Table, NEW E
    PROVE  Remade(c, [c EXCEPT !.entry = E], E, c.gc)
<1> DEFINE d == [c EXCEPT !.entry = E]
<1>1. d.entry = E /\ d.slots = c.slots /\ d.gc = c.gc /\ d.nentries = c.nentries /\ d.memsize = c.memsize
  BY DEF Table
<1>2. ASSUME E \in [Entries -> Entry] PROVE d \in Table
  BY <1>2 DEF Table
<1> QED
  BY <1>1, <1>2 DEF Remade

LEMMA GcCleans ==
    ASSUME NEW c, NEW H, NEW now \in Time, Tidy(c, H)
    PROVE  Cleaned(c, Gc(c, now), H, now) /\ Gc(c, now).slots = c.slots
<1> DEFINE G == Garbage(c, now)
           d == Gc(c, now)
<1>1. /\ c \in Table /\ c.entry \in [Entries -> Entry] /\ c.slots \in [Buckets -> Seq(Entries)] /\ c.gc \subseteq Entries
      /\ c.nentries \in Nat /\ c.memsize \in Nat
  BY DEF Tidy, Table
<1>2. /\ d.entry = [e \in Entries |-> IF e \in G THEN Free ELSE c.entry[e]]
      /\ d.gc = c.gc \ G /\ d.slots = c.slots /\ d.nentries = c.nentries /\ d.memsize = c.memsize
      /\ d.entry \in [Entries -> Entry] /\ d.gc \subseteq Entries => d \in Table
  <2> DEFINE E == [e \in Entries |-> IF e \in G THEN Free ELSE c.entry[e]]
  <2>1. d = [c EXCEPT !.entry = E, !.gc = c.gc \ G]
    BY DEF Gc
  <2> HIDE DEF d, E, G
  <2>2. Remade(c, d, E, c.gc \ G)
    BY <1>1, <2>1, TableChanged
  <2> QED
    BY <2>2 DEF E, Remade
<1>3. G \subseteq c.gc
  BY DEF Garbage
<1> HIDE DEF d, G
<1>4. \A e \in Entries : /\ c.entry[e] \in Entry /\ d.entry[e] \in Entry
                         /\ e \in G => d.entry[e] = Free
                         /\ e \notin G => d.entry[e] = c.entry[e]
  BY <1>1, <1>2, FreeIsEntry
<1>5. d \in Table
  <2>1. d.entry \in [Entries -> Entry]
    BY <1>2, <1>4
  <2> QED
    BY <1>1, <1>2, <2>1 DEF Table
<1>6. Linked(d) = Linked(c) /\ Linked(c) \subseteq Entries /\ H \subseteq Entries
  BY <1>2 DEF Linked, Tidy, Accounted
<1>7. Linked(c) \cap c.gc = {} /\ H \cap (Linked(c) \cup c.gc) = {}
  BY DEF Tidy, Accounted
<1>8. \A e \in H \cup Linked(d) : d.entry[e] = c.entry[e]
  BY <1>3, <1>4, <1>6, <1>7
<1>9. Chained(d)
  <2>1. \A b \in Buckets : \A e \in On(d.slots[b]) : e \in Linked(d)
    BY <1>5, LinkedAre
  <2> QED
    BY <1>2, <1>6, <1>8, <2>1 DEF Tidy, Chained
<1>10. Counted(d)
  <2>1. MemOf(d, Linked(c)) = MemOf(c, Linked(c))
    BY <1>6, <1>8, SameMem
  <2> QED
    BY <1>2, <1>6, <2>1 DEF Tidy, Counted
<1>11. Accounted(d, H)
  <2>1. ~ (Free.mem > 0)
    BY DEF Free
  <2>2. \A e \in Entries : d.entry[e].mem > 0 <=> (c.entry[e].mem > 0 /\ e \notin G)
    BY <1>4, <2>1
  <2>3. \A e \in Entries : c.entry[e].mem > 0 <=> e \in Linked(c) \cup c.gc \cup H
    BY DEF Tidy, Accounted
  <2>4. \A e \in Entries : d.entry[e].mem > 0 <=> e \in Linked(d) \cup d.gc \cup H
    BY <1>2, <1>3, <1>6, <1>7, <2>2, <2>3
  <2>5. Linked(d) \cup d.gc \cup H \subseteq Entries
    BY <1>1, <1>2, <1>6
  <2>6. {e \in Entries : d.entry[e].mem > 0} = Linked(d) \cup d.gc \cup H
    BY <2>4, <2>5
  <2> QED
    BY <1>2, <1>6, <1>7, <2>6 DEF Accounted
<1>12. \A e \in Entries : d.entry[e].ref \in {c.entry[e].ref, 0}
  <2>1. Free.ref = 0
    BY DEF Free
  <2> QED
    BY <1>4, <2>1
<1>13. ASSUME NEW e \in Entries, NEW since \in Time, Kept(c, e, since, now)
       PROVE  Kept(d, e, since, now) /\ d.entry[e].ref = c.entry[e].ref /\ d.entry[e].key = c.entry[e].key
  <2>1. /\ c.entry[e].ref \in Int /\ c.entry[e].dtime \in Time /\ now \in Int /\ since \in Int
        /\ c.entry[e].dtime \in Int /\ GcTTL \in Int
    <3>1. c.entry[e] \in Entry
      BY <1>4
    <3> QED
      BY <3>1, CacheAssumption DEF Time, Entry
  <2>2. c.entry[e].ref > 0 /\ (GcTTL # 0 => now - since <= GcTTL) /\ (e \in c.gc => c.entry[e].dtime >= since)
    BY <1>13 DEF Kept
  <2>3. e \notin G
    BY <2>1, <2>2 DEF G, Garbage
  <2>4. d.entry[e] = c.entry[e] /\ (e \in d.gc <=> e \in c.gc)
    BY <1>2, <1>4, <2>3
  <2> QED
    BY <1>6, <1>13, <2>4 DEF Kept
<1>14. Cleaned(c, d, H, now)
  BY <1>5, <1>6, <1>8, <1>9, <1>10, <1>11, <1>12, <1>13 DEF Cleaned, Tidy
<1> QED
  BY <1>2, <1>14 DEF d

\* nentries is 0 before it is set to 0.
LEMMA RealExpungeCleans ==
    ASSUME NEW c, NEW H, NEW now \in Time, Tidy(c, H)
    PROVE  Cleaned(c, RealExpunge(c, now), H, now)
<1> DEFINE r == RemoveAll(c, Linked(c), now)
<1>1. Cleaned(c, r, H, now) /\ Linked(r) = {}
  <2> DEFINE D == Linked(c)
  <2>1. D \subseteq Linked(c) /\ Linked(c) \ D = {}
    OBVIOUS
  <2> HIDE DEF D
  <2>2. Cleaned(c, RemoveAll(c, D, now), H, now) /\ Linked(RemoveAll(c, D, now)) = Linked(c) \ D
    BY <2>1, RemoveAllCleans DEF Removed
  <2> QED
    BY <2>1, <2>2 DEF D
<1>2. Tidy(r, H)
  BY <1>1 DEF Cleaned
<1>3. r.nentries = 0
  BY <1>1, <1>2, FS_EmptySet DEF Tidy, Counted
<1> HIDE DEF r
<1>4. [r EXCEPT !.nentries = 0] = r
  BY <1>2, <1>3 DEF Tidy, Table
<1> QED
  BY <1>1, <1>4 DEF RealExpunge, r

LEMMA DefaultExpungeCleans ==
    ASSUME NEW c, NEW H, NEW t, NEW now \in Time, Tidy(c, H)
    PROVE  Cleaned(c, DefaultExpunge(c, t, now), H, now)
<1> DEFINE g == Gc(c, now)
           s == RemoveAll(g, Junk(g, t), now)
<1>1. Cleaned(c, g, H, now) /\ Tidy(g, H)
  BY GcCleans DEF Cleaned
<1>2. Junk(g, t) \subseteq Linked(g)
  BY DEF Junk
<1>3. Cleaned(g, s, H, now)
  BY <1>1, <1>2, RemoveAllCleans DEF Removed
<1>4. Cleaned(c, s, H, now) /\ Tidy(s, H)
  BY <1>1, <1>3, CleanedTwice DEF Cleaned
<1>5. Cleaned(c, RealExpunge(g, now), H, now) /\ Cleaned(c, RealExpunge(s, now), H, now)
  BY <1>1, <1>4, RealExpungeCleans, CleanedTwice
<1> HIDE DEF g, s
<1> QED
  BY <1>1, <1>4, <1>5 DEF DefaultExpunge, g, s

\* The entry in hand is given back.
LEMMA DiscardTidy ==
    ASSUME NEW c, NEW H, NEW x \in H, Tidy(c, H)
    PROVE  /\ Tidy(Discard(c, x), H \ {x}) /\ Linked(Discard(c, x)) = Linked(c) /\ Discard(c, x).gc = c.gc
           /\ Discard(c, x).entry = [c.entry EXCEPT ![x] = Free]
<1> DEFINE d == Discard(c, x)
<1>1. /\ c \in Table /\ c.entry \in [Entries -> Entry] /\ c.slots \in [Buckets -> Seq(Entries)] /\ c.gc \subseteq Entries
      /\ c.nentries \in Nat /\ c.memsize \in Nat
  BY DEF Tidy, Table
<1>2. /\ d.entry = [c.entry EXCEPT ![x] = Free]
      /\ d.gc = c.gc /\ d.slots = c.slots /\ d.nentries = c.nentries /\ d.memsize = c.memsize
      /\ d.entry \in [Entries -> Entry] /\ d.gc \subseteq Entries => d \in Table
  <2> DEFINE E == [c.entry EXCEPT ![x] = Free]
  <2>1. d = [c EXCEPT !.entry = E]
    BY DEF Discard
  <2> HIDE DEF d, E
  <2>2. Remade(c, d, E, c.gc)
    BY <1>1, <2>1, EntriesChanged
  <2> QED
    BY <2>2 DEF E, Remade
<1> HIDE DEF d
<1>3. x \in Entries /\ x \notin Linked(c) /\ x \notin c.gc /\ Linked(d) = Linked(c)
  BY <1>2 DEF Tidy, Accounted, Linked
<1>4. d.entry \in [Entries -> Entry] /\ d.entry[x] = Free /\ \A e \in Entries \ {x} : d.entry[e] = c.entry[e]
  BY <1>1, <1>2, <1>3, FreeIsEntry
<1>5. d \in Table
  BY <1>1, <1>2, <1>4 DEF Table
<1>6. \A e \in Linked(c) : d.entry[e] = c.entry[e]
  BY <1>3, <1>4 DEF Linked
<1>7. Chained(d)
  <2>1. \A b \in Buckets : \A e \in On(d.slots[b]) : e \in Linked(d)
    BY <1>5, LinkedAre
  <2> QED
    BY <1>2, <1>3, <1>6, <2>1 DEF Tidy, Chained
<1>8. Counted(d)
  <2>1. MemOf(d, Linked(c)) = MemOf(c, Linked(c))
    BY <1>6, SameMem
  <2> QED
    BY <1>2, <1>3, <2>1 DEF Tidy, Counted
<1>9. Accounted(d, H \ {x})
  <2>1. ~ (Free.mem > 0)
    BY DEF Free
  <2>2. \A e \in Entries : c.entry[e].mem > 0 <=> e \in Linked(c) \cup c.gc \cup H
    BY DEF Tidy, Accounted
  <2>3. H \subseteq Entries /\ Linked(c) \subseteq Entries
    BY DEF Tidy, Accounted, Linked
  <2>4. Linked(c) \cap c.gc = {} /\ H \cap (Linked(c) \cup c.gc) = {}
    BY DEF Tidy, Accounted
  <2>5. \A e \in Entries : d.entry[e].mem > 0 <=> e \in Linked(d) \cup d.gc \cup (H \ {x})
    BY <1>2, <1>3, <1>4, <2>1, <2>2
  <2>6. Linked(d) \cup d.gc \cup (H \ {x}) \subseteq Entries
    BY <1>1, <1>2, <1>3, <2>3
  <2>7. {e \in Entries : d.entry[e].mem > 0} = Linked(d) \cup d.gc \cup (H \ {x})
    BY <2>5, <2>6
  <2> QED
    BY <1>2, <1>3, <2>4, <2>7 DEF Accounted
<1> QED
  BY <1>2, <1>3, <1>5, <1>7, <1>8, <1>9 DEF Tidy, d

(***************************************************************************)
(* make_slot: an entry is linked between the two ends of a chain.          *)
(***************************************************************************)
LEMMA Joined ==
    ASSUME NEW S, NEW a \in Seq(S), NEW z \in Seq(S), NEW x \in S, Distinct(a), Distinct(z),
           On(a) \cap On(z) = {}, x \notin On(a) \cup On(z)
    PROVE  /\ a \o <<x>> \o z \in Seq(S) /\ Distinct(a \o <<x>> \o z)
           /\ On(a \o <<x>> \o z) = On(a) \cup {x} \cup On(z)
<1> DEFINE j == a \o <<x>> \o z
           n == Len(a)
           m == Len(z)
<1>1. /\ n \in Nat /\ m \in Nat /\ DOMAIN a = 1 .. n /\ DOMAIN z = 1 .. m
  OBVIOUS
<1>2. /\ j \in Seq(S) /\ DOMAIN j = 1 .. n + 1 + m
      /\ \A i \in 1 .. n : j[i] = a[i]
      /\ j[n + 1] = x
      /\ \A i \in 1 .. m : j[n + 1 + i] = z[i]
  <2>1. <<x>> \in Seq(S) /\ Len(<<x>>) = 1 /\ <<x>>[1] = x
    OBVIOUS
  <2> DEFINE u == <<x>>
             v == a \o u
  <2> HIDE DEF u
  <2>2. /\ v \in Seq(S) /\ Len(v) = n + 1
        /\ \A i \in 1 .. n + 1 : v[i] = IF i <= n THEN a[i] ELSE u[i - n]
    BY <1>1, <2>1, ConcatProperties DEF u
  <2>3. (\A i \in 1 .. n : v[i] = a[i]) /\ v[n + 1] = x
    <3>1. n + 1 - n = 1 /\ n + 1 \in 1 .. n + 1 /\ \A i \in 1 .. n : i \in 1 .. n + 1 /\ i <= n
      BY <1>1
    <3> QED
      BY <1>1, <2>1, <2>2, <3>1 DEF u
  <2> HIDE DEF v
  <2>4. /\ v \o z \in Seq(S) /\ Len(v \o z) = n + 1 + m
        /\ \A i \in 1 .. n + 1 + m : (v \o z)[i] = IF i <= n + 1 THEN v[i] ELSE z[i - (n + 1)]
    <3>1. /\ v \o z \in Seq(S) /\ Len(v \o z) = Len(v) + Len(z)
          /\ \A i \in 1 .. Len(v) + Len(z) : (v \o z)[i] = IF i <= Len(v) THEN v[i] ELSE z[i - Len(v)]
      BY <2>2, ConcatProperties
    <3> QED
      BY <2>2, <3>1
  <2>5. j = v \o z
    BY DEF u, v
  <2> HIDE DEF j
  <2>6. j \in Seq(S) /\ DOMAIN j = 1 .. n + 1 + m
    BY <2>4, <2>5
  <2>7. \A i \in 1 .. m : n + 1 + i \in 1 .. n + 1 + m /\ ~ (n + 1 + i <= n + 1) /\ n + 1 + i - (n + 1) = i
    BY <1>1
  <2>8. \A i \in 1 .. m : j[n + 1 + i] = z[i]
    BY <2>4, <2>5, <2>7
  <2>9. \A i \in 1 .. n + 1 : i \in 1 .. n + 1 + m /\ i <= n + 1
    BY <1>1
  <2>10. \A i \in 1 .. n + 1 : j[i] = v[i]
    BY <2>4, <2>5, <2>9
  <2>11. n + 1 \in 1 .. n + 1 /\ \A i \in 1 .. n : i \in 1 .. n + 1
    BY <1>1
  <2> QED
    BY <2>3, <2>6, <2>8, <2>10, <2>11
<1> HIDE DEF j
<1>3. \A i \in DOMAIN j : \/ i \in 1 .. n /\ j[i] = a[i]
                          \/ i = n + 1 /\ j[i] = x
                          \/ i - (n + 1) \in 1 .. m /\ j[i] = z[i - (n + 1)]
  <2> SUFFICES ASSUME NEW i \in 1 .. n + 1 + m
               PROVE  \/ i \in 1 .. n /\ j[i] = a[i]
                      \/ i = n + 1 /\ j[i] = x
                      \/ i - (n + 1) \in 1 .. m /\ j[i] = z[i - (n + 1)]
    BY <1>2
  <2>1. i \in 1 .. n \/ i = n + 1 \/ (i - (n + 1) \in 1 .. m /\ n + 1 + (i - (n + 1)) = i)
    BY <1>1
  <2> QED
    BY <1>2, <2>1
<1>4. (\A i \in 1 .. n : a[i] \in On(a)) /\ (\A i \in 1 .. m : z[i] \in On(z))
  BY <1>1 DEF On
<1>5. Distinct(j)
  <2> SUFFICES ASSUME NEW f \in DOMAIN j, NEW g \in DOMAIN j, j[f] = j[g] PROVE f = g
    BY DEF Distinct
  <2>1. f \in Int /\ g \in Int
    BY <1>1, <1>2
  <2>2. CASE f \in 1 .. n
    <3>1. j[f] = a[f] /\ a[f] \in On(a)
      BY <1>2, <1>4, <2>2
    <3>2. g \in 1 .. n /\ j[g] = a[g]
      BY <1>3, <1>4, <3>1
    <3> QED
      BY <1>1, <2>2, <3>1, <3>2 DEF Distinct
  <2>3. CASE f = n + 1
    <3>1. j[f] = x
      BY <1>2, <2>3
    <3> QED
      BY <1>3, <1>4, <2>3, <3>1
  <2>4. CASE f - (n + 1) \in 1 .. m /\ j[f] = z[f - (n + 1)]
    <3>1. j[f] \in On(z)
      BY <1>4, <2>4
    <3>2. g - (n + 1) \in 1 .. m /\ j[g] = z[g - (n + 1)]
      BY <1>3, <1>4, <3>1
    <3>3. f - (n + 1) = g - (n + 1)
      BY <1>1, <2>4, <3>2 DEF Distinct
    <3> QED
      BY <1>1, <2>1, <3>3
  <2> QED
    BY <1>3, <2>2, <2>3, <2>4
<1>6. On(j) = On(a) \cup {x} \cup On(z)
  <2>1. ASSUME NEW y \in On(j) PROVE y \in On(a) \cup {x} \cup On(z)
    BY <1>3, <1>4 DEF On
  <2>2. n + 1 \in DOMAIN j /\ (\A i \in 1 .. n : i \in DOMAIN j) /\ (\A i \in 1 .. m : n + 1 + i \in DOMAIN j)
    BY <1>1, <1>2
  <2>3. \A i \in DOMAIN j : j[i] \in On(j)
    BY DEF On
  <2>4. ASSUME NEW y \in On(a) PROVE y \in On(j)
    <3>1. PICK i \in 1 .. n : y = a[i]
      BY <1>1 DEF On
    <3> QED
      BY <1>2, <2>2, <2>3, <3>1
  <2>5. ASSUME NEW y \in On(z) PROVE y \in On(j)
    <3>1. PICK i \in 1 .. m : y = z[i]
      BY <1>1 DEF On
    <3>2. j[n + 1 + i] = y /\ n + 1 + i \in DOMAIN j
      BY <1>2, <2>2, <3>1
    <3> QED
      BY <2>3, <3>2
  <2>6. x \in On(j)
    BY <1>2, <2>2, <2>3
  <2> QED
    BY <2>1, <2>4, <2>5, <2>6
<1> QED
  BY <1>2, <1>5, <1>6 DEF j

\* Two parts make up the chain of k in m, where k has no entry.
Around(m, k, pre, post) ==
    /\ \A f \in Linked(m) : m.entry[f].key # k
    /\ pre \in Seq(Entries) /\ post \in Seq(Entries) /\ Distinct(pre) /\ Distinct(post)
    /\ On(pre) \cap On(post) = {} /\ On(pre) \cup On(post) = On(m.slots[HashOf[k]])

\* The entry x of H is in the table.
LaidDown(c, d, H, x, t) ==
    /\ Tidy(d, H \ {x}) /\ Linked(d) = Linked(c) \cup {x} /\ d.gc = c.gc
    /\ d.entry = [c.entry EXCEPT ![x] = [@ EXCEPT !.mem = 1, !.ctime = t, !.atime = t]]

LEMMA LinkTidy ==
    ASSUME NEW c, NEW H, NEW x \in H, NEW k \in Keys, NEW t \in Time, Tidy(c, H), c.entry[x].key = k,
           NEW pre, NEW post, Around(c, k, pre, post)
    PROVE  LaidDown(c, Link(c, x, k, t, pre, post, 1), H, x, t)
<1>0. /\ \A f \in Linked(c) : c.entry[f].key # k
      /\ pre \in Seq(Entries) /\ post \in Seq(Entries) /\ Distinct(pre) /\ Distinct(post)
      /\ On(pre) \cap On(post) = {} /\ On(pre) \cup On(post) = On(c.slots[HashOf[k]])
  BY DEF Around
<1> DEFINE b == HashOf[k]
           gone == Entries \ Linked(c)
           tail == IF post = <<>> \/ Head(post) \in gone THEN post ELSE Without(post, gone)
           j == Without(pre, gone) \o <<x>> \o tail
           d == Link(c, x, k, t, pre, post, 1)
           E == [c.entry EXCEPT ![x] = [@ EXCEPT !.mem = 1, !.ctime = t, !.atime = t]]
<1>1. /\ c \in Table /\ c.entry \in [Entries -> Entry] /\ c.slots \in [Buckets -> Seq(Entries)] /\ c.gc \subseteq Entries
      /\ c.nentries \in Nat /\ c.memsize \in Nat
  BY DEF Tidy, Table
<1>2. /\ b \in Buckets /\ On(pre) \subseteq Linked(c) /\ On(post) \subseteq Linked(c)
      /\ Linked(c) \subseteq Entries /\ IsFiniteSet(Linked(c)) /\ Cardinality(Linked(c)) \in Nat
  BY <1>0, <1>1, LinkedAre, CacheAssumption
<1>3. x \in Entries /\ x \notin Linked(c) /\ x \notin c.gc /\ c.entry[x].mem > 0
  BY DEF Tidy, Accounted
<1>4. Reachable(c, pre)
  <2>1. pre # <<>> => Len(pre) \in DOMAIN pre
    BY <1>0
  <2>2. pre # <<>> => pre[Len(pre)] \in On(pre)
    BY <2>1 DEF On
  <2> QED
    BY <1>0, <1>2, <2>2 DEF Reachable
<1>5. j \in Seq(Entries) /\ Distinct(j) /\ On(j) = On(c.slots[b]) \cup {x}
  <2> DEFINE A == Without(pre, gone)
  <2>1. A \in Seq(Entries) /\ Distinct(A) /\ On(A) = On(pre)
    <3> HIDE DEF gone
    <3>1. A \in Seq(Entries) /\ Distinct(A) /\ On(A) = On(pre) \ gone
      BY <1>0, WithoutFacts
    <3> QED
      BY <1>0, <1>2, <3>1 DEF gone
  <2>2. tail \in Seq(Entries) /\ Distinct(tail) /\ On(tail) = On(post)
    <3>1. Without(post, gone) \in Seq(Entries) /\ Distinct(Without(post, gone)) /\ On(Without(post, gone)) = On(post)
      <4> HIDE DEF gone
      <4>1. Without(post, gone) \in Seq(Entries) /\ Distinct(Without(post, gone)) /\ On(Without(post, gone)) = On(post) \ gone
        BY <1>0, WithoutFacts
      <4> QED
        BY <1>0, <1>2, <4>1 DEF gone
    <3> QED
      BY <1>0, <3>1
  <2>3. x \notin On(pre) \cup On(post)
    BY <1>2, <1>3
  <2> HIDE DEF A, tail
  <2>4. A \o <<x>> \o tail \in Seq(Entries) /\ Distinct(A \o <<x>> \o tail) /\ On(A \o <<x>> \o tail) = On(A) \cup {x} \cup On(tail)
    BY <1>0, <1>3, <2>1, <2>2, <2>3, Joined
  <2> QED
    BY <1>0, <2>1, <2>2, <2>4 DEF A
<1> DEFINE S == [c.slots EXCEPT ![b] = j]
<1>6. d = [c EXCEPT !.entry = E, !.slots = S, !.nentries = c.nentries + 1, !.memsize = c.memsize + 1]
  <2> HIDE DEF tail
  <2> QED
    BY <1>4 DEF Link, tail
<1> HIDE DEF d, j, tail
<1>7. E \in [Entries -> Entry] /\ E[x].mem = 1 /\ E[x].key = k /\ \A e \in Entries \ {x} : E[e] = c.entry[e]
  <2>1. c.entry[x] \in Entry /\ 1 \in 0 .. 2
    BY <1>1, <1>3
  <2>2. [c.entry[x] EXCEPT !.mem = 1, !.ctime = t, !.atime = t] \in Entry
    BY <2>1 DEF Entry
  <2>3. [c.entry[x] EXCEPT !.mem = 1, !.ctime = t, !.atime = t].mem = 1
    BY <2>1 DEF Entry
  <2>4. [c.entry[x] EXCEPT !.mem = 1, !.ctime = t, !.atime = t].key = k
    BY <2>1 DEF Entry
  <2> QED
    BY <1>1, <1>3, <2>2, <2>3, <2>4
<1>8. S \in [Buckets -> Seq(Entries)] /\ S[b] = j /\ \A h \in Buckets \ {b} : S[h] = c.slots[h]
  BY <1>1, <1>2, <1>5
<1> HIDE DEF E, S
<1>9. d.entry = E /\ d.slots = S /\ d.gc = c.gc /\ d.nentries = c.nentries + 1 /\ d.memsize = c.memsize + 1
  BY <1>1, <1>6 DEF Table
<1>10. d \in Table
  <2>1. c.nentries + 1 \in Nat /\ c.memsize + 1 \in Nat
    BY <1>1
  <2> QED
    BY <1>1, <1>6, <1>7, <1>8, <2>1 DEF Table
<1>11. \A h \in Buckets : On(d.slots[h]) = IF h = b THEN On(c.slots[b]) \cup {x} ELSE On(c.slots[h])
  BY <1>5, <1>8, <1>9
<1>12. Linked(d) = Linked(c) \cup {x}
  <2>1. Linked(d) = {e \in Entries : \E h \in Buckets : e \in On(d.slots[h])}
    BY <1>10, LinkedAre
  <2>2. Linked(c) = {e \in Entries : \E h \in Buckets : e \in On(c.slots[h])}
    BY <1>1, LinkedAre
  <2> QED
    BY <1>2, <1>3, <1>11, <2>1, <2>2
<1>13. \A e \in Linked(c) : d.entry[e] = c.entry[e]
  BY <1>2, <1>3, <1>7, <1>9
<1>14. Chained(d)
  <2>1. \A h \in Buckets : Distinct(d.slots[h])
    BY <1>5, <1>8, <1>9 DEF Tidy, Chained
  <2>2. ASSUME NEW h \in Buckets, NEW e \in On(d.slots[h])
        PROVE  d.entry[e].key \in Keys /\ HashOf[d.entry[e].key] = h
    <3>1. CASE e = x
      <4>1. h = b
        BY <1>1, <1>3, <1>11, <2>2, <3>1, LinkedAre
      <4> QED
        BY <1>7, <1>9, <3>1, <4>1
    <3>2. CASE e # x
      <4>1. e \in On(c.slots[h])
        BY <1>11, <2>2, <3>2
      <4>2. e \in Linked(c)
        BY <1>1, <4>1, LinkedAre
      <4> QED
        BY <1>13, <4>1, <4>2 DEF Tidy, Chained
    <3> QED
      BY <3>1, <3>2
  <2>3. \A e, f \in Linked(d) : d.entry[e].key = d.entry[f].key => e = f
    <3>1. \A e \in Linked(c) : d.entry[e].key = c.entry[e].key /\ c.entry[e].key # k
      BY <1>0, <1>13
    <3>2. d.entry[x].key = k
      BY <1>7, <1>9
    <3>3. \A e, f \in Linked(c) : c.entry[e].key = c.entry[f].key => e = f
      BY DEF Tidy, Chained
    <3> QED
      BY <1>12, <3>1, <3>2, <3>3
  <2> QED
    BY <2>1, <2>2, <2>3 DEF Chained
<1>15. Counted(d)
  <2>1. Cardinality(Linked(d)) = Cardinality(Linked(c)) + 1
    <3>1. Cardinality(Linked(c) \cup {x}) = Cardinality(Linked(c)) + 1
      BY <1>2, <1>3, FS_AddElement
    <3> QED
      BY <1>12, <3>1
  <2>2. MemOf(d, Linked(d)) = MemOf(d, Linked(c)) + MemOf(d, {x})
    <3>1. Linked(d) \ Linked(c) = {x} /\ Linked(c) \subseteq Linked(d)
      BY <1>3, <1>12
    <3>2. IsFiniteSet(Linked(d))
      BY <1>10, LinkedAre
    <3> QED
      BY <3>1, <3>2, MemSplits
  <2>3. MemOf(d, Linked(c)) = MemOf(c, Linked(c))
    BY <1>13, SameMem
  <2>4. MemOf(d, {x}) = 1
    BY <1>7, <1>9, MemOfOne
  <2> QED
    BY <1>9, <2>1, <2>2, <2>3, <2>4 DEF Counted, Tidy
<1>16. Accounted(d, H \ {x})
  <2>1. \A e \in Entries : c.entry[e].mem > 0 <=> e \in Linked(c) \cup c.gc \cup H
    BY DEF Tidy, Accounted
  <2>2. Linked(c) \cap c.gc = {} /\ H \cap (Linked(c) \cup c.gc) = {} /\ H \subseteq Entries
    BY DEF Tidy, Accounted
  <2>3. \A e \in Entries : d.entry[e].mem > 0 <=> c.entry[e].mem > 0
    BY <1>3, <1>7, <1>9
  <2>4. {e \in Entries : d.entry[e].mem > 0} = Linked(d) \cup d.gc \cup (H \ {x})
    BY <1>1, <1>2, <1>3, <1>9, <1>12, <2>1, <2>2, <2>3
  <2> QED
    BY <1>3, <1>9, <1>12, <2>2, <2>4 DEF Accounted
<1> QED
  BY <1>9, <1>10, <1>12, <1>14, <1>15, <1>16 DEF Tidy, d, E, LaidDown

(***************************************************************************)
(* The walk of a chain: where it stops, and what it finds.                 *)
(***************************************************************************)
LEMMA PositionFacts ==
    ASSUME NEW c \in Table, NEW k \in Keys
    PROVE  /\ Position(c, k) \in 1 .. Len(c.slots[HashOf[k]]) + 1
           /\ Position(c, k) <= Len(c.slots[HashOf[k]]) => c.entry[c.slots[HashOf[k]][Position(c, k)]].key = k
           /\ \A j \in DOMAIN c.slots[HashOf[k]] :
                 c.entry[c.slots[HashOf[k]][j]].key = k => Position(c, k) <= j
<1> DEFINE s == c.slots[HashOf[k]]
           M == {i \in DOMAIN s : c.entry[s[i]].key = k} \cup {Len(s) + 1}
<1>1. s \in Seq(Entries) /\ Len(s) \in Nat /\ DOMAIN s = 1 .. Len(s)
  <2>1. s \in Seq(Entries)
    BY CacheAssumption DEF Table
  <2> QED
    BY <2>1
<1> HIDE DEF s
<1>2. M \subseteq Nat /\ M # {} /\ M \subseteq 1 .. Len(s) + 1
  BY <1>1
<1>3. \E i \in M : \A j \in M : i <= j
  <2> HIDE DEF M
  <2> QED
    BY <1>2, Smallest
<1>4. Min(M) \in M /\ \A j \in M : Min(M) <= j
  <2> HIDE DEF M
  <2> QED
    BY <1>3 DEF Min
<1>5. Position(c, k) = Min(M)
  BY DEF Position, s
<1>6. /\ Position(c, k) \in 1 .. Len(s) + 1
      /\ Position(c, k) <= Len(s) => c.entry[s[Position(c, k)]].key = k
      /\ \A j \in DOMAIN s : c.entry[s[j]].key = k => Position(c, k) <= j
  <2> DEFINE i == Min(M)
  <2>1. i \in M /\ \A j \in M : i <= j
    BY <1>4
  <2> HIDE DEF i
  <2>2. i \in 1 .. Len(s) + 1 /\ (i <= Len(s) => c.entry[s[i]].key = k)
    BY <1>1, <2>1
  <2>3. \A j \in DOMAIN s : c.entry[s[j]].key = k => i <= j
    BY <2>1
  <2> QED
    BY <1>5, <2>2, <2>3 DEF i
<1> QED
  BY <1>6 DEF s

\* A walk finds the entry of its key, if there is one.
LEMMA FoundIs ==
    ASSUME NEW c, NEW H, Tidy(c, H), NEW k \in Keys
    PROVE  Found(c, k) = {e \in Linked(c) : c.entry[e].key = k}
<1> DEFINE s == c.slots[HashOf[k]]
           i == Position(c, k)
<1>1. c \in Table /\ s \in Seq(Entries) /\ Len(s) \in Nat /\ DOMAIN s = 1 .. Len(s) /\ HashOf[k] \in Buckets
  <2>1. c \in Table /\ HashOf[k] \in Buckets
    BY CacheAssumption DEF Tidy
  <2>2. s \in Seq(Entries)
    BY <2>1 DEF Table
  <2> QED
    BY <2>1, <2>2
<1>2. /\ i \in 1 .. Len(s) + 1 /\ (i <= Len(s) => c.entry[s[i]].key = k)
      /\ \A j \in DOMAIN s : c.entry[s[j]].key = k => i <= j
  BY <1>1, PositionFacts
<1>3. \A j \in DOMAIN s : s[j] \in Linked(c)
  BY <1>1 DEF Linked
<1>4. Found(c, k) = {e \in Entries : i <= Len(s) /\ s[i] = e}
  BY DEF Found
<1> HIDE DEF i, s
<1>5. ASSUME NEW e \in Found(c, k) PROVE e \in Linked(c) /\ c.entry[e].key = k
  BY <1>1, <1>2, <1>3, <1>4
<1>6. ASSUME NEW e \in Linked(c), c.entry[e].key = k PROVE e \in Found(c, k)
  <2>1. e \in On(s)
    BY <1>6, ChainsApart DEF s
  <2>2. PICK j \in DOMAIN s : s[j] = e
    BY <2>1 DEF On
  <2>3. i <= j /\ j <= Len(s) /\ i \in DOMAIN s
    BY <1>1, <1>2, <1>6, <2>2
  <2>4. c.entry[s[i]].key = k /\ s[i] \in Linked(c) /\ i <= Len(s)
    BY <1>1, <1>2, <1>3, <2>3
  <2>5. s[i] = e
    BY <1>6, <2>4 DEF Tidy, Chained
  <2> QED
    BY <1>4, <1>6, <2>4, <2>5 DEF Linked
<1> QED
  BY <1>5, <1>6

LEMMA StaleLinked ==
    ASSUME NEW c \in Table, NEW k \in Keys, NEW t
    PROVE  Stale(c, k, t) \subseteq {e \in Linked(c) :
             \E j \in 1 .. Position(c, k) - 1 : j \in DOMAIN c.slots[HashOf[k]] /\ c.slots[HashOf[k]][j] = e}
<1> DEFINE s == c.slots[HashOf[k]]
<1>1. s \in Seq(Entries) /\ Len(s) \in Nat /\ DOMAIN s = 1 .. Len(s) /\ HashOf[k] \in Buckets
  <2>1. HashOf[k] \in Buckets
    BY CacheAssumption
  <2>2. s \in Seq(Entries)
    BY <2>1 DEF Table
  <2> QED
    BY <2>1, <2>2
<1>2. Position(c, k) \in 1 .. Len(s) + 1
  BY PositionFacts
<1> HIDE DEF s
<1>3. \A j \in 1 .. Position(c, k) - 1 : j \in DOMAIN s
  BY <1>1, <1>2
<1> QED
  BY <1>1, <1>3 DEF Stale, Linked, s

LEMMA SplitChain ==
    ASSUME NEW S, NEW s \in Seq(S), Distinct(s), NEW i \in 1 .. Len(s) + 1
    PROVE  /\ SubSeq(s, 1, i - 1) \in Seq(S) /\ SubSeq(s, i + 1, Len(s)) \in Seq(S)
           /\ Distinct(SubSeq(s, 1, i - 1)) /\ Distinct(SubSeq(s, i + 1, Len(s)))
           /\ On(SubSeq(s, 1, i - 1)) = {s[j] : j \in 1 .. i - 1}
           /\ On(SubSeq(s, i + 1, Len(s))) = {s[j] : j \in i + 1 .. Len(s)}
<1>0. Len(s) \in Nat /\ DOMAIN s = 1 .. Len(s)
  OBVIOUS
<1>1. ASSUME NEW m \in 1 .. Len(s) + 2, NEW n \in 0 .. Len(s), m <= n + 2
      PROVE  /\ SubSeq(s, m, n) \in Seq(S) /\ Distinct(SubSeq(s, m, n))
             /\ On(SubSeq(s, m, n)) = {s[j] : j \in m .. n}
  <2> DEFINE u == SubSeq(s, m, n)
  <2>1. CASE m <= n
    <3>1. /\ u \in Seq(S) /\ DOMAIN u = 1 .. n - m + 1
          /\ \A j \in 1 .. n - m + 1 : u[j] = s[m + j - 1]
      BY <1>0, <2>1
    <3> HIDE DEF u
    <3>2. Distinct(u)
      <4> SUFFICES ASSUME NEW f \in 1 .. n - m + 1, NEW g \in 1 .. n - m + 1, u[f] = u[g] PROVE f = g
        BY <3>1 DEF Distinct
      <4>1. m + f - 1 \in DOMAIN s /\ m + g - 1 \in DOMAIN s
        BY <1>0, <2>1
      <4>2. m + f - 1 = m + g - 1
        BY <3>1, <4>1 DEF Distinct
      <4> QED
        BY <4>2
    <3>3. \A j \in m .. n : j - m + 1 \in 1 .. n - m + 1 /\ m + (j - m + 1) - 1 = j
      BY <2>1
    <3>4. \A j \in 1 .. n - m + 1 : m + j - 1 \in m .. n
      BY <2>1
    <3>5. On(u) = {s[j] : j \in m .. n}
      <4>1. On(u) = {u[j] : j \in 1 .. n - m + 1}
        BY <3>1 DEF On
      <4>2. \A y \in On(u) : \E j \in m .. n : y = s[j]
        BY <3>1, <3>4, <4>1
      <4>3. \A j \in m .. n : s[j] = u[j - m + 1]
        BY <3>1, <3>3
      <4>4. \A j \in m .. n : s[j] \in On(u)
        BY <3>3, <4>1, <4>3
      <4> QED
        BY <4>2, <4>4
    <3> QED
      BY <3>1, <3>2, <3>5 DEF u
  <2>2. CASE ~ (m <= n)
    <3>1. u = <<>> /\ m .. n = {}
      BY <1>0, <2>2, SubSeqEmpty
    <3> QED
      BY <3>1 DEF On, Distinct
  <2> QED
    BY <2>1, <2>2
<1>2. /\ 1 \in 1 .. Len(s) + 2 /\ i - 1 \in 0 .. Len(s) /\ 1 <= (i - 1) + 2
      /\ i + 1 \in 1 .. Len(s) + 2 /\ Len(s) \in 0 .. Len(s) /\ i + 1 <= Len(s) + 2
  BY <1>0
<1> QED
  BY <1>1, <1>2

(***************************************************************************)
(* Steps that leave every process with the entry it has.                   *)
(***************************************************************************)
\* Nobody takes up or lays down an entry.
RolesSame ==
    /\ Storing' = Storing /\ Holding' = Holding
    /\ \A q \in Storing \cup Holding : /\ proc'[q].entry = proc[q].entry /\ proc'[q].key = proc[q].key
                                       /\ proc'[q].since = proc[q].since

LEMMA HandsAre == InHand = {proc[p].entry : p \in Storing}
  BY DEF InHand, Storing

LEMMA HeldAreKept ==
    ASSUME Inv, Tended, NEW p \in Holding
    PROVE  /\ p \in Procs /\ proc[p].entry \in Entries /\ proc[p].since \in Time
           /\ Kept(cache, proc[p].entry, proc[p].since, clock)
           /\ cache.entry[proc[p].entry].key = proc[p].key
<1>1. p \in Procs /\ proc[p].pc = "holding"
  BY DEF Holding
<1>2. proc[p] \in Call
  BY <1>1 DEF Inv, CallsTyped
<1> QED
  BY <1>1, <1>2 DEF Tended, HoldsInv, Call

LEMMA HoldersFinite ==
    ASSUME NEW e
    PROVE  IsFiniteSet(Holders(e)) /\ Cardinality(Holders(e)) \in Nat
<1>1. Holders(e) \subseteq Procs
  BY DEF Holders
<1> QED
  BY <1>1, CacheAssumption, FS_Subset, FS_CardinalityType

LEMMA Unheld ==
    ASSUME NEW e, \A p \in Holding : proc[p].entry # e
    PROVE  Cardinality(Holders(e)) = 0
<1>1. Holders(e) = {}
  BY DEF Holders, Holding
<1> QED
  BY <1>1, FS_EmptySet

LEMMA RefTyped ==
    ASSUME NEW c, NEW H, Tidy(c, H), NEW e \in Entries
    PROVE  c.entry[e] \in Entry /\ c.entry[e].ref \in Int
  BY DEF Tidy, Table, Entry

LEMMA Undisturbed ==
    ASSUME Inv, Tended, Cleaned(cache, cache', InHand, clock), clock' = clock, RolesSame
    PROVE  Tended'
<1>1. InHand' = InHand
  <2>1. InHand' = {proc'[p].entry : p \in Storing'}
    BY DEF InHand, Storing
  <2> QED
    BY <2>1, HandsAre DEF RolesSame
<1>2. Tidy(cache', InHand')
  BY <1>1 DEF Cleaned
<1>3. HandsInv'
  <2>1. \A p \in Storing : cache'.entry[proc[p].entry] = cache.entry[proc[p].entry]
    BY HandsAre DEF Cleaned
  <2> QED
    BY <2>1 DEF RolesSame, Tended, HandsInv
<1>4. \A p \in Holding : /\ Kept(cache', proc[p].entry, proc[p].since, clock)
                         /\ cache'.entry[proc[p].entry].key = proc[p].key
                         /\ cache'.entry[proc[p].entry].ref = cache.entry[proc[p].entry].ref
  BY HeldAreKept DEF Cleaned
<1>5. HoldsInv'
  <2>1. ASSUME NEW e \in Entries PROVE cache'.entry[e].ref >= Cardinality(Holders(e)')
    <3>1. Holders(e)' = Holders(e)
      <4>1. Holders(e) = {p \in Holding : proc[p].entry = e}
        BY DEF Holders, Holding
      <4>2. Holders(e)' = {p \in Holding' : proc'[p].entry = e}
        BY DEF Holders, Holding
      <4> QED
        BY <4>1, <4>2 DEF RolesSame
    <3>2. cache.entry[e].ref >= Cardinality(Holders(e)) /\ cache.entry[e].ref \in Int
      BY RefTyped DEF Tended, HoldsInv
    <3>3. CASE \E p \in Holding : proc[p].entry = e
      BY <1>4, <3>1, <3>2, <3>3
    <3>4. CASE \A p \in Holding : proc[p].entry # e
      <4>1. Cardinality(Holders(e)) = 0
        BY <3>4, Unheld
      <4>2. cache'.entry[e].ref \in {cache.entry[e].ref, 0}
        BY DEF Cleaned
      <4> QED
        BY <3>1, <3>2, <4>1, <4>2
    <3> QED
      BY <3>3, <3>4
  <2>2. ASSUME NEW p \in Holding'
        PROVE  /\ proc'[p].entry \in Entries /\ Kept(cache', proc'[p].entry, proc'[p].since, clock')
               /\ cache'.entry[proc'[p].entry].key = proc'[p].key
    BY <1>4, HeldAreKept DEF RolesSame
  <2> QED
    BY <2>1, <2>2 DEF HoldsInv, Holding
<1> QED
  BY <1>2, <1>3, <1>5 DEF Tended

\* A call that deals with no entry, before and after.
Empty == {"idle", "alloc", "expwait", "expunging", "findwait", "clrwait", "clearing"}

LEMMA NoRole ==
    ASSUME Inv, NEW p \in Procs, NEW c, proc' = [proc EXCEPT ![p] = c], proc[p].pc \in Empty, c.pc \in Empty
    PROVE  RolesSame
<1>1. \A q \in Procs : proc'[q] = IF q = p THEN c ELSE proc[q]
  BY DEF Inv, CallsTyped
<1>2. p \notin Storing /\ p \notin Holding
  BY DEF Storing, Holding, Empty
<1>3. Storing' = Storing
  BY <1>1 DEF Storing, Empty
<1>4. Holding' = Holding
  BY <1>1 DEF Holding, Empty
<1>5. Storing \cup Holding \subseteq Procs
  BY DEF Storing, Holding
<1> QED
  BY <1>1, <1>2, <1>3, <1>4, <1>5 DEF RolesSame

LEMMA NoStep == ASSUME UNCHANGED proc PROVE RolesSame
  BY DEF RolesSame, Storing, Holding

LEMMA CacheSame ==
    ASSUME Tended, UNCHANGED cache
    PROVE  Cleaned(cache, cache', InHand, clock)
  BY CleanedSelf DEF Tended

\* Time passes, but not so long that an entry in use is given up.
LEMMA TickTends == ASSUME Inv, Tended, Tick PROVE Tended'
<1>1. /\ UNCHANGED <<cache, proc>> /\ clock' = clock + 1 /\ clock \in Time
      /\ \A p \in Procs : (proc[p].pc = "holding" /\ GcTTL # 0) => clock - proc[p].since < GcTTL
  BY DEF Tick, Inv, CallsTyped
<1>2. InHand' = InHand /\ HandsInv'
  BY <1>1 DEF InHand, Tended, HandsInv, Storing
<1>3. ASSUME NEW p \in Holding PROVE Kept(cache, proc[p].entry, proc[p].since, clock')
  <2>1. Kept(cache, proc[p].entry, proc[p].since, clock) /\ proc[p].since \in Time /\ p \in Procs
    BY HeldAreKept
  <2>2. /\ clock \in Int /\ proc[p].since \in Int /\ GcTTL \in Int
        /\ (GcTTL # 0) => clock - proc[p].since < GcTTL
    BY <1>1, <2>1, CacheAssumption DEF Time, Holding
  <2>3. proc[p].since <= clock' /\ (GcTTL # 0 => clock' - proc[p].since <= GcTTL)
    BY <1>1, <2>1, <2>2 DEF Kept
  <2> QED
    BY <2>1, <2>3 DEF Kept
<1>4. HoldsInv'
  <2>1. \A e \in Entries : Holders(e)' = Holders(e)
    BY <1>1 DEF Holders
  <2> QED
    BY <1>1, <1>3, <2>1 DEF HoldsInv, Tended, Holding
<1> QED
  BY <1>1, <1>2, <1>4 DEF Tended

(***************************************************************************)
(* A process stores: it takes up an entry, and lays it down in the table   *)
(* or gives it back.                                                       *)
(***************************************************************************)
LEMMA LayDown ==
    ASSUME Inv, Tended, NEW p \in Storing, Return(p), clock' = clock,
           NEW m, Cleaned(cache, m, InHand, clock),
           Tidy(cache', InHand \ {proc[p].entry}), Linked(m) \subseteq Linked(cache'), cache'.gc = m.gc,
           \A e \in Entries \ {proc[p].entry} : cache'.entry[e] = m.entry[e],
           cache'.entry[proc[p].entry].ref \in {m.entry[proc[p].entry].ref, 0}
    PROVE  Tended'
<1> DEFINE x == proc[p].entry
<1>1. p \in Procs /\ proc[p].pc \in {"insert", "inswait"}
  BY DEF Storing
<1>2. \A q \in Procs : proc'[q] = IF q = p THEN Idle ELSE proc[q]
  BY <1>1 DEF Inv, CallsTyped, Return
<1>3. Idle.pc = "idle"
  BY DEF Idle
<1>4. Storing' = Storing \ {p}
  BY <1>2, <1>3 DEF Storing
<1>5. Holding' = Holding /\ p \notin Holding
  BY <1>1, <1>2, <1>3 DEF Holding
<1>6. x \in Entries /\ x \in InHand /\ \A q \in Storing \ {p} : proc[q].entry # x
  BY HandsAre DEF Tended, HandsInv
<1>7. InHand' = InHand \ {x}
  <2>1. InHand' = {proc'[q].entry : q \in Storing'}
    BY DEF InHand, Storing
  <2>2. \A q \in Storing \ {p} : proc'[q] = proc[q]
    BY <1>2 DEF Storing
  <2> QED
    BY <1>4, <1>6, <2>1, <2>2, HandsAre
<1>8. Tidy(m, InHand) /\ x \notin Linked(m) /\ x \notin m.gc
  BY <1>6 DEF Cleaned, Tidy, Accounted
<1>9. HandsInv'
  <2>1. \A q \in Storing' : q \in Storing /\ proc'[q] = proc[q] /\ proc[q].entry # x
    BY <1>2, <1>4, <1>6 DEF Storing
  <2>2. \A q \in Storing : /\ proc[q].entry \in Entries /\ proc[q].key \in Keys
                           /\ cache.entry[proc[q].entry].key = proc[q].key
                           /\ m.entry[proc[q].entry] = cache.entry[proc[q].entry]
    BY HandsAre DEF Tended, HandsInv, Cleaned
  <2>3. \A q, r \in Storing : proc[q].entry = proc[r].entry => q = r
    BY DEF Tended, HandsInv
  <2>4. \A q \in Storing' : cache'.entry[proc[q].entry] = m.entry[proc[q].entry]
    BY <2>1, <2>2
  <2> QED
    BY <2>1, <2>2, <2>3, <2>4 DEF HandsInv
<1>10. \A q \in Holding : /\ proc[q].entry # x /\ proc[q].entry \in Entries
                          /\ Kept(m, proc[q].entry, proc[q].since, clock)
                          /\ m.entry[proc[q].entry].key = proc[q].key
                          /\ m.entry[proc[q].entry].ref = cache.entry[proc[q].entry].ref
  <2> SUFFICES ASSUME NEW q \in Holding
               PROVE  /\ proc[q].entry # x /\ proc[q].entry \in Entries
                      /\ Kept(m, proc[q].entry, proc[q].since, clock)
                      /\ m.entry[proc[q].entry].key = proc[q].key
                      /\ m.entry[proc[q].entry].ref = cache.entry[proc[q].entry].ref
    OBVIOUS
  <2>1. /\ proc[q].entry \in Entries /\ proc[q].since \in Time
        /\ Kept(cache, proc[q].entry, proc[q].since, clock) /\ cache.entry[proc[q].entry].key = proc[q].key
    BY HeldAreKept
  <2>2. /\ Kept(m, proc[q].entry, proc[q].since, clock)
        /\ m.entry[proc[q].entry].key = cache.entry[proc[q].entry].key
        /\ m.entry[proc[q].entry].ref = cache.entry[proc[q].entry].ref
    BY <2>1 DEF Cleaned
  <2> QED
    BY <1>8, <2>1, <2>2 DEF Kept
<1>11. ASSUME NEW q \in Holding
       PROVE  /\ Kept(cache', proc[q].entry, proc[q].since, clock)
              /\ cache'.entry[proc[q].entry] = m.entry[proc[q].entry]
  <2>1. cache'.entry[proc[q].entry] = m.entry[proc[q].entry] /\ Kept(m, proc[q].entry, proc[q].since, clock)
    BY <1>10
  <2> QED
    BY <2>1 DEF Kept
<1>12. \A q \in Holding : proc'[q] = proc[q]
  BY <1>2, <1>5 DEF Holding
<1>13. HoldsInv'
  <2>1. ASSUME NEW e \in Entries PROVE cache'.entry[e].ref >= Cardinality(Holders(e)')
    <3>1. Holders(e)' = Holders(e)
      <4>1. Holders(e) = {q \in Holding : proc[q].entry = e}
        BY DEF Holders, Holding
      <4>2. Holders(e)' = {q \in Holding' : proc'[q].entry = e}
        BY DEF Holders, Holding
      <4> QED
        BY <1>5, <1>12, <4>1, <4>2
    <3>2. cache.entry[e].ref >= Cardinality(Holders(e)) /\ cache.entry[e].ref \in Int
      BY RefTyped DEF Tended, HoldsInv
    <3>3. CASE \E q \in Holding : proc[q].entry = e
      BY <1>10, <1>11, <3>1, <3>2, <3>3
    <3>4. CASE \A q \in Holding : proc[q].entry # e
      <4>1. Cardinality(Holders(e)) = 0
        BY <3>4, Unheld
      <4>2. m.entry[e].ref \in {cache.entry[e].ref, 0}
        BY DEF Cleaned
      <4>3. cache'.entry[e].ref \in {m.entry[e].ref, 0}
        OBVIOUS
      <4> QED
        BY <3>1, <3>2, <4>1, <4>2, <4>3
    <3> QED
      BY <3>3, <3>4
  <2>2. ASSUME NEW q \in Holding'
        PROVE  /\ proc'[q].entry \in Entries /\ Kept(cache', proc'[q].entry, proc'[q].since, clock')
               /\ cache'.entry[proc'[q].entry].key = proc'[q].key
    BY <1>5, <1>10, <1>11, <1>12
  <2> QED
    BY <2>1, <2>2 DEF HoldsInv, Holding
<1> QED
  BY <1>7, <1>9, <1>13 DEF Tended

(***************************************************************************)
(* One entry is written: touched, or made.                                 *)
(***************************************************************************)
\* One entry of a table was written.
Put(c, d, e, n) ==
    /\ d \in Table /\ d.slots = c.slots /\ d.gc = c.gc /\ d.nentries = c.nentries /\ d.memsize = c.memsize
    /\ d.entry[e] = n /\ \A f \in Entries \ {e} : d.entry[f] = c.entry[f]
    /\ Linked(d) = Linked(c)

LEMMA EntryPut ==
    ASSUME NEW c \in Table, NEW e \in Entries, NEW n \in Entry
    PROVE  Put(c, [c EXCEPT !.entry[e] = n], e, n)
<1> DEFINE E == [c.entry EXCEPT ![e] = n]
           d == [c EXCEPT !.entry = E]
<1>1. c.entry \in [Entries -> Entry] /\ c.gc \subseteq Entries
  BY DEF Table
<1>2. E \in [Entries -> Entry] /\ E[e] = n /\ \A f \in Entries \ {e} : E[f] = c.entry[f]
  BY <1>1
<1> HIDE DEF E
<1>3. Remade(c, d, E, c.gc)
  BY EntriesChanged
<1> HIDE DEF d
<1>4. d \in Table /\ d.slots = c.slots /\ d.gc = c.gc /\ d.nentries = c.nentries /\ d.memsize = c.memsize /\ d.entry = E
  BY <1>1, <1>2, <1>3 DEF Remade
<1>5. Linked(d) = Linked(c)
  BY <1>4 DEF Linked
<1>6. Put(c, d, e, n)
  BY <1>2, <1>4, <1>5 DEF Put
<1> QED
  BY <1>6 DEF d, E

LEMMA TouchTidy ==
    ASSUME NEW c, NEW H, Tidy(c, H), NEW e \in Entries, NEW n \in Entry,
           n.key = c.entry[e].key, n.mem = c.entry[e].mem, NEW d, d = [c EXCEPT !.entry[e] = n]
    PROVE  Tidy(d, H)
<1>1. c \in Table /\ c.entry \in [Entries -> Entry]
  BY DEF Tidy, Table
<1>2. /\ d \in Table /\ d.slots = c.slots /\ d.gc = c.gc /\ d.nentries = c.nentries /\ d.memsize = c.memsize
      /\ d.entry[e] = n /\ \A f \in Entries \ {e} : d.entry[f] = c.entry[f]
      /\ Linked(d) = Linked(c)
  <2>1. Put(c, d, e, n)
    BY <1>1, EntryPut
  <2> QED
    BY <2>1 DEF Put
<1>3. \A f \in Entries : d.entry[f].key = c.entry[f].key /\ d.entry[f].mem = c.entry[f].mem
  BY <1>2
<1>4. Linked(c) \subseteq Entries /\ \A b \in Buckets : On(c.slots[b]) \subseteq Entries
  BY <1>1, LinkedAre
<1>5. Chained(d)
  BY <1>2, <1>3, <1>4 DEF Tidy, Chained
<1>6. MemOf(d, Linked(c)) = MemOf(c, Linked(c))
  BY <1>3, <1>4, SameMem
<1>7. Counted(d)
  BY <1>2, <1>6 DEF Tidy, Counted
<1>8. Accounted(d, H)
  BY <1>2, <1>3 DEF Tidy, Accounted
<1> QED
  BY <1>2, <1>5, <1>7, <1>8 DEF Tidy

LEMMA MakeTidy ==
    ASSUME NEW c, NEW H, Tidy(c, H), NEW e \in Entries, c.entry[e].mem = 0, NEW n \in Entry, n.mem = 1,
           NEW d, d = [c EXCEPT !.entry[e] = n]
    PROVE  Tidy(d, H \cup {e}) /\ e \notin Linked(c) \cup c.gc \cup H
<1>1. c \in Table /\ c.entry \in [Entries -> Entry]
  BY DEF Tidy, Table
<1>2. /\ d \in Table /\ d.slots = c.slots /\ d.gc = c.gc /\ d.nentries = c.nentries /\ d.memsize = c.memsize
      /\ d.entry[e] = n /\ \A f \in Entries \ {e} : d.entry[f] = c.entry[f]
      /\ Linked(d) = Linked(c)
  <2>1. Put(c, d, e, n)
    BY <1>1, EntryPut
  <2> QED
    BY <2>1 DEF Put
<1>3. /\ \A f \in Entries : c.entry[f].mem > 0 <=> f \in Linked(c) \cup c.gc \cup H
      /\ Linked(c) \cup c.gc \cup H \subseteq Entries
      /\ Linked(c) \cap c.gc = {} /\ H \cap (Linked(c) \cup c.gc) = {}
  BY DEF Tidy, Accounted
<1>4. e \notin Linked(c) \cup c.gc \cup H
  <2>1. ~ (c.entry[e].mem > 0)
    OBVIOUS
  <2> QED
    BY <1>3, <2>1
<1>5. \A f \in Linked(c) : d.entry[f] = c.entry[f]
  BY <1>2, <1>3, <1>4
<1>6. Chained(d)
  <2>1. \A b \in Buckets : On(c.slots[b]) \subseteq Linked(c)
    BY <1>1, LinkedAre
  <2> QED
    BY <1>2, <1>5, <2>1 DEF Tidy, Chained
<1>7. MemOf(d, Linked(c)) = MemOf(c, Linked(c))
  BY <1>5, SameMem
<1>8. Counted(d)
  BY <1>2, <1>7 DEF Tidy, Counted
<1>9. Accounted(d, H \cup {e})
  <2>1. d.entry[e].mem > 0
    BY <1>2
  <2>2. \A f \in Entries : d.entry[f].mem > 0 <=> f \in Linked(d) \cup d.gc \cup (H \cup {e})
    BY <1>2, <1>3, <2>1
  <2>3. {f \in Entries : d.entry[f].mem > 0} = Linked(d) \cup d.gc \cup (H \cup {e})
    BY <1>2, <1>3, <2>2
  <2> QED
    BY <1>2, <1>3, <1>4, <2>3 DEF Accounted
<1> QED
  BY <1>2, <1>4, <1>6, <1>8, <1>9 DEF Tidy

LEMMA MakeEntryTends == ASSUME CacheInv, NEW p \in Procs, MakeEntry(p) PROVE Tended'
<1>0. Inv /\ Tended /\ proc \in [Procs -> Call] /\ proc[p].pc = "alloc" /\ clock' = clock
  BY DEF CacheInv, Inv, CallsTyped, MakeEntry
<1>1. CASE Slammed(p)
  <2>1. UNCHANGED cache /\ Return(p)
    BY <1>1 DEF MakeEntry
  <2>2. RolesSame
    BY <1>0, <2>1, NoRole DEF Return, Empty, Idle
  <2> QED
    BY <1>0, <2>1, <2>2, CacheSame, Undisturbed
<1>2. CASE ~Slammed(p)
  <2> DEFINE k == proc[p].key
             n == [Free EXCEPT !.key = k, !.ttl = proc[p].ttl, !.mem = 1, !.by = p]
  <2>1. PICK e \in Entries :
          /\ cache.entry[e].mem = 0 /\ cache' = [cache EXCEPT !.entry[e] = n]
          /\ proc' = [proc EXCEPT ![p].pc = "insert", ![p].entry = e, ![p].tries = 0]
    BY <1>2 DEF MakeEntry
  <2>2. n \in Entry /\ n.mem = 1 /\ n.key = k /\ n.ref = 0
    <3>1. proc[p] \in Call /\ 1 \in 0 .. 2
      BY <1>0
    <3>2. n \in Entry
      BY <3>1, FreeIsEntry DEF Entry, Call
    <3>3. n.mem = 1 /\ n.key = k /\ n.ref = 0
      BY DEF Free
    <3> QED
      BY <3>2, <3>3
  <2>3. k \in Keys
    BY <1>0 DEF CacheInv, KeysGiven
  <2> HIDE DEF k, n
  <2>4. Tidy(cache', InHand \cup {e}) /\ e \notin Linked(cache) \cup cache.gc \cup InHand
    BY <2>1, <2>2, MakeTidy DEF CacheInv, Tended
  <2>5. /\ cache'.gc = cache.gc /\ Linked(cache') = Linked(cache) /\ cache'.entry[e] = n
        /\ \A f \in Entries \ {e} : cache'.entry[f] = cache.entry[f]
    <3>1. cache \in Table
      BY <1>0 DEF Tended, Tidy
    <3>2. Put(cache, cache', e, n)
      BY <2>1, <2>2, <3>1, EntryPut
    <3> QED
      BY <3>2 DEF Put
  <2>6. /\ \A q \in Procs \ {p} : proc'[q] = proc[q]
        /\ proc'[p].pc = "insert" /\ proc'[p].entry = e /\ proc'[p].key = k
    BY <1>0, <2>1 DEF Call, k
  <2>7. Storing' = Storing \cup {p} /\ p \notin Storing /\ p \notin Holding /\ Holding' = Holding
    BY <1>0, <2>6 DEF Storing, Holding
  <2>8. InHand' = InHand \cup {e}
    <3>1. InHand' = {proc'[q].entry : q \in Storing'}
      BY DEF InHand, Storing
    <3>2. \A q \in Storing : proc'[q] = proc[q]
      BY <2>6, <2>7 DEF Storing
    <3> QED
      BY <2>6, <2>7, <3>1, <3>2, HandsAre
  <2>9. HandsInv'
    <3>1. \A q \in Storing : /\ proc'[q] = proc[q] /\ proc[q].entry # e /\ proc[q].entry \in Entries /\ proc[q].key \in Keys
                             /\ cache'.entry[proc[q].entry].key = proc[q].key
      <4>1. \A q \in Storing : proc[q].entry \in InHand /\ q \in Procs \ {p}
        BY <2>7, HandsAre DEF Storing
      <4>2. \A q \in Storing : proc[q].entry \in Entries /\ proc[q].key \in Keys /\ cache.entry[proc[q].entry].key = proc[q].key
        BY <1>0 DEF Tended, HandsInv
      <4> QED
        BY <2>4, <2>5, <2>6, <4>1, <4>2
    <3>2. \A q, r \in Storing : proc[q].entry = proc[r].entry => q = r
      BY <1>0 DEF Tended, HandsInv
    <3>3. cache'.entry[e].key = k
      BY <2>2, <2>5
    <3> QED
      BY <2>3, <2>6, <2>7, <3>1, <3>2, <3>3 DEF HandsInv
  <2>10. \A q \in Holding : /\ proc'[q] = proc[q] /\ proc[q].entry # e /\ proc[q].entry \in Entries
                            /\ cache'.entry[proc[q].entry] = cache.entry[proc[q].entry]
                            /\ Kept(cache', proc[q].entry, proc[q].since, clock)
                            /\ cache.entry[proc[q].entry].key = proc[q].key
    <3> SUFFICES ASSUME NEW q \in Holding
                 PROVE  /\ proc'[q] = proc[q] /\ proc[q].entry # e /\ proc[q].entry \in Entries
                        /\ cache'.entry[proc[q].entry] = cache.entry[proc[q].entry]
                        /\ Kept(cache', proc[q].entry, proc[q].since, clock)
                        /\ cache.entry[proc[q].entry].key = proc[q].key
      OBVIOUS
    <3>1. /\ q \in Procs /\ proc[q].entry \in Entries /\ Kept(cache, proc[q].entry, proc[q].since, clock)
          /\ cache.entry[proc[q].entry].key = proc[q].key
      BY <1>0, HeldAreKept
    <3>2. proc[q].entry # e
      BY <2>4, <3>1 DEF Kept
    <3>3. cache'.entry[proc[q].entry] = cache.entry[proc[q].entry]
      BY <2>5, <3>1, <3>2
    <3>4. Kept(cache', proc[q].entry, proc[q].since, clock)
      BY <2>5, <3>1, <3>3 DEF Kept
    <3> QED
      BY <2>6, <2>7, <3>1, <3>2, <3>3, <3>4
  <2>11. HoldsInv'
    <3>1. ASSUME NEW f \in Entries PROVE cache'.entry[f].ref >= Cardinality(Holders(f)')
      <4>1. Holders(f)' = Holders(f)
        <5>1. Holders(f) = {q \in Holding : proc[q].entry = f}
          BY DEF Holders, Holding
        <5>2. Holders(f)' = {q \in Holding' : proc'[q].entry = f}
          BY DEF Holders, Holding
        <5> QED
          BY <2>7, <2>10, <5>1, <5>2
      <4>2. CASE f = e
        <5>1. Cardinality(Holders(e)) = 0
          BY <2>10, Unheld
        <5> QED
          BY <2>2, <2>5, <4>1, <4>2, <5>1
      <4>3. CASE f # e
        BY <1>0, <2>5, <4>1, <4>3 DEF Tended, HoldsInv
      <4> QED
        BY <4>2, <4>3
    <3>2. ASSUME NEW q \in Holding'
          PROVE  /\ proc'[q].entry \in Entries /\ Kept(cache', proc'[q].entry, proc'[q].since, clock')
                 /\ cache'.entry[proc'[q].entry].key = proc'[q].key
      BY <1>0, <2>7, <2>10
    <3> QED
      BY <3>1, <3>2 DEF HoldsInv, Holding
  <2> QED
    BY <2>4, <2>8, <2>9, <2>11 DEF Tended
<1> QED
  BY <1>1, <1>2

(***************************************************************************)
(* apc_cache_insert: it gives up, it bails out, or it links the entry.     *)
(***************************************************************************)
LEMMA StorerHas ==
    ASSUME CacheInv, NEW p \in Procs, proc[p].pc \in {"insert", "inswait"}
    PROVE  /\ p \in Storing /\ proc[p].entry \in InHand /\ proc[p].entry \in Entries /\ proc[p].key \in Keys
           /\ cache.entry[proc[p].entry].key = proc[p].key
           /\ Inv /\ Tended /\ Tidy(cache, InHand) /\ clock \in Time /\ rtime[p] \in Time
<1>1. p \in Storing
  BY DEF Storing
<1>2. Inv /\ Tended /\ Tidy(cache, InHand) /\ HandsInv /\ clock \in Time /\ rtime[p] \in Time
  BY DEF CacheInv, Tended, Inv, CallsTyped
<1> QED
  BY <1>1, <1>2, HandsAre DEF HandsInv

\* The entry is given back, after what was cleaned before.
LEMMA DiscardTends ==
    ASSUME CacheInv, NEW p \in Procs, proc[p].pc \in {"insert", "inswait"}, Return(p), clock' = clock,
           NEW m, Cleaned(cache, m, InHand, clock), cache' = Discard(m, proc[p].entry)
    PROVE  Tended'
<1> DEFINE x == proc[p].entry
<1>1. p \in Storing /\ x \in InHand /\ x \in Entries /\ Inv /\ Tended
  BY StorerHas
<1>2. Tidy(m, InHand) /\ m.entry \in [Entries -> Entry]
  BY DEF Cleaned, Tidy, Table
<1>3. /\ Tidy(cache', InHand \ {x}) /\ Linked(cache') = Linked(m) /\ cache'.gc = m.gc
      /\ cache'.entry = [m.entry EXCEPT ![x] = Free]
  BY <1>1, <1>2, DiscardTidy
<1>4. \A e \in Entries \ {x} : cache'.entry[e] = m.entry[e]
  BY <1>2, <1>3
<1>5. cache'.entry[x].ref \in {m.entry[x].ref, 0}
  BY <1>1, <1>2, <1>3 DEF Free
<1> QED
  BY <1>1, <1>3, <1>4, <1>5, LayDown

LEMMA InsertTestsTends == ASSUME CacheInv, NEW p \in Procs, InsertTests(p) PROVE Tended'
<1>1. /\ p \in Storing /\ Inv /\ Tended /\ proc[p].pc = "insert" /\ clock' = clock
      /\ proc \in [Procs -> Call] /\ Tidy(cache, InHand)
  BY StorerHas DEF InsertTests, CacheInv, Inv, CallsTyped
<1>2. CASE busy
  <2>1. Cleaned(cache, cache, InHand, clock)
    BY <1>1, CleanedSelf
  <2>2. Return(p) /\ cache' = Discard(cache, proc[p].entry)
    BY <1>2 DEF InsertTests
  <2> QED
    BY <1>1, <2>1, <2>2, DiscardTends
<1>3. CASE ~busy
  <2>1. proc' = [proc EXCEPT ![p].pc = "inswait"] /\ UNCHANGED cache
    BY <1>3 DEF InsertTests, Goto
  <2>2. /\ \A q \in Procs \ {p} : proc'[q] = proc[q]
        /\ proc'[p].pc = "inswait" /\ proc'[p].entry = proc[p].entry /\ proc'[p].key = proc[p].key
        /\ proc'[p].since = proc[p].since
    BY <1>1, <2>1 DEF Call
  <2>3. Storing' = Storing /\ Holding' = Holding /\ Storing \cup Holding \subseteq Procs
    BY <1>1, <2>2 DEF Storing, Holding
  <2>4. RolesSame
    BY <2>2, <2>3 DEF RolesSame
  <2> QED
    BY <1>1, <2>1, <2>4, CacheSame, Undisturbed
<1> QED
  BY <1>2, <1>3

LEMMA InsertBailsTends == ASSUME CacheInv, NEW p \in Procs, InsertBails(p) PROVE Tended'
<1> DEFINE g == Gc(cache, clock)
           D == Stale(g, proc[p].key, rtime[p])
<1>1. /\ proc[p].pc = "inswait" /\ Tidy(cache, InHand) /\ clock \in Time /\ proc[p].key \in Keys
      /\ Return(p) /\ clock' = clock
  BY StorerHas DEF InsertBails
<1>2. Cleaned(cache, g, InHand, clock) /\ Tidy(g, InHand) /\ g \in Table
  BY <1>1, GcCleans DEF Cleaned, Tidy
<1>3. D \subseteq Linked(g)
  BY <1>1, <1>2, StaleLinked
<1>4. cache' = Discard(RemoveAll(g, D, clock), proc[p].entry)
  BY DEF InsertBails
<1> HIDE DEF g, D
<1>5. Cleaned(g, RemoveAll(g, D, clock), InHand, clock)
  BY <1>1, <1>2, <1>3, RemoveAllCleans DEF Removed
<1>6. Cleaned(cache, RemoveAll(g, D, clock), InHand, clock)
  BY <1>2, <1>5, CleanedTwice
<1> QED
  BY <1>1, <1>4, <1>6, DiscardTends

\* The two parts of the chain around the place of the new entry.
Before(g, k, D) == Without(SubSeq(g.slots[HashOf[k]], 1, Position(g, k) - 1), D)
Behind(g, k) == SubSeq(g.slots[HashOf[k]], Position(g, k) + 1, Len(g.slots[HashOf[k]]))

\* Replaced, of a key.
Outdated(g, k, now) == Stale(g, k, now) \cup Found(g, k)

LEMMA RoundThePlace ==
    ASSUME NEW g, NEW H, Tidy(g, H), NEW k \in Keys, NEW now \in Time, NEW t \in Time
    PROVE  LET D == Outdated(g, k, now)
           IN  /\ Cleaned(g, RemoveAll(g, D, t), H, t)
               /\ Around(RemoveAll(g, D, t), k, Before(g, k, D), Behind(g, k))
<1> DEFINE D    == Outdated(g, k, now)
           m    == RemoveAll(g, D, t)
           s    == g.slots[HashOf[k]]
           i    == Position(g, k)
           low  == SubSeq(s, 1, i - 1)
           pre  == Without(low, D)
           post == SubSeq(s, i + 1, Len(s))
<1>1. g \in Table /\ HashOf[k] \in Buckets /\ s \in Seq(Entries) /\ Distinct(s) /\ Len(s) \in Nat /\ DOMAIN s = 1 .. Len(s)
  <2>1. g \in Table /\ HashOf[k] \in Buckets
    BY CacheAssumption DEF Tidy
  <2>2. s \in Seq(Entries) /\ Distinct(s)
    BY <2>1 DEF Table, Tidy, Chained
  <2> QED
    BY <2>1, <2>2
<1>2. i \in 1 .. Len(s) + 1
  BY <1>1, PositionFacts
<1>3. Found(g, k) = {e \in Linked(g) : g.entry[e].key = k} /\ Found(g, k) = {e \in Entries : i <= Len(s) /\ s[i] = e}
  BY FoundIs DEF Found
<1>4. Stale(g, k, now) \subseteq {e \in Linked(g) : \E j \in 1 .. i - 1 : j \in DOMAIN s /\ s[j] = e}
  BY <1>1, StaleLinked
<1>5. D \subseteq Linked(g) /\ D = Stale(g, k, now) \cup Found(g, k)
  BY <1>3, <1>4 DEF Outdated
<1> HIDE DEF D
<1>6. /\ Cleaned(g, m, H, t) /\ Linked(m) = Linked(g) \ D
      /\ \A b \in Buckets : m.slots[b] = Without(g.slots[b], D)
  <2>1. D \subseteq Linked(g)
    BY <1>5
  <2>2. Removed(g, m, H, D, t)
    BY <2>1, RemoveAllCleans
  <2> QED
    BY <2>2 DEF Removed
<1> HIDE DEF m
<1>7. \A f \in Linked(m) : m.entry[f].key # k
  BY <1>3, <1>5, <1>6 DEF Cleaned
<1> HIDE DEF s, i
<1>8. /\ low \in Seq(Entries) /\ post \in Seq(Entries) /\ Distinct(low) /\ Distinct(post)
      /\ On(low) = {s[j] : j \in 1 .. i - 1} /\ On(post) = {s[j] : j \in i + 1 .. Len(s)}
  BY <1>1, <1>2, SplitChain
<1> HIDE DEF low, post
<1>9. pre \in Seq(Entries) /\ Distinct(pre) /\ On(pre) = On(low) \ D
  BY <1>8, WithoutFacts
<1>10. On(m.slots[HashOf[k]]) = On(s) \ D
  <2>1. m.slots[HashOf[k]] = Without(s, D)
    BY <1>1, <1>6 DEF s
  <2> QED
    BY <1>1, <2>1, WithoutFacts
<1>11. \A f, h \in 1 .. Len(s) : s[f] = s[h] => f = h
  BY <1>1 DEF Distinct
<1>12. On(low) \cap On(post) = {}
  BY <1>1, <1>2, <1>8, <1>11
<1>13. On(post) \cap D = {}
  <2> SUFFICES ASSUME NEW e \in On(post), e \in D PROVE FALSE
    OBVIOUS
  <2>1. PICK j \in i + 1 .. Len(s) : e = s[j]
    BY <1>8
  <2>2. j \in 1 .. Len(s) /\ j # i /\ ~ (j \in 1 .. i - 1)
    BY <1>1, <1>2
  <2>3. CASE e \in Found(g, k)
    <3>1. i <= Len(s) /\ s[i] = e
      BY <1>3, <2>3
    <3>2. i \in 1 .. Len(s)
      BY <1>1, <1>2, <3>1
    <3> QED
      BY <1>11, <2>1, <2>2, <3>1, <3>2
  <2>4. CASE e \in Stale(g, k, now)
    <3>1. PICK h \in 1 .. i - 1 : h \in DOMAIN s /\ s[h] = e
      BY <1>4, <2>4
    <3> QED
      BY <1>1, <1>11, <2>1, <2>2, <3>1
  <2> QED
    BY <1>5, <2>3, <2>4
<1>14. On(s) \ D = (On(low) \ D) \cup On(post)
  <2>1. ASSUME NEW e \in On(s), e \notin D PROVE e \in On(low) \cup On(post)
    <3>1. PICK j \in 1 .. Len(s) : e = s[j]
      BY <1>1 DEF On
    <3>2. j # i
      <4> SUFFICES ASSUME j = i PROVE FALSE
        OBVIOUS
      <4>1. i <= Len(s) /\ s[i] = e /\ e \in Entries
        BY <1>1, <3>1
      <4>2. e \in Found(g, k)
        BY <1>3, <4>1
      <4> QED
        BY <1>5, <2>1, <4>2
    <3>3. j \in 1 .. i - 1 \/ j \in i + 1 .. Len(s)
      BY <1>1, <1>2, <3>1, <3>2
    <3> QED
      BY <1>8, <3>1, <3>3
  <2>2. On(low) \subseteq On(s) /\ On(post) \subseteq On(s)
    <3>1. \A j \in 1 .. i - 1 : j \in DOMAIN s
      BY <1>1, <1>2
    <3>2. \A j \in i + 1 .. Len(s) : j \in DOMAIN s
      BY <1>1, <1>2
    <3> QED
      BY <1>8, <3>1, <3>2 DEF On
  <2> QED
    BY <1>13, <2>1, <2>2
<1>15. Around(m, k, pre, post)
  <2> HIDE DEF pre
  <2> QED
    BY <1>7, <1>8, <1>9, <1>10, <1>12, <1>14 DEF Around
<1> QED
  BY <1>6, <1>15 DEF low, pre, post, i, s, m, D, Before, Behind

\* The slot of a new entry fits into its pool: the walk is not disturbed.
LEMMA InsertLinksTends == ASSUME CacheInv, PoolsHaveRoom, NEW p \in Procs, InsertLinks(p) PROVE Tended'
<1> DEFINE x == proc[p].entry
           k == proc[p].key
           g == Gc(cache, clock)
           D == Replaced(g, p)
           m == RemoveAll(g, D, clock)
           pre == Before(g, k, D)
           post == Behind(g, k)
<1>1. /\ proc[p].pc = "inswait" /\ Return(p) /\ clock' = clock
      /\ cache' = Link(m, x, k, rtime[p], pre, post, 1)
  BY DEF InsertLinks, PoolsHaveRoom, Before, Behind
<1>2. /\ p \in Storing /\ x \in InHand /\ x \in Entries /\ k \in Keys /\ cache.entry[x].key = k
      /\ Inv /\ Tended /\ Tidy(cache, InHand) /\ clock \in Time /\ rtime[p] \in Time
  BY <1>1, StorerHas
<1>3. Cleaned(cache, g, InHand, clock) /\ Tidy(g, InHand)
  BY ZenonT(60), <1>2, GcCleans DEF Cleaned
<1>4. D = Outdated(g, k, rtime[p])
  BY DEF Replaced, Outdated
<1> HIDE DEF g, D, k, x
<1>5. Cleaned(g, m, InHand, clock) /\ Around(m, k, pre, post)
  BY <1>2, <1>3, <1>4, RoundThePlace
<1> HIDE DEF m, pre, post
<1>6. Cleaned(cache, m, InHand, clock)
  BY <1>3, <1>5, CleanedTwice
<1>7. Tidy(m, InHand) /\ m.entry \in [Entries -> Entry] /\ m.entry[x].key = k
  BY <1>2, <1>6 DEF Cleaned, Tidy, Table
<1> DEFINE d == Link(m, x, k, rtime[p], pre, post, 1)
<1>8. LaidDown(m, d, InHand, x, rtime[p])
  BY <1>2, <1>5, <1>7, LinkTidy
<1> HIDE DEF d
<1>9. (\A e \in Entries \ {x} : d.entry[e] = m.entry[e]) /\ d.entry[x].ref = m.entry[x].ref
  <2>1. m.entry[x] \in Entry
    BY <1>2, <1>7
  <2>2. [m.entry[x] EXCEPT !.mem = 1, !.ctime = rtime[p], !.atime = rtime[p]].ref = m.entry[x].ref
    BY <2>1 DEF Entry
  <2> QED
    BY <1>2, <1>7, <1>8, <2>2 DEF LaidDown
<1>10. cache' = d
  BY <1>1 DEF d
<1>11. /\ Tidy(cache', InHand \ {x}) /\ Linked(m) \subseteq Linked(cache') /\ cache'.gc = m.gc
       /\ \A e \in Entries \ {x} : cache'.entry[e] = m.entry[e]
       /\ cache'.entry[x].ref \in {m.entry[x].ref, 0}
  BY <1>8, <1>9, <1>10 DEF LaidDown
<1> QED
  BY <1>1, <1>2, <1>6, <1>11, LayDown DEF x

(***************************************************************************)
(* A process fetches: it holds an entry, and releases it or dies.          *)
(***************************************************************************)
LEMMA LookupTends == ASSUME CacheInv, NEW p \in Procs, Lookup(p) PROVE Tended'
<1>0. /\ Inv /\ Tended /\ proc \in [Procs -> Call] /\ proc[p].pc = "findwait" /\ clock' = clock
      /\ Tidy(cache, InHand) /\ clock \in Time /\ rtime[p] \in Time /\ proc[p].key \in Keys
  BY DEF CacheInv, Inv, CallsTyped, Lookup, Tended, KeysGiven
<1>1. CASE Return(p) /\ UNCHANGED cache
  <2>1. RolesSame
    BY <1>0, <1>1, NoRole DEF Return, Empty, Idle
  <2> QED
    BY <1>0, <1>1, <2>1, CacheSame, Undisturbed
<1>2. ASSUME NEW e \in Found(cache, proc[p].key),
             cache' = [cache EXCEPT !.entry[e].ref = @ + 1, !.entry[e].atime = rtime[p]],
             proc' = [proc EXCEPT ![p].pc = "holding", ![p].entry = e, ![p].since = clock]
      PROVE  Tended'
  <2> DEFINE o == cache.entry[e]
             n == [cache.entry[e] EXCEPT !.ref = @ + 1, !.atime = rtime[p]]
  <2>1. e \in Linked(cache) /\ e \in Entries /\ o.key = proc[p].key /\ e \notin cache.gc /\ e \notin InHand
    <3>1. e \in Linked(cache) /\ o.key = proc[p].key
      BY <1>0, FoundIs
    <3> QED
      BY <1>0, <3>1 DEF Tidy, Accounted
  <2>2. o \in Entry /\ o.ref \in Int
    BY <1>0, <2>1, RefTyped
  <2>3. n \in Entry /\ n.key = o.key /\ n.mem = o.mem /\ n.ref = o.ref + 1
    <3>1. o.ref + 1 \in Int
      BY <2>2
    <3>2. n = [o EXCEPT !.ref = o.ref + 1, !.atime = rtime[p]]
      OBVIOUS
    <3> HIDE DEF n, o
    <3>3. n \in Entry
      BY <1>0, <2>2, <3>1, <3>2 DEF Entry
    <3>4. n.key = o.key /\ n.mem = o.mem /\ n.ref = o.ref + 1
      BY <2>2, <3>2 DEF Entry
    <3> QED
      BY <3>3, <3>4
  <2>4. cache' = [cache EXCEPT !.entry[e] = n]
    BY <1>2
  <2> HIDE DEF n, o
  <2>5. Put(cache, cache', e, n)
    <3>1. cache \in Table
      BY <1>0 DEF Tidy
    <3> QED
      BY <2>1, <2>3, <2>4, <3>1, EntryPut
  <2>6. Tidy(cache', InHand)
    BY <1>0, <2>1, <2>3, <2>4, TouchTidy DEF o
  <2>7. /\ cache'.gc = cache.gc /\ Linked(cache') = Linked(cache) /\ cache'.entry[e] = n
        /\ \A f \in Entries \ {e} : cache'.entry[f] = cache.entry[f]
    BY <2>5 DEF Put
  <2>8. /\ \A q \in Procs \ {p} : proc'[q] = proc[q]
        /\ proc'[p].pc = "holding" /\ proc'[p].entry = e /\ proc'[p].since = clock /\ proc'[p].key = proc[p].key
    BY <1>0, <1>2 DEF Call
  <2>9. Storing' = Storing /\ Holding' = Holding \cup {p} /\ p \notin Storing /\ p \notin Holding
    BY <1>0, <2>8 DEF Storing, Holding
  <2>10. InHand' = InHand
    <3>1. InHand' = {proc'[q].entry : q \in Storing'}
      BY DEF InHand, Storing
    <3>2. \A q \in Storing : proc'[q] = proc[q]
      BY <2>8, <2>9 DEF Storing
    <3> QED
      BY <2>9, <3>1, <3>2, HandsAre
  <2>11. HandsInv'
    <3>1. \A q \in Storing : /\ proc'[q] = proc[q] /\ proc[q].entry \in Entries /\ proc[q].key \in Keys
                             /\ cache'.entry[proc[q].entry].key = proc[q].key
      <4>1. \A q \in Storing : proc[q].entry \in InHand /\ q \in Procs \ {p}
        BY <2>9, HandsAre DEF Storing
      <4>2. \A q \in Storing : proc[q].entry \in Entries /\ proc[q].key \in Keys /\ cache.entry[proc[q].entry].key = proc[q].key
        BY <1>0 DEF Tended, HandsInv
      <4> QED
        BY <2>1, <2>7, <2>8, <4>1, <4>2
    <3>2. \A q, r \in Storing : proc[q].entry = proc[r].entry => q = r
      BY <1>0 DEF Tended, HandsInv
    <3> QED
      BY <2>9, <3>1, <3>2 DEF HandsInv
  <2>12. o.ref >= Cardinality(Holders(e)) /\ \A f \in Entries : cache.entry[f].ref >= Cardinality(Holders(f))
    BY <1>0, <2>1 DEF Tended, HoldsInv, o
  <2>13. \A q \in Holding : /\ proc'[q] = proc[q] /\ q \in Procs /\ proc[q].entry \in Entries
                            /\ Kept(cache, proc[q].entry, proc[q].since, clock)
                            /\ cache.entry[proc[q].entry].key = proc[q].key
    BY <1>0, <2>8, <2>9, HeldAreKept
  <2>14. \A f \in Entries, since \in Int : Kept(cache, f, since, clock) => Kept(cache', f, since, clock)
    <3> SUFFICES ASSUME NEW f \in Entries, NEW since \in Int, Kept(cache, f, since, clock)
                 PROVE  Kept(cache', f, since, clock)
      OBVIOUS
    <3>1. CASE f = e
      <4>1. n.ref > 0
        BY <2>2, <2>3, <3>1 DEF Kept, o
      <4> QED
        BY <2>1, <2>7, <3>1, <4>1 DEF Kept
    <3>2. CASE f # e
      BY <2>7, <3>2 DEF Kept
    <3> QED
      BY <3>1, <3>2
  <2>15. Kept(cache', e, clock, clock)
    <3>1. IsFiniteSet(Holders(e)) /\ Cardinality(Holders(e)) \in Nat
      BY HoldersFinite
    <3>2. n.ref > 0 /\ clock - clock = 0 /\ clock <= clock /\ GcTTL >= 0
      BY <1>0, <2>2, <2>3, <2>12, <3>1, CacheAssumption DEF Time
    <3> QED
      BY <2>1, <2>7, <3>2, CacheAssumption DEF Kept
  <2>16. ASSUME NEW f \in Entries PROVE cache'.entry[f].ref >= Cardinality(Holders(f)')
    <3>1. Holders(f) = {q \in Holding : proc[q].entry = f}
      BY DEF Holders, Holding
    <3>2. Holders(f)' = {q \in Holding' : proc'[q].entry = f}
      BY DEF Holders, Holding
    <3>3. CASE f = e
      <4>1. Holders(e)' = Holders(e) \cup {p} /\ p \notin Holders(e)
        BY <2>8, <2>9, <2>13, <3>1, <3>2, <3>3
      <4>2. Cardinality(Holders(e) \cup {p}) = Cardinality(Holders(e)) + 1 /\ Cardinality(Holders(e)) \in Nat
        BY <4>1, HoldersFinite, FS_AddElement
      <4> QED
        BY <2>2, <2>3, <2>7, <2>12, <3>3, <4>1, <4>2
    <3>4. CASE f # e
      <4>1. Holders(f)' = Holders(f)
        BY <2>8, <2>9, <2>13, <3>1, <3>2, <3>4
      <4> QED
        BY <2>7, <2>12, <3>4, <4>1
    <3> QED
      BY <3>3, <3>4
  <2>17. \A q \in Holding : proc[q].since \in Int
    BY HeldAreKept, <1>0 DEF Time
  <2>18. ASSUME NEW q \in Holding'
         PROVE  /\ proc'[q].entry \in Entries /\ Kept(cache', proc'[q].entry, proc'[q].since, clock')
                /\ cache'.entry[proc'[q].entry].key = proc'[q].key
    <3>1. CASE q = p
      BY <1>0, <2>1, <2>3, <2>7, <2>8, <2>15, <3>1
    <3>2. CASE q # p
      <4>1. q \in Holding
        BY <2>9, <3>2
      <4>2. cache'.entry[proc[q].entry].key = cache.entry[proc[q].entry].key
        BY <2>3, <2>7, <2>13, <4>1 DEF o
      <4> QED
        BY <1>0, <2>13, <2>14, <2>17, <4>1, <4>2
    <3> QED
      BY <3>1, <3>2
  <2>19. HoldsInv'
    BY <2>16, <2>18 DEF HoldsInv, Holding
  <2> QED
    BY <2>6, <2>10, <2>11, <2>19 DEF Tended
<1> QED
  BY <1>1, <1>2 DEF Lookup

\* One holder less, and the reference it had is given back or not.
LEMMA HoldEnds ==
    ASSUME CacheInv, NEW p \in Procs, proc[p].pc = "holding", Return(p), clock' = clock,
           NEW x, x = proc[p].entry,
           UNCHANGED cache \/ cache' = [cache EXCEPT !.entry[x].ref = @ - 1]
    PROVE  Tended'
<1>0. /\ Inv /\ Tended /\ proc \in [Procs -> Call] /\ Tidy(cache, InHand) /\ cache \in Table
      /\ p \in Holding /\ x \in Entries
  <2>1. p \in Holding /\ Inv /\ Tended
    BY DEF Holding, CacheInv
  <2> QED
    BY <2>1, HeldAreKept DEF Inv, CallsTyped, Tended, Tidy
<1> DEFINE n == IF UNCHANGED cache THEN cache.entry[x] ELSE [cache.entry[x] EXCEPT !.ref = @ - 1]
<1>1. cache.entry[x] \in Entry /\ cache.entry[x].ref \in Int
  BY <1>0, RefTyped
<1>2. /\ n \in Entry /\ n.key = cache.entry[x].key /\ n.mem = cache.entry[x].mem /\ n.dtime = cache.entry[x].dtime
      /\ n.ref \in Int /\ n.ref >= cache.entry[x].ref - 1
  BY <1>1 DEF Entry
<1>3. cache' = [cache EXCEPT !.entry[x] = n]
  <2>1. CASE UNCHANGED cache
    BY <1>0, <2>1 DEF Table
  <2>2. CASE ~ UNCHANGED cache
    BY <2>2
  <2> QED
    BY <2>1, <2>2
<1> HIDE DEF n
<1>4. Put(cache, cache', x, n)
  BY <1>0, <1>2, <1>3, EntryPut
<1>5. Tidy(cache', InHand)
  BY <1>0, <1>2, <1>3, TouchTidy
<1>6. /\ cache'.gc = cache.gc /\ Linked(cache') = Linked(cache) /\ cache'.entry[x] = n
      /\ \A f \in Entries \ {x} : cache'.entry[f] = cache.entry[f]
  BY <1>4 DEF Put
<1>7. (\A q \in Procs \ {p} : proc'[q] = proc[q]) /\ proc'[p] = Idle /\ Idle.pc = "idle"
  BY <1>0 DEF Return, Idle
<1>8. Storing' = Storing /\ Holding' = Holding \ {p} /\ p \notin Storing
  BY <1>0, <1>7 DEF Storing, Holding
<1>9. InHand' = InHand
  <2>1. InHand' = {proc'[q].entry : q \in Storing'}
    BY DEF InHand, Storing
  <2>2. \A q \in Storing : proc'[q] = proc[q]
    BY <1>7, <1>8 DEF Storing
  <2> QED
    BY <1>8, <2>1, <2>2, HandsAre
<1>10. HandsInv'
  <2>1. \A q \in Storing : /\ proc'[q] = proc[q] /\ proc[q].entry \in Entries /\ proc[q].key \in Keys
                           /\ cache'.entry[proc[q].entry].key = proc[q].key
    <3>1. \A q \in Storing : q \in Procs \ {p}
      BY <1>8 DEF Storing
    <3>2. \A q \in Storing : proc[q].entry \in Entries /\ proc[q].key \in Keys /\ cache.entry[proc[q].entry].key = proc[q].key
      BY <1>0 DEF Tended, HandsInv
    <3> QED
      BY <1>2, <1>6, <1>7, <3>1, <3>2
  <2>2. \A q, r \in Storing : proc[q].entry = proc[r].entry => q = r
    BY <1>0 DEF Tended, HandsInv
  <2> QED
    BY <1>8, <2>1, <2>2 DEF HandsInv
<1>11. \A f \in Entries : cache.entry[f].ref >= Cardinality(Holders(f))
  BY <1>0 DEF Tended, HoldsInv
<1>12. Holders(x)' = Holders(x) \ {p} /\ p \in Holders(x) /\ \A f \in Entries \ {x} : Holders(f)' = Holders(f)
  <2>1. \A f : Holders(f) = {q \in Holding : proc[q].entry = f}
    BY DEF Holders, Holding
  <2>2. \A f : Holders(f)' = {q \in Holding' : proc'[q].entry = f}
    BY DEF Holders, Holding
  <2>3. \A q \in Holding \ {p} : proc'[q] = proc[q]
    BY <1>7 DEF Holding
  <2>4. Holders(x) = {q \in Holding : proc[q].entry = x} /\ Holders(x)' = {q \in Holding' : proc'[q].entry = x}
    BY DEF Holders, Holding
  <2>5. p \in Holders(x)
    BY <1>0, <2>4
  <2>6. Holders(x)' = Holders(x) \ {p}
    BY <1>8, <2>3, <2>4
  <2>7. ASSUME NEW f \in Entries \ {x} PROVE Holders(f)' = Holders(f)
    BY <1>8, <2>1, <2>2, <2>3
  <2> QED
    BY <2>5, <2>6, <2>7
<1>13. ASSUME NEW f \in Entries PROVE cache'.entry[f].ref >= Cardinality(Holders(f)')
  <2>1. CASE f = x
    <3>1. /\ Cardinality(Holders(x) \ {p}) = Cardinality(Holders(x)) - 1 /\ Cardinality(Holders(x)) \in Nat
      BY <1>12, HoldersFinite, FS_RemoveElement
    <3>2. cache.entry[x].ref >= Cardinality(Holders(x)) /\ cache'.entry[x].ref = n.ref
      BY <1>0, <1>6, <1>11
    <3>3. n.ref >= Cardinality(Holders(x)')
      BY <1>1, <1>2, <1>12, <3>1, <3>2
    <3> QED
      BY <2>1, <3>2, <3>3
  <2>2. CASE f # x
    BY <1>6, <1>11, <1>12, <2>2
  <2> QED
    BY <2>1, <2>2
<1>14. ASSUME NEW q \in Holding'
       PROVE  /\ proc'[q].entry \in Entries /\ Kept(cache', proc'[q].entry, proc'[q].since, clock')
              /\ cache'.entry[proc'[q].entry].key = proc'[q].key
  <2>1. q \in Holding /\ q # p /\ q \in Procs /\ proc'[q] = proc[q]
    BY <1>7, <1>8 DEF Holding
  <2>2. /\ proc[q].entry \in Entries /\ Kept(cache, proc[q].entry, proc[q].since, clock)
        /\ cache.entry[proc[q].entry].key = proc[q].key
    BY <1>0, <2>1, HeldAreKept
  <2>3. CASE proc[q].entry = x
    <3>1. q \in Holders(x) \ {p}
      BY <2>1, <2>3 DEF Holders, Holding
    <3>2. Cardinality(Holders(x)) >= 2
      <4>1. IsFiniteSet(Holders(x)) /\ {p, q} \subseteq Holders(x)
        BY <1>12, <3>1, HoldersFinite
      <4>2. Cardinality({p, q}) = 2
        <5>1. Cardinality({p}) = 1 /\ IsFiniteSet({p})
          BY FS_Singleton
        <5>2. Cardinality({p} \cup {q}) = Cardinality({p}) + 1
          BY <2>1, <5>1, FS_AddElement
        <5>3. {p} \cup {q} = {p, q}
          OBVIOUS
        <5> QED
          BY <5>1, <5>2, <5>3
      <4>3. Cardinality({p, q}) <= Cardinality(Holders(x)) /\ Cardinality(Holders(x)) \in Nat
        BY <4>1, FS_Subset, FS_CardinalityType
      <4> QED
        BY <4>2, <4>3
    <3>3. n.ref > 0
      BY <1>0, <1>1, <1>2, <1>11, <3>2, HoldersFinite
    <3> QED
      BY <1>2, <1>6, <2>1, <2>2, <2>3, <3>3 DEF Kept
  <2>4. CASE proc[q].entry # x
    BY <1>6, <2>1, <2>2, <2>4 DEF Kept
  <2> QED
    BY <2>3, <2>4
<1>15. HoldsInv'
  BY <1>13, <1>14 DEF HoldsInv, Holding
<1> QED
  BY <1>5, <1>9, <1>10, <1>15 DEF Tended

(***************************************************************************)
(* The whole system.                                                       *)
(***************************************************************************)
LEMMA ExpungesTends == ASSUME CacheInv, NEW p \in Procs, Expunges(p) PROVE Tended'
<1>0. /\ Inv /\ Tended /\ proc \in [Procs -> Call] /\ clock' = clock /\ clock \in Time /\ Tidy(cache, InHand)
  BY DEF CacheInv, Inv, CallsTyped, Expunges, ExpungeLocks, ExpungeRuns, Tended
<1>1. CASE ExpungeLocks(p)
  <2>1. RolesSame
    <3>1. proc' = [proc EXCEPT ![p] = [proc[p] EXCEPT !.pc = "expunging"]] /\ proc[p].pc = "expwait"
      BY <1>1 DEF ExpungeLocks, Goto
    <3>2. [proc[p] EXCEPT !.pc = "expunging"].pc = "expunging"
      BY <1>0 DEF Call
    <3> QED
      BY <1>0, <3>1, <3>2, NoRole DEF Empty
  <2> QED
    BY <1>0, <1>1, <2>1, CacheSame, Undisturbed DEF ExpungeLocks
<1>2. CASE ExpungeRuns(p)
  <2>1. RolesSame
    <3>1. /\ proc' = [proc EXCEPT ![p] = [proc[p] EXCEPT !.pc = "alloc", !.tries = @ + 1]]
          /\ proc[p].pc = "expunging"
      BY <1>0, <1>2 DEF ExpungeRuns
    <3>2. [proc[p] EXCEPT !.pc = "alloc", !.tries = @ + 1].pc = "alloc"
      BY <1>0 DEF Call
    <3> QED
      BY <1>0, <3>1, <3>2, NoRole DEF Empty
  <2>2. Cleaned(cache, cache', InHand, clock)
    BY <1>0, <1>2, DefaultExpungeCleans DEF ExpungeRuns
  <2> QED
    BY <1>0, <2>1, <2>2, Undisturbed
<1> QED
  BY <1>1, <1>2 DEF Expunges

LEMMA ClearsTends == ASSUME CacheInv, NEW p \in Procs, Clears(p) PROVE Tended'
<1>0. /\ Inv /\ Tended /\ proc \in [Procs -> Call] /\ clock' = clock /\ clock \in Time /\ Tidy(cache, InHand)
  BY DEF CacheInv, Inv, CallsTyped, Clears, Clear, ClearLocks, ClearRuns, Tended
<1>1. CASE Clear(p) \/ ClearLocks(p)
  <2>1. RolesSame
    <3>1. PICK pc \in {"clrwait", "clearing"} : proc' = [proc EXCEPT ![p] = [proc[p] EXCEPT !.pc = pc]]
      BY <1>1 DEF Clear, ClearLocks, Goto
    <3>2. [proc[p] EXCEPT !.pc = pc].pc = pc /\ proc[p].pc \in {"idle", "clrwait"}
      BY <1>0, <1>1 DEF Call, Clear, ClearLocks
    <3> QED
      BY <1>0, <3>1, <3>2, NoRole DEF Empty
  <2> QED
    BY <1>0, <1>1, <2>1, CacheSame, Undisturbed DEF Clear, ClearLocks
<1>2. CASE ClearRuns(p)
  <2>1. RolesSame
    BY <1>0, <1>2, NoRole DEF ClearRuns, Return, Empty, Idle
  <2>2. Cleaned(cache, cache', InHand, clock)
    BY <1>0, <1>2, RealExpungeCleans DEF ClearRuns
  <2> QED
    BY <1>0, <2>1, <2>2, Undisturbed
<1> QED
  BY <1>1, <1>2 DEF Clears

LEMMA DeleteTends == ASSUME CacheInv, NEW p \in Procs, Delete(p) PROVE Tended'
<1>0. /\ Inv /\ Tended /\ UNCHANGED <<proc, clock>> /\ clock \in Time /\ Tidy(cache, InHand)
  BY DEF CacheInv, Inv, CallsTyped, Delete, Tended
<1>1. PICK k \in Keys : cache' = RemoveAll(cache, Found(cache, k), clock)
  BY DEF Delete
<1>2. Found(cache, k) \subseteq Linked(cache)
  BY <1>0, FoundIs
<1>3. Cleaned(cache, cache', InHand, clock)
  BY <1>0, <1>1, <1>2, RemoveAllCleans DEF Removed
<1> QED
  BY <1>0, <1>3, NoStep, Undisturbed

LEMMA StoresTends == ASSUME CacheInv, PoolsHaveRoom, NEW p \in Procs, Stores(p) PROVE Tended'
<1>0. Inv /\ Tended /\ proc \in [Procs -> Call]
  BY DEF CacheInv, Inv, CallsTyped
<1>1. CASE Store(p)
  <2>1. PICK k \in Keys, ttl \in EntryTTLs, x \in BOOLEAN :
          proc' = [proc EXCEPT ![p] = [Idle EXCEPT !.pc = "alloc", !.key = k, !.ttl = ttl, !.excl = x]]
    BY <1>1 DEF Store
  <2>2. [Idle EXCEPT !.pc = "alloc", !.key = k, !.ttl = ttl, !.excl = x].pc = "alloc"
    BY DEF Idle
  <2>3. RolesSame
    BY <1>0, <1>1, <2>1, <2>2, NoRole DEF Store, Empty
  <2> QED
    BY <1>0, <1>1, <2>3, CacheSame, Undisturbed DEF Store
<1>2. CASE NoBlock(p)
  <2>1. PICK c : proc' = [proc EXCEPT ![p] = c] /\ c.pc \in {"idle", "alloc", "expwait"}
    <3>1. CASE proc[p].tries = 3
      BY <1>2, <3>1 DEF NoBlock, Return, Idle
    <3>2. CASE proc[p].tries # 3 /\ busy
      <4>1. /\ proc' = [proc EXCEPT ![p] = [proc[p] EXCEPT !.tries = @ + 1]]
            /\ proc[p].pc = "alloc"
        BY <1>2, <3>2 DEF NoBlock
      <4>2. [proc[p] EXCEPT !.tries = @ + 1].pc = "alloc"
        BY <1>0, <4>1 DEF Call
      <4> QED
        BY <4>1, <4>2
    <3>3. CASE proc[p].tries # 3 /\ ~busy
      <4>1. proc' = [proc EXCEPT ![p] = [proc[p] EXCEPT !.pc = "expwait"]]
        BY <1>2, <3>3 DEF NoBlock, Goto
      <4>2. [proc[p] EXCEPT !.pc = "expwait"].pc = "expwait"
        BY <1>0 DEF Call
      <4> QED
        BY <4>1, <4>2
    <3> QED
      BY <3>1, <3>2, <3>3
  <2>2. RolesSame
    BY <1>0, <1>2, <2>1, NoRole DEF NoBlock, Empty
  <2> QED
    BY <1>0, <1>2, <2>2, CacheSame, Undisturbed DEF NoBlock
<1> QED
  BY <1>1, <1>2, MakeEntryTends, InsertTestsTends, InsertBailsTends, InsertLinksTends DEF Stores

LEMMA FetchesTends == ASSUME CacheInv, NEW p \in Procs, Fetches(p) PROVE Tended'
<1>0. Inv /\ Tended /\ proc \in [Procs -> Call]
  BY DEF CacheInv, Inv, CallsTyped
<1>1. CASE Find(p)
  <2>1. PICK k \in Keys : proc' = [proc EXCEPT ![p] = [Idle EXCEPT !.pc = "findwait", !.key = k]]
    BY <1>1 DEF Find
  <2>2. [Idle EXCEPT !.pc = "findwait", !.key = k].pc = "findwait"
    BY DEF Idle
  <2>3. RolesSame
    BY <1>0, <1>1, <2>1, <2>2, NoRole DEF Find, Empty
  <2> QED
    BY <1>0, <1>1, <2>3, CacheSame, Undisturbed DEF Find
<1>2. CASE Release(p) \/ Abandon(p)
  BY <1>2, HoldEnds DEF Release, Abandon
<1> QED
  BY <1>1, <1>2, LookupTends DEF Fetches

LEMMA NextTends == ASSUME CacheInv, PoolsHaveRoom, [Next]_vars PROVE Tended'
<1>0. Inv /\ Tended
  BY DEF CacheInv
<1>1. ASSUME NEW p \in Procs, NewRequest(p) PROVE Tended'
  BY <1>0, <1>1, NoStep, CacheSame, Undisturbed DEF NewRequest
<1>2. CASE UNCHANGED vars
  BY <1>0, <1>2, NoStep, CacheSame, Undisturbed DEF vars
<1> QED
  BY <1>0, <1>1, <1>2, TickTends, StoresTends, ExpungesTends, FetchesTends, ClearsTends, DeleteTends DEF Next

\* A call changes, and who is told a key keeps it until the call returns.
Turns(p) == \E c : /\ proc' = [proc EXCEPT ![p] = c]
                   /\ c.pc \in {"idle", "clrwait", "clearing"} \/ c.key \in Keys

LEMMA TurnsTo ==
    ASSUME NEW p, NEW c, proc' = [proc EXCEPT ![p] = c],
           c.pc \in {"idle", "clrwait", "clearing"} \/ c.key \in Keys
    PROVE  Turns(p)
  BY DEF Turns

LEMMA ReturnTurns == ASSUME NEW p, Return(p) PROVE Turns(p)
<1>1. Idle.pc = "idle"
  BY DEF Idle
<1> QED
  BY <1>1, TurnsTo DEF Return

LEMMA KeyKept ==
    ASSUME CacheInv, NEW p \in Procs
    PROVE  /\ proc \in [Procs -> Call] /\ proc[p] \in Call
           /\ proc[p].pc \notin {"idle", "clrwait", "clearing"} => proc[p].key \in Keys
  BY DEF CacheInv, Inv, CallsTyped, KeysGiven

LEMMA GotoTurns ==
    ASSUME CacheInv, NEW p \in Procs, NEW pc, Goto(p, pc), pc \in {"clrwait", "clearing"} \/ proc[p].key \in Keys
    PROVE  Turns(p)
<1>1. proc' = [proc EXCEPT ![p] = [proc[p] EXCEPT !.pc = pc]]
  BY DEF Goto
<1>2. [proc[p] EXCEPT !.pc = pc].pc = pc /\ [proc[p] EXCEPT !.pc = pc].key = proc[p].key
  BY KeyKept DEF Call
<1> HIDE DEF Turns
<1> QED
  BY <1>1, <1>2, TurnsTo

LEMMA StoresTurns == ASSUME CacheInv, NEW p \in Procs, Stores(p) PROVE Turns(p)
<1>1. CASE Store(p)
  <2>1. PICK k \in Keys, ttl \in EntryTTLs, x \in BOOLEAN :
          proc' = [proc EXCEPT ![p] = [Idle EXCEPT !.pc = "alloc", !.key = k, !.ttl = ttl, !.excl = x]]
    BY <1>1 DEF Store
  <2>2. [Idle EXCEPT !.pc = "alloc", !.key = k, !.ttl = ttl, !.excl = x].key = k
    BY DEF Idle
  <2> QED
    BY <2>1, <2>2, TurnsTo
<1>2. CASE MakeEntry(p)
  <2>1. CASE Return(p)
    BY ReturnTurns, <2>1
  <2>2. CASE ~Return(p)
    <3>1. PICK e \in Entries : proc' = [proc EXCEPT ![p].pc = "insert", ![p].entry = e, ![p].tries = 0]
      BY <1>2, <2>2 DEF MakeEntry
    <3> DEFINE c == [proc[p] EXCEPT !.pc = "insert", !.entry = e, !.tries = 0]
    <3>2. proc' = [proc EXCEPT ![p] = c]
      BY KeyKept, <3>1
    <3>3. c.key = proc[p].key
      BY KeyKept DEF Call
    <3>4. proc[p].key \in Keys
      BY KeyKept, <1>2 DEF MakeEntry
    <3> QED
      BY <3>2, <3>3, <3>4, TurnsTo
  <2> QED
    BY <2>1, <2>2
<1>3. CASE NoBlock(p)
  <2>1. proc[p].key \in Keys
    BY KeyKept, <1>3 DEF NoBlock
  <2>2. CASE Return(p)
    BY ReturnTurns, <2>2
  <2>3. CASE Goto(p, "expwait")
    BY GotoTurns, <2>1, <2>3
  <2>4. CASE proc' = [proc EXCEPT ![p].tries = @ + 1]
    <3>1. proc' = [proc EXCEPT ![p] = [proc[p] EXCEPT !.tries = @ + 1]]
      BY <2>4
    <3>2. [proc[p] EXCEPT !.tries = @ + 1].key = proc[p].key
      BY KeyKept DEF Call
    <3> QED
      BY <2>1, <3>1, <3>2, TurnsTo
  <2> QED
    BY <1>3, <2>2, <2>3, <2>4 DEF NoBlock
<1>4. CASE InsertTests(p)
  <2>1. proc[p].key \in Keys
    BY KeyKept, <1>4 DEF InsertTests
  <2> QED
    BY ReturnTurns, GotoTurns, <1>4, <2>1 DEF InsertTests
<1>5. CASE InsertBails(p) \/ InsertLinks(p)
  BY ReturnTurns, <1>5 DEF InsertBails, InsertLinks
<1> QED
  BY <1>1, <1>2, <1>3, <1>4, <1>5 DEF Stores

LEMMA ExpungesTurns == ASSUME CacheInv, NEW p \in Procs, Expunges(p) PROVE Turns(p)
<1>1. proc[p].key \in Keys
  BY KeyKept DEF Expunges, ExpungeLocks, ExpungeRuns
<1>2. CASE ExpungeLocks(p)
  BY GotoTurns, <1>1, <1>2 DEF ExpungeLocks
<1>3. CASE ExpungeRuns(p)
  <2>1. proc' = [proc EXCEPT ![p] = [proc[p] EXCEPT !.pc = "alloc", !.tries = @ + 1]]
    BY KeyKept, <1>3 DEF ExpungeRuns
  <2>2. [proc[p] EXCEPT !.pc = "alloc", !.tries = @ + 1].key = proc[p].key
    BY KeyKept DEF Call
  <2> QED
    BY <1>1, <2>1, <2>2, TurnsTo
<1> QED
  BY <1>2, <1>3 DEF Expunges

LEMMA FetchesTurns == ASSUME CacheInv, NEW p \in Procs, Fetches(p) PROVE Turns(p)
<1>1. CASE Find(p)
  <2>1. PICK k \in Keys : proc' = [proc EXCEPT ![p] = [Idle EXCEPT !.pc = "findwait", !.key = k]]
    BY <1>1 DEF Find
  <2>2. [Idle EXCEPT !.pc = "findwait", !.key = k].key = k
    BY DEF Idle
  <2> QED
    BY <2>1, <2>2, TurnsTo
<1>2. CASE Lookup(p)
  <2>1. CASE Return(p)
    BY ReturnTurns, <2>1
  <2>2. CASE ~Return(p)
    <3>1. PICK e \in Entries : proc' = [proc EXCEPT ![p].pc = "holding", ![p].entry = e, ![p].since = clock]
      BY <1>2, <2>2 DEF Lookup, Found
    <3> DEFINE c == [proc[p] EXCEPT !.pc = "holding", !.entry = e, !.since = clock]
    <3>2. proc' = [proc EXCEPT ![p] = c]
      BY KeyKept, <3>1
    <3>3. c.key = proc[p].key
      BY KeyKept DEF Call
    <3>4. proc[p].key \in Keys
      BY KeyKept, <1>2 DEF Lookup
    <3> QED
      BY <3>2, <3>3, <3>4, TurnsTo
  <2> QED
    BY <2>1, <2>2
<1>3. CASE Release(p) \/ Abandon(p)
  BY ReturnTurns, <1>3 DEF Release, Abandon
<1> QED
  BY <1>1, <1>2, <1>3 DEF Fetches

LEMMA ClearsTurns == ASSUME CacheInv, NEW p \in Procs, Clears(p) PROVE Turns(p)
<1>1. CASE Clear(p) \/ ClearLocks(p)
  BY GotoTurns, <1>1 DEF Clear, ClearLocks, Goto
<1>2. CASE ClearRuns(p)
  BY ReturnTurns, <1>2 DEF ClearRuns
<1> QED
  BY <1>1, <1>2 DEF Clears

LEMMA NextGiven == ASSUME CacheInv, [Next]_vars PROVE KeysGiven'
<1>0. proc \in [Procs -> Call] /\ KeysGiven
  BY DEF CacheInv, Inv, CallsTyped
<1>1. ASSUME NEW p \in Procs, Turns(p) PROVE KeysGiven'
  BY <1>0, <1>1 DEF KeysGiven, Turns
<1>2. CASE UNCHANGED proc
  BY <1>0, <1>2 DEF KeysGiven
<1>3. UNCHANGED proc \/ \E p \in Procs : Turns(p)
  BY StoresTurns, ExpungesTurns, FetchesTurns, ClearsTurns DEF Next, vars, Tick, NewRequest, Delete
<1> QED
  BY <1>1, <1>2, <1>3

LEMMA InitCache == Init => CacheInv
<1> SUFFICES ASSUME Init PROVE CacheInv
  OBVIOUS
<1>1. Inv
  BY InitInv
<1>2. /\ cache = [entry |-> [e \in Entries |-> Free], slots |-> [b \in Buckets |-> <<>>],
                  gc |-> {}, nentries |-> 0, memsize |-> 0]
      /\ \A p \in Procs : proc[p].pc = "idle"
  BY DEF Init, Idle
<1>3. Storing = {} /\ Holding = {} /\ InHand = {}
  BY <1>2 DEF Storing, Holding, InHand
<1>4. cache \in Table
  <2>1. <<>> \in Seq(Entries)
    OBVIOUS
  <2> QED
    BY <1>2, <2>1, FreeIsEntry DEF Table
<1>5. (\A b \in Buckets : cache.slots[b] = <<>> /\ On(cache.slots[b]) = {}) /\ Linked(cache) = {}
  BY <1>2 DEF On, Linked
<1>6. Chained(cache)
  BY <1>5 DEF Chained, Distinct
<1>7. Accounted(cache, InHand)
  <2>1. {e \in Entries : cache.entry[e].mem > 0} = {}
    BY <1>2 DEF Free
  <2> QED
    BY <1>2, <1>3, <1>5, <2>1 DEF Accounted
<1>8. Counted(cache)
  <2>1. MemOf(cache, {}) = 0
    <3>1. {b \in {} \X (1 .. 2) : b[2] <= cache.entry[b[1]].mem} = {}
      OBVIOUS
    <3> QED
      BY <3>1, FS_EmptySet DEF MemOf
  <2> QED
    BY <1>2, <1>5, <2>1, FS_EmptySet DEF Counted
<1>9. HandsInv
  BY <1>3 DEF HandsInv
<1>10. HoldsInv
  <2>1. \A e \in Entries : cache.entry[e].ref = 0 /\ Cardinality(Holders(e)) = 0
    BY <1>2, <1>3, Unheld DEF Free
  <2> QED
    BY <1>2, <2>1 DEF HoldsInv
<1>11. busy \in BOOLEAN /\ KeysGiven
  BY <1>2 DEF Init, KeysGiven
<1>12. 0 \in Time
  BY CacheAssumption DEF Time
<1>13. /\ rtime \in [Procs -> Time]
       /\ lastkey \in [key : Keys \cup {NoKey}, mtime : Time, owner : Procs \cup {NoKey}]
  BY <1>12 DEF Init, NoLast
<1> QED
  BY <1>1, <1>4, <1>6, <1>7, <1>8, <1>9, <1>10, <1>11, <1>13 DEF CacheInv, Tended, Tidy

LEMMA NextCache == CacheInv /\ PoolsHaveRoom /\ [Next]_vars => CacheInv'
<1> SUFFICES ASSUME CacheInv, PoolsHaveRoom, [Next]_vars PROVE CacheInv'
  OBVIOUS
<1>1. Inv' /\ Tended' /\ KeysGiven'
  BY NextInv, NextTends, NextGiven DEF CacheInv
<1>2. /\ clock \in Time /\ busy \in BOOLEAN /\ rtime \in [Procs -> Time]
      /\ lastkey \in [key : Keys \cup {NoKey}, mtime : Time, owner : Procs \cup {NoKey}]
  BY DEF CacheInv, Inv, CallsTyped
<1>3. NoLast \in [key : Keys \cup {NoKey}, mtime : Time, owner : Procs \cup {NoKey}]
  BY CacheAssumption DEF NoLast, Time
<1>4. CASE \E p \in Procs : Stores(p)
  <2>1. PICK p \in Procs : Stores(p)
    BY <1>4
  <2>2. UNCHANGED <<busy, rtime>>
    BY <2>1 DEF Stores, Store, MakeEntry, NoBlock, InsertTests, InsertBails, InsertLinks
  <2>3. CASE MakeEntry(p)
    <3>1. lastkey' = lastkey \/ lastkey' = [key |-> proc[p].key, mtime |-> rtime[p], owner |-> p]
      BY <2>3 DEF MakeEntry
    <3>2. proc[p].key \in Keys \cup {NoKey} /\ rtime[p] \in Time
      BY <1>2, KeyKept DEF Call
    <3> QED
      BY <1>1, <1>2, <2>2, <3>1, <3>2 DEF CacheInv
  <2>4. CASE ~MakeEntry(p)
    <3>1. lastkey' = lastkey
      BY <2>1, <2>4 DEF Stores, Store, NoBlock, InsertTests, InsertBails, InsertLinks
    <3> QED
      BY <1>1, <1>2, <2>2, <3>1 DEF CacheInv
  <2> QED
    BY <2>3, <2>4
<1>5. CASE \E p \in Procs : Expunges(p)
  <2>1. busy' \in BOOLEAN /\ rtime' = rtime /\ lastkey' \in {lastkey, NoLast}
    BY <1>5 DEF Expunges, ExpungeLocks, ExpungeRuns
  <2> QED
    BY <1>1, <1>2, <1>3, <2>1 DEF CacheInv
<1>6. CASE \E p \in Procs : Clears(p)
  <2>1. busy' \in {busy, TRUE, FALSE} /\ rtime' = rtime /\ lastkey' \in {lastkey, NoLast}
    BY <1>6 DEF Clears, Clear, ClearLocks, ClearRuns
  <2> QED
    BY <1>1, <1>2, <1>3, <2>1 DEF CacheInv
<1>7. CASE Tick \/ UNCHANGED vars \/ \E p \in Procs : Fetches(p) \/ Delete(p)
  <2>1. UNCHANGED <<busy, rtime, lastkey>>
    BY <1>7 DEF Tick, vars, Fetches, Find, Lookup, Release, Abandon, Delete
  <2> QED
    BY <1>1, <1>2, <2>1 DEF CacheInv
<1>8. CASE \E p \in Procs : NewRequest(p)
  <2>1. UNCHANGED <<busy, lastkey>> /\ rtime' \in [Procs -> Time]
    BY <1>2, <1>8 DEF NewRequest
  <2> QED
    BY <1>1, <1>2, <2>1 DEF CacheInv
<1> QED
  BY <1>4, <1>5, <1>6, <1>7, <1>8 DEF Next

(***************************************************************************)
(* The invariant of the table, its gc list and its counters under every    *)
(* call of apc_cache.c, as long as make_slot finds room in the pool.       *)
(***************************************************************************)
THEOREM TableTended == ASSUME PoolsHaveRoom PROVE Spec => []CacheInv
<1>1. CacheInv /\ [Next]_vars => CacheInv'
  BY NextCache
<1> QED
  BY <1>1, InitCache, PTL DEF Spec

(***************************************************************************)
(* Types: no count of apc_cache_remove_slot goes below zero.               *)
(***************************************************************************)
THEOREM TypeCorrect == ASSUME PoolsHaveRoom PROVE Spec => []TypeOK
<1>1. CacheInv => TypeOK
  <2> SUFFICES ASSUME CacheInv PROVE TypeOK
    OBVIOUS
  <2>1. cache \in Table /\ clock \in Time /\ proc \in [Procs -> Call]
    BY DEF CacheInv, Tended, Tidy, Inv, CallsTyped
  <2>2. \A b \in Buckets : \A i \in DOMAIN cache.slots[b] : cache.slots[b][i] \in Entries
    BY <2>1 DEF Table
  <2> QED
    BY <2>1, <2>2 DEF TypeOK, Table, CacheInv
<1> QED
  BY <1>1, TableTended, PTL

(***************************************************************************)
(* Store, remove_slot, gc and the expunges never lose an entry of the      *)
(* shared memory, and never keep one in two places.                        *)
(***************************************************************************)
THEOREM EntriesAccounted == ASSUME PoolsHaveRoom PROVE Spec => []NothingLost
<1>1. CacheInv => NothingLost
  BY DEF CacheInv, Tended, Tidy, Accounted, NothingLost
<1> QED
  BY <1>1, TableTended, PTL

(***************************************************************************)
(* nentries and mem_size of the header, counted up by apc_cache_insert and *)
(* down by apc_cache_remove_slot, stay those of the table.                 *)
(***************************************************************************)
THEOREM HeaderCounts == ASSUME PoolsHaveRoom PROVE Spec => []CountersAgree
<1>1. CacheInv => CountersAgree
  BY DEF CacheInv, Tended, Tidy, Counted, CountersAgree
<1> QED
  BY <1>1, TableTended, PTL

(***************************************************************************)
(* apc_cache_insert replaces the entry of its key and never adds a second  *)
(* one: no later deletion uncovers an older value.                         *)
(***************************************************************************)
THEOREM NoKeyTwice == ASSUME PoolsHaveRoom PROVE Spec => []KeysUnique
<1>1. CacheInv => KeysUnique
  <2> SUFFICES ASSUME CacheInv, NEW b \in Buckets, NEW i \in DOMAIN cache.slots[b]
               PROVE  /\ HashOf[cache.entry[cache.slots[b][i]].key] = b
                      /\ \A j \in DOMAIN cache.slots[b] :
                           cache.entry[cache.slots[b][i]].key = cache.entry[cache.slots[b][j]].key => i = j
    BY DEF KeysUnique
  <2>1. Chained(cache) /\ cache \in Table
    BY DEF CacheInv, Tended, Tidy
  <2>2. \A j \in DOMAIN cache.slots[b] :
          /\ cache.slots[b][j] \in On(cache.slots[b]) /\ cache.slots[b][j] \in Entries
          /\ cache.slots[b][j] \in Linked(cache)
    BY <2>1 DEF On, Linked, Table
  <2>3. HashOf[cache.entry[cache.slots[b][i]].key] = b
    BY <2>1, <2>2 DEF Chained
  <2>4. ASSUME NEW j \in DOMAIN cache.slots[b],
               cache.entry[cache.slots[b][i]].key = cache.entry[cache.slots[b][j]].key
        PROVE  i = j
    <3>1. cache.slots[b][i] = cache.slots[b][j]
      BY <2>1, <2>2, <2>4 DEF Chained
    <3> QED
      BY <2>1, <3>1 DEF Chained, Distinct
  <2> QED
    BY <2>3, <2>4
<1> QED
  BY <1>1, TableTended, PTL

(***************************************************************************)
(* What apc_cache_find returned stays in memory until apc_cache_release,   *)
(* whatever apc_cache_remove_slot, apc_cache_gc and the expunges do.       *)
(***************************************************************************)
THEOREM HeldStays == ASSUME PoolsHaveRoom PROVE Spec => []HeldIsKept
<1>1. CacheInv => HeldIsKept
  <2> SUFFICES ASSUME CacheInv, NEW e \in Entries
               PROVE  /\ cache.entry[e].ref >= Cardinality(Holders(e))
                      /\ \A p \in Holders(e) : cache.entry[e].mem > 0 /\ cache.entry[e].key = proc[p].key
    BY DEF HeldIsKept, Holders
  <2>1. HoldsInv /\ Accounted(cache, InHand)
    BY DEF CacheInv, Tended, Tidy
  <2>2. ASSUME NEW p \in Holders(e) PROVE cache.entry[e].mem > 0 /\ cache.entry[e].key = proc[p].key
    <3>1. Kept(cache, e, proc[p].since, clock) /\ cache.entry[e].key = proc[p].key
      BY <2>1 DEF HoldsInv, Holders
    <3> QED
      BY <2>1, <3>1 DEF Kept, Accounted
  <2> QED
    BY <2>1, <2>2 DEF HoldsInv
<1> QED
  BY <1>1, TableTended, PTL
=============================================================================
