------------------------------ MODULE ApcCache ------------------------------
(***************************************************************************)
(* The shared cache of APCu (apc_cache.c): a hash table of reference       *)
(* counted entries in shared memory, used by the processes of a server.    *)
(* The table is guarded by the lock of its header; what runs under that    *)
(* lock is one step, and an expunge is two, because processes read its     *)
(* busy flag without the lock.  A process reads its clock once per request *)
(* (apc.use_request_time), so its time may lag behind.  Memory comes from  *)
(* the allocator of ApcSma, of which only the free blocks are counted.     *)
(***************************************************************************)
EXTENDS Integers, Sequences, FiniteSetsExt

CONSTANTS Procs,      \* processes that share the cache
          Keys,
          Buckets,    \* 0 .. nslots - 1
          HashOf,     \* bucket of each key
          Entries,    \* addresses an entry may have
          Blocks,     \* memory of the cache, in blocks of one entry each
          TTL,        \* apc.ttl
          GcTTL,      \* apc.gc_ttl
          Smart,      \* apc.smart
          Defend,     \* apc.slam_defense
          EntryTTLs,  \* time to live the callers ask for, 0 for none
          SlotNeeds,  \* for what make_slot has to enlarge the pool of the entry
          MaxTime,    \* bound on the clock
          MaxLeaks    \* bound on the references to one entry nobody will release

ASSUME CacheAssumption ==
    /\ HashOf \in [Keys -> Buckets]
    /\ {Blocks, TTL, GcTTL, Smart, MaxTime, MaxLeaks} \subseteq Nat /\ EntryTTLs \subseteq Nat
    /\ SlotNeeds \subseteq {"nothing", "slot", "key"} /\ Defend \in BOOLEAN
    /\ IsFiniteSet(Entries) /\ IsFiniteSet(Procs)

NoKey == "none"

VARIABLES
    cache,    \* entries, slots, gc list and counters, in shared memory
    busy,     \* APC_CACHE_ST_BUSY
    lastkey,  \* header->lastkey
    clock,    \* time(0)
    rtime,    \* apc_time() of each process: the start of its request
    proc      \* the call each process is in

vars == <<cache, busy, lastkey, clock, rtime, proc>>

Time == 0 .. MaxTime

\* A slot with its value: both live and die with the pool of the entry.  mem
\* counts the blocks of the pool and is 0 when the address is free; `by' is
\* the process that stored the entry.
Entry == [key : Keys \cup {NoKey}, ttl : EntryTTLs \cup {0}, ctime : Time, atime : Time,
          dtime : Time, ref : Int, mem : 0 .. 2, by : Procs \cup {NoKey}]

Free == [key |-> NoKey, ttl |-> 0, ctime |-> 0, atime |-> 0, dtime |-> 0,
         ref |-> 0, mem |-> 0, by |-> NoKey]

NoLast == [key |-> NoKey, mtime |-> 0, owner |-> NoKey]

PCs == {"idle", "alloc", "expwait", "expunging", "insert", "inswait",
        "findwait", "holding", "clrwait", "clearing"}

Call == [pc : PCs, key : Keys \cup {NoKey}, ttl : EntryTTLs \cup {0}, excl : BOOLEAN,
         entry : Entries \cup {NoKey}, tries : 0 .. 3, since : Time]

Idle == [pc |-> "idle", key |-> NoKey, ttl |-> 0, excl |-> FALSE, entry |-> NoKey,
         tries |-> 0, since |-> 0]

Linked(c) == {e \in Entries : \E b \in Buckets : \E i \in DOMAIN c.slots[b] : c.slots[b][i] = e}

\* The blocks of the pools of D.
MemOf(c, D) == Cardinality({b \in D \X (1 .. 2) : b[2] <= c.entry[b[1]].mem})

Avail(c) == Blocks - MemOf(c, Entries)

TypeOK ==
    /\ cache.entry \in [Entries -> Entry]
    /\ DOMAIN cache.slots = Buckets
    /\ \A b \in Buckets : \A i \in DOMAIN cache.slots[b] : cache.slots[b][i] \in Entries
    /\ cache.gc \subseteq Entries
    /\ cache.nentries \in Nat /\ cache.memsize \in Nat
    /\ busy \in BOOLEAN
    /\ lastkey \in [key : Keys \cup {NoKey}, mtime : Time, owner : Procs \cup {NoKey}]
    /\ clock \in Time /\ rtime \in [Procs -> Time]
    /\ proc \in [Procs -> Call]

Init == /\ cache = [entry |-> [e \in Entries |-> Free], slots |-> [b \in Buckets |-> <<>>],
                    gc |-> {}, nentries |-> 0, memsize |-> 0]
        /\ busy = FALSE /\ lastkey = NoLast
        /\ clock = 0 /\ rtime = [p \in Procs |-> 0]
        /\ proc = [p \in Procs |-> Idle]

\* No process is inside a critical section that spans two steps.
LockFree == \A q \in Procs : proc[q].pc \notin {"expunging", "clearing"}

-----------------------------------------------------------------------------
(***************************************************************************)
(* What is done to the table under the lock.                               *)
(***************************************************************************)

\* A chain, or a part of one, after the entries of D were unlinked.
Without(s, D) ==
    LET w[n \in 0 .. Len(s)] == IF n = 0 THEN <<>>
                                ELSE IF s[n] \in D THEN w[n - 1] ELSE Append(w[n - 1], s[n])
    IN  w[Len(s)]

\* An entry still in use is freed with the others.
RemoveAll_IgnoresRefs(c, D, now) ==
    [entry    |-> [e \in Entries |-> IF e \in D THEN Free ELSE c.entry[e]],
     slots    |-> [b \in Buckets |-> Without(c.slots[b], D)],
     gc       |-> c.gc,
     nentries |-> Max({c.nentries - Cardinality(D), 0}),
     memsize  |-> c.memsize - MemOf(c, D)]

\* The size of a removed entry is read after its pool was destroyed.
RemoveAll_SizeAfterFree(c, D, now) ==
    LET dead == {e \in D : c.entry[e].ref <= 0}
    IN  [entry    |-> [e \in Entries |-> IF e \in dead THEN Free
                                         ELSE IF e \in D THEN [c.entry[e] EXCEPT !.dtime = now]
                                         ELSE c.entry[e]],
         slots    |-> [b \in Buckets |-> Without(c.slots[b], D)],
         gc       |-> c.gc \cup (D \ dead),
         nentries |-> Max({c.nentries - Cardinality(D), 0}),
         memsize  |-> c.memsize - MemOf(c, D \ dead)]

\* apc_cache_remove_slot on every entry of D: those in use go to the gc list.
RemoveAll(c, D, now) ==
    LET dead == {e \in D : c.entry[e].ref <= 0}
    IN  [entry    |-> [e \in Entries |-> IF e \in dead THEN Free
                                         ELSE IF e \in D THEN [c.entry[e] EXCEPT !.dtime = now]
                                         ELSE c.entry[e]],
         slots    |-> [b \in Buckets |-> Without(c.slots[b], D)],
         gc       |-> c.gc \cup (D \ dead),
         nentries |-> Max({c.nentries - Cardinality(D), 0}),
         memsize  |-> c.memsize - MemOf(c, D)]

\* An entry in use is given up one second early.
Garbage_TooSoon(c, now) ==
    {e \in c.gc : c.entry[e].ref = 0 \/ (GcTTL # 0 /\ now - c.entry[e].dtime >= GcTTL)}

\* apc_cache_gc: what is on the gc list and unused, or there for too long.
Garbage(c, now) ==
    {e \in c.gc : c.entry[e].ref = 0 \/ (GcTTL # 0 /\ now - c.entry[e].dtime > GcTTL)}

Gc(c, now) ==
    [c EXCEPT !.entry = [e \in Entries |-> IF e \in Garbage(c, now) THEN Free ELSE c.entry[e]],
              !.gc = @ \ Garbage(c, now)]

\* apc_cache_real_expunge.
RealExpunge(c, now) == [RemoveAll(c, Linked(c), now) EXCEPT !.nentries = 0]

\* Past its own time to live.
Expired(c, e, t) == c.entry[e].ttl # 0 /\ c.entry[e].ctime + c.entry[e].ttl < t

\* What the sweep of apc_cache_default_expunge removes when apc.ttl is set.
Junk(c, t) == {e \in Linked(c) : IF c.entry[e].ttl # 0 THEN Expired(c, e, t)
                                 ELSE c.entry[e].ctime + TTL < t}

\* Memory is below what apc.smart or the half of the cache asks for.
Short(c) == Avail(c) < IF Smart > 0 THEN Smart ELSE Blocks \div 2

\* apc_cache_default_expunge for one block, from its gc to the unlock.
DefaultExpunge(c, t, now) ==
    LET g == Gc(c, now)
        s == RemoveAll(g, Junk(g, t), now)
    IN  IF ~Short(g) THEN g
        ELSE IF TTL # 0 /\ Avail(s) > 1 THEN s
        ELSE RealExpunge(IF TTL = 0 THEN g ELSE s, now)

\* n calls of it in a row, from malloc_ex inside an insertion.
Expunged(c, t, now, n) ==
    LET f[m \in 0 .. n] == IF m = 0 THEN c ELSE DefaultExpunge(f[m - 1], t, now) IN f[n]

\* apc_pool_destroy of an entry that was never linked.
Discard(c, e) == [c EXCEPT !.entry[e] = Free]

\* The walk begins behind the head of the chain.
Position_SkipsHead(c, k) ==
    LET s == c.slots[HashOf[k]]
    IN  Min({i \in 2 .. Len(s) : c.entry[s[i]].key = k} \cup {Len(s) + 1})

\* Where the walk of a chain stops: at the entry with this key, or at its end.
Position(c, k) ==
    LET s == c.slots[HashOf[k]]
    IN  Min({i \in DOMAIN s : c.entry[s[i]].key = k} \cup {Len(s) + 1})

Found(c, k) == {e \in Entries : LET s == c.slots[HashOf[k]]
                                    i == Position(c, k) IN i <= Len(s) /\ s[i] = e}

\* The entries the walk of apc_cache_insert passes and finds stale.
Stale(c, k, t) ==
    {e \in Entries : /\ \E i \in 1 .. Position(c, k) - 1 : c.slots[HashOf[k]][i] = e
                     /\ (TTL # 0 /\ c.entry[e].atime < t - TTL) \/ Expired(c, e, t)}

\* make_slot stored through the slot pointer of the walk.  pre and post are
\* the entries before and after it; an expunge since then may have taken the
\* entry that holds the pointer, and then nothing reaches the new entry, or
\* the one it points on to, and then the chain runs on through freed memory.
Reachable(c, pre) == pre = <<>> \/ pre[Len(pre)] \in Linked(c)

Link(c, e, k, t, pre, post, blocks) ==
    LET gone == Entries \ Linked(c)
        tail == IF post = <<>> \/ Head(post) \in gone THEN post ELSE Without(post, gone)
    IN  [c EXCEPT !.entry[e] = [@ EXCEPT !.mem = blocks, !.ctime = t, !.atime = t],
                  !.slots[HashOf[k]] = IF Reachable(c, pre) THEN Without(pre, gone) \o <<e>> \o tail ELSE @,
                  !.nentries = @ + 1,
                  !.memsize = @ + blocks]

\* make_slot had room for the slot and none for its key: it returns the slot
\* with nothing written in it, which is linked and counted like any other. The
\* key, the value and the next slot are what the memory of the arena was, zero
\* where it was never used: the chain ends here and this entry is not found.
LinkUnfilled(c, e, k, pre) ==
    [c EXCEPT !.entry[e].key = NoKey,
              !.slots[HashOf[k]] = IF Reachable(c, pre) THEN Without(pre, Entries \ Linked(c)) \o <<e>> ELSE @,
              !.nentries = @ + 1,
              !.memsize = @ + 1]

\* Who follows the value of such a slot crashes with the lock: an insertion that
\* walks over it, and whatever empties the table. A find or a delete passes it.
Unfilled(c) == {e \in Linked(c) : c.entry[e].key = NoKey}

WalkEnds(c, k)  == \A i \in 1 .. Position(c, k) - 1 : c.slots[HashOf[k]][i] \notin Unfilled(c)
SweepEnds(c, n) == n > 0 /\ Short(Gc(c, clock)) => Unfilled(c) = {}

\* make_slot failed and stored NULL through the slot pointer.
Cut(c, k, pre) ==
    [c EXCEPT !.slots[HashOf[k]] = IF Reachable(c, pre) THEN Without(pre, Entries \ Linked(c)) ELSE @]

-----------------------------------------------------------------------------
(***************************************************************************)
(* Calls.                                                                  *)
(***************************************************************************)

Goto(p, pc) == proc' = [proc EXCEPT ![p].pc = pc]

Return(p) == proc' = [proc EXCEPT ![p] = Idle]

\* A process starts a new request.
NewRequest(p) ==
    /\ proc[p].pc = "idle" /\ rtime[p] # clock
    /\ rtime' = [rtime EXCEPT ![p] = clock]
    /\ UNCHANGED <<cache, busy, lastkey, clock, proc>>

\* apc_cache_store: the process asks for memory for a new entry.
Store(p) ==
    /\ proc[p].pc = "idle"
    /\ \E k \in Keys, ttl \in EntryTTLs, x \in BOOLEAN :
         proc' = [proc EXCEPT ![p] = [Idle EXCEPT !.pc = "alloc", !.key = k, !.ttl = ttl, !.excl = x]]
    /\ UNCHANGED <<cache, busy, lastkey, clock, rtime>>

\* apc_cache_defense.
Slammed(p) == /\ Defend /\ lastkey.key = proc[p].key
              /\ lastkey.mtime = rtime[p] /\ lastkey.owner # p

\* The pool is created, the key is defended, and the entry is made.
MakeEntry(p) ==
    LET k == proc[p].key IN
    /\ proc[p].pc = "alloc" /\ Avail(cache) > 0
    /\ IF Slammed(p)
       THEN Return(p) /\ UNCHANGED <<cache, lastkey>>
       ELSE /\ \E e \in Entries :
                 /\ cache.entry[e].mem = 0
                 /\ cache' = [cache EXCEPT !.entry[e] =
                                [Free EXCEPT !.key = k, !.ttl = proc[p].ttl, !.mem = 1, !.by = p]]
                 /\ proc' = [proc EXCEPT ![p].pc = "insert", ![p].entry = e, ![p].tries = 0]
            /\ lastkey' = IF Defend /\ lastkey.key = k
                          THEN [key |-> k, mtime |-> rtime[p], owner |-> p] ELSE lastkey
    /\ UNCHANGED <<busy, clock, rtime>>

\* malloc_ex finds no block, the memory being full or in pieces.  The third
\* failure after an expunge is the last one; a busy cache is not expunged.
NoBlock(p) ==
    /\ proc[p].pc = "alloc" /\ Avail(cache) < Blocks
    /\ IF proc[p].tries = 3 THEN Return(p)
       ELSE IF busy THEN proc' = [proc EXCEPT ![p].tries = @ + 1]
       ELSE Goto(p, "expwait")
    /\ UNCHANGED <<cache, busy, lastkey, clock, rtime>>

\* apc_cache_default_expunge, up to the busy flag and from there.
ExpungeLocks(p) ==
    /\ proc[p].pc = "expwait" /\ LockFree
    /\ busy' = TRUE
    /\ Goto(p, "expunging")
    /\ UNCHANGED <<cache, lastkey, clock, rtime>>

\* The flag is left set when there was nothing to expunge.
ExpungeRuns_StaysBusy(p) ==
    /\ proc[p].pc = "expunging" /\ SweepEnds(cache, 1)
    /\ cache' = DefaultExpunge(cache, rtime[p], clock)
    /\ lastkey' = IF Short(Gc(cache, clock)) THEN NoLast ELSE lastkey
    /\ busy' = ~Short(Gc(cache, clock))
    /\ proc' = [proc EXCEPT ![p].pc = "alloc", ![p].tries = @ + 1]
    /\ UNCHANGED <<clock, rtime>>

ExpungeRuns(p) ==
    /\ proc[p].pc = "expunging" /\ SweepEnds(cache, 1)
    /\ cache' = DefaultExpunge(cache, rtime[p], clock)
    /\ lastkey' = IF Short(Gc(cache, clock)) THEN NoLast ELSE lastkey
    /\ busy' = FALSE
    /\ proc' = [proc EXCEPT ![p].pc = "alloc", ![p].tries = @ + 1]
    /\ UNCHANGED <<clock, rtime>>

\* apc_cache_insert gives up on a busy cache, before it takes the lock.
InsertTests(p) ==
    /\ proc[p].pc = "insert"
    /\ IF busy THEN Return(p) /\ cache' = Discard(cache, proc[p].entry)
               ELSE Goto(p, "inswait") /\ UNCHANGED cache
    /\ UNCHANGED <<busy, lastkey, clock, rtime>>

\* An exclusive insertion finds the key and it has not expired.
Taken(c, p) == /\ proc[p].excl
               /\ \E e \in Found(c, proc[p].key) : ~Expired(c, e, rtime[p])

\* Nobody destroys the context of the entry that was not inserted.
InsertBails_Leaks(p) ==
    LET g == Gc(cache, clock) IN
    /\ proc[p].pc = "inswait" /\ LockFree /\ WalkEnds(g, proc[p].key) /\ Taken(g, p)
    /\ cache' = RemoveAll(g, Stale(g, proc[p].key, rtime[p]), clock)
    /\ Return(p)
    /\ UNCHANGED <<busy, lastkey, clock, rtime>>

\* It bails out, but what it found stale on the way is gone.
InsertBails(p) ==
    LET g == Gc(cache, clock) IN
    /\ proc[p].pc = "inswait" /\ LockFree /\ WalkEnds(g, proc[p].key) /\ Taken(g, p)
    /\ cache' = Discard(RemoveAll(g, Stale(g, proc[p].key, rtime[p]), clock), proc[p].entry)
    /\ Return(p)
    /\ UNCHANGED <<busy, lastkey, clock, rtime>>

\* What an insertion takes out of the table.
Replaced(c, p) == Stale(c, proc[p].key, rtime[p]) \cup Found(c, proc[p].key)

\* It links the entry where the walk stopped.  When the slot or the copy of its
\* key does not fit into the pool, the allocation may expunge the cache under the
\* feet of the walk: the mutex build locks recursively, so the process may lock
\* once more.  Of the two only that of the slot tells the caller when it fails.
InsertLinks(p) ==
    LET k    == proc[p].key
        g    == Gc(cache, clock)
        c    == RemoveAll(g, Replaced(g, p), clock)
        s    == g.slots[HashOf[k]]
        i    == Position(g, k)
        pre  == Without(SubSeq(s, 1, i - 1), Replaced(g, p))
        post == SubSeq(s, i + 1, Len(s))
    IN  /\ proc[p].pc = "inswait" /\ LockFree /\ WalkEnds(g, k) /\ ~Taken(g, p)
        /\ \/ "nothing" \in SlotNeeds /\ cache' = Link(c, proc[p].entry, k, rtime[p], pre, post, 1)
           \/ \E need \in SlotNeeds \ {"nothing"}, n \in 0 .. 3 :
                LET x == Expunged(c, rtime[p], clock, n)
                IN  /\ SweepEnds(c, n)
                    /\ \/ Avail(x) > 0 /\ cache' = Link(x, proc[p].entry, k, rtime[p], pre, post, 2)
                       \/ need = "slot" /\ n = 3 /\ cache' = Discard(Cut(x, k, pre), proc[p].entry)
                       \/ need = "key" /\ n = 3 /\ cache' = LinkUnfilled(x, proc[p].entry, k, pre)
        /\ Return(p)
        /\ UNCHANGED <<busy, lastkey, clock, rtime>>

\* apc_cache_find gives up on a busy cache, before it takes the lock.
Find(p) ==
    /\ proc[p].pc = "idle" /\ ~busy
    /\ \E k \in Keys : proc' = [proc EXCEPT ![p] = [Idle EXCEPT !.pc = "findwait", !.key = k]]
    /\ UNCHANGED <<cache, busy, lastkey, clock, rtime>>

Lookup(p) ==
    LET hit == {e \in Found(cache, proc[p].key) : ~Expired(cache, e, rtime[p])} IN
    /\ proc[p].pc = "findwait" /\ LockFree
    /\ \/ hit = {} /\ Return(p) /\ UNCHANGED cache
       \/ \E e \in hit :
            /\ cache' = [cache EXCEPT !.entry[e].ref = @ + 1, !.entry[e].atime = rtime[p]]
            /\ proc' = [proc EXCEPT ![p].pc = "holding", ![p].entry = e, ![p].since = clock]
    /\ UNCHANGED <<busy, lastkey, clock, rtime>>

\* apc_cache_release, without the lock: the value was copied out.
Release(p) ==
    /\ proc[p].pc = "holding"
    /\ cache' = [cache EXCEPT !.entry[proc[p].entry].ref = @ - 1]
    /\ Return(p)
    /\ UNCHANGED <<busy, lastkey, clock, rtime>>

\* The request dies, or apc_cache_fetch has no context to copy to: nobody
\* releases the entry.
Abandon(p) ==
    /\ proc[p].pc = "holding"
    /\ cache.entry[proc[p].entry].ref <= MaxLeaks + Cardinality({q \in Procs \ {p} : proc[q].entry = proc[p].entry})
    /\ Return(p)
    /\ UNCHANGED <<cache, busy, lastkey, clock, rtime>>

\* apc_cache_delete, which does not look at the busy flag.
Delete(p) ==
    /\ proc[p].pc = "idle" /\ LockFree
    /\ \E k \in Keys : /\ Found(cache, k) # {}
                       /\ cache' = RemoveAll(cache, Found(cache, k), clock)
    /\ UNCHANGED <<busy, lastkey, clock, rtime, proc>>

\* apc_cache_clear.
Clear(p) ==
    /\ proc[p].pc = "idle" /\ ~busy
    /\ proc' = [proc EXCEPT ![p].pc = "clrwait"]
    /\ UNCHANGED <<cache, busy, lastkey, clock, rtime>>

ClearLocks(p) ==
    /\ proc[p].pc = "clrwait" /\ LockFree
    /\ busy' = TRUE
    /\ Goto(p, "clearing")
    /\ UNCHANGED <<cache, lastkey, clock, rtime>>

ClearRuns(p) ==
    /\ proc[p].pc = "clearing" /\ Unfilled(cache) = {}
    /\ cache' = RealExpunge(cache, clock)
    /\ lastkey' = NoLast
    /\ busy' = FALSE
    /\ Return(p)
    /\ UNCHANGED <<clock, rtime>>

\* Time passes.  apc.gc_ttl is a failsafe for processes that died: it is set
\* so that no living process takes as long to copy a value.
Tick ==
    /\ clock < MaxTime
    /\ \A p \in Procs : (proc[p].pc = "holding" /\ GcTTL # 0) => clock - proc[p].since < GcTTL
    /\ clock' = clock + 1
    /\ UNCHANGED <<cache, busy, lastkey, rtime, proc>>

Stores(p)   == Store(p) \/ MakeEntry(p) \/ NoBlock(p) \/ InsertTests(p) \/ InsertBails(p) \/ InsertLinks(p)
Expunges(p) == ExpungeLocks(p) \/ ExpungeRuns(p)
Fetches(p)  == Find(p) \/ Lookup(p) \/ Release(p) \/ Abandon(p)
Clears(p)   == Clear(p) \/ ClearLocks(p) \/ ClearRuns(p)

Next == Tick \/ \E p \in Procs : NewRequest(p) \/ Stores(p) \/ Expunges(p) \/ Fetches(p) \/ Clears(p) \/ Delete(p)

Spec == Init /\ [][Next]_vars

-----------------------------------------------------------------------------
(***************************************************************************)
(* Properties.                                                             *)
(***************************************************************************)

InHand == {proc[p].entry : p \in {q \in Procs : proc[q].pc \in {"insert", "inswait"}}}

\* No memory is lost and none is reached twice: every entry in memory is in
\* the table, on the gc list or in the hands of the process that stores it, in
\* one of them only (store, remove_slot, gc and both expunges together).
NothingLost ==
    LET used == {e \in Entries : cache.entry[e].mem > 0}
    IN  /\ used = Linked(cache) \cup cache.gc \cup InHand
        /\ Linked(cache) \cap cache.gc = {} /\ InHand \cap (Linked(cache) \cup cache.gc) = {}

\* nentries and mem_size of the header are the entries in the table and their
\* memory, whatever insertions, deletions and expunges came in between.
CountersAgree == /\ cache.nentries = Cardinality(Linked(cache))
                 /\ cache.memsize = MemOf(cache, Linked(cache))

\* A key is in the table once, and in the chain its hash says: no deletion or
\* replacement uncovers an older value of it.
KeysUnique ==
    \A b \in Buckets : \A i \in DOMAIN cache.slots[b] :
        /\ HashOf[cache.entry[cache.slots[b][i]].key] = b
        /\ \A j \in DOMAIN cache.slots[b] :
             cache.entry[cache.slots[b][i]].key = cache.entry[cache.slots[b][j]].key => i = j

\* An entry a process found stays in memory, with its key, until the process
\* released it, whoever deletes, replaces or expunges it meanwhile; its
\* reference count never falls below the number of processes that hold it.
HeldIsKept ==
    \A e \in Entries :
        LET holders == {p \in Procs : proc[p].pc = "holding" /\ proc[p].entry = e}
        IN  /\ cache.entry[e].ref >= Cardinality(holders)
            /\ \A p \in holders : cache.entry[e].mem > 0 /\ cache.entry[e].key = proc[p].key

\* The busy flag is set only while a process holds the lock to expunge or to
\* clear: were it left set, every store, fetch and clear of every process would
\* be refused from then on (default_expunge, clear and their early returns).
BusyHasOwner == busy => \E p \in Procs : proc[p].pc \in {"expunging", "clearing"}

\* "Returns true if the entry was successfully inserted": an entry that was
\* counted as inserted can be found (apc_cache_insert, with an allocation
\* that expunges in between).
InsertedIsFound ==
    [][\A p \in Procs :
         (proc[p].pc = "inswait" /\ proc'[p].pc = "idle" /\ cache'.entry[proc[p].entry].mem > 0)
           => proc[p].entry \in Found(cache', proc[p].key)]_vars

\* A failed insertion leaves the entries behind it in the chain where they
\* are, or in nobody's hands: "entry count" still counts them.
EntryCount == cache.nentries = Cardinality(Linked(cache))

\* The sweep takes entries without a time to live of their own only when they
\* idled for longer than apc.ttl; an expunge of everything is not a sweep.
SweepTakesIdle ==
    [][\A p \in Procs :
         (proc[p].pc = "expunging" /\ proc'[p].pc = "alloc" /\ Linked(cache') # {})
           => \A e \in Linked(cache) \ Linked(cache') :
                cache.entry[e].ttl = 0 => cache.entry[e].atime + TTL < rtime[p]]_vars

\* No process sets a key in the second in which another process set it.
SlamAverted ==
    [][\A e \in Linked(cache) \ Linked(cache'), f \in Linked(cache') \ Linked(cache) :
         ~ /\ cache.entry[e].key = cache'.entry[f].key
           /\ cache.entry[e].by # cache'.entry[f].by
           /\ cache.entry[e].ctime = cache'.entry[f].ctime]_vars
=============================================================================
