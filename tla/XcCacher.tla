------------------------------- MODULE XcCacher -------------------------------
(***************************************************************************)
(* XCache's opcode cache (mod_cacher/xc_cacher.c): one cache in one shared *)
(* arena, used by several PHP processes. A file has an entry, which points *)
(* to the compiled code; code is found again by the MD5 of its source, so  *)
(* files with the same source share it. Whoever executes cached code holds *)
(* its entry until the end of the request. An action is what one process   *)
(* does under the mutex of the cache, or between two uses of it.           *)
(***************************************************************************)
EXTENDS XcAllocator, Sequences, Functions

CONSTANTS Procs, Files,
          Sources,                \* what may be written in a file
          PhpWords, EntryWords,   \* what compiled code and an entry take, in words
          Settle,        \* a file changed less than this long ago is not cached
          Window,        \* how long a compile keeps the others from compiling
          KeepTime,      \* how long a deleted entry is kept for its holders
          GcInterval,    \* xc_deletes_gc_interval
          PhpTtl, PhpGc, \* xcache.ttl and xcache.gc_interval
          Timely,        \* requests are short and files change at quiet times
          Undisturbed,   \* no lookup is cut short while another process compiles
          None,          \* no file, no source
          MaxTime, MaxEvents, MaxHolds  \* bounds

ASSUME CacherAssumption ==
    /\ {PhpWords, EntryWords, Settle, Window, KeepTime, GcInterval, PhpTtl, PhpGc} \subseteq Nat
    /\ PhpWords + HDR >= BLK /\ EntryWords + HDR >= BLK
    /\ Window > 0 /\ 2 * Window <= KeepTime + 2
    /\ IsFiniteSet(Procs) /\ MaxHolds \in Nat
    /\ None \notin Files \cup Sources

VARIABLES
    shm,           \* the arena, the chains phps and entries, the list deletes, and
                   \* what is stored at the addresses of codes (php) and entries (entry)
    compiling, disabled, last_gc_expires, last_gc_deletes,  \* xc_cached_t
    pc, request_time, compiler, holds,  \* of each process
    disk,          \* file -> its source and the time of its last change
    now,           \* the clock
    seen,          \* (history) the sources a process's file had since its stat
    crashes, events  \* counters of the bounds

cached  == <<compiling, disabled, last_gc_expires, last_gc_deletes>>
request == <<pc, request_time, compiler, holds, seen>>
world   == <<disk, now, crashes, events>>
vars    == <<shm, cached, request, world>>

Idle == [file |-> None, mtime |-> 0, md5 |-> None, code |-> None]

Init == /\ shm = [heap |-> InitHeap, phps |-> << >>, entries |-> << >>, deletes |-> {},
                  php |-> << >>, entry |-> << >>]
        /\ compiling = 0 /\ disabled = 0 /\ last_gc_expires = 0 /\ last_gc_deletes = 0
        /\ pc = [p \in Procs |-> "idle"] /\ request_time = [p \in Procs |-> 0]
        /\ compiler = [p \in Procs |-> Idle] /\ holds = [p \in Procs |-> << >>]
        /\ disk \in [Files -> [source : Sources, mtime : {0}]]
        /\ now = Window /\ seen = [p \in Procs |-> {}]
        /\ crashes = 0 /\ events = 0

(***************************************************************************)
(* The functions named ..._unlocked, as maps of the shared memory s.       *)
(***************************************************************************)
Put(f, a, v) == [x \in DOMAIN f \cup {a} |-> IF x = a THEN v ELSE f[x]]
Drop(f, a)   == [x \in DOMAIN f \ {a} |-> f[x]]

RealPhp   == HDR + PhpWords
RealEntry == HDR + EntryWords

Addr(s, real) == Found(s.heap, real).at

\* The first of a chain that is in A.
FirstOf(chain, A) == chain[CHOOSE i \in DOMAIN chain :
                              chain[i] \in A /\ \A j \in 1 .. i - 1 : chain[j] \notin A]

\* A chain without its element a.
Unlinked(chain, a) == LET k == CHOOSE i \in DOMAIN chain : chain[i] = a
                      IN  [i \in 1 .. Len(chain) - 1 |-> chain[IF i < k THEN i ELSE i + 1]]

WithDigest(s, m) == {a \in Range(s.phps) : s.php[a].md5 = m}
OfFile(s, f)     == {a \in Range(s.entries) : s.entry[a].file = f}

PhpFound(s, m)   == FirstOf(s.phps, WithDigest(s, m))
EntryFound(s, f) == FirstOf(s.entries, OfFile(s, f))

\* xc_php_store_unlocked.
PhpStored(s, m, c) ==
    [s EXCEPT !.heap = Malloc(@, RealPhp),
              !.phps = <<Addr(s, RealPhp)>> \o @,
              !.php  = Put(@, Addr(s, RealPhp), [md5 |-> m, code |-> c, refcount |-> 0])]

\* The code does not count its new entry.
EntryStored_NoRef(s, e) ==
    [s EXCEPT !.heap = Malloc(@, RealEntry),
              !.entries = <<Addr(s, RealEntry)>> \o @,
              !.entry = Put(@, Addr(s, RealEntry), e)]

\* xc_entry_php_store_unlocked, and xc_php_addref_unlocked by its callers.
EntryStored(s, e) ==
    [s EXCEPT !.heap = Malloc(@, RealEntry),
              !.entries = <<Addr(s, RealEntry)>> \o @,
              !.entry = Put(@, Addr(s, RealEntry), e),
              !.php[e.php].refcount = @ + 1]

\* xc_php_release_unlocked: what it unlinks is the first code with the digest.
Released(s, a) ==
    IF s.php[a].refcount > 1
      THEN [s EXCEPT !.php[a].refcount = @ - 1]
      ELSE [s EXCEPT !.phps = Unlinked(@, PhpFound(s, s.php[a].md5)),
                     !.heap = Free(@, a),
                     !.php  = Drop(@, a)]

\* xc_entry_free_real_unlocked.
FreedReal(s, a) == [Released(s, s.entry[a].php) EXCEPT !.heap = Free(@, a),
                                                       !.entry = Drop(@, a)]

\* The entry is freed though it is held.
Removed_Held(s, a, t) == FreedReal([s EXCEPT !.entries = Unlinked(@, a)], a)

\* xc_entry_remove_unlocked and xc_entry_free_unlocked, in a request of time t.
Removed(s, a, t) ==
    LET u == [s EXCEPT !.entries = Unlinked(@, a)]
    IN  IF s.entry[a].refcount = 0
          THEN FreedReal(u, a)
          ELSE [u EXCEPT !.deletes = @ \cup {a}, !.entry[a].dtime = t]

\* One after the other, for all of a set; the order makes no difference.
RemovedAll(s, A, t) ==
    LET after[B \in SUBSET A] ==
          IF B = {} THEN s ELSE LET a == CHOOSE a \in B : TRUE IN Removed(after[B \ {a}], a, t)
    IN  after[A]

\* xc_entry_hold_php_unlocked.
Held(s, a) == [s EXCEPT !.entry[a].refcount = @ + 1]

\* xc_gc_delete_unlocked: after KeepTime nobody is thought to hold the entry.
Collectable(s, t) == {a \in s.deletes : \/ s.entry[a].refcount = 0
                                        \/ t - s.entry[a].dtime > KeepTime}

FreedAll(s, A) ==
    LET after[B \in SUBSET A] ==
          IF B = {} THEN s
          ELSE LET a == CHOOSE a \in B : TRUE
               IN  FreedReal([after[B \ {a}] EXCEPT !.deletes = @ \ {a}], a)
    IN  after[A]

Collected(s, t) == FreedAll(s, Collectable(s, t))
-----------------------------------------------------------------------------
(***************************************************************************)
(* A request.                                                              *)
(***************************************************************************)
At(p, from)      == pc[p] = from
Goes(p, from, to) == pc[p] = from /\ pc' = [pc EXCEPT ![p] = to]

\* xc_request_init.
Begin(p) == /\ Goes(p, "idle", "run")
            /\ request_time' = [request_time EXCEPT ![p] = now]
            /\ UNCHANGED <<shm, cached, compiler, holds, seen, world>>

Distance(a, b) == IF a < b THEN b - a ELSE a - b

\* xc_compile_file looks at the file, and xc_compile_file_cached makes two
\* checks before it takes the mutex. When one of the three fails, the file is
\* compiled as if there were no cache, and nothing here changes.
OthersCompile(p) == request_time[p] - compiling < Window

Include(p, f) ==
    /\ Goes(p, "run", "lookup") /\ Len(holds[p]) < MaxHolds
    /\ Distance(request_time[p], disk[f].mtime) >= Settle
    /\ disabled = 0 /\ ~OthersCompile(p)
    /\ compiler' = [compiler EXCEPT ![p] = [Idle EXCEPT !.file = f, !.mtime = disk[f].mtime]]
    /\ seen' = [seen EXCEPT ![p] = {disk[f].source}]
    /\ UNCHANGED <<shm, cached, request_time, holds, world>>

\* Any entry of the file will do.
Fresh_Any(p, a) == shm.entry[a].file = compiler[p].file

Fresh(p, a) == shm.entry[a].mtime = compiler[p].mtime

\* The compiler of an include is a local variable.
Returns(p) == /\ compiler' = [compiler EXCEPT ![p] = Idle]
              /\ seen' = [seen EXCEPT ![p] = {}]

Known(p) == OfFile(shm, compiler[p].file) # {}
Mine(p)  == EntryFound(shm, compiler[p].file)

Hold(p, s, a) == /\ shm' = Held(s, a)
                 /\ holds' = [holds EXCEPT ![p] = Append(@, a)]

\* xc_entry_find_unlocked finds the entry.
Hit(p) ==
    /\ Goes(p, "lookup", "restore") /\ Known(p) /\ Fresh(p, Mine(p))
    /\ Hold(p, [shm EXCEPT !.entry[Mine(p)].atime = request_time[p]], Mine(p))
    /\ UNCHANGED <<cached, request_time, compiler, seen, world>>

\* It does not; an entry of an earlier version is removed.
Misses(p) == At(p, "lookup") /\ (Known(p) => ~Fresh(p, Mine(p)))

Missed(p) == IF Known(p) THEN Removed(shm, Mine(p), request_time[p]) ELSE shm

NewEntry(p, a) == [file |-> compiler[p].file, mtime |-> compiler[p].mtime, php |-> a,
                   refcount |-> 0, atime |-> request_time[p], dtime |-> 0]

\* xc_entry_data_php_init_md5 reads the file.
Digest(p) == disk[compiler[p].file].source

\* The code of another file with the same source is used.
Share(p) ==
    LET s == Missed(p)
    IN  /\ Goes(p, "lookup", "restore") /\ Misses(p)
        /\ WithDigest(s, Digest(p)) # {} /\ CanMalloc(s.heap, RealEntry)
        /\ Hold(p, EntryStored(s, NewEntry(p, PhpFound(s, Digest(p)))), Addr(s, RealEntry))
        /\ UNCHANGED <<cached, request_time, compiler, seen, world>>

\* There is no room for the entry, or the flag says that another process
\* compiles, or the file cannot be read: compiled as if there were no cache.
GiveUp(p) == /\ Goes(p, "lookup", "run") /\ Misses(p)
             /\ shm' = Missed(p) /\ Returns(p)
             /\ UNCHANGED <<cached, request_time, holds, world>>

\* A bailout under the mutex (memory_limit, while the path, the file or the entry
\* is copied): the flag is reset whoever has set it, and the request ends.
Compiling == {"compile", "store", "stored", "finish"}

LookupBails(p) ==
    /\ Goes(p, "lookup", "run") /\ Returns(p)
    /\ Undisturbed => \A q \in Procs : pc[q] \notin Compiling
    /\ shm' = shm \/ (Misses(p) /\ shm' = Missed(p))
    /\ compiling' = 0
    /\ UNCHANGED <<disabled, last_gc_expires, last_gc_deletes, request_time, holds, world>>

\* The flag is trusted to be what the precheck saw.
FlagFree_Unchecked(p) == TRUE

FlagFree(p) == ~OthersCompile(p)

GoCompile(p) ==
    /\ Goes(p, "lookup", "compile") /\ Misses(p)
    /\ WithDigest(Missed(p), Digest(p)) = {} /\ FlagFree(p)
    /\ shm' = Missed(p) /\ compiling' = request_time[p]
    /\ compiler' = [compiler EXCEPT ![p].md5 = Digest(p)]
    /\ UNCHANGED <<disabled, last_gc_expires, last_gc_deletes, request_time, holds, seen, world>>

\* xc_compile_php, which reads the file again.
Compile(p) == /\ Goes(p, "compile", "store")
              /\ compiler' = [compiler EXCEPT ![p].code = disk[compiler[p].file].source]
              /\ UNCHANGED <<shm, cached, request_time, holds, seen, world>>

\* A syntax error, or a bailout that ends the request.
CompileFails(p) ==
    /\ Goes(p, "compile", "run") /\ Returns(p)
    /\ compiling' = 0
    /\ UNCHANGED <<shm, disabled, last_gc_expires, last_gc_deletes, request_time, holds, world>>

\* xc_compile_file_sandboxed under the mutex. Without room, or by a bailout before
\* the entry is copied, code is left without an entry, for the next who looks for
\* its digest, or nothing is stored at all.
Store(p) ==
    LET s == PhpStored(shm, compiler[p].md5, compiler[p].code)
    IN  /\ CanMalloc(shm.heap, RealPhp)
        /\ \/ /\ Goes(p, "store", "stored") /\ CanMalloc(s.heap, RealEntry)
              /\ Hold(p, EntryStored(s, NewEntry(p, Addr(shm, RealPhp))), Addr(s, RealEntry))
           \/ /\ Goes(p, "store", "finish")
              /\ shm' = s /\ UNCHANGED holds
        /\ UNCHANGED <<cached, request_time, compiler, seen, world>>

StoreFails(p) == /\ Goes(p, "store", "finish")
                 /\ UNCHANGED <<shm, cached, request_time, compiler, holds, seen, world>>

\* The flag is reset after the mutex has been released, whoever has set it.
Finish(p) == /\ \/ Goes(p, "stored", "restore") /\ UNCHANGED <<compiler, seen>>
                \/ Goes(p, "finish", "run") /\ Returns(p)
             /\ compiling' = 0
             /\ UNCHANGED <<shm, disabled, last_gc_expires, last_gc_deletes, request_time, holds, world>>

\* xc_compile_restore copies the code out of the shared memory, without the mutex.
Restore(p) == /\ Goes(p, "restore", "run") /\ Returns(p)
              /\ UNCHANGED <<shm, cached, request_time, holds, world>>

(***************************************************************************)
(* xc_request_shutdown: three uses of the mutex, the last two only when    *)
(* there is something to collect.                                          *)
(***************************************************************************)
Count(p, a) == Cardinality({i \in DOMAIN holds[p] : holds[p][i] = a})

Unhold(p) ==
    /\ Goes(p, "run", "expire")
    /\ shm' = [shm EXCEPT !.entry =
                  [a \in DOMAIN shm.entry |-> [shm.entry[a] EXCEPT !.refcount = @ - Count(p, a)]]]
    /\ holds' = [holds EXCEPT ![p] = << >>]
    /\ UNCHANGED <<cached, request_time, compiler, seen, world>>

Expired(p) == {a \in Range(shm.entries) : request_time[p] > shm.entry[a].atime + PhpTtl}

GcExpires(p) ==
    /\ Goes(p, "expire", "delete")
    /\ IF PhpTtl # 0 /\ PhpGc # 0 /\ disabled = 0 /\ request_time[p] >= last_gc_expires + PhpGc
         THEN /\ shm' = RemovedAll(shm, Expired(p), request_time[p])
              /\ last_gc_expires' = request_time[p]
         ELSE UNCHANGED <<shm, last_gc_expires>>
    /\ UNCHANGED <<compiling, disabled, last_gc_deletes, request_time, compiler, holds, seen, world>>

\* At the end of the request, or after xcache_clear_cache.
GcDeletes(p) ==
    /\ \/ Goes(p, "delete", "idle") /\ request_time' = [request_time EXCEPT ![p] = 0]
       \/ Goes(p, "cleared", "run") /\ UNCHANGED request_time
    /\ IF disabled = 0 /\ shm.deletes # {} /\ request_time[p] - last_gc_deletes > GcInterval
         THEN /\ shm' = Collected(shm, request_time[p])
              /\ last_gc_deletes' = request_time[p]
         ELSE UNCHANGED <<shm, last_gc_deletes>>
    /\ UNCHANGED <<compiling, disabled, last_gc_expires, compiler, holds, seen, world>>

(***************************************************************************)
(* The administrator's functions, called by a script, and the world.       *)
(***************************************************************************)
Event == events < MaxEvents /\ events' = events + 1

Clear(p) == /\ Goes(p, "run", "cleared") /\ Event
            /\ shm' = RemovedAll(shm, Range(shm.entries), request_time[p])
            /\ UNCHANGED <<cached, request_time, compiler, holds, seen, disk, now, crashes>>

Enable(p) == /\ At(p, "run") /\ Event
             /\ disabled' = IF disabled = 0 THEN request_time[p] ELSE 0
             /\ UNCHANGED <<shm, compiling, last_gc_expires, last_gc_deletes, request, disk, now, crashes>>

\* A process dies without the mutex; what it holds stays counted.
Crash(p) == /\ ~At(p, "idle") /\ Event /\ crashes' = crashes + 1
            /\ pc' = [pc EXCEPT ![p] = "idle"] /\ holds' = [holds EXCEPT ![p] = << >>]
            /\ request_time' = [request_time EXCEPT ![p] = 0] /\ Returns(p)
            /\ UNCHANGED <<shm, cached, disk, now>>

\* Two changes of a file differ in their times, and none comes between the
\* digest and the compilation of the same file.
Quiet(f) == /\ disk[f].mtime # now
            /\ \A p \in Procs : ~(At(p, "compile") /\ compiler[p].file = f)

Edit(f, s) == /\ s # disk[f].source /\ Event
              /\ Timely => Quiet(f)
              /\ disk' = [disk EXCEPT ![f] = [source |-> s, mtime |-> now]]
              /\ seen' = [p \in Procs |-> IF compiler[p].file = f /\ seen[p] # {}
                                            THEN seen[p] \cup {s} ELSE seen[p]]
              /\ UNCHANGED <<shm, cached, pc, request_time, compiler, holds, now, crashes>>

\* A request ends before another may compile what it compiles.
Short == \A p \in Procs : At(p, "idle") \/ now + 1 - request_time[p] < Window

Tick == /\ now < MaxTime /\ now' = now + 1 /\ (Timely => Short)
        /\ UNCHANGED <<shm, cached, request, disk, crashes, events>>

Step(p) == \/ Begin(p) \/ (\E f \in Files : Include(p, f))
           \/ Hit(p) \/ Share(p) \/ GiveUp(p) \/ LookupBails(p) \/ GoCompile(p)
           \/ Compile(p) \/ CompileFails(p) \/ Store(p) \/ StoreFails(p) \/ Finish(p) \/ Restore(p)
           \/ Unhold(p) \/ GcExpires(p) \/ GcDeletes(p)
           \/ Clear(p) \/ Enable(p) \/ Crash(p)

Next == (\E p \in Procs : Step(p)) \/ (\E f \in Files, s \in Sources : Edit(f, s)) \/ Tick

Spec == Init /\ [][Next]_vars
-----------------------------------------------------------------------------
Ranges == /\ {pc[p] : p \in Procs} \subseteq
               {"idle", "run", "lookup", "restore", "compile", "store", "finish",
                "stored", "expire", "delete", "cleared"}
          /\ \A v \in {compiling, disabled, last_gc_expires, last_gc_deletes} : v \in 0 .. now
          /\ DOMAIN shm.php \cup DOMAIN shm.entry \subseteq 0 .. Limit

\* The blocks in use are the codes and the entries, each once, each in its place.
Reachable ==
    /\ Range(shm.phps) = DOMAIN shm.php /\ IsInjective(shm.phps)
    /\ Range(shm.entries) \cup shm.deletes = DOMAIN shm.entry
    /\ Range(shm.entries) \cap shm.deletes = {} /\ IsInjective(shm.entries)
    /\ shm.heap.busy = {[at |-> a, size |-> RealPhp] : a \in DOMAIN shm.php}
                         \cup {[at |-> a, size |-> RealEntry] : a \in DOMAIN shm.entry}

\* A code is counted once by each of its entries.
PhpsCounted ==
    /\ \A a \in DOMAIN shm.entry : shm.entry[a].php \in DOMAIN shm.php
    /\ \A b \in DOMAIN shm.php :
         shm.php[b].refcount = Cardinality({a \in DOMAIN shm.entry : shm.entry[a].php = b})

\* An entry is counted by those who hold it, and by the dead.
HoldersOf(a) == {h \in Procs \X (1 .. MaxHolds) : h[2] <= Len(holds[h[1]]) /\ holds[h[1]][h[2]] = a}

HoldsCounted ==
    /\ \A p \in Procs : Range(holds[p]) \subseteq DOMAIN shm.entry
    /\ \A a \in DOMAIN shm.entry :
         /\ shm.entry[a].refcount >= Cardinality(HoldersOf(a))
         /\ crashes = 0 => shm.entry[a].refcount = Cardinality(HoldersOf(a))

\* No digest is stored twice: release unlinks the first code that has it.
DigestsUnique == \A a, b \in DOMAIN shm.php : shm.php[a].md5 = shm.php[b].md5 => a = b

(***************************************************************************)
(* Whatever is looked up, stored, shared, removed, expired and collected,  *)
(* in any order and with processes that die, the arena is sound and holds  *)
(* exactly what the chains reach; codes and entries are counted, and what  *)
(* a process holds is never freed, so that xc_compile_restore may read it  *)
(* without the mutex and unholds may decrement it.                         *)
(***************************************************************************)
CacheConsistent == Ranges /\ Sound(shm.heap) /\ Reachable /\ PhpsCounted /\ HoldsCounted /\ DigestsUnique

(***************************************************************************)
(* The code xc_compile_restore gives a script is the compilation of a      *)
(* source its file has had since xc_entry_php_init_key looked at it: of    *)
(* no older version, and not of another file with the same digest only.    *)
(***************************************************************************)
Got(p) == shm.entry[holds[p][Len(holds[p])]]

RightCode == \A p \in Procs : At(p, "restore") => shm.php[Got(p).php].code \in seen[p]
=============================================================================
