# php56-exts: a verification project

The repository collects the sources of PHP 5.6 extensions (`src/exts-simple`,
`src/exts-special`) with scripts that build them. There is no program that
joins them: each extension is a system of its own. What is hard in them is the
code by which *several processes or threads share something*: the shared memory
caches of APCu and XCache, the queues, the ring buffer, the table and the process
manager of swoole, the session lock of phpredis. This project models that code in TLA+, checks it with TLC and proves theorems about its core
with TLAPS.

## 1. The system

| component | state | operations | shared with |
|---|---|---|---|
| APCu allocator, `apcu-4.0.11/apc_sma.c` | segments of shared memory: boundary tags, free list, `avail`; per process `sma->last` | `malloc_ex`, `free`, `realloc` | all processes; the lock of a segment; calls back into the cache (`expunge`) |
| APCu user cache, `apc_cache.c`, `apc_pool.c` | hash table of reference-counted entries, gc list, counters, busy flag, last key | store, insert, find, fetch/release, delete, clear, default expunge, gc, slam defence | all processes; the lock of the header; asks the allocator for pools |
| swoole ring queue, `src/core/RingQueue.c` | ring of pointers, head, tail, tag | push, pop | the thread pool, under its mutex |
| swoole thread pool, `src/network/ThreadPool.c`, `src/lock/Cond.c` | queue, `task_num`, `shutdown`, mutex and condition | dispatch, the loop of a thread, free | threads of one process |
| swoole channel, `src/core/Channel.c` | ring of items of different lengths in one block of memory | in/push, out/pop | processes, under a mutex; carries the messages of workers to the manager |
| swoole manager, `src/network/Manager.c`, with `Worker.c`, `ProcessPool.c`, `FactoryProcess.c` | flags written by the signal handler, the list of a reload, the pid of each worker | loop, signal handler, spawn, reload, shutdown | the master (SIGTERM), workers (SIGIO, exit), administrators (SIGUSR1/2) |
| swoole ring buffer, `src/memory/RingBuffer.c`, with `ReactorThread.c`, `FactoryProcess.c`, `swoole_server.c` | a ring of items with headers, two offsets, `status`, `free_count` | alloc with collect, free | a reactor thread allocates, worker processes free, without a lock |
| swoole table, `src/memory/Table.c`, `swoole_table.c`, with `FixedPool.c` | rows in shared memory: key, data, next; a lock in the first row of a bucket; a pool of rows that collide; `row_num` | set, get, incr, del; alloc and free of the pool | all processes, under the lock of the bucket |
| redis session handler, `redis-4.3.0/redis_session.c` | a lock and a value per session at the server; `lock_status` of a request | open, read, write, close, destroy | PHP processes through the redis server, with expiry |
| XCache allocator, `xcache-3.2.0/xcache/xc_allocator_bestfit.c` | one arena: free blocks in order of address, `avail` | malloc, free | under the mutex of the cache |
| XCache opcode cache, `mod_cacher/xc_cacher.c` | chains of entries and of compiled code, list `deletes`, flag `compiling`, times of collections | include (find, share, compile, store, restore), request start and end, clear, enable | all processes; the mutex of the cache; files on disk |
| other parts of swoole: reactors, timers, process pool, protocols | event loops, a heap of timers | | threads and processes |
| event, igbinary, msgpack, ssh2, twig, xdebug, yp, imagick, cphalcon | bindings of libraries, serializers, pure functions, generated code | | nothing |

`PROJECT.json` lists each with its files and what is modelled of it.

What makes each modelled component correct:

* **allocator** - after any history the tags agree, no two callers own one
  word, no byte is lost, what fits is not refused, and a call returns;
* **cache** - what a process found stays in memory until it is released; every
  entry in memory is somewhere it will be freed from, once; counters follow;
  the cache does not stay busy;
* **ring queue and pool** - each task accepted is run once, in order, and the
  pool can be taken down;
* **channel** - messages come out whole and in order, inside its memory;
* **manager** - a worker that ends is replaced once, a reload replaces all and
  spares the server, and a shutdown leaves nobody;
* **ring buffer** - packages in use never overlap, collect reads headers and
  never data, and what was freed can be had again;
* **table** - every row is in one chain or in the pool, a bucket is with one
  process, and each key has its own data whatever happens to its neighbours;
* **session lock** - no stored change of a session is lost, nobody's lock is
  released by another, and a lock does not outlive its owner for ever;
* **XCache** - code that is executed stays in memory, an entry and its code
  count each other right, nothing in the arena is lost, and a file gets
  the code of what was written in it.

What is hard: a lock dropped for a callback and taken again (allocator and
cache call each other); state read without the lock that guards it (the busy
flag, `task_num`, `shutdown`, the flag `compiling`, an item of the ring and its
count); locks that expire and replies that are lost;
a lock that lies in the memory it guards; flags a signal handler writes between any two
steps of a loop; pointers kept across a call that may free what they point to;
counters and tags that must survive long sequences of splits, joins and wraps.
The list under `hazards` in `PROJECT.json` names each place.

## 2. The modules

| module | models | checked through |
|---|---|---|
| `Allocator` | abstract: regions that never overlap | refinement of `ApcSma` and `SwRingBuffer` |
| `ApcSegment` | one segment of `apc_sma.c`: operators of `sma_allocate`, `sma_deallocate` | `ApcSma` |
| `ApcSma` | processes in `malloc_ex`, `free`, `realloc` over several segments | `MCApcSma` |
| `ApcSmaProofs` | theorems about `ApcSma` | tlapm |
| `ApcCache` | the user cache | `MCApcCache` |
| `ApcCacheProofs` | theorems about `ApcCache` | tlapm |
| `BoundedFifo` | abstract: a bounded queue | refinement of pool and channel |
| `SwRingQueue` | operators of the ring | `SwThreadPool` |
| `SwThreadPool` | dispatchers, threads, condition variable, free | `MCSwThreadPool` |
| `SwThreadPoolProofs` | theorems about `SwRingQueue` and `SwThreadPool` | tlapm |
| `SwChannel` | the channel | `MCSwChannel` |
| `SwManager` | manager, signal handler, workers | `MCSwManager` |
| `SwManagerProofs` | theorems about `SwManager` and about `SwChannel`, its message box | tlapm |
| `SwRingBuffer` | the ring buffer, a reactor thread, workers | `MCSwRingBuffer` |
| `SwRingBufferProofs` | theorems about `SwRingBuffer` | tlapm |
| `CounterMap` | abstract: counters by key | refinement of `SwTable` |
| `SwTable` | processes that get, count and delete in the table, its pool | `MCSwTable` |
| `SwTableProofs` | theorems about `SwTable` | tlapm |
| `RedisSession` | requests of one session, its lock and value at the server | `MCRedisSession` |
| `RedisSessionProofs` | theorems about `RedisSession` | tlapm |
| `XcAllocator` | operators of the best-fit allocator | `XcCacher` |
| `XcCacher` | the opcode cache over that allocator | `MCXcCacher` |
| `XcCacherProofs` | theorems about both | tlapm |

A definition whose name has a suffix (`Split_StaleMark`) is a wrong version of
the one after it. No specification uses it: put in the place of the right one
it must make a property fail, which shows that the property can.

### ApcSegment, ApcSma

A segment is a record of functions on offsets, `size`, `prev_size`, `fnext`,
`fprev`, and `avail`. Offsets and sizes are counted in machine words; `BLK` and
`HDR` are the sizes of the header of a block and of the segment. Where no header
stands the fields are `Junk`: those words are the payload of some block, and code
that took them for a tag would make the types fail. The walk of `sma_allocate` is `PrvNextFit`, the set of predecessors of the first fit,
empty when there is none (a set, so that an action is
enabled exactly when the walk succeeds); `TakeWhole`, `Split`, `Unlink`,
`JoinPrevious`, `JoinNext`, `PushFree` are the blocks of code with these tasks.

A call of `malloc_ex` goes through `try`, `expunge`, `retry` for every segment,
first `last[p]` and then the others in order, and `nuke` once. The lock of
a segment is held within `sma_allocate` or `sma_deallocate` only, so each is
one step, and between `expunge` and `retry` other processes run: `Expunge`
frees any block a step at a time, which over-approximates every expunge policy.
`live` is what callers hold and is the only ghost variable.

### ApcCache

The table is one record, `cache`; what the code does to it under the lock is an
operator on that record, named after its function, and a critical section
applies them in order. `RemoveAll` is `apc_cache_remove_slot` on a set: the
removals of one walk are independent of each other. An expunge and a
clear are two steps, because the busy flag is read by others without the lock
in between. Memory is counted in blocks of one entry (`mem`), as its layout is
`ApcSma`'s. Values are left out, and with them `apc_cache_update`, which
changes a value in place and nothing else.

`rtime[p]` is the time of the request a process is in, which `apc_time()`
returns all request long (`apc.use_request_time`, the default); the gc uses
`time(0)`. Both are modelled because entries are stamped with one and aged with
the other.

`InsertLinks` models `*slot = make_slot(...)` as it is: the walk ends at a
pointer into the chain, `make_slot` allocates from the pool of the entry, and
when that pool is full `malloc_ex` may expunge the cache, under the same lock, up
to three times (`Expunged`). `SlotNeeds` says for what the pool may have to grow:
for `"nothing"`, for the `"slot"`, or for the copy of the `"key"`. When the slot cannot be
had, `make_slot` returns NULL (`Cut`). When the key cannot, it returns the slot
with nothing written in it (`apc_cache.c:112-117`), and the insertion takes it for a
success (`LinkUnfilled`). The slot's fields are then what the memory of the arena
was; the model has them zero, which they are where the arena was never used:
the chain ends there, and the entry has no key that is found. Whoever follows
its value crashes inside the lock (`WalkEnds`, `SweepEnds`): an insertion into that
chain, an expunge, a clear.

This is the build with a recursive mutex (`apc_lock.c`, configured without native
read-write locks); with those the nested lock is undefined and not
modelled.

Two assumptions are about the environment: processes die only outside the lock
(`Abandon` leaves a reference for ever; `MaxLeaks` bounds how many), and no
living process keeps an entry for longer than `apc.gc_ttl` (the guard of
`Tick`), which is what INSTALL says that setting is for.

### SwRingQueue, SwThreadPool

The build without `SW_USE_RINGQUEUE_TS`, the default. Each access to shared
state that is not under the mutex is a step of its own: `Count` and `Notify`
come after the unlock, `Uncount` too; the test of `task_num` and the start of
the wait are two steps with the mutex held. `task_num` wraps at `WordMax + 1`.
The caller dispatches each task once (`base.c` gives it a new id), and
`swThreadPool_free` is called by the thread that dispatches
(`FactoryThread.c:100`, `base.c`), so nobody is in the middle of a dispatch
then. `SpuriousWakeup` is what POSIX allows `pthread_cond_wait`.

### SwChannel

Memory is a function from words to what was last written there, so an item that
is overwritten, or a length field that is not where `swChannel_out` looks for
it, shows. A word is as large as a length field; items are whole words. push and
pop hold the mutex, so each is one step.

### SwManager

The loop of `swManager_loop` is cut where the signal handler can be seen: at the
test of `running`, before `wait()`, in it, and around every read or write of a
flag. The handler is one step (it does what its `switch` does); while the loop
is in `wait()` it also ends the wait, as handlers are installed without
`SA_RESTART`. A signal that comes while the handler of another one runs is discarded
(`signal.c:112-117`): a SIGUSR or a SIGTERM is then as good as not sent, and
`Announce` has the branch of a SIGIO that leaves no flag. It cannot happen in `wait()`,
which the first of the two signals has ended. A worker is a pid with a state: `active`, `term` (told to end or
past `max_request`), `pushed` and `retiring` (an asynchronous worker that left a
message and went on until its events are done), `zombie`, `gone`. A worker that
finds the message box full (`BoxRoom`) goes on without a message (`Worker.c:464-467`), and is
replaced when it ends. `kill(0, ...)`
reaches every process of the group, the manager included: `Kill` with target 0.
`old` is a ghost: the workers at the time a reload was accepted.

User workers (`addProcess`) follow the task workers' path and are left out; what
workers do with requests is left out; pids are not reused.

### SwRingBuffer

The code is compiled with `SW_USE_RINGBUFFER` only (`swoole_config.h:41` has it
commented out). One ring belongs to one reactor thread, the only one that moves
the offsets: its loop `swReactorThread_alloc` is `Ask`, `Collect` once per turn,
`CollectEnds`, `Place`, and again when `Place` refuses. A free has two steps,
`Unlock` and `CountFree`, as nothing keeps the reactor from reading between the
store to `lock` and the atomic increment. Offsets are in words; what is in a
package is left out, and `items` has the headers only, so a header that is not
where collect looks for it is outside the function's domain.

Losses are explicit: `Discard` (`swFactoryProcess_dispatch` returns `SW_OK` for a
closed connection, `FactoryProcess.c:151`, or without a worker, and the caller
then believes the package was sent), `Die` and `DieCounting` (a worker ends with
a package, or between its two steps).

### SwTable

`rows` has what the memory of a row has, `lock` the lock that is part of the first
row of a bucket; `slices` is the list of the fixed pool, free slices first, and
`busy` the slices that carry the pool's own mark. `Chain` is the walk along `next`
from the first row of a bucket, and `EndOf` the row at which `swTableRow_set` stops. A row has one column, and what the
methods do with it is `incr`, read and write in two steps: with the lock right no
increment is lost. What is done in one critical section to chain, pool and
`row_num` is one step, except `Uncount`, where `swTableRow_del` has
blanked the row and not yet counted it. `Test` is its first look at `active`, without
the lock. A key is a sequence of characters, because `strncmp` compares
the length of the key that is looked for, and `memcpy` of the shorter key
leaves the end of the longer one (`Over`).

`Quiet` is an assumption: nobody comes to a bucket while a process is
between the `bzero` of its last row, which overwrites the lock, and the unlock. The
code does not see to it; section 4 has what happens without. The keys of the
instance are no prefixes of each other, for the same reason. Columns, the iterator
(whose cursor is a process's own, and which walks without locks), keys cut at 64
characters, and a pool with one slice (its list would have no second element for
`alloc` to move up) are left out.

### RedisSession

Redis executes a command at a time: each is one action on `lock` and `data`, and
where its reply can be lost the action has that branch (`Lose`), after or without
the effect. `val` and `data` are sets of requests whose changes are in a session,
so that a lost update shows. `Tick` is the time of the lock in Redis. The secret
is host and pid (`redis_session.c:264-267`), so it is the process; a process has one request at a time.

`Prompt` is an assumption on the client: the check of the lock and the SETEX that
follows it happen in the life of the lock (the guard of `Tick`). They are two
commands, and nothing in the code ensures it; with `Prompt = FALSE` TLC finds the
lost update. A command is executed before its sender goes on or not at all.
`create_sid`, which changes the key in the middle of a request, is left out.
`Retries` stands for `lock_retries`; -1, for ever, is not modelled.

### XcAllocator, XcCacher

A heap is a record with the sets of free and busy blocks, and `avail`; the list of
free blocks is in the order of addresses, so the set has all it says.
`Malloc` and `Free` are the bodies of the functions; `Limit` is `BLK` less than the
arena because `init` leaves these words unused. Realloc is used by variables
only and left out with them.

`shm` is what the processes share, one record: the heap, the two chains, the list
`deletes` and what is stored at each address. A function named `..._unlocked` is
an operator on `shm`; a critical section applies them in order and is one action. What a
process does between two critical sections, compiling and restoring, reads
and copies outside the mutex, which is where others come in. The stat of a file
and the two checks made before the mutex are one step (`Include`): they read a file and a
word that the later steps read again. One chain of each kind stands for all
buckets: entries with different hashes do not meet. A file is told by its
path (the inode is an alternative); `disk` maps it to its source and the time
of its last change. `seen` is a ghost: the sources the file had since the stat.
The loops over entries (`RemovedAll`, `FreedAll`) are recursive functions on sets: they
take the entries in some order, and the result does not depend on it.
`CacherAssumption` has what the code's constants satisfy: a block of either kind
is no smaller than a header, the window is positive, and deleted entries are kept for at
least twice the window (3600 and 30 seconds).

A compile can end in a bailout, which leaves no code and resets `compiling` (`CompileFails`), a
store too, with or without what it has put in the heap (`StoreFails`). `LookupBails` is
the bailout of the locked lookup (`xc_cacher.c:2138-2141`): it resets `compiling` also when
another process has set it.

`Timely` says: a request takes less than the `Window` of 30 seconds, a file is
not changed twice in a second, nor between the digest and the compilation of the
same include. `Undisturbed` says that no lookup bails out while another process
compiles; one that bails out while nobody does is always there. Section 4 has
what happens without either.

## 3. The runs

| run | instance | what it shows |
|---|---|---|
| `sma` | 2 processes, 2 segments of 9 words, requests that fit and that do not | every layout is well formed, accounted, balanced and coalesced, and every free block can be had; regions never overlap (refinement), and every call returns though others take what was expunged |
| `cache_refs` | 2 processes, 2 colliding keys, 3 entries | with every order of store, find, release, delete, clear and expunge nothing is lost, freed while held or miscounted |
| `cache_time` | 2 processes, 2 colliding keys, 2 entries, ttl 1, clock to 2 | the failsafe of the gc and the two clocks free nothing in use; no key is in a chain twice, whatever the walks found stale |
| `cache_found` | 2 processes, 2 colliding keys, slots that do not fit | **violated**: see below |
| `pool_order` | 2 threads, 2 dispatchers, 3 tasks, ring of 2 | no task lost or doubled, order kept (refinement of `BoundedFifo`), count settles |
| `channel_order` | items of 0, 1 and 2 words in 8 words | items intact and their bytes counted at every offset, order kept (refinement) |
| `manager_anytime` | 2 event and 1 task worker, a crash, a failed fork, a reload, a shutdown, signals at every step or discarded, a box of one message, both reload modes | no orphan, nobody left behind, each dead event worker replaced |
| `manager_timely` | 1 and 1 worker, one reload of each kind, one retirement, shutdown, signals only in `wait()`, both reload modes | reloads replace all workers, end and spare the server; one successor per worker; messages are read; a shutdown ends |
| `ring_buffer` | 9 words, packages of 1, 2, 6 and 7 words, 2 workers in a free at once, one loss | headers stay in step with the offsets, packages never overlap (refinement), alloc comes back |
| `table` | 2 processes, 4 keys of one bucket with 2 slices, a column of 2 values | chains, pool and `row_num` agree in every order of calls, a bucket is with one process, the table is a map of counters (refinement) |
| `redis_session` | 2 processes, 4 requests, one lost command or reply, one death, locks of 2 ticks | no stored change is lost, only its owner or time takes a lock away, a lock becomes free |
| `xcache` | 2 processes, 2 files, 2 sources, an arena of 12 words, clock to 5, one clear, edit, crash or disabling | entries, code, holds and blocks agree in every order of includes, collections and deaths; no wrong code |

### Why the bounds are enough

* Allocator: a deallocation looks at three blocks (itself and two neighbours)
  and a split makes two; nine words hold a block with two neighbours
  between the sentinels. One process and 14 words (`LayoutRequests`), room for
  five blocks, show no more. The theorems of section 5 hold for every size.
* Cache: `MaxTime` 2 is one tick past `TTL`, `GcTTL` and entry TTLs of 1, the
  first at which something is stale or garbage. Two colliding keys
  give a chain with something before and behind a match. Three entries are two
  in the table or on the gc list and one in hand; `cache_time` has two, one of each
  (6.6 million states). In both runs slots find room in their pools; section 4 has
  what happens when they do not.
* Pool: three tasks over a ring of two make it full, wrap it and turn its tag
  over more than once; two threads give a race for the last task.
* Channel: items come without limit, so that all offsets are met; the
  instance is closed under wrapping (88 thousand states, no bound cuts it).
* Manager: `Max...` bound how often each event happens; `MaxPid` is larger than
  the processes these can make: were it too small, a fork would block
  and a liveness property fail.
* Ring buffer: nine words with headers of one have three items of different
  lengths at every offset; 6 is the longest package that fits an empty ring, 7 the
  shortest that never does. The instance has no bound on time: packages
  come for ever.
* Session: the third request can meet what two before it left, the fourth makes sure
  the last lock is met by somebody; one loss is enough to make a client think it
  has no lock when it has. `MaxLost = 2` was run too.
* Table: three rows for four keys make the pool run out, and give a chain a first,
  a middle and a last row to delete; a column of two values tells a lost or
  inherited count from a right one, and lets the states repeat, so no bound cuts the
  run. Buckets share the pool only, which is under its own lock.
* XCache: twelve words hold one code with two entries, or two codes with one, so every
  allocation fails somewhere. `MaxTime` 5 is one window, one
  `KeepTime` and one tick beyond the start. With `MaxHolds = 2` (5.7 million
  states) the result is the same.

`CHECK_DEADLOCK FALSE` stands where the system may stop: a cache at the end of
its clock, a pool that was freed, a server that ended, a session after its last
request.

### Fairness

`ApcSma!FairSpec`: a process within `malloc_ex` goes on, and the callback
returns. `SwThreadPool!FairSpec`: threads run; `Lock` is strongly
fair, because a mutex released again and again is not withheld from one thread
for ever. No fairness for dispatching, stopping or spurious wakeups.
`SwManager!FairSpec`: the manager runs (weakly: each of its steps but `wait()`
and `Join` is enabled until taken); workers that were told to end do so
(`max_wait_time` sees to that); a worker that pushed its message sends its
SIGIO. Nothing is assumed of signals, crashes or retirement.
`SwRingBuffer!FairSpec`: the reactor thread runs, and a worker that was sent a
package frees it and counts it (`AllocReturns` is conditional on no package being
lost). `RedisSession!FairSpec`: time passes in Redis, and a request that
stores its session gets to its close; nothing is assumed of a request that works or
waits, so a lock is freed by its expiry.

`Timely` in `manager_timely` is a condition, not a fact: it says the signals of
that run come while the manager waits, which is where it spends its time. The
run shows that with it the promises hold, the other runs that they need it.

## 4. Where the code and its promises part

One is a run of this project, `cache_found` (`apc_cache.c:800`). A process inserts
k2 behind k1 in one chain. The pool of the new entry has no room for the slot,
`make_slot` allocates, `malloc_ex` expunges the cache: k1, whose `next` field the
walk points to, is freed. The slot is then linked from freed memory, counted, and the
call returns success; the entry is in no chain.

More were met. Each is a property of its module with a configuration beside it
that TLC violates in seconds; run it by hand
(`tlc -config MCSwManagerLost.cfg MCSwManager.tla`). Where the table says
"with", change that constant or property of the configuration first.

| configuration | property | what happens |
|---|---|---|
| `MCApcSmaAvail` | `AvailTestInsures` | `apc_sma_api_init` counts one header too much, so the test of `apc_sma.c:130`, said to "insure that the segment contains at least realsize free bytes", passes for more than there are; the walk refuses it later |
| `MCApcCacheCount` | `EntryCount` | a failed `make_slot` stores NULL over the rest of the chain: entries that `nentries` still counts are cut off (`apc_cache.c:800`) |
| `MCApcCacheIdle` | `SweepTakesIdle` | INSTALL:225 calls `apc.ttl` the time an entry may idle; the sweep compares the creation time (`apc_cache.c:619`), the walk the access time (789) |
| `MCApcCacheSlam` | `SlamAverted` | the last key is recorded only when it equals the last key, so never: `apc_cache_defense` refuses nothing (1678) |
| `MCSwThreadPoolRun` | `TasksRun` | a worker tests `task_num == 0`; a dispatcher, which has pushed and unlocked before, counts and signals; the worker begins to wait: the task stays in the ring until another one is dispatched (`ThreadPool.c:79`) |
| `MCSwThreadPoolFree` | `FreeReturns` | `shutdown` and its broadcast fall between the same test and wait: `pthread_join` never returns |
| `MCSwChannelMemory` | `InMemory` | the room behind `object->size` is `maxlen` less the header of the channel and the length field: an item can end past the memory (`Channel.c:65`) |
| `MCSwManagerGroup` | `ReloadSparesServer` | a worker ends, `wait()` returns its pid, SIGUSR1 sets `reloading`; the loop replaces the worker and comes to `kill_worker` (`Manager.c:393`) with `reload_workers` never filled: `kill(0, SIGTERM)` ends the whole server |
| `MCSwManagerLost` | `ReloadReplaces` | SIGUSR1 just before `wait()` ends no wait, and no reload is made until a child ends |
| `MCSwManagerLost` with `Stops` | `Stops` | SIGTERM there: the manager waits for workers nobody told to end, the master for the manager |
| `MCSwManagerNoTask` | `ReloadEnds` | SIGUSR2 without task workers leaves `reloading` set for ever (`Manager.c:314`) |
| `MCSwManagerMessage` | `MessageRead` | SIGIO between the last read and `read_message = 0` (264) is forgotten |
| `MCSwManagerMessage` with `NumTask`, `MaxRetire` and `MaxUsr1` 1 and the invariant `OneWorkerPerSlot` | `OneWorkerPerSlot` | the message is then read after its worker was replaced, and a second successor started |
| `MCSwManagerTimely` with `MaxCrash` 1 and the invariant alone | `OneWorkerPerSlot` | a worker crashes between its message and the SIGIO; its slot is filled, then another worker's SIGIO has the old message read, and a second successor is started (`Manager.c:248-263`) |
| `MCSwTableRace` | `BucketsGuarded` | `swTableRow_del` blanks the only row of a bucket with the lock it holds in it (`Table.c:429`); another process locks the bucket, and the first one's unlock lets a third in |
| `MCSwTablePrefix` | `ImplementsMap` | a key that begins another one finds its row (`Table.c:317`, 358, 444: `strncmp` with the length of the key looked for) |
| `MCRedisSessionDefault` | `StillHolding` | the comment at `redis_session.c:327-329` says that without `lock_expire` "it is guaranteed that the current process is still holding the lock", and the check is skipped; but the lock runs out in wall time, which `max_execution_time` does not count when a request sleeps, as `tests/RedisTest.php:5806-5820` itself relies on |
| `MCApcCacheTime` with `Entries` `{e1, e2, e3}`, `Blocks` 3, `MaxTime` 1 and `SlotNeeds` all three | `HeldIsKept` | the same call of `make_slot` expunges what lies behind the walk, and the new slot's `next` points to a freed entry; when its address is given out again the new entry is found before it was inserted, and destroyed under its holder when the insertion is refused (TLC takes a minute) |
| `MCXcCacher` with `Undisturbed` FALSE | `CacheConsistent` | a process bails out in its lookup and resets the `compiling` of another (`xc_cacher.c:2139`); it then compiles the same source, and the digest is stored twice. With `RightCode` alone TLC comes further: the release of one code unlinks the other, and a process shares a code that was freed |
| `MCXcCacher` with `Timely` FALSE | `CacheConsistent`, `RightCode` | an entry that a request holds for longer than an hour (`KeepTime`) is freed under it (`xc_cacher.c:539`) |

Some more were seen while reading and have no configuration:

* Ring buffer. A package that `swFactoryProcess_dispatch` discards is never freed,
  and the ring fills behind it: with a loss `AllocReturns` promises nothing. A package longer than
  `Size - 2*HDR` is asked for for ever (the default `package_max_length` is the size of
  the ring). `swReactorThread_onPipeWrite` (`ReactorThread.c:784-787`) frees a queued package of
  a closed connection into the ring of the thread that writes the pipe, which need
  not be the one that allocated it: that ring's count then promises an
  item it does not have. A second worker that dies between lock and count loses a count for ever.
* Session. Two requests of one process share a secret, and a late command of the
  first could act for the second. `destroy` gives
  the lock back before it deletes: a request between the two stores a session
  that is deleted at once. A process that dies with an expiry of 0
  (`max_execution_time` 0) leaves its lock for ever. A new id in the middle of a
  request finds `is_locked` set and is not locked.
* XCache. Two compiles of one source (a request older than 30 seconds lets a second one
  begin, as does a bailout in a lookup) store its digest twice, and
  `xc_php_release_unlocked` unlinks the first code it finds with the digest, not its
  own. An edit between the digest and the compilation stores code under another
  source's digest. The end of a compile resets `compiling` whoever has set it. When an
  entry does not fit, its code stays in the chain with a count of 0 until
  somebody shares it.

## 5. What is proved

### The allocator

`ApcSmaProofs`, for every segment size, header size, number of segments and
processes, and set of requests that `SegmentAssumption` and `SmaAssumption`
allow:

* `TypeCorrect`: `Spec => []TypeOK`;
* `TagsConsistent`: `Spec => []SegmentsWellFormed`;
* `BlocksAccounted`: `Spec => []LiveAreBusy`;
* `NoLastingFragmentation`: `Spec => []EmptyIsWhole`;
* `Refinement`: `Spec => ImplementsAllocator`, regions of callers never overlap;
* `CounterBalances`: `Spec => []AvailBalances`, `avail` is the sum of the free blocks;
* `FitsAreServed`: `Spec => []NeverRefusesFit`, a fit that is there is found.

All but the last two follow from one inductive invariant, `Inv`: `TypeOK`, every segment `Sound`,
and `LiveAreBusy`. `Sound` is `WellFormed` and `Acyclic`. Well-formedness alone
is not inductive: links that agree with each other (`fprev[fnext[h]] = h`) would
also allow a ring of free blocks apart from the list, from which an unlink
leaves a block that is its own neighbour. `Acyclic` says that some ranking of the
offsets grows along `fnext` and excludes it.

The argument goes by the blocks of code. An allocation is an unlink of the fit
(`TakeWholeSound`) or a split of it (`SplitSound`). A deallocation is a merge
with the block before, if free (`MergedSound`), with the block behind, if free
(`JoinNextSettled`), and a push of the result to the list
(`PushFreeSound`, `PushSettled`); `DeallocateSound` joins them.
`NextInv` has one step per action. `NoLastingFragmentation` follows from `Sound`:
two adjacent blocks cannot both be free, so without busy blocks there is
one. For `Refinement`, `FreeRefines` and `AllocateRefines` show that a step of
`free` maps to `Release`, one of `malloc_ex` to `Acquire`, and all others to a
stutter.

`AvailBalances` counts the words of the free blocks. Blocks tile the segment
(`SpansCover`, `SpansApart`), so these are the words between the sentinels that
are in no busy block (`FreeWordsAre`), and a call changes them by the block it
takes or gives (`FreeWordsShrink`), whatever it splits or joins.
`NeverRefusesFit` is about a search that follows `fnext` until it comes to a block or
to `last`. `Acyclic` makes that search a function (`WalkDefined`: the rank of the next
block is greater, and ranks are bounded), and the block it stops at is a fit when there
is one (`WalkStopsAtFit`): otherwise the walk from the greatest block passed without
a stop would have gone past the fit, for `fprev` leads back to `first` from it.

### The cache

`ApcCacheProofs`, for all processes, keys, entries and settings that
`CacheAssumption` allows:

* `NeverStuckBusy`: `Spec => []BusyHasOwner`;
* under `PoolsHaveRoom`, `TypeCorrect`: `Spec => []TypeOK`; `EntriesAccounted`:
  `Spec => []NothingLost`; `HeaderCounts`: `Spec => []CountersAgree`; `NoKeyTwice`:
  `Spec => []KeysUnique`; `HeldStays`: `Spec => []HeldIsKept`.

The invariant of the first: calls have their types (with `TriesLeft`, which bounds the
restarts of `malloc_ex`), the flag is set exactly while somebody is inside the lock
(`FlagTellsInside`), and that is one process (`OneInside`). The last part is
what makes it inductive: were two inside, the first to leave would take the
flag down for both.

The others follow from `CacheInv`, which adds the table (`Tended`):

* `Tidy`: chains without repetition, each entry in the chain of its key, each key
  once; every entry in memory in one place; counters that agree;
* `HandsInv`: who stores an entry has it for himself;
* `HoldsInv`: a held entry is `Kept`, which is more than that it is in memory. It is
  in a chain, or on the gc list since a time not before it was found. Only so does its
  removal from the chain, which sets `dtime`, leave it safe from the failsafe of
  `apc_cache_gc`.

`Cleaned(c, d, H, now)` says what every operation that only takes entries away does
to a table: `Tidy` is preserved, and whatever is `Kept` stays so. It is transitive
(`CleanedTwice`), and removals, gc, both kinds of expunge and the walk of an insertion
are chains of such operations; what is left is to link one entry
(`LaidDown`). `Without`, which unlinks the entries of a set from a chain, is
recursive; that its equation has a solution, and what it leaves, is proved
by a least counterexample, the natural numbers being well-founded.

`PoolsHaveRoom` says that a slot always fits the pool of its entry. The code
does not insure it, and where it fails `make_slot` expunges the table under the walk:
the chain is then cut or runs on through freed memory, and `EntryCount`, `InsertedIsFound` and
`HeldIsKept` are false (section 4).

### The ring queue and the thread pool

`SwThreadPoolProofs`, for every ring size, every finite set of threads and
dispatchers, every set of tasks and every width of `task_num`
(`RingAssumption`, `PoolAssumption`):

* `TypeCorrect`: `Spec => []TypeOK`;
* `TasksAccounted`: `Spec => []EachTaskOnce`, no task is lost, doubled or
  invented;
* `CountAgrees`: `Spec => []CountSettles`, `task_num` is off by the calls that
  have not counted yet and by nothing else, although it wraps below zero;
* `Refinement`: `Spec => ImplementsFifo`.

The proof has two layers. `PushFacts` and `PopFacts` say what a push and a pop
do to the sequence of the ring's contents, whatever its head, tail and tag:
offsets are at most one turn away (`Wrapped`), so `At` gives the slot of the
i-th element without a remainder. The pool uses nothing else about the ring.
Its invariant is `TypeOK`; `HandsAreBusy`, a thread has a task exactly between
its pop and its call; `Distinct`, no element is twice in the ring or in two
hands; and `Placed`, an element was sent exactly when it is in the ring, in a
hand or done, and it is in one of these only. `EachTaskOnce`, which counts by
cardinalities, is not inductive: that two copies are apart is lost in a sum, so
`InvOnce` derives it from sets of at most one element. `CountSettles` is
inductive relative to `Inv`: a push or a pop moves a call into the
balance and an element into or out of the ring; the step that counts moves
the balance, and `Shift` (from `Euclid` and `Unique`, the quotient and the
remainder are determined) carries this over to the word.

### The manager

`SwManagerProofs`, for every number of event and task workers, and every bound
on crashes, signals and retirements, including none of one kind
(`ManagerAssumption`):

* `TypeCorrect`: `Spec => []TypeOK`;
* `ChildrenAreKnown`: `Spec => []NoOrphans`;
* `NobodyLeft`: `Spec => []StopLeavesNobody`;
* `OneSyncWorker`: `Spec => [](~reload_async => OneWorkerPerSlot)`;
* `OneSuccessor`: under `Timely`, `Spec /\ [][Announces]_vars => []OneWorkerPerSlot`;
* `ServerSpared`: under `Timely` and `NumTask > 0`, `Spec => ReloadSparesServer`.

`NoOrphans` is not inductive alone. The slot the manager fills when it
respawns must have no living process, and that it knows only from
`wait()`: `Reaped` says the pid in hand is of a process that is gone. And a
successor started for a message would leave its predecessor without a slot:
`NoMessages` says that without asynchronous reload there are none. Most actions
only end processes and change neither slots nor names; they are all the case of one
lemma (`ShrinkInv`). What remains is the fork (`SpawnKeeps`) and `wait()`.
`NobodyLeft` holds because `Join` waits for each slot, and `NoOrphans` says that
these are all.

`OneWorkerPerSlot` with asynchronous reload goes by `Succession`: a process that serves
is the one of its slot; no worker has two messages in the box; and whoever asked
has either not sent its SIGIO yet or the loop is about to read (`Askers`). `Announces`
excludes one thing, a worker that crashes between its message and the SIGIO. The
message then waits, its slot is refilled for the crash, and when some other SIGIO
has it read a second successor is started. TLC finds that with one crash
(section 4); `manager_timely` has none. `ReloadSparesServer` goes by
`Listed`: while `reloading` is set, either the branch that fills the list is next or
every pid of the list that is left to kill is one. Without task workers (`NumTask` 0)
SIGUSR2 sets `reloading` with an empty list, section 4.

### The channel

The box through which workers' messages reach the manager is a channel, and `SwManager`
takes it for a sequence. That it may is proved in the same module, `SwManagerProofs`, for
every amount of memory, every `maxlen` and every length of items up to it, under the
assertions of `swChannel_new` and `swChannel_in` (and a header that is not empty): `ItemsKept`
(`ItemsIntact`) and `ChannelFifo` (`ImplementsFifo`).

The invariant is that some function `L` says where the items lie and some `S` how long the
first of them are together (`Laid`), with three parts:

* `Lie`: the first item is at head, each next one where `swChannel_out` will look after the
  one before, the tail after the last; every word of each is its own, and of any two one ends before
  the other begins. `ItemsIntact` alone is not inductive, as it does not keep the words that
  the next item will take apart from those of the others;
* `Taken`: with equal tags all items lie between head and tail, with different tags none lies
  between tail and head. This is what makes it enough to compare with `head` in `swChannel_in`,
  and what makes head and tail flip their tags in turn: with equal tags the head cannot pass the end,
  as the tail would have to be there first;
* `Sums`: `object->bytes` is the last of the partial sums.

`Longer` and `More` lay one item more, `Shorter` and `Rest` one less; one lemma for each part
and each of `In` and `Out`. That the recursions in `Offsets` and `TotalLength` compute `L` and `S`
is proved by a least counterexample (`OffsetsAre`, `TotalIs`), after which a step's effect on
`Contents` is `Append` or `Tail`. Items lie apart, so there are at most `Limit` of them, and the queue
is bounded by `Memory` (`RoomLeft`). The theorems take the words that an item may be written to
past the end of the memory as the channel's own; that it does write there is the finding of
section 4 about `InMemory`.

### The ring buffer

`SwRingBufferProofs`, for every size of ring and header, every set of lengths,
and every number of workers and losses (`RingAssumption`):

* `Consistent`: `Spec => []RingConsistent`;
* `Refinement`: `Spec => ImplementsAllocator`.

`RingConsistent` is inductive as it is. Its parts need each other: that collect
finds a header at `collect_offset` follows from `Counted` (a positive `free_count`
means that something is freed, so something is there) and from `Chained` (what
is there begins at that offset); that alloc may write at `At` follows from
`Chained`, which says on which side of the offsets each item lies. One lemma per
writer of the headers: `CollectLayout`, `PlaceLayout` (which goes by `RoomFacts`,
nothing begins in the room of the new item, and `EndsAre`), and `ClearLock` for the two
kinds of free, which move no header. All other steps leave the ring alone
(`HandOnKeeps`). The refinement maps a `Place` that fits to `Acquire`, a cleared lock
to `Release`, and everything else to a stutter: a filler at the end is
born free and a collected item had no owner.

### The table

`SwTableProofs`, for every number of processes, keys, buckets and rows
(`TableAssumption`):

* `OneAtATime`: under `Quiet`, `Spec => []BucketsGuarded`;
* `ChainsStayWhole`: under `Quiet` and `OneLength`, `Spec => []TableConsistent`;
* `Refinement`: under the same, `Spec => ImplementsMap`.

`BucketsGuarded` counts who is
inside a bucket; the invariant says who: at most one (`Exclusive`), who has the lock
until it overwrites it or gives it back (`WorkersLock`), and no
lock is set without somebody inside (`LocksOwned`). `Quiet` is used in one place,
`LockInv`: a lock of zero and nobody emptying means nobody inside.

`TableConsistent` follows chains from row to row, and a statement about walks is not
inductive: that a walk ends is lost as soon as a row is linked. `TableInv` says
where each row stands instead. `Placed`: there are an owner (a bucket) and a depth of
each row such that no two rows of a bucket have one depth or one key, `next` is the row
of the next depth, and each row but the first has one before it. `Tidy`: the active rows
are those in use, and the others are blank. The proof has three layers:

* what follows for a walk. Depths are bounded by the number of slices (`Bounded`: the
  rows before a row are an injection into the slices), so `Chain` reaches all rows
  of its bucket and then `None` (`ChainPlaced`), and `RowOf` the row of a key, or
  `None` if there is none (`RowOfFacts`). Both are recursive functions. That
  such a function exists is shown by giving one, and what it returns by a least
  counterexample;
* what is done to rows and pool: a row is edited in its place (`RowEdited`), added behind the
  last (`RowAdded`), or cut out, where its predecessor may take over its key
  (`RowCut`); a slice goes to the end of the list (`PoolTaken`) or to its head
  (`PoolGiven`), and the free ones stay in front;
* the steps, which are these operations inside one bucket (`Settled`, `StaysKept`); by
  `Exclusive` whoever reads or writes a row elsewhere is not disturbed (`Elsewhere`).

For the refinement `ValuesShown` says that a key has the value of the row of its bucket
that has the key, and `Valued` what follows when rows change: if the others keep owner,
key and data, perhaps in another row, one counter changes. A step that adds or deletes
a row is a step of `CounterMap`; so is `Write`, because what was read is still there
(`RowStays`), and everything else is a stutter. `None`, which stands for no counter,
must not be a number the column can have (`TableAssumption`).

`OneLength`: the keys have one length and are not empty. The code does not ask for
that. It is needed because `strncmp` takes a longer key for a shorter one (section
4), and because the `memcpy` of a shorter key leaves the end of the longer, so that a
row that was moved has not the key of the process that looks for it.

### The session lock

`RedisSessionProofs`, for every number of processes, requests, retries, losses and
deaths, and every expiry (`SessionAssumption`):

* `TypeCorrect`: `Spec => []TypeOK`, with the numbers of requests and the tries
  left that it needs;
* `OnlyOwnerReleases`: `Spec => OthersLockKept`;
* `HoldsWhenStoring`: `Spec => []StillHolding`, and `NoUpdateLost`: `Spec => NoLostUpdate`,
  both when `lock_expire` is set and under `Prompt`.

`NoLostUpdate` is about a step that stores; it needs to know what was read how
long ago. `ReadIsFresh` says it: whoever holds the lock, and has read, has read all that is
there. It stays true because a lock changes hands only while its new owner is asking
for it, before it reads (`NewOwnerAsks`), and because only the holder stores.

### XCache

`XcCacherProofs`, for every arena, header and size of codes and entries, every finite
set of processes, every set of files and sources, and all times and bounds that
`HeapAssumption` and `CacherAssumption` allow:

* `HeapStaysLaid`: `malloc` and `free` keep a heap `Laid`: blocks do not
  overlap, leave out no word, can hold a header, and no two free ones touch;
* `ConsistentCache`: under `Timely` and `Undisturbed`, `Spec => []CacheConsistent`;
* `CodeIsRight`: under the same, `Spec => []RightCode`.

The heap. `MallocLaid` cuts a block; `FreeLaid` joins up to three, and goes by
`Neighbours`: the free block before or behind in the list is the one that touches, if
any does, as nothing free lies between. That a least address exists (`FirstFacts`)
comes from the well-foundedness of the natural numbers. `avail` is the number of
words in no busy block, a cardinality, and `Sound` joins the two.

The cache. Both theorems follow from one invariant, `Inductive`:

* `Memory(shm, {})`: the busy blocks are the codes and entries, the chains and
  the list of deleted ones reach each once, a code is counted by its entries, found by the
  digest of its source, and no digest is there twice. The second argument is
  the entries that are for the moment in no chain: `xc_entry_remove_unlocked` unlinks
  before it frees, and an operator may be proved about between the two;
* `HoldsKept`: a held entry exists, is counted by its holders, and, if it is in the
  list of deleted ones, was deleted less than a `Window` before the request that holds it
  began, or later. `CacheConsistent` says only that it exists, and that is not inductive:
  `xc_gc_deletes` frees by age and does not look at `refcount`. A request
  is shorter than `Window`, so a held entry is no older than `2 * Window - 2`, hence
  than `KeepTime`: this is the one use of `2 * Window <= KeepTime + 2`;
* `Versions`: an entry's code is what its file held when it was last changed at the entry's
  time, and whoever has looked at that version has the code in `seen`. `RightCode`
  speaks of restoring processes only; they take the entry from those who
  compiled it earlier, so something must be known of all entries. `InHand` joins
  the two: a process restores the entry it held last, of its file and version;
* `Compiles`: what is being compiled is not in the cache yet and is still the version
  that was looked at; `OneCompiles`: one process compiles at a time, for `compiling`
  is its request's time, which a `Window` keeps set, and nobody else takes the flag down
while somebody compiles: the one use of `Undisturbed`. Without it two processes would
  store one digest twice, and `xc_php_release_unlocked` would unlink the wrong one;
* `Control`: types, times and the bound on holds.

The argument goes by the operators on `shm`: `PhpAdds` and `EntryAdds` for what is stored,
`Removed`, `CollectedOne` and the loops (`RemovedAllFacts`, `FreedAllFacts`) for what is taken
away, all of which are `Swept`: a given set of entries stays, and what stays keeps its file, code
and holders. The loops are recursive functions over subsets; that such a function exists
and what it keeps is proved by a least counterexample, on the cardinality. Then one
lemma per action for the memory (`HitGood`, `ShareGood`, `UnholdGood`, ...) and one for each
part of `Control`.

`Timely` and `Undisturbed` are conditions and not facts. The code does not insure either,
and without the one or the other `CacheConsistent` fails, and `RightCode` has nothing to rest
on (section 4). What the theorems
say of bailouts is that those of compiles and stores, and those of lookups
while nobody compiles, do no harm.

### Only model-checked

* Liveness (`CallsReturn`, `DeadReplaced`, `ReloadEnds`, `Stops` and the like).
* `SwTable` with keys of different lengths: the theorems are not claimed there, and
  `ImplementsMap` is false when one key begins another (section 4).
* `ReloadReplaces`: it is about one reload from its start to its end.

## 6. The plan

In this order; each with its MC module, runs and mutants.

1. swoole's timer heap, process pool and task workers; the thread-safe variant of the
   ring queue; the table's iterator.

## 7. What is not modelled

* Undefined behaviour behind a known fault: what a chain through freed memory
  leads to beyond the first address given out again, a slot that `make_slot` left unfilled in
  memory that was used before, and the outcome of relocking a native read-write lock.
* A pool of APCu that grows by more than one block for its slot and key.
* The signal of PHP's `max_execution_time` inside a critical section of XCache: it leaves the section
  by `longjmp` wherever it is. A bailout is modelled where the code catches one.
* A process that dies while it holds a lock: no code recovers from it, so no
  promise is there to check.
* Hit counters, statistics, formatting, memory protection, Windows variants.
* Bindings, serializers, parsers, generated code: sequential conversions
  whose properties are unit tests' work (`PROJECT.json` gives the reason for
  each).
