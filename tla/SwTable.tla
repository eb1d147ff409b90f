------------------------------- MODULE SwTable -------------------------------
(***************************************************************************)
(* swoole's table (src/memory/Table.c): rows in shared memory, found by    *)
(* the hash of a key, used by many processes. The first row of a bucket is *)
(* part of the table and carries the spin lock of the bucket; the rows     *)
(* that collide come from a fixed pool (src/memory/FixedPool.c) and are    *)
(* chained behind it. A row here has one column, a counter: incr reads it  *)
(* and writes it back with the lock held.                                  *)
(***************************************************************************)
EXTENDS Integers, FiniteSets, Sequences, Functions

CONSTANTS Procs, Keys,   \* a key is a sequence of characters
          Buckets,       \* the rows of the table itself
          HashOf,        \* key -> bucket
          Slices,        \* the rows of the pool
          None,          \* no row, no call
          Quiet,         \* nobody comes to a bucket that is just being emptied
          Values         \* how many values fit the column, which wraps

ASSUME TableAssumption == /\ HashOf \in [Keys -> Buckets] /\ Values \in Nat \ {0}
                          /\ Buckets \cap Slices = {} /\ None \notin Buckets \cup Slices \cup (0 .. Values - 1)
                          /\ Cardinality(Slices) > 1
                          /\ \A S \in {Procs, Buckets, Slices} : IsFiniteSet(S)

Rows == Buckets \cup Slices

VARIABLES
    rows,      \* swTableRow: active, next, key, data
    lock,      \* ... and the lock of the rows that begin a chain
    slices, busy,  \* swFixedPool: the list of its slices, and those whose lock is set
    row_num,   \* swTable
    pc, op, key, row, value  \* of each process: where it is, what it was asked,
               \* the row it has found, and what it has read there

table == <<rows, lock, slices, busy, row_num>>
call  == <<pc, op, key, row, value>>
vars  == <<table, call>>

Empty == [active |-> FALSE, next |-> None, key |-> << >>, data |-> 0]

Init == /\ rows = [r \in Rows |-> Empty] /\ lock = [b \in Buckets |-> 0]
        /\ slices = (CHOOSE f \in Bijection(1 .. Cardinality(Slices), Slices) : TRUE) /\ busy = {} /\ row_num = 0
        /\ pc = [p \in Procs |-> "idle"] /\ op = [p \in Procs |-> None] /\ key = [p \in Procs |-> << >>]
        /\ row = [p \in Procs |-> None] /\ value = [p \in Procs |-> 0]

At(p, from)       == pc[p] = from
Goes(p, from, to) == pc[p] = from /\ pc' = [pc EXCEPT ![p] = to]
Root(p)           == HashOf[key[p]]

\* The locals of a call end with it.
Returns(p) == /\ op' = [op EXCEPT ![p] = None] /\ key' = [key EXCEPT ![p] = << >>]
              /\ row' = [row EXCEPT ![p] = None] /\ value' = [value EXCEPT ![p] = 0]

(***************************************************************************)
(* The pool: free slices stand before the others.                          *)
(***************************************************************************)
CanAlloc == Head(slices) \notin busy

\* The slice stays where it is.
FreeSlice_InPlace(a) == busy' = busy \ {a} /\ UNCHANGED slices

\* The list with its element a at the head.
ToHead(list, a) == LET k == CHOOSE i \in DOMAIN list : list[i] = a
                   IN  [i \in DOMAIN list |-> IF i = 1 THEN a ELSE IF i <= k THEN list[i - 1] ELSE list[i]]

FreeSlice(a) == busy' = busy \ {a} /\ slices' = ToHead(slices, a)

\* strncmp compares no more than the length of k.
Matches(k, r) == Len(k) <= Len(rows[r].key) /\ SubSeq(rows[r].key, 1, Len(k)) = k

\* The first row of a chain that matches k.
RowOf(b, k) ==
    LET from[r \in Rows] == IF Matches(k, r) THEN r
                            ELSE IF rows[r].next = None THEN None ELSE from[rows[r].next]
    IN  from[b]

Known(b, k) == RowOf(b, k) # None

\* The rows of a chain in their order, and None behind the last.
Chain(b) ==
    LET at[n \in 0 .. Cardinality(Slices)] ==
          IF n = 0 THEN b ELSE IF at[n - 1] = None THEN None ELSE rows[at[n - 1]].next
    IN  at

InChain(b) == Range(Chain(b)) \ {None}

EndOf(b) == CHOOSE r \in InChain(b) : rows[r].next = None

(***************************************************************************)
(* swTableRow_get, swTableRow_set and the methods that call them: the row  *)
(* is read, or read and written, before the bucket is unlocked.            *)
(***************************************************************************)
Call(p, o, k) == /\ Goes(p, "idle", IF o = "del" THEN "test" ELSE "lock")
                 /\ op' = [op EXCEPT ![p] = o] /\ key' = [key EXCEPT ![p] = k]
                 /\ UNCHANGED <<table, row, value>>

Emptying(b) == \E q \in Procs : pc[q] \in {"uncount", "unlock"} /\ Root(q) = b

Lock(p) == /\ Goes(p, "lock", "find") /\ lock[Root(p)] = 0
           /\ Quiet => ~Emptying(Root(p))
           /\ lock' = [lock EXCEPT ![Root(p)] = 1]
           /\ UNCHANGED <<rows, slices, busy, row_num, op, key, row, value>>

Finds(p, r, to) == Goes(p, "find", to) /\ row' = [row EXCEPT ![p] = r]

FindsNothing(p) == Finds(p, None, "unlock") /\ UNCHANGED <<table, op, key, value>>

Get(p) == /\ op[p] = "get"
          /\ LET b == Root(p) k == key[p]
             IN  IF Known(b, k) /\ rows[RowOf(b, k)].active
                   THEN Finds(p, RowOf(b, k), "read") /\ UNCHANGED <<table, op, key, value>>
                   ELSE FindsNothing(p)

SetUsesRoot(p) ==
    /\ op[p] = "incr" /\ ~rows[Root(p)].active /\ Finds(p, Root(p), "read")
    /\ row_num' = row_num + 1
    /\ rows' = [rows EXCEPT ![Root(p)].key = key[p], ![Root(p)].active = TRUE]
    /\ UNCHANGED <<lock, slices, busy, op, key, value>>

SetFindsRow(p) ==
    /\ op[p] = "incr" /\ rows[Root(p)].active /\ Known(Root(p), key[p])
    /\ Finds(p, RowOf(Root(p), key[p]), "read")
    /\ UNCHANGED <<table, op, key, value>>

Collides(p) == op[p] = "incr" /\ rows[Root(p)].active /\ ~Known(Root(p), key[p])

\* bzero takes the header of the new row only.
SetAddsRow(p) ==
    LET new == Head(slices)
    IN  /\ Collides(p) /\ CanAlloc /\ Finds(p, new, "read")
        /\ slices' = Append(Tail(slices), new) /\ busy' = busy \cup {new}
        /\ row_num' = row_num + 1
        /\ rows' = [rows EXCEPT ![new] = [@ EXCEPT !.active = TRUE, !.next = None, !.key = key[p]],
                                ![EndOf(Root(p))].next = new]
        /\ UNCHANGED <<lock, op, key, value>>

\* The caller returns without the unlock.
SetFails_NoUnlock(p) == Collides(p) /\ ~CanAlloc /\ Goes(p, "find", "idle") /\ Returns(p) /\ UNCHANGED table

SetFails(p) == Collides(p) /\ ~CanAlloc /\ FindsNothing(p)

Read(p) == /\ Goes(p, "read", IF op[p] = "incr" THEN "write" ELSE "unlock")
           /\ value' = [value EXCEPT ![p] = rows[row[p]].data]
           /\ UNCHANGED <<table, op, key, row>>

Write(p) == /\ Goes(p, "write", "unlock")
            /\ rows' = [rows EXCEPT ![row[p]].data = (value[p] + 1) % Values]
            /\ UNCHANGED <<lock, slices, busy, row_num, op, key, row, value>>

Unlock(p) == /\ Goes(p, "unlock", "idle")
             /\ lock' = [lock EXCEPT ![Root(p)] = 0]
             /\ Returns(p)
             /\ UNCHANGED <<rows, slices, busy, row_num>>

(***************************************************************************)
(* swTableRow_del.                                                         *)
(***************************************************************************)
\* The first look is taken without the lock.
Test(p) == Goes(p, "test", "lock") /\ rows[Root(p)].active /\ UNCHANGED <<table, op, key, row, value>>

TestFails(p) == Goes(p, "test", "idle") /\ ~rows[Root(p)].active /\ Returns(p) /\ UNCHANGED table

Deletes(p)  == op[p] = "del" /\ At(p, "find") /\ Known(Root(p), key[p])
Alone(p)    == rows[Root(p)].next = None
AtRoot(p)   == RowOf(Root(p), key[p]) = Root(p)

DelNothing(p) == op[p] = "del" /\ ~Known(Root(p), key[p]) /\ FindsNothing(p)

\* bzero takes the whole row, and the lock is in the row.
DelAlone(p) ==
    /\ Deletes(p) /\ Alone(p) /\ Finds(p, None, "uncount")
    /\ rows' = [rows EXCEPT ![Root(p)] = Empty]
    /\ lock' = [lock EXCEPT ![Root(p)] = 0]
    /\ UNCHANGED <<slices, busy, row_num, op, key, value>>

\* memcpy takes the characters of the new key, and leaves those of a longer one.
Over(new, old) == new \o SubSeq(old, Len(new) + 1, Len(old))

\* The data of the row that is deleted stay.
Moved_NoData(b, t) == [rows[b] EXCEPT !.next = rows[t].next, !.key = Over(rows[t].key, @)]

\* The second row in the place of the first.
Moved(b, t) == [rows[b] EXCEPT !.next = rows[t].next, !.data = rows[t].data,
                               !.key = Over(rows[t].key, @)]

DelRoot(p) ==
    LET b == Root(p)
        t == rows[b].next
    IN  /\ Deletes(p) /\ AtRoot(p) /\ ~Alone(p) /\ Finds(p, None, "uncount")
        /\ rows' = [rows EXCEPT ![b] = Moved(b, t), ![t] = Empty]
        /\ FreeSlice(t)
        /\ UNCHANGED <<lock, row_num, op, key, value>>

DelRow(p) ==
    LET b == Root(p)
        t == RowOf(b, key[p])
        prev == CHOOSE r \in Rows : rows[r].next = t
    IN  /\ Deletes(p) /\ ~AtRoot(p) /\ Finds(p, None, "uncount")
        /\ rows' = [rows EXCEPT ![prev].next = rows[t].next, ![t] = Empty]
        /\ FreeSlice(t)
        /\ UNCHANGED <<lock, row_num, op, key, value>>

Uncount(p) == /\ Goes(p, "uncount", "unlock")
              /\ row_num' = row_num - 1
              /\ UNCHANGED <<rows, lock, slices, busy, op, key, row, value>>
-----------------------------------------------------------------------------
\* What a process does once it has the lock.
Inside(p) == \/ Get(p) \/ SetUsesRoot(p) \/ SetFindsRow(p) \/ SetAddsRow(p) \/ SetFails(p)
             \/ DelNothing(p) \/ DelAlone(p) \/ DelRoot(p) \/ DelRow(p)
             \/ Read(p) \/ Write(p) \/ Uncount(p) \/ Unlock(p)

Next == \E p \in Procs : \/ \E o \in {"get", "incr", "del"}, k \in Keys : Call(p, o, k)
                         \/ Test(p) \/ TestFails(p) \/ Lock(p) \/ Inside(p)

Spec == Init /\ [][Next]_vars

-----------------------------------------------------------------------------
TypeOK ==
    /\ rows \in [Rows -> [active : BOOLEAN, next : Slices \cup {None},
                          key : Seq(UNION {{k[i] : i \in DOMAIN k} : k \in Keys}), data : 0 .. Values - 1]]
    /\ lock \in [Buckets -> {0, 1}] /\ busy \subseteq Slices /\ row_num \in Nat
    /\ pc \in [Procs -> {"idle", "test", "lock", "find", "read", "write", "uncount", "unlock"}]
    /\ op \in [Procs -> {"get", "incr", "del", None}] /\ key \in [Procs -> Keys \cup {<< >>}]
    /\ row \in [Procs -> Rows \cup {None}] /\ value \in [Procs -> 0 .. Values - 1]

\* Rows of the pool are in one chain when they are in use, and else blank; a
\* bucket without a first row has no others; no key is in a chain twice.
ChainsWhole ==
    /\ \A b, c \in Buckets : b # c => InChain(b) \cap InChain(c) = {}
    /\ busy = (UNION {InChain(b) : b \in Buckets}) \ Buckets
    /\ \A r \in Rows : r \in busy \/ (r \in Buckets /\ rows[r].active) \/ rows[r] = Empty
    /\ \A b \in Buckets : /\ IsInjective([r \in InChain(b) |-> rows[r].key])
                          /\ \E r \in InChain(b) : rows[r].next = None

\* Slices that can be had come first, as swFixedPool_alloc looks at the head only.
FreeFirst == \A i, j \in DOMAIN slices : i < j /\ slices[i] \in busy => slices[j] \in busy

Active    == {r \in Rows : rows[r].active}
Deleting  == {p \in Procs : pc[p] = "uncount"}
Counted   == row_num = Cardinality(Active) + Cardinality(Deleting)

\* What a process has found stays the row of its key until it unlocks, and
\* what it has read there stays the value.
RowStays == \A p \in Procs :
    /\ pc[p] \in {"read", "write"} =>
          row[p] \in InChain(Root(p)) /\ rows[row[p]].active /\ rows[row[p]].key = key[p]
    /\ pc[p] = "write" => value[p] = rows[row[p]].data

(***************************************************************************)
(* The chains, the pool and row_num of swTableRow_set and _del agree in    *)
(* any order of calls: no row is lost from the pool or in two chains, the  *)
(* pool gives what is free, and nobody works on a row that was given back. *)
(***************************************************************************)
TableConsistent == TypeOK /\ ChainsWhole /\ FreeFirst /\ Counted /\ RowStays

Insiders(b) == {p \in Procs : pc[p] \in {"find", "read", "write", "uncount", "unlock"} /\ Root(p) = b}

(***************************************************************************)
(* A bucket is with one process at a time, and locked for nobody else:     *)
(* every method gives it back, also where swTableRow_set returned NULL or  *)
(* swTableRow_del found no row. It needs Quiet: whoever deletes the only   *)
(* row of a bucket has overwritten the lock before it unlocks.             *)
(***************************************************************************)
BucketsGuarded == \A b \in Buckets : Cardinality(Insiders(b)) \in lock[b] .. 1

(***************************************************************************)
(* Seen by its callers the table is a map of counters: incr starts at zero *)
(* with a row that was used before, no increment is lost, and the deletion *)
(* of a first row, which moves another into its place, changes one key.    *)
(***************************************************************************)
ValueOf(k) == LET r == RowOf(HashOf[k], k) IN IF r = None THEN None ELSE rows[r].data

Promised == INSTANCE CounterMap WITH counters <- [k \in Keys |-> ValueOf(k)], Absent <- None

ImplementsMap == Promised!Spec

=============================================================================
