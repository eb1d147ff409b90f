--------------------------- MODULE SwTableProofs ---------------------------
(***************************************************************************)
(* Theorems about SwTable, and their proofs: the lock of a bucket first,   *)
(* and then the rows it guards and what its callers see.                   *)
(***************************************************************************)
EXTENDS SwTable, TLAPS, FiniteSetTheorems, SequenceTheorems, WellFoundedInduction

Working == {"find", "read", "write"}
Leaving == {"uncount", "unlock"}
Outside == {"idle", "test", "lock"}

In(p) == pc[p] \in Working \cup Leaving

CallTypes ==
    /\ lock \in [Buckets -> {0, 1}]
    /\ pc \in [Procs -> Outside \cup Working \cup Leaving]
    /\ key \in [Procs -> Keys \cup {<< >>}]
    /\ \A p \in Procs : pc[p] # "idle" => key[p] \in Keys

\* A bucket has one process inside at most.
Exclusive == \A p, q \in Procs : In(p) /\ In(q) /\ Root(p) = Root(q) => p = q

\* Whoever has not yet overwritten the lock has it, and nobody else is served.
WorkersLock == \A p \in Procs : pc[p] \in Working => lock[Root(p)] = 1
LocksOwned  == \A b \in Buckets : lock[b] = 1 => \E p \in Procs : In(p) /\ Root(p) = b

Inv == CallTypes /\ Exclusive /\ WorkersLock /\ LocksOwned

LEMMA RootType ==
    ASSUME CallTypes, NEW p \in Procs, pc[p] # "idle"
    PROVE  Root(p) \in Buckets
BY TableAssumption DEF CallTypes, Root

(***************************************************************************)
(* The kinds of steps.                                                     *)
(***************************************************************************)
\* A call begins, or ends before it had the lock.
LEMMA OutsideInv ==
    ASSUME Inv, NEW p \in Procs,
           (\E o \in {"get", "incr", "del"}, k \in Keys : Call(p, o, k)) \/ Test(p) \/ TestFails(p)
    PROVE  Inv'
<1>1. /\ lock' = lock /\ pc[p] \in Outside /\ pc'[p] \in Outside
      /\ pc' = [pc EXCEPT ![p] = pc'[p]] /\ key' = [key EXCEPT ![p] = key'[p]]
      /\ key'[p] \in Keys \cup {<< >>} /\ (pc'[p] # "idle" => key'[p] \in Keys)
  BY DEF Inv, CallTypes, Outside, Call, Test, TestFails, Goes, Returns, table
<1>2. ASSUME NEW q \in Procs, q # p PROVE pc'[q] = pc[q] /\ key'[q] = key[q] /\ Root(q)' = Root(q)
  BY <1>1, <1>2 DEF Inv, CallTypes, Root
<1>3. CallTypes'
  BY <1>1, <1>2 DEF Inv, CallTypes
<1>4. ~In(p) /\ ~In(p)'
  BY <1>1 DEF In, Outside, Working, Leaving
<1>5. \A q \in Procs : In(q)' => q # p /\ In(q) /\ Root(q)' = Root(q)
  BY <1>2, <1>4 DEF In
<1>6. \A q \in Procs : In(q) => q # p /\ In(q)' /\ Root(q)' = Root(q)
  BY <1>2, <1>4 DEF In
<1>7. Exclusive' /\ LocksOwned'
  BY <1>1, <1>5, <1>6 DEF Inv, Exclusive, LocksOwned
<1>8. WorkersLock'
  BY <1>1, <1>2, <1>5 DEF Inv, WorkersLock, In
<1> QED
  BY <1>3, <1>7, <1>8 DEF Inv

\* With the bucket unlocked and not being emptied nobody is inside.
LEMMA LockInv ==
    ASSUME Quiet, Inv, NEW p \in Procs, Lock(p)
    PROVE  Inv'
<1> DEFINE b == Root(p)
<1>1. /\ pc[p] = "lock" /\ pc' = [pc EXCEPT ![p] = "find"] /\ key' = key
      /\ lock[b] = 0 /\ lock' = [lock EXCEPT ![b] = 1] /\ ~Emptying(b)
  BY DEF Lock, Goes
<1>2. b \in Buckets
  BY <1>1, RootType DEF Inv
<1>3. \A q \in Procs : In(q) => Root(q) # b
  BY <1>1 DEF Inv, WorkersLock, In, Emptying, Leaving
<1>4. \A q \in Procs : Root(q)' = Root(q)
  BY <1>1 DEF Root
<1>5. \A q \in Procs : pc'[q] = IF q = p THEN "find" ELSE pc[q]
  BY <1>1 DEF Inv, CallTypes
<1>6. \A c \in Buckets : lock'[c] = IF c = b THEN 1 ELSE lock[c]
  BY <1>1 DEF Inv, CallTypes
<1>7. CallTypes'
  BY <1>1, <1>2, <1>5 DEF Inv, CallTypes, Working
<1>8. \A q \in Procs : In(q)' <=> q = p \/ In(q)
  BY <1>5 DEF In, Working
<1>9. Exclusive'
  BY <1>3, <1>4, <1>8 DEF Inv, Exclusive
<1>10. WorkersLock'
  <2> SUFFICES ASSUME NEW q \in Procs, pc'[q] \in Working PROVE lock'[Root(q)] = 1
    BY <1>4 DEF WorkersLock
  <2>1. CASE q = p
    BY <1>2, <1>6, <2>1
  <2>2. CASE q # p
    <3>1. pc[q] \in Working /\ pc[q] # "idle"
      BY <1>5, <2>2 DEF Working
    <3> QED
      BY <1>6, <3>1, RootType DEF Inv, WorkersLock
  <2> QED
    BY <2>1, <2>2
<1>11. LocksOwned'
  BY <1>4, <1>6, <1>8 DEF Inv, LocksOwned
<1> QED
  BY <1>7, <1>9, <1>10, <1>11 DEF Inv

\* A step inside that leaves the lock alone.
LEMMA InsideInv ==
    ASSUME Inv, NEW p \in Procs, UNCHANGED <<lock, key>>,
           NEW from \in Working \cup Leaving, NEW to \in Working \cup Leaving,
           Goes(p, from, to), from \in Working \/ to \in Leaving
    PROVE  Inv'
<1>1. /\ pc[p] = from /\ key' = key /\ lock' = lock
      /\ \A q \in Procs : pc'[q] = IF q = p THEN to ELSE pc[q]
  BY DEF Goes, Inv, CallTypes
<1>2. \A q \in Procs : Root(q)' = Root(q) /\ (In(q)' <=> In(q))
  BY <1>1 DEF Root, In
<1>3. CallTypes'
  BY <1>1 DEF Inv, CallTypes, Goes, Working, Leaving
<1>4. Exclusive' /\ LocksOwned'
  BY <1>1, <1>2 DEF Inv, Exclusive, LocksOwned
<1>5. WorkersLock'
  BY <1>1, <1>2 DEF Inv, WorkersLock, Working, Leaving
<1> QED
  BY <1>3, <1>4, <1>5 DEF Inv

\* The lock of the bucket is set to zero, by its unlock or by bzero.
LEMMA ReleaseInv ==
    ASSUME Inv, NEW p \in Procs, In(p), lock' = [lock EXCEPT ![Root(p)] = 0],
           \/ Goes(p, "find", "uncount") /\ key' = key
           \/ Goes(p, "unlock", "idle") /\ key' = [key EXCEPT ![p] = << >>]
    PROVE  Inv'
<1> DEFINE b == Root(p)
<1>1. b \in Buckets
  BY RootType DEF Inv, In, Working, Leaving
<1>2. /\ pc'[p] \in {"uncount", "idle"} /\ (pc'[p] = "uncount" => key'[p] = key[p])
      /\ key'[p] \in Keys \cup {<< >>}
      /\ \A q \in Procs : q # p => pc'[q] = pc[q] /\ key'[q] = key[q] /\ Root(q)' = Root(q)
  BY DEF Goes, Inv, CallTypes, Root
<1>3. \A c \in Buckets : lock'[c] = IF c = b THEN 0 ELSE lock[c]
  BY DEF Inv, CallTypes
<1>4. CallTypes'
  <2>1. lock' \in [Buckets -> {0, 1}]
    BY DEF Inv, CallTypes
  <2>2. pc' \in [Procs -> Outside \cup Working \cup Leaving] /\ key' \in [Procs -> Keys \cup {<< >>}]
    BY DEF Goes, Inv, CallTypes, Outside, Leaving
  <2>3. \A q \in Procs : pc'[q] # "idle" => key'[q] \in Keys
    BY <1>2 DEF Inv, CallTypes, In, Working, Leaving
  <2> QED
    BY <2>1, <2>2, <2>3 DEF CallTypes
<1>5. \A q \in Procs : In(q) /\ q # p => Root(q) # b
  BY DEF Inv, Exclusive
<1>6. \A q \in Procs : In(q)' => In(q) /\ Root(q)' = Root(q)
  BY <1>2 DEF In, Root, Working, Leaving
<1>7. \A q \in Procs : In(q) /\ q # p => In(q)' /\ Root(q)' = Root(q)
  BY <1>2 DEF In
<1>8. Exclusive'
  BY <1>6 DEF Inv, Exclusive
<1>9. WorkersLock'
  <2> SUFFICES ASSUME NEW q \in Procs, pc'[q] \in Working PROVE lock'[Root(q)'] = 1
    BY DEF WorkersLock
  <2>1. q # p /\ pc[q] \in Working /\ In(q) /\ Root(q)' = Root(q) /\ pc[q] # "idle"
    BY <1>2 DEF In, Working
  <2>2. Root(q) \in Buckets /\ Root(q) # b /\ lock[Root(q)] = 1
    BY <1>5, <2>1, RootType DEF Inv, WorkersLock
  <2> QED
    BY <1>3, <2>1, <2>2
<1>10. LocksOwned'
  <2> SUFFICES ASSUME NEW c \in Buckets, lock'[c] = 1 PROVE \E q \in Procs : In(q)' /\ Root(q)' = c
    BY DEF LocksOwned
  <2>1. c # b /\ lock[c] = 1
    BY <1>3
  <2>2. PICK q \in Procs : In(q) /\ Root(q) = c
    BY <2>1 DEF Inv, LocksOwned
  <2> QED
    BY <1>7, <2>1, <2>2
<1> QED
  BY <1>4, <1>8, <1>9, <1>10 DEF Inv

(***************************************************************************)
(* The whole specification.                                                *)
(***************************************************************************)
LEMMA InitInv == Init => Inv
BY DEF Init, Inv, CallTypes, Exclusive, WorkersLock, LocksOwned, In, Outside, Working, Leaving

LEMMA InnerInv ==
    ASSUME Inv, NEW p \in Procs, Inside(p)
    PROVE  Inv'
<1> USE DEF Working, Leaving, Finds, table
<1>1. CASE Get(p) \/ SetUsesRoot(p) \/ SetFindsRow(p) \/ SetAddsRow(p)
  <2>1. UNCHANGED <<lock, key>> /\ (Goes(p, "find", "read") \/ Goes(p, "find", "unlock"))
    BY <1>1 DEF Get, SetUsesRoot, SetFindsRow, SetAddsRow, FindsNothing
  <2> QED
    BY <2>1, InsideInv
<1>2. CASE SetFails(p) \/ DelNothing(p) \/ DelRoot(p) \/ DelRow(p)
  <2>1. UNCHANGED <<lock, key>> /\ (Goes(p, "find", "unlock") \/ Goes(p, "find", "uncount"))
    BY <1>2 DEF SetFails, DelNothing, DelRoot, DelRow, FindsNothing
  <2> QED
    BY <2>1, InsideInv
<1>3. CASE Read(p) \/ Write(p)
  <2>1. /\ UNCHANGED <<lock, key>>
        /\ Goes(p, "read", "write") \/ Goes(p, "read", "unlock") \/ Goes(p, "write", "unlock")
    BY <1>3 DEF Read, Write
  <2> QED
    BY <2>1, InsideInv
<1>4. CASE Uncount(p)
  <2>1. UNCHANGED <<lock, key>> /\ Goes(p, "uncount", "unlock")
    BY <1>4 DEF Uncount
  <2> QED
    BY <2>1, InsideInv
<1>5. CASE DelAlone(p)
  <2>1. In(p) /\ lock' = [lock EXCEPT ![Root(p)] = 0] /\ Goes(p, "find", "uncount") /\ key' = key
    BY <1>5 DEF DelAlone, In, Goes
  <2> QED
    BY <2>1, ReleaseInv
<1>6. CASE Unlock(p)
  <2>1. /\ In(p) /\ lock' = [lock EXCEPT ![Root(p)] = 0] /\ Goes(p, "unlock", "idle")
        /\ key' = [key EXCEPT ![p] = << >>]
    BY <1>6 DEF Unlock, In, Goes, Returns
  <2> QED
    BY <2>1, ReleaseInv
<1> QED
  BY <1>1, <1>2, <1>3, <1>4, <1>5, <1>6 DEF Inside

LEMMA NextInv ==
    ASSUME Quiet
    PROVE  Inv /\ [Next]_vars => Inv'
<1> SUFFICES ASSUME Inv, [Next]_vars PROVE Inv'
  OBVIOUS
<1>1. CASE UNCHANGED vars
  BY <1>1 DEF vars, table, call, Inv, CallTypes, Exclusive, WorkersLock, LocksOwned, In, Root
<1>2. ASSUME NEW p \in Procs,
             (\E o \in {"get", "incr", "del"}, k \in Keys : Call(p, o, k)) \/ Test(p) \/ TestFails(p)
      PROVE  Inv'
  BY <1>2, OutsideInv
<1>3. ASSUME NEW p \in Procs, Lock(p) PROVE Inv'
  BY <1>3, LockInv
<1>4. ASSUME NEW p \in Procs, Inside(p) PROVE Inv'
  BY <1>4, InnerInv
<1> QED
  BY <1>1, <1>2, <1>3, <1>4 DEF Next

LEMMA InvGuards == Inv => BucketsGuarded
<1> SUFFICES ASSUME Inv, NEW b \in Buckets PROVE Cardinality(Insiders(b)) \in lock[b] .. 1
  BY DEF BucketsGuarded
<1>1. \A p \in Procs : p \in Insiders(b) <=> In(p) /\ Root(p) = b
  BY DEF Insiders, In, Working, Leaving
<1>2. \A p \in Insiders(b) : p \in Procs
  BY DEF Insiders
<1>3. lock[b] \in {0, 1}
  BY DEF Inv, CallTypes
<1>4. CASE Insiders(b) = {}
  <2>1. Cardinality(Insiders(b)) = 0
    BY <1>4, FS_EmptySet
  <2>2. lock[b] # 1
    BY <1>1, <1>4 DEF Inv, LocksOwned
  <2> QED
    BY <1>3, <2>1, <2>2
<1>5. CASE Insiders(b) # {}
  <2>1. PICK p \in Insiders(b) : TRUE
    BY <1>5
  <2>2. Insiders(b) = {p}
    BY <1>1, <1>2, <2>1 DEF Inv, Exclusive
  <2>3. Cardinality(Insiders(b)) = 1
    BY <2>2, FS_Singleton
  <2> QED
    BY <1>3, <2>3
<1> QED
  BY <1>4, <1>5

\* While nobody comes to a bucket that is being emptied, the spin lock of
\* swTableRow_get, _set and _del lets one process at a time to its rows, for
\* any number of processes, keys, buckets and rows, and is given back.
THEOREM OneAtATime ==
    ASSUME Quiet
    PROVE  Spec => []BucketsGuarded
<1>1. Inv => BucketsGuarded
  BY InvGuards
<1> QED
  BY <1>1, InitInv, NextInv, PTL DEF Spec

(***************************************************************************)
(* The rows. The chain of a bucket is told by whose each row is (own) and  *)
(* how many rows stand before it (depth).                                  *)
(***************************************************************************)
Chars == UNION {{k[i] : i \in DOMAIN k} : k \in Keys}

\* Keys that do not begin alike: of one length, and not empty.
OneLength == \E n \in Nat \ {0} : Keys \subseteq [1 .. n -> Chars]

Row == [active : BOOLEAN, next : Slices \cup {None}, key : Seq(Chars), data : 0 .. Values - 1]

\* R are the rows, and B the slices in use.
Tidy(R, B) ==
    /\ R \in [Rows -> Row]
    /\ \A r \in Rows : (R[r].active => R[r].key \in Keys) /\ (~R[r].active => R[r] = Empty)
    /\ B \subseteq Slices /\ \A r \in Slices : R[r].active <=> r \in B

Positions(B, own, depth) ==
    /\ own \in [Rows -> Buckets \cup {None}] /\ depth \in [Rows -> Nat]
    /\ \A b \in Buckets : own[b] = b /\ depth[b] = 0
    /\ \A r \in Slices : (own[r] # None <=> r \in B) /\ (r \in B => depth[r] > 0)

Placed(R, B, own, depth) ==
    /\ Positions(B, own, depth)
    /\ \A r, s \in Rows : own[r] = own[s] /\ own[r] # None /\ depth[r] = depth[s] => r = s
    /\ \A r, s \in Rows : own[r] = own[s] /\ own[r] # None /\ R[r].key = R[s].key => r = s
    /\ \A r, s \in Rows : own[r] # None => (R[r].next = s <=> own[s] = own[r] /\ depth[s] = depth[r] + 1)
    /\ \A r \in Rows : own[r] # None /\ depth[r] > 0 => \E s \in Rows : own[s] = own[r] /\ depth[s] + 1 = depth[r]

Linked(R, B) == Tidy(R, B) /\ \E own \in [Rows -> Buckets \cup {None}], depth \in [Rows -> Nat] : Placed(R, B, own, depth)

\* Chain and InChain of rows R.
ChainOf(R, b) ==
    LET at[n \in 0 .. Cardinality(Slices)] ==
          IF n = 0 THEN b ELSE IF at[n - 1] = None THEN None ELSE R[at[n - 1]].next
    IN  at

RowsOf(R, b) == Range(ChainOf(R, b)) \ {None}

(***************************************************************************)
(* The pool, the number of rows, and the calls.                            *)
(***************************************************************************)
Pool(L, B) == /\ L \in Bijection(1 .. Cardinality(Slices), Slices)
              /\ \A i, j \in 1 .. Cardinality(Slices) : i < j /\ L[i] \in B => L[j] \in B

Calls == /\ op \in [Procs -> {"get", "incr", "del", None}]
         /\ row \in [Procs -> Rows \cup {None}] /\ value \in [Procs -> 0 .. Values - 1]

TableInv == Linked(rows, busy) /\ Pool(slices, busy) /\ Counted /\ Calls /\ RowStays

LEMMA LeastNat ==
    ASSUME NEW T \in SUBSET Nat, T # {}
    PROVE  \E x \in T : \A y \in T : x <= y
<1> DEFINE Less == {ss \in Nat \X Nat : ss[1] < ss[2]}
<1>1. IsWellFoundedOn(Less, Nat)
  BY NatLessThanWellFounded DEF OpToRel
<1>2. PICK x \in T : \A y \in T : <<y, x>> \notin Less
  <2> HIDE DEF Less
  <2> QED
    BY <1>1, WFMin
<1>3. \A y \in T : ~(y < x)
  BY <1>2
<1> QED
  BY <1>3

LEMMA Sizes ==
    /\ IsFiniteSet(Slices) /\ Cardinality(Slices) \in Nat /\ Cardinality(Slices) > 1
    /\ None \notin Rows /\ Buckets \subseteq Rows /\ Slices \subseteq Rows
    /\ \A r \in Rows : r \in Slices <=> r \notin Buckets
BY TableAssumption, FS_CardinalityType DEF Rows

\* There is a row at every place before a row.
LEMMA Below ==
    ASSUME NEW R, NEW B, NEW own, NEW depth, Placed(R, B, own, depth),
           NEW r \in Rows, own[r] # None, NEW m \in Nat, m <= depth[r]
    PROVE  \E s \in Rows : own[s] = own[r] /\ depth[s] = m
<1> DEFINE S == {s \in Rows : own[s] = own[r] /\ depth[s] >= m}
           T == {depth[s] : s \in S}
<1>1. T \in SUBSET Nat /\ T # {}
  BY DEF Placed, Positions
<1>2. PICK x \in T : \A y \in T : x <= y
  <2> HIDE DEF T
  <2> QED
    BY <1>1, LeastNat
<1>3. PICK s \in S : depth[s] = x
  BY <1>2
<1>4. x \in Nat /\ x >= m
  BY <1>1, <1>3
<1>5. CASE x > m
  <2>1. PICK u \in Rows : own[u] = own[s] /\ depth[u] + 1 = depth[s]
    BY <1>3, <1>4, <1>5 DEF Placed
  <2>2. depth[u] \in Nat /\ depth[u] >= m /\ depth[u] < x
    BY <1>3, <1>4, <1>5, <2>1 DEF Placed, Positions
  <2>3. depth[u] \in T
    BY <1>3, <2>1, <2>2
  <2> QED
    BY <1>2, <1>4, <2>2, <2>3
<1> QED
  BY <1>3, <1>4, <1>5

\* No row stands farther from the first than there are slices.
LEMMA Bounded ==
    ASSUME NEW R, NEW B, NEW own, NEW depth, Placed(R, B, own, depth),
           NEW r \in Rows, own[r] # None
    PROVE  depth[r] <= Cardinality(Slices)
<1> DEFINE D == 1 .. depth[r]
           f == [m \in D |-> CHOOSE s \in Rows : own[s] = own[r] /\ depth[s] = m]
<1>1. depth[r] \in Nat
  BY DEF Placed, Positions
<1>2. ASSUME NEW m \in D PROVE f[m] \in Rows /\ own[f[m]] = own[r] /\ depth[f[m]] = m
  <2>1. \E s \in Rows : own[s] = own[r] /\ depth[s] = m
    BY <1>1, Below
  <2> QED
    BY <2>1
<1>3. ASSUME NEW m \in D PROVE f[m] \in Slices
  BY <1>1, <1>2, Sizes DEF Placed, Positions
<1> HIDE DEF f
<1>4. \A m, n \in D : f[m] = f[n] => m = n
  BY <1>2
<1>5. f \in [D -> Slices]
  BY <1>3 DEF f
<1>6. f \in Injection(D, Slices)
  BY <1>4, <1>5 DEF Injection, IsInjective
<1>7. Cardinality(D) <= Cardinality(Slices)
  BY <1>6, Sizes, FS_Injection
<1>8. Cardinality(D) = depth[r]
  <2>1. 1 \in Int /\ depth[r] \in Int /\ (1 > depth[r] => depth[r] = 0) /\ depth[r] - 1 + 1 = depth[r]
    BY <1>1
  <2> QED
    BY <2>1, FS_Interval
<1> QED
  BY <1>7, <1>8

\* Chain goes through the rows of the bucket, as they are placed.
LEMMA ChainPlaced ==
    ASSUME NEW R, NEW B, NEW own, NEW depth, Tidy(R, B), Placed(R, B, own, depth), NEW b \in Buckets
    PROVE  \A r : r \in RowsOf(R, b) <=> r \in Rows /\ own[r] = b
<1> DEFINE N == Cardinality(Slices)
           Is(f) == f = [n \in 0 .. N |-> IF n = 0 THEN b ELSE IF f[n - 1] = None THEN None ELSE R[f[n - 1]].next]
           There(r, n) == r \in Rows /\ own[r] = b /\ depth[r] = n
           Nobody(n) == \A s \in Rows : ~There(s, n)
           g == [n \in 0 .. N |-> IF Nobody(n) THEN None ELSE CHOOSE r \in Rows : There(r, n)]
           f == ChainOf(R, b)
<1> USE Sizes
<1>1. There(b, 0) /\ b # None /\ N \in Nat
  BY DEF Placed, Positions
<1>2. ASSUME NEW r \in Rows, NEW s \in Rows, NEW n, There(r, n), There(s, n) PROVE r = s
  BY <1>1, <1>2 DEF Placed
<1>3. ASSUME NEW r, NEW n \in Nat, There(r, n)
      PROVE  \/ R[r].next = None /\ Nobody(n + 1)
             \/ There(R[r].next, n + 1)
  <2>1. R[r].next \in Slices \cup {None}
    BY <1>3 DEF Tidy, Row
  <2>2. \A s \in Rows : R[r].next = s <=> There(s, n + 1)
    BY <1>1, <1>3 DEF Placed
  <2> QED
    BY <2>1, <2>2
<1>4. ASSUME NEW n \in Nat, Nobody(n) PROVE Nobody(n + 1)
  <2> SUFFICES ASSUME NEW s \in Rows, There(s, n + 1) PROVE FALSE
    OBVIOUS
  <2>1. PICK u \in Rows : own[u] = own[s] /\ depth[u] + 1 = depth[s]
    BY <1>1 DEF Placed
  <2>2. depth[u] = n
    BY <2>1 DEF Placed, Positions
  <2> QED
    BY <1>4, <2>1, <2>2
<1>5. Is(g)
  <2> SUFFICES ASSUME NEW n \in 0 .. N
               PROVE  g[n] = IF n = 0 THEN b ELSE IF g[n - 1] = None THEN None ELSE R[g[n - 1]].next
    <3>1. g = [n \in 0 .. N |-> g[n]]
      OBVIOUS
    <3> HIDE DEF g
    <3> QED
      BY <3>1
  <2>1. CASE n = 0
    BY <1>1, <1>2, <2>1
  <2>2. CASE n # 0 /\ Nobody(n - 1)
    BY <1>1, <1>4, <2>2
  <2>3. CASE n # 0 /\ ~Nobody(n - 1)
    <3>1. n - 1 \in 0 .. N /\ n - 1 \in Nat /\ (n - 1) + 1 = n
      BY <1>1, <2>3
    <3>2. There(g[n - 1], n - 1) /\ g[n - 1] # None
      BY <2>3, <3>1
    <3>3. \/ R[g[n - 1]].next = None /\ Nobody(n)
          \/ There(R[g[n - 1]].next, n)
      BY <1>3, <3>1, <3>2
    <3>4. There(R[g[n - 1]].next, n) => g[n] = R[g[n - 1]].next
      BY <1>2
    <3> QED
      BY <2>3, <3>2, <3>3, <3>4
  <2> QED
    BY <2>1, <2>2, <2>3
<1>6. Is(f)
  <2>1. f = CHOOSE h : Is(h)
    BY DEF ChainOf
  <2> HIDE DEF Is, f, g
  <2> QED
    BY <1>5, <2>1
<1>7. \A n \in 0 .. N : There(f[n], n) \/ (f[n] = None /\ Nobody(n))
  <2> DEFINE T == {n \in 0 .. N : ~(There(f[n], n) \/ (f[n] = None /\ Nobody(n)))}
  <2> HIDE DEF f, Nobody
  <2> SUFFICES ASSUME T # {} PROVE FALSE
    OBVIOUS
  <2>1. PICK n \in T : \A m \in T : n <= m
    <3>1. T \in SUBSET Nat
      BY <1>1
    <3> HIDE DEF T
    <3> QED
      BY <3>1, LeastNat
  <2>2. n # 0
    BY <1>1, <1>6, <2>1
  <2>3. n - 1 \in 0 .. N /\ n - 1 \in Nat /\ (n - 1) + 1 = n /\ n - 1 \notin T
    BY <1>1, <2>1, <2>2
  <2>4. f[n] = IF f[n - 1] = None THEN None ELSE R[f[n - 1]].next
    BY <1>6, <2>1, <2>2
  <2>5. CASE There(f[n - 1], n - 1)
    <3>1. f[n - 1] # None
      BY <2>5
    <3>2. \/ R[f[n - 1]].next = None /\ Nobody(n)
          \/ There(R[f[n - 1]].next, n)
      BY <1>3, <2>3, <2>5
    <3> HIDE DEF There
    <3> QED
      BY <2>1, <2>4, <3>1, <3>2
  <2>6. CASE f[n - 1] = None /\ Nobody(n - 1)
    <3>1. Nobody(n)
      BY <1>4, <2>3, <2>6
    <3> QED
      BY <2>1, <2>4, <2>6, <3>1
  <2> QED
    BY <2>3, <2>5, <2>6
<1>8. DOMAIN f = 0 .. N
  BY <1>6
<1> HIDE DEF f
<1>9. ASSUME NEW r, r \in RowsOf(R, b) PROVE r \in Rows /\ own[r] = b
  BY <1>7, <1>8, <1>9 DEF RowsOf, Range, f
<1>10. ASSUME NEW r \in Rows, own[r] = b PROVE r \in RowsOf(R, b)
  <2>1. depth[r] \in 0 .. N
    <3>1. depth[r] <= N
      BY <1>1, <1>10, Bounded
    <3>2. depth[r] \in Nat
      BY DEF Placed, Positions
    <3> QED
      BY <1>1, <3>1, <3>2
  <2>2. There(f[depth[r]], depth[r])
    BY <1>7, <1>10, <2>1
  <2>3. f[depth[r]] = r
    BY <1>2, <1>10, <2>2
  <2> QED
    BY <1>8, <2>1, <2>3 DEF RowsOf, Range, f
<1> QED
  BY <1>9, <1>10

\* The chain has a last row.
LEMMA EndPlaced ==
    ASSUME NEW R, NEW B, NEW own, NEW depth, Tidy(R, B), Placed(R, B, own, depth), NEW b \in Buckets
    PROVE  \E r \in Rows : own[r] = b /\ R[r].next = None
<1> DEFINE N == Cardinality(Slices)
           S == {r \in Rows : own[r] = b}
           T == {N - depth[r] : r \in S}
<1>1. b \in S /\ b # None
  BY Sizes DEF Placed, Positions
<1>2. ASSUME NEW r \in S PROVE N - depth[r] \in Nat /\ depth[r] \in Nat
  <2>1. depth[r] <= N
    BY <1>1, Bounded
  <2>2. depth[r] \in Nat
    BY DEF Placed, Positions
  <2> QED
    BY <2>1, <2>2, Sizes
<1>3. PICK x \in T : \A y \in T : x <= y
  <2>1. T \in SUBSET Nat /\ T # {}
    BY <1>1, <1>2
  <2> HIDE DEF T
  <2> QED
    BY <2>1, LeastNat
<1>4. PICK r \in S : x = N - depth[r]
  BY <1>3
<1>5. R[r].next \in Slices \cup {None}
  BY <1>4 DEF Tidy, Row
<1>6. CASE R[r].next # None
  <2> DEFINE s == R[r].next
  <2>1. s \in Rows /\ own[s] = own[r] /\ depth[s] = depth[r] + 1
    BY <1>1, <1>4, <1>5, <1>6, Sizes DEF Placed
  <2>2. s \in S /\ N - depth[s] < N - depth[r]
    BY <1>2, <1>4, <2>1, Sizes
  <2>3. N - depth[s] \in T
    BY <2>2
  <2>4. N - depth[s] \in Nat /\ N - depth[r] \in Nat
    BY <1>2, <1>4, <2>2
  <2> HIDE DEF N, T
  <2> QED
    BY <1>3, <1>4, <2>2, <2>3, <2>4
<1> QED
  BY <1>4, <1>6

(***************************************************************************)
(* What a search finds.                                                    *)
(***************************************************************************)
\* With keys of one length a row matches the key it has, and no other.
LEMMA MatchFacts ==
    ASSUME OneLength, NEW B, Tidy(rows, B), NEW k \in Keys, NEW r \in Rows
    PROVE  /\ Matches(k, r) <=> rows[r].key = k
           /\ rows[r].key = k => rows[r].active
<1>1. PICK n \in Nat \ {0} : Keys \subseteq [1 .. n -> Chars]
  BY DEF OneLength
<1>2. \A x \in Keys : x \in Seq(Chars) /\ Len(x) = n /\ DOMAIN x = 1 .. n
  <2> SUFFICES ASSUME NEW x \in Keys PROVE x \in Seq(Chars) /\ Len(x) = n /\ DOMAIN x = 1 .. n
    OBVIOUS
  <2>1. x \in [1 .. n -> Chars]
    BY <1>1
  <2>2. x \in Seq(Chars)
    BY <1>1, <2>1, IsASeq
  <2> QED
    BY <1>1, <2>1, <2>2, LenProperties
<1>3. CASE rows[r].active
  <2>1. rows[r].key \in Keys
    BY <1>3 DEF Tidy
  <2>2. SubSeq(rows[r].key, 1, n) = rows[r].key
    <3>1. rows[r].key \in Seq(Chars) /\ Len(rows[r].key) = n
      BY <1>2, <2>1
    <3> QED
      BY <3>1, SubSeqFull
  <2> QED
    BY <1>2, <1>3, <2>1, <2>2 DEF Matches
<1>4. CASE ~rows[r].active
  <2>1. rows[r].key = << >>
    BY <1>4 DEF Tidy, Empty
  <2>2. Len(<< >>) = 0 /\ k # << >> /\ ~(Len(k) <= 0)
    BY <1>1, <1>2, EmptySeq
  <2> QED
    BY <2>1, <2>2 DEF Matches
<1> QED
  BY <1>3, <1>4

LEMMA RowOfFacts ==
    ASSUME OneLength, NEW own, NEW depth, Tidy(rows, busy), Placed(rows, busy, own, depth),
           NEW b \in Buckets, NEW k \in Keys
    PROVE  \/ /\ RowOf(b, k) = None
              /\ \A r \in Rows : own[r] = b => rows[r].key # k
           \/ /\ RowOf(b, k) \in Rows /\ own[RowOf(b, k)] = b
              /\ rows[RowOf(b, k)].key = k /\ rows[RowOf(b, k)].active
<1> DEFINE Is(f) == f = [r \in Rows |-> IF Matches(k, r) THEN r
                                        ELSE IF rows[r].next = None THEN None ELSE f[rows[r].next]]
           Behind(r, s) == s \in Rows /\ own[s] = own[r] /\ depth[s] >= depth[r] /\ rows[s].key = k
           g == [r \in Rows |-> IF own[r] # None /\ (\E s \in Rows : Behind(r, s))
                                THEN CHOOSE s \in Rows : Behind(r, s) ELSE None]
           Right(v, r) == (v = None /\ \A s : ~Behind(r, s)) \/ Behind(r, v)
<1> USE Sizes
<1>1. \A r \in Rows : (Matches(k, r) <=> rows[r].key = k) /\ (rows[r].key = k => rows[r].active)
  BY MatchFacts
<1>2. \A r \in Rows : depth[r] \in Nat
  BY DEF Placed, Positions
<1>3. ASSUME NEW r \in Rows, own[r] # None, NEW s, NEW u, Behind(r, s), Behind(r, u) PROVE s = u
  BY <1>3 DEF Placed
<1>4. ASSUME NEW r \in Rows, own[r] # None, rows[r].next = None, NEW s, Behind(r, s) PROVE s = r
  <2>1. CASE depth[s] = depth[r]
    BY <1>4, <2>1 DEF Placed
  <2>2. CASE depth[s] # depth[r]
    <3>1. depth[r] + 1 \in Nat /\ depth[r] + 1 <= depth[s] /\ own[s] # None
      BY <1>2, <1>4, <2>2
    <3>2. PICK u \in Rows : own[u] = own[s] /\ depth[u] = depth[r] + 1
      BY <1>4, <3>1, Below
    <3>3. rows[r].next = u
      BY <1>4, <3>2 DEF Placed
    <3> QED
      BY <1>4, <3>3
  <2> QED
    BY <2>1, <2>2
<1>5. ASSUME NEW r \in Rows, own[r] # None, rows[r].next # None
      PROVE  /\ rows[r].next \in Rows /\ own[rows[r].next] = own[r] /\ depth[rows[r].next] = depth[r] + 1
             /\ \A s : Behind(r, s) <=> Behind(rows[r].next, s) \/ (s = r /\ rows[r].key = k)
  <2>1. rows[r].next \in Slices
    BY <1>5 DEF Tidy, Row
  <2>2. rows[r].next \in Rows /\ own[rows[r].next] = own[r] /\ depth[rows[r].next] = depth[r] + 1
    BY <1>5, <2>1 DEF Placed
  <2>3. \A s \in Rows : own[s] = own[r] /\ depth[s] = depth[r] => s = r
    BY <1>5 DEF Placed
  <2> QED
    BY <1>2, <2>2, <2>3
<1>6. ASSUME NEW r \in Rows, own[r] = None PROVE rows[r].next = None /\ rows[r].key # k
  <2>1. r \in Slices /\ ~rows[r].active
    BY <1>6 DEF Placed, Positions, Tidy
  <2> QED
    BY <1>1, <2>1 DEF Tidy, Empty
<1>7. Is(g)
  <2> SUFFICES ASSUME NEW r \in Rows
               PROVE  g[r] = IF Matches(k, r) THEN r
                             ELSE IF rows[r].next = None THEN None ELSE g[rows[r].next]
    <3>1. g = [r \in Rows |-> g[r]]
      OBVIOUS
    <3> HIDE DEF g
    <3> QED
      BY <3>1
  <2>1. CASE own[r] = None
    BY <1>1, <1>6, <2>1
  <2>2. CASE own[r] # None /\ rows[r].key = k
    <3>1. Behind(r, r)
      BY <1>2, <2>2
    <3>2. g[r] = r
      <4>1. g[r] = CHOOSE s \in Rows : Behind(r, s)
        BY <2>2, <3>1
      <4>2. Behind(r, g[r])
        BY <3>1, <4>1
      <4> HIDE DEF g, Behind
      <4> QED
        BY <1>3, <2>2, <3>1, <4>2
    <3> QED
      BY <1>1, <2>2, <3>2
  <2>3. CASE own[r] # None /\ rows[r].key # k /\ rows[r].next = None
    <3>1. \A s : ~Behind(r, s)
      BY <1>4, <2>3
    <3> QED
      BY <1>1, <2>3, <3>1
  <2>4. CASE own[r] # None /\ rows[r].key # k /\ rows[r].next # None
    <3>1. \A s : Behind(r, s) <=> Behind(rows[r].next, s)
      BY <1>5, <2>4
    <3>2. rows[r].next \in Rows /\ own[rows[r].next] # None
      BY <1>5, <2>4
    <3> HIDE DEF Behind
    <3> QED
      BY <1>1, <2>4, <3>1, <3>2
  <2> QED
    BY <2>1, <2>2, <2>3, <2>4
<1>8. PICK f : Is(f) /\ RowOf(b, k) = f[b]
  <2>1. RowOf(b, k) = (CHOOSE f : Is(f))[b]
    BY DEF RowOf
  <2> HIDE DEF Is, g
  <2> QED
    BY <1>7, <2>1
<1>9. ASSUME NEW r \in Rows
      PROVE  f[r] = IF rows[r].key = k THEN r ELSE IF rows[r].next = None THEN None ELSE f[rows[r].next]
  BY <1>1, <1>8
<1> HIDE DEF Is, g
<1>10. Right(f[b], b)
  <2> DEFINE N == Cardinality(Slices)
             S == {r \in Rows : own[r] = b /\ ~Right(f[r], r)}
             T == {N - depth[r] : r \in S}
  <2>1. own[b] = b /\ b # None /\ b \in Rows
    BY DEF Placed, Positions
  <2> SUFFICES ASSUME S # {} PROVE FALSE
    BY <2>1
  <2>2. ASSUME NEW r \in Rows, own[r] = b PROVE N - depth[r] \in Nat
    <3>1. depth[r] <= N
      BY <2>1, <2>2, Bounded
    <3> QED
      BY <1>2, <3>1
  <2>3. PICK x \in T : \A y \in T : x <= y
    <3>1. T \in SUBSET Nat /\ T # {}
      BY <2>2
    <3> HIDE DEF T
    <3> QED
      BY <3>1, LeastNat
  <2>4. PICK r \in S : x = N - depth[r]
    BY <2>3
  <2>5. CASE rows[r].key = k
    <3>1. f[r] = r
      BY <1>9, <2>4, <2>5
    <3>2. Behind(r, r)
      BY <1>2, <2>4, <2>5
    <3> QED
      BY <2>4, <3>1, <3>2
  <2>6. CASE rows[r].key # k /\ rows[r].next = None
    <3>1. f[r] = None /\ \A s : ~Behind(r, s)
      BY <1>4, <1>9, <2>1, <2>4, <2>6
    <3> QED
      BY <2>4, <3>1
  <2>7. CASE rows[r].key # k /\ rows[r].next # None
    <3> DEFINE u == rows[r].next
    <3>1. u \in Rows /\ own[u] = b /\ depth[u] = depth[r] + 1 /\ \A s : Behind(r, s) <=> Behind(u, s)
      BY <1>5, <2>1, <2>4, <2>7
    <3>2. f[r] = f[u]
      BY <1>9, <2>4, <2>7
    <3>3. ~Right(f[u], u)
      <4> HIDE DEF Behind, u
      <4> QED
        BY <2>4, <3>1, <3>2
    <3>4. N - depth[u] \in T
      BY <3>1, <3>3
    <3>5. N - depth[u] \in Nat /\ N - depth[r] \in Nat /\ depth[r] \in Nat /\ N - depth[u] < N - depth[r]
      BY <1>2, <2>2, <2>4, <3>1
    <3> HIDE DEF T, u
    <3> QED
      BY <2>3, <2>4, <3>4, <3>5
  <2> QED
    BY <2>5, <2>6, <2>7
<1>11. own[b] = b /\ depth[b] = 0 /\ b \in Rows
  BY DEF Placed, Positions
<1> QED
  BY <1>1, <1>2, <1>8, <1>10, <1>11

\* Only one row stands before another.
LEMMA OnePrevious ==
    ASSUME NEW R, NEW B, NEW own, NEW depth, Tidy(R, B), Placed(R, B, own, depth),
           NEW t \in Slices, own[t] # None
    PROVE  LET q == CHOOSE r \in Rows : R[r].next = t
           IN  q \in Rows /\ R[q].next = t /\ own[q] = own[t]
<1> DEFINE q == CHOOSE r \in Rows : R[r].next = t
<1>1. PICK s \in Rows : own[s] = own[t] /\ depth[s] + 1 = depth[t]
  BY Sizes DEF Placed, Positions
<1>2. R[s].next = t
  BY <1>1, Sizes DEF Placed, Positions
<1>3. q \in Rows /\ R[q].next = t
  BY <1>2
<1> HIDE DEF q
<1>4. own[q] # None
  <2> SUFFICES ASSUME own[q] = None PROVE FALSE
    OBVIOUS
  <2>1. ~R[q].active
    BY <1>3, Sizes DEF Placed, Positions, Tidy
  <2>2. R[q].next = None
    BY <1>3, <2>1 DEF Tidy, Empty
  <2> QED
    BY <1>3, <2>2, Sizes
<1>5. own[t] = own[q]
  BY <1>3, <1>4, Sizes DEF Placed
<1> QED
  BY <1>3, <1>5 DEF q

(***************************************************************************)
(* What is done to the rows.                                               *)
(***************************************************************************)
\* A row is changed in its place: its key may be, for one its bucket has not.
LEMMA RowEdited ==
    ASSUME NEW R, NEW B, NEW own, NEW depth, Tidy(R, B), Placed(R, B, own, depth),
           NEW a \in Rows, own[a] # None, NEW v \in Row, v.next = R[a].next,
           v.active => v.key \in Keys, ~v.active => v = Empty, a \in Slices => v.active,
           \A r \in Rows : own[r] = own[a] /\ r # a => R[r].key # v.key,
           NEW S, S = [R EXCEPT ![a] = v]
    PROVE  Tidy(S, B) /\ Placed(S, B, own, depth)
<1>1. /\ S \in [Rows -> Row] /\ S[a] = v /\ \A r \in Rows : S[r].next = R[r].next
      /\ \A r \in Rows : r # a => S[r] = R[r]
  BY DEF Tidy
<1>2. Tidy(S, B)
  BY <1>1 DEF Tidy, Placed, Positions
<1>3. \A r, s \in Rows : own[r] = own[s] /\ own[r] # None /\ S[r].key = S[s].key => r = s
  BY <1>1 DEF Placed
<1> QED
  BY <1>1, <1>2, <1>3 DEF Placed

\* A slice is linked behind the last row of a chain.
LEMMA RowAdded ==
    ASSUME NEW R, NEW B, NEW own, NEW depth, Tidy(R, B), Placed(R, B, own, depth),
           NEW e \in Rows, own[e] # None, R[e].next = None, R[e].active,
           NEW a \in Slices, a \notin B, NEW v \in Row, v.active, v.next = None, v.key \in Keys,
           \A r \in Rows : own[r] = own[e] => R[r].key # v.key,
           NEW S, S = [R EXCEPT ![a] = v, ![e].next = a]
    PROVE  /\ Tidy(S, B \cup {a})
           /\ Placed(S, B \cup {a}, [own EXCEPT ![a] = own[e]], [depth EXCEPT ![a] = depth[e] + 1])
<1> DEFINE own2 == [own EXCEPT ![a] = own[e]]
           depth2 == [depth EXCEPT ![a] = depth[e] + 1]
<1> USE Sizes
<1>1. own \in [Rows -> Buckets \cup {None}] /\ depth \in [Rows -> Nat] /\ own[a] = None /\ a # e /\ a \in Rows
  BY DEF Placed, Positions
<1>2. /\ own2 \in [Rows -> Buckets \cup {None}] /\ depth2 \in [Rows -> Nat]
      /\ own2[a] = own[e] /\ depth2[a] = depth[e] + 1
      /\ \A r \in Rows : r # a => own2[r] = own[r] /\ depth2[r] = depth[r]
  BY <1>1
<1>3. /\ S[a] = v /\ S[e] = [R[e] EXCEPT !.next = a] /\ S \in [Rows -> Row]
      /\ \A r \in Rows : r # a /\ r # e => S[r] = R[r]
  <2>1. R \in [Rows -> Row] /\ R[e] \in Row
    BY DEF Tidy
  <2>2. [R[e] EXCEPT !.next = a] \in Row
    BY <2>1 DEF Row
  <2>3. S = [[R EXCEPT ![a] = v] EXCEPT ![e] = [R[e] EXCEPT !.next = a]]
    BY <1>1, <2>1
  <2> QED
    BY <1>1, <2>1, <2>2, <2>3
<1>4. S[e].next = a /\ S[e].key = R[e].key /\ S[e].active = R[e].active
  <2>1. ASSUME NEW w \in Row, NEW u, u = [w EXCEPT !.next = a]
        PROVE  u.next = a /\ u.key = w.key /\ u.active = w.active
    BY <2>1 DEF Row
  <2>2. R[e] \in Row
    BY DEF Tidy
  <2> QED
    BY <1>3, <2>1, <2>2
<1> HIDE DEF own2, depth2
<1>5. Tidy(S, B \cup {a})
  <2>1. \A r \in Rows : r # a => S[r].active = R[r].active /\ S[r].key = R[r].key
    BY <1>3, <1>4
  <2>2. \A r \in Rows : r # a /\ ~R[r].active => S[r] = R[r]
    BY <1>3
  <2> QED
    BY <1>1, <1>3, <2>1, <2>2 DEF Tidy
<1>6. Positions(B \cup {a}, own2, depth2)
  BY <1>1, <1>2 DEF Placed, Positions
<1>7. ASSUME NEW s \in Rows, own[s] = own[e] PROVE depth[s] <= depth[e]
  <2> SUFFICES ASSUME depth[s] > depth[e] PROVE FALSE
    BY <1>1
  <2>1. depth[e] + 1 \in Nat /\ depth[e] + 1 <= depth[s] /\ own[s] # None
    BY <1>1, <1>7
  <2>2. PICK u \in Rows : own[u] = own[s] /\ depth[u] = depth[e] + 1
    BY <2>1, Below
  <2>3. R[e].next = u
    BY <1>7, <2>2 DEF Placed
  <2> QED
    BY <2>3
<1>8. \A r, s \in Rows : own2[r] = own2[s] /\ own2[r] # None /\ depth2[r] = depth2[s] => r = s
  <2> SUFFICES ASSUME NEW r \in Rows, NEW s \in Rows, own2[r] = own2[s], own2[r] # None, depth2[r] = depth2[s]
               PROVE  r = s
    OBVIOUS
  <2>1. CASE r # a /\ s # a
    BY <1>2, <2>1 DEF Placed
  <2>2. CASE r # a /\ s = a
    <3>1. own[r] = own[e] /\ depth[r] = depth[e] + 1
      BY <1>2, <2>2
    <3>2. depth[r] <= depth[e] /\ depth[e] \in Nat
      BY <1>1, <1>7, <3>1
    <3> QED
      BY <3>1, <3>2
  <2>3. CASE r = a /\ s # a
    <3>1. own[s] = own[e] /\ depth[s] = depth[e] + 1
      BY <1>2, <2>3
    <3>2. depth[s] <= depth[e] /\ depth[e] \in Nat
      BY <1>1, <1>7, <3>1
    <3> QED
      BY <3>1, <3>2
  <2> QED
    BY <2>1, <2>2, <2>3
<1>9. \A r, s \in Rows : own2[r] = own2[s] /\ own2[r] # None /\ S[r].key = S[s].key => r = s
  <2> SUFFICES ASSUME NEW r \in Rows, NEW s \in Rows, own2[r] = own2[s], own2[r] # None, S[r].key = S[s].key
               PROVE  r = s
    OBVIOUS
  <2>1. \A x \in Rows : x # a => S[x].key = R[x].key
    BY <1>3, <1>4
  <2>2. CASE r # a /\ s # a
    <3>1. own[r] = own[s] /\ own[r] # None /\ R[r].key = R[s].key
      BY <1>2, <2>1, <2>2
    <3> QED
      BY <3>1 DEF Placed
  <2>3. CASE r # a /\ s = a
    BY <1>2, <1>3, <2>1, <2>3
  <2>4. CASE r = a /\ s # a
    BY <1>2, <1>3, <2>1, <2>4
  <2> QED
    BY <2>2, <2>3, <2>4
<1>10. \A r, s \in Rows : own2[r] # None => (S[r].next = s <=> own2[s] = own2[r] /\ depth2[s] = depth2[r] + 1)
  <2> SUFFICES ASSUME NEW r \in Rows, NEW s \in Rows, own2[r] # None
               PROVE  S[r].next = s <=> own2[s] = own2[r] /\ depth2[s] = depth2[r] + 1
    OBVIOUS
  <2>1. CASE r = a
    <3>1. s # a /\ own[s] = own[e] => depth[s] <= depth[e]
      BY <1>7
    <3>2. depth[s] \in Nat /\ depth[e] \in Nat
      BY <1>1
    <3>3. S[r].next = None /\ own2[r] = own[e] /\ depth2[r] = depth[e] + 1
      BY <1>2, <1>3, <2>1
    <3>4. CASE s = a
      BY <2>1, <3>2, <3>3, <3>4
    <3>5. CASE s # a
      <4>1. own2[s] = own[s] /\ depth2[s] = depth[s]
        BY <1>2, <3>5
      <4> QED
        BY <3>1, <3>2, <3>3, <3>5, <4>1
    <3> QED
      BY <3>4, <3>5
  <2>2. CASE r # a /\ s = a
    <3>1. r # e => R[r].next # a
      BY <1>1, <1>2, <2>2 DEF Placed
    <3>2. own[r] = own[e] /\ depth[r] = depth[e] => r = e
      BY <1>2, <2>2 DEF Placed
    <3>3. depth[r] \in Nat /\ depth[e] \in Nat
      BY <1>1
    <3>4. S[r].next = a <=> r = e
      BY <1>3, <1>4, <2>2, <3>1
    <3>5. own2[r] = own[r] /\ depth2[r] = depth[r] /\ own2[s] = own[e] /\ depth2[s] = depth[e] + 1
      BY <1>2, <2>2
    <3> QED
      BY <2>2, <3>2, <3>3, <3>4, <3>5
  <2>3. CASE r # a /\ s # a /\ r # e
    BY <1>2, <1>3, <2>3 DEF Placed
  <2>4. CASE r = e /\ s # a
    <3>1. own[s] = own[e] => depth[s] <= depth[e]
      BY <1>7
    <3>2. depth[s] \in Nat /\ depth[e] \in Nat
      BY <1>1
    <3> QED
      BY <1>1, <1>2, <1>4, <2>4, <3>1, <3>2
  <2> QED
    BY <2>1, <2>2, <2>3, <2>4
<1>11. \A r \in Rows : own2[r] # None /\ depth2[r] > 0 => \E s \in Rows : own2[s] = own2[r] /\ depth2[s] + 1 = depth2[r]
  <2> SUFFICES ASSUME NEW r \in Rows, own2[r] # None, depth2[r] > 0
               PROVE  \E s \in Rows : own2[s] = own2[r] /\ depth2[s] + 1 = depth2[r]
    OBVIOUS
  <2>1. CASE r = a
    BY <1>1, <1>2, <2>1
  <2>2. CASE r # a
    <3>1. PICK s \in Rows : own[s] = own[r] /\ depth[s] + 1 = depth[r]
      BY <1>2, <2>2 DEF Placed
    <3> QED
      BY <1>1, <1>2, <2>2, <3>1
  <2> QED
    BY <2>1, <2>2
<1>12. Placed(S, B \cup {a}, own2, depth2)
  BY <1>6, <1>8, <1>9, <1>10, <1>11 DEF Placed
<1> QED
  BY <1>5, <1>12 DEF own2, depth2

\* A slice is unlinked from behind a row, which may take its key.
Shallower(own, depth, t) ==
    [r \in Rows |-> IF own[r] = own[t] /\ depth[r] > depth[t] THEN depth[r] - 1 ELSE depth[r]]

Without(own, t) == [own EXCEPT ![t] = None]

Cut(R, q, v, t) == [R EXCEPT ![q] = v, ![t] = Empty]

LEMMA RowCut ==
    ASSUME NEW R, NEW B, NEW own, NEW depth, Tidy(R, B), Placed(R, B, own, depth),
           NEW q \in Rows, own[q] # None, NEW t \in Slices, R[q].next = t,
           NEW v \in Row, v.active, v.next = R[t].next, v.key \in {R[q].key, R[t].key}, v.key \in Keys,
           Empty \in Row
    PROVE  /\ t \in B /\ own[t] = own[q]
           /\ Tidy(Cut(R, q, v, t), B \ {t})
           /\ Placed(Cut(R, q, v, t), B \ {t}, Without(own, t), Shallower(own, depth, t))
<1> DEFINE own2 == Without(own, t)
           depth2 == Shallower(own, depth, t)
           S == Cut(R, q, v, t)
<1> USE Sizes
<1>1. own \in [Rows -> Buckets \cup {None}] /\ depth \in [Rows -> Nat] /\ t \in Rows
  BY DEF Placed, Positions
<1>2. own[t] = own[q] /\ depth[t] = depth[q] + 1 /\ q # t
  BY <1>1 DEF Placed
<1>3. t \in B
  BY <1>2 DEF Placed, Positions
<1>4. ASSUME NEW r \in Rows
      PROVE  /\ own2[r] = IF r = t THEN None ELSE own[r]
             /\ depth2[r] = IF own[r] = own[t] /\ depth[r] > depth[t] THEN depth[r] - 1 ELSE depth[r]
             /\ depth2[r] \in Nat /\ own2[r] \in Buckets \cup {None}
  BY <1>1 DEF Shallower, Without
<1>5. own2 \in [Rows -> Buckets \cup {None}] /\ depth2 \in [Rows -> Nat]
  <2>1. DOMAIN own2 = Rows /\ own2 = [r \in Rows |-> own2[r]] /\ depth2 = [r \in Rows |-> depth2[r]]
    BY <1>1 DEF Shallower, Without
  <2> HIDE DEF own2, depth2
  <2> QED
    BY <1>4, <2>1
<1> HIDE DEF own2, depth2
<1>6. S \in [Rows -> Row] /\ S[q] = v /\ S[t] = Empty /\ \A r \in Rows : r # q /\ r # t => S[r] = R[r]
  BY <1>1, <1>2 DEF Tidy, Cut
<1> HIDE DEF S
<1>7. Tidy(S, B \ {t})
  <2>1. Empty.active = FALSE
    BY DEF Empty
  <2>2. q \in Slices => q \in B
    BY DEF Placed, Positions
  <2> QED
    BY <1>2, <1>6, <2>1, <2>2 DEF Tidy
<1>8. Positions(B \ {t}, own2, depth2)
  <2>1. ASSUME NEW r \in Slices, r \in B, r # t PROVE depth2[r] > 0
    <3>1. depth[r] \in Nat /\ depth[t] \in Nat /\ depth[r] > 0
      BY <1>1, <2>1 DEF Placed, Positions
    <3>2. depth[t] > 0
      BY <1>3 DEF Placed, Positions
    <3> QED
      BY <1>4, <3>1, <3>2
  <2>2. \A b \in Buckets : own2[b] = b /\ depth2[b] = 0
    <3>1. \A b \in Buckets : own[b] = b /\ depth[b] = 0
      BY DEF Placed, Positions
    <3>2. depth[t] \in Nat
      BY <1>1
    <3> QED
      BY <1>4, <3>1, <3>2
  <2>3. \A r \in Slices : own2[r] # None <=> r \in B \ {t}
    BY <1>4 DEF Placed, Positions
  <2> QED
    BY <1>5, <2>1, <2>2, <2>3 DEF Positions
<1>9. ASSUME NEW r \in Rows, own[r] = own[t], r # t PROVE depth[r] # depth[t]
  BY <1>2, <1>9 DEF Placed
<1>10. \A r, s \in Rows : own2[r] = own2[s] /\ own2[r] # None /\ depth2[r] = depth2[s] => r = s
  <2> SUFFICES ASSUME NEW r \in Rows, NEW s \in Rows, own2[r] = own2[s], own2[r] # None, depth2[r] = depth2[s]
               PROVE  r = s
    OBVIOUS
  <2>1. r # t /\ s # t /\ own[r] = own[s] /\ own[r] # None
    BY <1>4
  <2>2. depth[r] \in Nat /\ depth[s] \in Nat /\ depth[t] \in Nat
    BY <1>1
  <2>3. own[r] = own[t] => depth[r] # depth[t] /\ depth[s] # depth[t]
    BY <1>9, <2>1
  <2>4. depth[r] = depth[s]
    BY <1>4, <2>1, <2>2, <2>3
  <2> QED
    BY <2>1, <2>4 DEF Placed
<1>11. \A r, s \in Rows : own2[r] = own2[s] /\ own2[r] # None /\ S[r].key = S[s].key => r = s
  <2> SUFFICES ASSUME NEW r \in Rows, NEW s \in Rows, own2[r] = own2[s], own2[r] # None, S[r].key = S[s].key
               PROVE  r = s
    OBVIOUS
  <2>1. r # t /\ s # t /\ own[r] = own[s] /\ own[r] # None
    BY <1>4
  <2>2. \A x, y \in Rows : own[x] = own[y] /\ own[x] # None /\ R[x].key = R[y].key => x = y
    BY DEF Placed
  <2>3. CASE r # q /\ s # q
    BY <1>6, <2>1, <2>2, <2>3
  <2>4. CASE r = q /\ s # q
    BY <1>1, <1>2, <1>6, <2>1, <2>2, <2>4
  <2>5. CASE r # q /\ s = q
    BY <1>1, <1>2, <1>6, <2>1, <2>2, <2>5
  <2> QED
    BY <2>3, <2>4, <2>5
<1>12. \A r, s \in Rows : own2[r] # None => (S[r].next = s <=> own2[s] = own2[r] /\ depth2[s] = depth2[r] + 1)
  <2> SUFFICES ASSUME NEW r \in Rows, NEW s \in Rows, own2[r] # None
               PROVE  S[r].next = s <=> own2[s] = own2[r] /\ depth2[s] = depth2[r] + 1
    OBVIOUS
  <2>1. r # t /\ own[r] # None /\ own2[r] = own[r]
    BY <1>4
  <2>2. depth[r] \in Nat /\ depth[s] \in Nat /\ depth[t] \in Nat /\ depth[q] \in Nat
    BY <1>1
  <2>3. own[r] = own[t] => depth[r] # depth[t]
    BY <1>9, <2>1
  <2>4. \A x, y \in Rows : own[x] # None => (R[x].next = y <=> own[y] = own[x] /\ depth[y] = depth[x] + 1)
    BY DEF Placed
  <2>5. CASE r = q
    <3>1. S[r].next = s <=> own[s] = own[t] /\ depth[s] = depth[t] + 1
      BY <1>1, <1>2, <1>6, <2>4, <2>5
    <3>2. depth2[r] = depth[q]
      BY <1>2, <1>4, <2>2, <2>5
    <3>3. own2[s] = own[r] <=> s # t /\ own[s] = own[t]
      BY <1>2, <1>4, <2>1, <2>5
    <3>4. s # t /\ own[s] = own[t] => depth[s] # depth[t]
      BY <1>9
    <3>5. depth2[s] = IF own[s] = own[t] /\ depth[s] > depth[t] THEN depth[s] - 1 ELSE depth[s]
      BY <1>4
    <3> QED
      BY <1>2, <2>1, <2>2, <3>1, <3>2, <3>3, <3>4, <3>5
  <2>6. CASE r # q /\ s = t
    <3>1. R[r].next # t
      <4> SUFFICES ASSUME R[r].next = t PROVE FALSE
        OBVIOUS
      <4>1. own[t] = own[r] /\ depth[t] = depth[r] + 1
        BY <1>1, <2>1, <2>4
      <4>2. depth[r] = depth[q] /\ own[r] = own[q]
        BY <1>2, <2>2, <4>1
      <4> QED
        BY <2>1, <2>6, <4>2 DEF Placed
    <3>2. own2[s] = None
      BY <1>4, <2>6
    <3> QED
      BY <1>6, <2>1, <2>6, <3>1, <3>2
  <2>7. CASE r # q /\ s # t
    <3>1. S[r].next = s <=> own[s] = own[r] /\ depth[s] = depth[r] + 1
      BY <1>6, <2>1, <2>4, <2>7
    <3>2. own2[s] = own[s]
      BY <1>4, <2>7
    <3>3. own[s] = own[t] => depth[s] # depth[t]
      BY <1>9, <2>7
    <3>4. own[r] = own[t] => depth[r] # depth[q]
      BY <1>2, <2>1, <2>7 DEF Placed
    <3>5. /\ depth2[s] = IF own[s] = own[t] /\ depth[s] > depth[t] THEN depth[s] - 1 ELSE depth[s]
          /\ depth2[r] = IF own[r] = own[t] /\ depth[r] > depth[t] THEN depth[r] - 1 ELSE depth[r]
      BY <1>4
    <3>6. CASE own[s] # own[r]
      BY <2>1, <3>1, <3>2, <3>6
    <3>7. CASE own[s] = own[r] /\ own[r] # own[t]
      BY <2>1, <3>1, <3>2, <3>5, <3>7
    <3>8. CASE own[s] = own[r] /\ own[r] = own[t]
      BY <1>2, <2>1, <2>2, <2>3, <3>1, <3>2, <3>3, <3>4, <3>5, <3>8
    <3> QED
      BY <3>6, <3>7, <3>8
  <2> QED
    BY <2>5, <2>6, <2>7
<1>13. \A r \in Rows : own2[r] # None /\ depth2[r] > 0 => \E s \in Rows : own2[s] = own2[r] /\ depth2[s] + 1 = depth2[r]
  <2> SUFFICES ASSUME NEW r \in Rows, own2[r] # None, depth2[r] > 0
               PROVE  \E s \in Rows : own2[s] = own2[r] /\ depth2[s] + 1 = depth2[r]
    OBVIOUS
  <2>1. r # t /\ own[r] # None /\ own2[r] = own[r]
    BY <1>4
  <2>2. depth[r] \in Nat /\ depth[t] \in Nat /\ depth[q] \in Nat
    BY <1>1
  <2>3. PICK s \in Rows : own[s] = own[r] /\ depth[s] + 1 = depth[r]
    BY <1>4, <2>1, <2>2 DEF Placed
  <2>4. depth[s] \in Nat
    BY <1>1
  <2>5. CASE s = t
    BY <1>2, <1>4, <2>1, <2>2, <2>3, <2>5
  <2>6. CASE s # t
    <3>1. own[s] = own[t] => depth[s] # depth[t] /\ depth[r] # depth[t]
      BY <1>9, <2>1, <2>3, <2>6
    <3>2. own2[s] = own2[r]
      BY <1>4, <2>1, <2>3, <2>6
    <3>3. /\ depth2[s] = IF own[s] = own[t] /\ depth[s] > depth[t] THEN depth[s] - 1 ELSE depth[s]
          /\ depth2[r] = IF own[r] = own[t] /\ depth[r] > depth[t] THEN depth[r] - 1 ELSE depth[r]
      BY <1>4
    <3>4. depth2[s] + 1 = depth2[r]
      BY <2>2, <2>3, <2>4, <3>1, <3>3
    <3> QED
      BY <3>2, <3>4
  <2> QED
    BY <2>5, <2>6
<1>14. Placed(S, B \ {t}, own2, depth2)
  BY <1>8, <1>10, <1>11, <1>12, <1>13 DEF Placed
<1> QED
  BY <1>2, <1>3, <1>7, <1>14 DEF own2, depth2, S

(***************************************************************************)
(* The pool.                                                               *)
(***************************************************************************)
LEMMA PoolTaken ==
    ASSUME NEW L, NEW B, Pool(L, B), Head(L) \notin B
    PROVE  Pool(Append(Tail(L), Head(L)), B \cup {Head(L)}) /\ Head(L) \in Slices
<1> DEFINE N == Cardinality(Slices)
           M == Append(Tail(L), Head(L))
<1>1. N \in Nat /\ N > 1
  BY Sizes
<1>2. /\ L \in [1 .. N -> Slices] /\ (\A i, j \in 1 .. N : L[i] = L[j] => i = j)
      /\ \A t \in Slices : \E i \in 1 .. N : L[i] = t
  BY DEF Pool, Bijection, Injection, Surjection, IsInjective
<1> HIDE DEF N
<1>3. L \in Seq(Slices) /\ Len(L) = N /\ L # << >>
  <2>1. L \in Seq(Slices)
    BY <1>1, <1>2, IsASeq
  <2> QED
    BY <1>1, <1>2, <2>1, LenProperties, EmptySeq
<1>4. Head(L) = L[1] /\ Tail(L) \in Seq(Slices) /\ Len(Tail(L)) = N - 1 /\ \A i \in 1 .. N - 1 : Tail(L)[i] = L[i + 1]
  BY <1>1, <1>3, HeadTailProperties
<1>5. L[1] \in Slices
  BY <1>1, <1>2
<1>6. /\ DOMAIN M = 1 .. N /\ M = [i \in DOMAIN M |-> M[i]]
      /\ \A i \in 1 .. N : M[i] = IF i < N THEN L[i + 1] ELSE L[1]
  <2>1. /\ M \in Seq(Slices) /\ Len(M) = N /\ M[N] = L[1]
        /\ \A i \in 1 .. N - 1 : M[i] = Tail(L)[i]
    BY <1>1, <1>4, <1>5, AppendProperties
  <2>2. DOMAIN M = 1 .. N
    BY <2>1, LenProperties
  <2>3. M = [i \in DOMAIN M |-> M[i]]
    BY <2>1, LenProperties
  <2> HIDE DEF M
  <2>4. ASSUME NEW i \in 1 .. N PROVE M[i] = IF i < N THEN L[i + 1] ELSE L[1]
    <3>1. CASE i = N
      BY <1>1, <2>1, <3>1
    <3>2. CASE i # N
      <4>1. i < N /\ i \in 1 .. N - 1
        BY <1>1, <3>2
      <4> QED
        BY <1>4, <2>1, <4>1
    <3> QED
      BY <3>1, <3>2
  <2> QED
    BY <2>2, <2>3, <2>4
<1> HIDE DEF M
<1>7. M \in [1 .. N -> Slices]
  <2>1. ASSUME NEW i \in 1 .. N PROVE M[i] \in Slices
    BY <1>1, <1>2, <1>5, <1>6
  <2> QED
    BY <1>6, <2>1
<1>8. \A i, j \in 1 .. N : M[i] = M[j] => i = j
  BY <1>1, <1>2, <1>6
<1>9. \A t \in Slices : \E i \in 1 .. N : M[i] = t
  <2> SUFFICES ASSUME NEW t \in Slices PROVE \E i \in 1 .. N : M[i] = t
    OBVIOUS
  <2>1. PICK i \in 1 .. N : L[i] = t
    BY <1>2
  <2>2. CASE i = 1
    <3>1. N \in 1 .. N /\ M[N] = L[1]
      BY <1>1, <1>6
    <3> QED
      BY <2>1, <2>2, <3>1
  <2>3. CASE i # 1
    <3>1. i - 1 \in 1 .. N /\ i - 1 < N /\ (i - 1) + 1 = i
      BY <1>1, <2>3
    <3>2. M[i - 1] = L[i]
      BY <1>6, <3>1
    <3> QED
      BY <2>1, <3>1, <3>2
  <2> QED
    BY <2>2, <2>3
<1>10. \A i, j \in 1 .. N : i < j /\ M[i] \in B \cup {Head(L)} => M[j] \in B \cup {Head(L)}
  <2> SUFFICES ASSUME NEW i \in 1 .. N, NEW j \in 1 .. N, i < j, M[i] \in B \cup {L[1]}
               PROVE  M[j] \in B \cup {L[1]}
    BY <1>4
  <2>1. CASE j = N
    BY <1>6, <2>1
  <2>2. CASE j # N
    <3>1. i + 1 \in 1 .. N /\ j + 1 \in 1 .. N /\ i + 1 < j + 1 /\ i < N /\ j < N /\ i + 1 # 1 /\ 1 \in 1 .. N
      BY <1>1, <2>2
    <3>2. M[i] = L[i + 1] /\ M[j] = L[j + 1]
      BY <1>6, <3>1
    <3>3. L[i + 1] # L[1]
      BY <1>2, <3>1
    <3>4. L[i + 1] \in B
      BY <3>2, <3>3
    <3>5. L[j + 1] \in B
      BY <3>1, <3>4 DEF Pool, N
    <3> QED
      BY <3>2, <3>5
  <2> QED
    BY <2>1, <2>2
<1>11. M \in Bijection(1 .. N, Slices)
  BY <1>7, <1>8, <1>9 DEF Bijection, Injection, Surjection, IsInjective
<1> QED
  BY <1>4, <1>5, <1>10, <1>11 DEF Pool, M, N

LEMMA PoolGiven ==
    ASSUME NEW L, NEW B, Pool(L, B), NEW a \in Slices
    PROVE  Pool(ToHead(L, a), B \ {a})
<1> DEFINE N == Cardinality(Slices)
           M == ToHead(L, a)
           k == CHOOSE i \in DOMAIN L : L[i] = a
<1>1. N \in Nat /\ N > 1
  BY Sizes
<1>2. /\ L \in [1 .. N -> Slices] /\ (\A i, j \in 1 .. N : L[i] = L[j] => i = j)
      /\ \A t \in Slices : \E i \in 1 .. N : L[i] = t
  BY DEF Pool, Bijection, Injection, Surjection, IsInjective
<1> HIDE DEF N
<1>3. DOMAIN L = 1 .. N
  BY <1>2
<1>4. k \in 1 .. N /\ L[k] = a
  BY <1>2, <1>3
<1>5. M = [i \in 1 .. N |-> IF i = 1 THEN a ELSE IF i <= k THEN L[i - 1] ELSE L[i]]
  BY <1>3 DEF ToHead
<1> HIDE DEF M, k
<1>6. \A i \in 1 .. N : M[i] = IF i = 1 THEN a ELSE IF i <= k THEN L[i - 1] ELSE L[i]
  BY <1>5
<1>7. ASSUME NEW i \in 1 .. N, i # 1 PROVE M[i] # a /\ M[i] \in Slices
  <2>1. CASE i <= k
    <3>1. i - 1 \in 1 .. N /\ i - 1 # k /\ M[i] = L[i - 1]
      BY <1>1, <1>4, <1>6, <1>7, <2>1
    <3> QED
      BY <1>2, <1>4, <3>1
  <2>2. CASE i > k
    <3>1. i # k /\ M[i] = L[i]
      BY <1>1, <1>4, <1>6, <1>7, <2>2
    <3> QED
      BY <1>2, <1>4, <3>1
  <2> QED
    BY <1>1, <1>4, <2>1, <2>2
<1>8. M \in [1 .. N -> Slices]
  <2>1. ASSUME NEW i \in 1 .. N PROVE M[i] \in Slices
    BY <1>6, <1>7
  <2> QED
    BY <1>5, <2>1
<1>9. \A i, j \in 1 .. N : M[i] = M[j] => i = j
  <2> SUFFICES ASSUME NEW i \in 1 .. N, NEW j \in 1 .. N, M[i] = M[j] PROVE i = j
    OBVIOUS
  <2>1. CASE i = 1 \/ j = 1
    BY <1>6, <1>7, <2>1
  <2>2. CASE i # 1 /\ j # 1
    <3> DEFINE pi(x) == IF x <= k THEN x - 1 ELSE x
    <3>1. \A x \in 1 .. N : x # 1 => pi(x) \in 1 .. N /\ M[x] = L[pi(x)]
      BY <1>1, <1>4, <1>6
    <3>2. pi(i) = pi(j)
      BY <1>2, <2>2, <3>1
    <3>3. pi(i) # k /\ pi(j) # k
      BY <1>1, <1>4
    <3> QED
      BY <1>1, <1>4, <3>2, <3>3
  <2> QED
    BY <2>1, <2>2
<1>10. \A t \in Slices : \E i \in 1 .. N : M[i] = t
  <2> SUFFICES ASSUME NEW t \in Slices PROVE \E i \in 1 .. N : M[i] = t
    OBVIOUS
  <2>1. PICK i \in 1 .. N : L[i] = t
    BY <1>2
  <2>2. CASE i = k
    <3>1. 1 \in 1 .. N /\ M[1] = a
      BY <1>1, <1>6
    <3> QED
      BY <1>4, <2>1, <2>2, <3>1
  <2>3. CASE i > k
    <3>1. i # 1 /\ ~(i <= k)
      BY <1>1, <1>4, <2>3
    <3> QED
      BY <1>6, <2>1, <3>1
  <2>4. CASE i < k
    <3>1. i + 1 \in 1 .. N /\ i + 1 # 1 /\ i + 1 <= k /\ (i + 1) - 1 = i
      BY <1>1, <1>4, <2>4
    <3>2. M[i + 1] = L[i]
      BY <1>6, <3>1
    <3> QED
      BY <2>1, <3>1, <3>2
  <2> QED
    BY <1>1, <1>4, <2>2, <2>3, <2>4
<1>11. \A i, j \in 1 .. N : i < j /\ M[i] \in B \ {a} => M[j] \in B \ {a}
  <2> SUFFICES ASSUME NEW i \in 1 .. N, NEW j \in 1 .. N, i < j, M[i] \in B, M[i] # a PROVE M[j] \in B /\ M[j] # a
    OBVIOUS
  <2>1. i # 1 /\ j # 1
    BY <1>1, <1>6
  <2>2. M[j] # a
    BY <1>7, <2>1
  <2>3. \A x, y \in 1 .. N : x < y /\ L[x] \in B => L[y] \in B
    BY DEF Pool, N
  <2>4. CASE j <= k
    <3>1. i <= k /\ i - 1 \in 1 .. N /\ j - 1 \in 1 .. N /\ i - 1 < j - 1
      BY <1>1, <1>4, <2>1, <2>4
    <3>2. M[i] = L[i - 1] /\ M[j] = L[j - 1]
      BY <1>6, <2>1, <2>4, <3>1
    <3> QED
      BY <2>2, <2>3, <3>1, <3>2
  <2>5. CASE j > k
    <3>1. M[j] = L[j]
      BY <1>1, <1>4, <1>6, <2>1, <2>5
    <3>2. CASE i <= k
      <4>1. i - 1 \in 1 .. N /\ i - 1 < j /\ M[i] = L[i - 1]
        BY <1>1, <1>4, <1>6, <2>1, <3>2
      <4> QED
        BY <2>2, <2>3, <3>1, <4>1
    <3>3. CASE i > k
      <4>1. M[i] = L[i]
        BY <1>1, <1>4, <1>6, <2>1, <3>3
      <4> QED
        BY <2>2, <2>3, <3>1, <4>1
    <3> QED
      BY <1>1, <1>4, <3>2, <3>3
  <2> QED
    BY <1>1, <1>4, <2>4, <2>5
<1>12. M \in Bijection(1 .. N, Slices)
  BY <1>8, <1>9, <1>10 DEF Bijection, Injection, Surjection, IsInjective
<1> QED
  BY <1>11, <1>12 DEF Pool, M, N

(***************************************************************************)
(* What is promised follows.                                               *)
(***************************************************************************)
LEMMA ChainNow ==
    /\ \A b : InChain(b) = RowsOf(rows, b)
    /\ \A b : RowsOf(rows, b)' = RowsOf(rows', b')
BY DEF InChain, RowsOf, Chain, ChainOf

LEMMA TableIsConsistent ==
    ASSUME Inv, TableInv
    PROVE  TableConsistent
<1>1. PICK own \in [Rows -> Buckets \cup {None}], depth \in [Rows -> Nat] : Placed(rows, busy, own, depth)
  BY DEF TableInv, Linked
<1>2. Tidy(rows, busy)
  BY DEF TableInv, Linked
<1>3. \A b \in Buckets : \A r : r \in InChain(b) <=> r \in Rows /\ own[r] = b
  <2> SUFFICES ASSUME NEW b \in Buckets PROVE \A r : r \in InChain(b) <=> r \in Rows /\ own[r] = b
    OBVIOUS
  <2> QED
    BY <1>1, <1>2, ChainPlaced, ChainNow
<1>4. IsFiniteSet(Active) /\ IsFiniteSet(Deleting) /\ Cardinality(Active) \in Nat /\ Cardinality(Deleting) \in Nat
  <2>1. IsFiniteSet(Rows) /\ IsFiniteSet(Procs)
    BY TableAssumption, FS_Union DEF Rows
  <2>2. IsFiniteSet(Active) /\ IsFiniteSet(Deleting)
    BY <2>1, FS_Subset DEF Active, Deleting
  <2> QED
    BY <2>2, FS_CardinalityType
<1>5. TypeOK
  <2>1. rows \in [Rows -> [active : BOOLEAN, next : Slices \cup {None},
                           key : Seq(UNION {{k[i] : i \in DOMAIN k} : k \in Keys}), data : 0 .. Values - 1]]
    BY <1>2 DEF Tidy, Row, Chars
  <2>2. busy \subseteq Slices /\ row_num \in Nat
    BY <1>2, <1>4 DEF Tidy, TableInv, Counted
  <2>3. pc \in [Procs -> {"idle", "test", "lock", "find", "read", "write", "uncount", "unlock"}]
    <3>1. Outside \cup Working \cup Leaving = {"idle", "test", "lock", "find", "read", "write", "uncount", "unlock"}
      BY DEF Outside, Working, Leaving
    <3> QED
      BY <3>1 DEF Inv, CallTypes
  <2> QED
    BY <2>1, <2>2, <2>3 DEF TypeOK, Inv, CallTypes, TableInv, Calls
<1>6. ChainsWhole
  <2>1. \A b, c \in Buckets : b # c => InChain(b) \cap InChain(c) = {}
    BY <1>3
  <2>2. busy = (UNION {InChain(b) : b \in Buckets}) \ Buckets
    <3>1. \A r : r \in busy <=> r \in Slices /\ own[r] # None
      BY <1>1, <1>2 DEF Placed, Positions, Tidy
    <3>2. \A r \in Slices : own[r] # None => own[r] \in Buckets
      BY <1>1, Sizes
    <3> QED
      BY <1>3, <3>1, <3>2, Sizes
  <2>3. \A r \in Rows : r \in busy \/ (r \in Buckets /\ rows[r].active) \/ rows[r] = Empty
    BY <1>2, Sizes DEF Tidy
  <2>4. ASSUME NEW b \in Buckets PROVE IsInjective([r \in InChain(b) |-> rows[r].key])
    <3>1. \A r, s \in InChain(b) : rows[r].key = rows[s].key => r = s
      BY <1>1, <1>3, Sizes DEF Placed
    <3> QED
      BY <3>1 DEF IsInjective
  <2>5. ASSUME NEW b \in Buckets PROVE \E r \in InChain(b) : rows[r].next = None
    BY <1>1, <1>2, <1>3, EndPlaced
  <2> QED
    BY <2>1, <2>2, <2>3, <2>4, <2>5 DEF ChainsWhole
<1>7. FreeFirst
  <2>1. DOMAIN slices = 1 .. Cardinality(Slices)
    BY DEF TableInv, Pool, Bijection, Injection
  <2> QED
    BY <2>1 DEF TableInv, Pool, FreeFirst
<1> QED
  BY <1>5, <1>6, <1>7 DEF TableConsistent, TableInv

LEMMA EmptyRow == Empty \in Row /\ ~Empty.active /\ Empty.next = None /\ Empty.key = << >>
BY TableAssumption, EmptySeq DEF Empty, Row

LEMMA TableInit == Init => TableInv
<1> SUFFICES ASSUME Init PROVE TableInv
  OBVIOUS
<1> DEFINE own == [r \in Rows |-> IF r \in Buckets THEN r ELSE None]
           depth == [r \in Rows |-> 0]
<1>1. rows = [r \in Rows |-> Empty] /\ busy = {} /\ row_num = 0
  BY DEF Init
<1>2. Tidy(rows, busy)
  <2>1. Empty \in Row /\ Empty.active = FALSE
    BY EmptyRow DEF Empty
  <2>2. rows \in [Rows -> Row] /\ \A r \in Rows : rows[r] = Empty
    BY <1>1, <2>1
  <2> QED
    BY <1>1, <2>1, <2>2, Sizes DEF Tidy
<1>3. Positions(busy, own, depth)
  BY <1>1, Sizes DEF Positions
<1>4. \A r \in Rows : own[r] # None => own[r] = r /\ depth[r] = 0
  BY Sizes
<1>5. \A r \in Rows : depth[r] = 0
  OBVIOUS
<1>6. own \in [Rows -> Buckets \cup {None}] /\ depth \in [Rows -> Nat]
  OBVIOUS
<1> HIDE DEF own, depth
<1>7. \A r, s \in Rows : own[r] = own[s] /\ own[r] # None => r = s
  BY <1>4
<1>8. \A r, s \in Rows : rows[r].next # s
  BY <1>1, EmptyRow, Sizes
<1>9. \A r \in Rows : ~(depth[r] > 0) /\ depth[r] # 0 + 1
  BY <1>5
<1>10. Placed(rows, busy, own, depth)
  BY <1>3, <1>5, <1>7, <1>8, <1>9 DEF Placed
<1>11. Pool(slices, busy)
  <2>1. Bijection(1 .. Cardinality(Slices), Slices) # {}
    BY Sizes, FS_CardinalityType DEF ExistsBijection
  <2> QED
    BY <1>1, <2>1 DEF Init, Pool
<1>12. Counted
  <2>1. Active = {} /\ Deleting = {}
    BY <1>1, EmptyRow DEF Active, Deleting, Init
  <2> QED
    BY <1>1, <2>1, FS_EmptySet DEF Counted
<1>13. Calls /\ RowStays
  BY TableAssumption DEF Init, Calls, RowStays
<1> QED
  BY <1>2, <1>6, <1>10, <1>11, <1>12, <1>13 DEF TableInv, Linked

(***************************************************************************)
(* The steps.                                                              *)
(***************************************************************************)
\* Only p's call goes on.
Sole(p) == \A q \in Procs : q # p =>
    pc'[q] = pc[q] /\ key'[q] = key[q] /\ row'[q] = row[q] /\ value'[q] = value[q]

LEMMA SoleFinds ==
    ASSUME Inv, TableInv, NEW p \in Procs, NEW r \in Rows \cup {None}, NEW to, Finds(p, r, to),
           UNCHANGED <<op, key, value>>
    PROVE  /\ Sole(p) /\ Calls' /\ pc[p] = "find" /\ pc'[p] = to /\ row'[p] = r
           /\ Root(p)' = Root(p) /\ key'[p] = key[p]
BY DEF Sole, Finds, Goes, TableInv, Calls, Inv, CallTypes, Root

\* Whoever works on a row is inside its bucket, and nobody else is.
LEMMA Elsewhere ==
    ASSUME Inv, TableInv, NEW own, NEW depth, Placed(rows, busy, own, depth),
           NEW p \in Procs, In(p), NEW q \in Procs, q # p, pc[q] \in {"read", "write"}
    PROVE  /\ row[q] \in Rows /\ own[row[q]] = Root(q) /\ Root(q) \in Buckets
           /\ Root(q) # Root(p) /\ rows[row[q]].active
<1>1. In(q) /\ Root(q) \in Buckets
  BY RootType DEF In, Working, Inv
<1>2. Root(q) # Root(p)
  BY <1>1 DEF Inv, Exclusive
<1>3. row[q] \in RowsOf(rows, Root(q)) /\ rows[row[q]].active
  BY ChainNow DEF TableInv, RowStays
<1>4. row[q] \in Rows /\ own[row[q]] = Root(q)
  BY <1>1, <1>3, ChainPlaced DEF TableInv, Linked
<1> QED
  BY <1>1, <1>2, <1>3, <1>4

LEMMA StaysKept ==
    ASSUME Inv, TableInv, NEW own, NEW depth, Placed(rows, busy, own, depth),
           NEW own2, NEW depth2, Tidy(rows', busy'), Placed(rows', busy', own2, depth2),
           NEW p \in Procs, Sole(p), In(p),
           \A r \in Rows : own[r] # Root(p) /\ own[r] # None => rows'[r] = rows[r] /\ own2[r] = own[r],
           pc'[p] \in {"read", "write"} =>
              /\ Root(p)' \in Buckets /\ row'[p] \in Rows /\ own2[row'[p]] = Root(p)'
              /\ rows'[row'[p]].active /\ rows'[row'[p]].key = key'[p],
           pc'[p] = "write" => value'[p] = rows'[row'[p]].data
    PROVE  RowStays'
<1>1. ASSUME NEW q \in Procs, pc'[q] \in {"read", "write"}
      PROVE  /\ Root(q)' \in Buckets /\ row'[q] \in Rows /\ own2[row'[q]] = Root(q)'
             /\ rows'[row'[q]].active /\ rows'[row'[q]].key = key'[q]
             /\ pc'[q] = "write" => value'[q] = rows'[row'[q]].data
  <2>1. CASE q = p
    BY <1>1, <2>1
  <2>2. CASE q # p
    <3>1. pc'[q] = pc[q] /\ key'[q] = key[q] /\ row'[q] = row[q] /\ value'[q] = value[q] /\ Root(q)' = Root(q)
      BY <2>2 DEF Sole, Root
    <3>2. /\ row[q] \in Rows /\ own[row[q]] = Root(q) /\ Root(q) \in Buckets /\ Root(q) # Root(p)
          /\ rows[row[q]].active
      BY <1>1, <2>2, <3>1, Elsewhere
    <3>3. rows'[row[q]] = rows[row[q]] /\ own2[row[q]] = own[row[q]]
      BY <3>2, Sizes
    <3>4. rows[row[q]].key = key[q] /\ (pc[q] = "write" => value[q] = rows[row[q]].data)
      BY <1>1, <3>1 DEF TableInv, RowStays
    <3> QED
      BY <3>1, <3>2, <3>3, <3>4
  <2> QED
    BY <2>1, <2>2
<1>2. ASSUME NEW q \in Procs, pc'[q] \in {"read", "write"} PROVE row'[q] \in InChain(Root(q))'
  <2> DEFINE b == Root(q)'
  <2>1. b \in Buckets /\ row'[q] \in Rows /\ own2[row'[q]] = b
    BY <1>1, <1>2
  <2>2. row'[q] \in RowsOf(rows', b)
    <3> HIDE DEF b
    <3> QED
      BY <2>1, ChainPlaced
  <2>3. InChain(Root(q))' = RowsOf(rows', b)
    BY DEF InChain, RowsOf, Chain, ChainOf
  <2> QED
    BY <2>2, <2>3
<1> QED
  BY <1>1, <1>2 DEF RowStays

\* Nothing is done to the table.
LEMMA StillInv ==
    ASSUME Inv, TableInv, NEW p \in Procs, Sole(p), Calls', UNCHANGED <<rows, slices, busy, row_num>>,
           pc \in [Procs -> Outside \cup Working \cup Leaving], pc' \in [Procs -> Outside \cup Working \cup Leaving],
           pc[p] # "uncount", pc'[p] # "uncount",
           pc'[p] \in {"read", "write"} =>
              row'[p] \in InChain(Root(p)') /\ rows[row'[p]].active /\ rows[row'[p]].key = key'[p],
           pc'[p] = "write" => value'[p] = rows[row'[p]].data
    PROVE  TableInv'
<1>1. Counted'
  <2>1. Active' = Active /\ Deleting' = Deleting
    BY DEF Active, Deleting, Sole
  <2> QED
    BY <2>1 DEF TableInv, Counted
<1>2. RowStays'
  <2> SUFFICES ASSUME NEW q \in Procs, pc'[q] \in {"read", "write"}
               PROVE  /\ row'[q] \in InChain(Root(q))' /\ rows'[row'[q]].active /\ rows'[row'[q]].key = key'[q]
                      /\ pc'[q] = "write" => value'[q] = rows'[row'[q]].data
    BY DEF RowStays
  <2>1. InChain(Root(q))' = InChain(Root(q)')
    BY DEF InChain, Chain
  <2>2. CASE q = p
    BY <2>1, <2>2
  <2>3. CASE q # p
    <3>1. pc'[q] = pc[q] /\ key'[q] = key[q] /\ row'[q] = row[q] /\ value'[q] = value[q] /\ Root(q)' = Root(q)
      BY <2>3 DEF Sole, Root
    <3> QED
      BY <2>1, <3>1 DEF TableInv, RowStays
  <2> QED
    BY <2>2, <2>3
<1> QED
  BY <1>1, <1>2 DEF TableInv, Linked

LEMMA CountFacts ==
    ASSUME NEW A, A \subseteq Rows, NEW D, D \subseteq Procs
    PROVE  /\ IsFiniteSet(A) /\ IsFiniteSet(D) /\ Cardinality(A) \in Nat /\ Cardinality(D) \in Nat
           /\ \A x : Cardinality(A \cup {x}) = IF x \in A THEN Cardinality(A) ELSE Cardinality(A) + 1
           /\ \A x : Cardinality(A \ {x}) = IF x \in A THEN Cardinality(A) - 1 ELSE Cardinality(A)
           /\ \A x : Cardinality(D \cup {x}) = IF x \in D THEN Cardinality(D) ELSE Cardinality(D) + 1
           /\ \A x : Cardinality(D \ {x}) = IF x \in D THEN Cardinality(D) - 1 ELSE Cardinality(D)
<1>1. IsFiniteSet(Rows) /\ IsFiniteSet(Procs)
  BY TableAssumption, FS_Union DEF Rows
<1>2. IsFiniteSet(A) /\ IsFiniteSet(D)
  BY <1>1, FS_Subset
<1> QED
  BY <1>2, FS_CardinalityType, FS_AddElement, FS_RemoveElement

\* A row becomes active, or is no longer and its deletion is yet to be counted.
LEMMA CountedMore ==
    ASSUME TableInv, NEW p \in Procs, Sole(p), NEW a \in Rows, ~rows[a].active, pc[p] # "uncount", pc'[p] # "uncount",
           rows'[a].active, \A r \in Rows : r # a => rows'[r].active = rows[r].active, row_num' = row_num + 1
    PROVE  Counted'
<1>1. Active' = Active \cup {a} /\ Deleting' = Deleting /\ a \notin Active
  BY DEF Active, Deleting, Sole
<1>2. Active \subseteq Rows /\ Deleting \subseteq Procs
  BY DEF Active, Deleting
<1>3. Cardinality(Active \cup {a}) = Cardinality(Active) + 1 /\ Cardinality(Active) \in Nat /\ Cardinality(Deleting) \in Nat
  BY <1>1, <1>2, CountFacts
<1> QED
  BY <1>1, <1>3 DEF TableInv, Counted

LEMMA CountedLess ==
    ASSUME TableInv, NEW p \in Procs, Sole(p), NEW a \in Rows, rows[a].active, pc[p] # "uncount", pc'[p] = "uncount",
           ~rows'[a].active, \A r \in Rows : r # a => rows'[r].active = rows[r].active, row_num' = row_num
    PROVE  Counted'
<1>1. Active' = Active \ {a} /\ Deleting' = Deleting \cup {p} /\ a \in Active /\ p \notin Deleting
  BY DEF Active, Deleting, Sole
<1>2. Active \subseteq Rows /\ Deleting \subseteq Procs
  BY DEF Active, Deleting
<1>3. /\ Cardinality(Active \ {a}) = Cardinality(Active) - 1 /\ Cardinality(Deleting \cup {p}) = Cardinality(Deleting) + 1
      /\ Cardinality(Active) \in Nat /\ Cardinality(Deleting) \in Nat
  BY <1>1, <1>2, CountFacts
<1> QED
  BY <1>1, <1>3 DEF TableInv, Counted

(***************************************************************************)
(* What the callers see.                                                   *)
(***************************************************************************)
LEMMA KeysNotEmpty == ASSUME OneLength PROVE << >> \notin Keys /\ Keys \subseteq Seq(Chars)
<1>1. PICK n \in Nat \ {0} : Keys \subseteq [1 .. n -> Chars]
  BY DEF OneLength
<1>2. ASSUME NEW k \in Keys PROVE k \in Seq(Chars) /\ k # << >>
  <2>1. k \in [1 .. n -> Chars]
    BY <1>1
  <2>2. k \in Seq(Chars)
    BY <1>1, <2>1, IsASeq
  <2>3. Len(k) = n
    BY <1>1, <2>1, <2>2, LenProperties
  <2> QED
    BY <2>2, <2>3, EmptySeq
<1> QED
  BY <1>2

\* A key has the value of its row.
ValuesShown ==
    OneLength =>
       \A own, depth : Tidy(rows, busy) /\ Placed(rows, busy, own, depth) =>
          \A k \in Keys :
             /\ \A r \in Rows : own[r] = HashOf[k] /\ rows[r].key = k => ValueOf(k) = rows[r].data
             /\ (\A r \in Rows : own[r] = HashOf[k] => rows[r].key # k) => ValueOf(k) = None

LEMMA ValuesAreShown == ValuesShown
<1> SUFFICES ASSUME OneLength, NEW own, NEW depth, Tidy(rows, busy), Placed(rows, busy, own, depth), NEW k \in Keys
             PROVE  /\ \A r \in Rows : own[r] = HashOf[k] /\ rows[r].key = k => ValueOf(k) = rows[r].data
                    /\ (\A r \in Rows : own[r] = HashOf[k] => rows[r].key # k) => ValueOf(k) = None
  BY DEF ValuesShown
<1> DEFINE b == HashOf[k]
           f == RowOf(b, k)
<1>1. b \in Buckets /\ b # None /\ None \notin Rows
  BY TableAssumption, Sizes
<1>2. \/ f = None /\ \A r \in Rows : own[r] = b => rows[r].key # k
      \/ f \in Rows /\ own[f] = b /\ rows[f].key = k
  BY <1>1, RowOfFacts
<1>3. ValueOf(k) = IF f = None THEN None ELSE rows[f].data
  BY DEF ValueOf
<1> HIDE DEF f, b
<1>4. ASSUME NEW r \in Rows, own[r] = b, rows[r].key = k PROVE r = f /\ f # None
  <2>1. f \in Rows /\ own[f] = b /\ rows[f].key = k
    BY <1>2, <1>4
  <2> QED
    BY <1>1, <1>4, <2>1 DEF Placed
<1>5. (\A r \in Rows : own[r] = b => rows[r].key # k) => f = None
  BY <1>2
<1> QED
  BY <1>3, <1>4, <1>5 DEF b

LEMMA ValuesShownNext == ValuesShown'
BY ValuesAreShown, PTL

\* The key k has the value v now, and no other key has another.
Becomes(k, v) == \A x \in Keys : ValueOf(x)' = IF x = k THEN v ELSE ValueOf(x)

LEMMA Valued ==
    ASSUME OneLength, NEW own, NEW depth, Tidy(rows, busy), Placed(rows, busy, own, depth),
           NEW own2, NEW depth2, Tidy(rows', busy'), Placed(rows', busy', own2, depth2), NEW k \in Keys, NEW v,
           \/ \E r \in Rows : own2[r] = HashOf[k] /\ rows'[r].key = k /\ rows'[r].data = v
           \/ v = None /\ \A r \in Rows : own2[r] = HashOf[k] => rows'[r].key # k,
           \A r \in Rows : own[r] # None /\ rows[r].key \in Keys \ {k} =>
              \E s \in Rows : own2[s] = own[r] /\ rows'[s].key = rows[r].key /\ rows'[s].data = rows[r].data,
           \A s \in Rows : own2[s] # None /\ rows'[s].key \in Keys \ {k} =>
              \E r \in Rows : own[r] = own2[s] /\ rows[r].key = rows'[s].key
    PROVE  Becomes(k, v)
<1>1. ASSUME NEW x \in Keys
      PROVE  /\ HashOf[x] # None
             /\ \A r \in Rows : own[r] = HashOf[x] /\ rows[r].key = x => ValueOf(x) = rows[r].data
             /\ (\A r \in Rows : own[r] = HashOf[x] => rows[r].key # x) => ValueOf(x) = None
  <2>1. HashOf[x] # None
    BY TableAssumption
  <2> QED
    BY <2>1, ValuesAreShown DEF ValuesShown
<1>2. ASSUME NEW x \in Keys
      PROVE  /\ \A r \in Rows : own2[r] = HashOf[x] /\ rows'[r].key = x => ValueOf(x)' = rows'[r].data
             /\ (\A r \in Rows : own2[r] = HashOf[x] => rows'[r].key # x) => ValueOf(x)' = None
  BY ValuesShownNext DEF ValuesShown
<1>3. ValueOf(k)' = v
  BY <1>2
<1>4. ASSUME NEW x \in Keys, x # k PROVE ValueOf(x)' = ValueOf(x)
  <2>1. CASE \E r \in Rows : own[r] = HashOf[x] /\ rows[r].key = x
    <3>1. PICK r \in Rows : own[r] = HashOf[x] /\ rows[r].key = x
      BY <2>1
    <3>2. PICK s \in Rows : own2[s] = own[r] /\ rows'[s].key = rows[r].key /\ rows'[s].data = rows[r].data
      BY <1>1, <1>4, <3>1
    <3>3. ValueOf(x)' = rows'[s].data
      BY <1>2, <3>1, <3>2
    <3>4. ValueOf(x) = rows[r].data
      BY <1>1, <3>1
    <3> QED
      BY <3>2, <3>3, <3>4
  <2>2. CASE \A r \in Rows : own[r] = HashOf[x] => rows[r].key # x
    <3>1. ValueOf(x) = None
      BY <1>1, <2>2
    <3>2. \A s \in Rows : own2[s] = HashOf[x] => rows'[s].key # x
      BY <1>1, <1>4, <2>2
    <3>3. ValueOf(x)' = None
      BY <1>2, <3>2
    <3> QED
      BY <3>1, <3>3
  <2> QED
    BY <2>1, <2>2
<1> QED
  BY <1>3, <1>4 DEF Becomes

\* As a table of counters may change its counter of k.
Shown(k) == \E v \in Promised!Successors(ValueOf(k)) : Becomes(k, v)

LEMMA AddedShown == ASSUME NEW k, ValueOf(k) = None, Becomes(k, 0) PROVE Shown(k)
BY DEF Shown, Promised!Successors

LEMMA GoneShown == ASSUME NEW k, ValueOf(k) # None, Becomes(k, None) PROVE Shown(k)
BY DEF Shown, Promised!Successors

LEMMA CountShown ==
    ASSUME NEW k, ValueOf(k) # None, Becomes(k, (ValueOf(k) + 1) % Values)
    PROVE  Shown(k)
BY DEF Shown, Promised!Successors

\* The value of a row that was found, and of no row.
LEMMA ValueNow ==
    ASSUME OneLength, NEW own, NEW depth, Tidy(rows, busy), Placed(rows, busy, own, depth), NEW k \in Keys
    PROVE  /\ \A r \in Rows : own[r] = HashOf[k] /\ rows[r].key = k => ValueOf(k) = rows[r].data /\ ValueOf(k) # None
           /\ (\A r \in Rows : own[r] = HashOf[k] => rows[r].key # k) => ValueOf(k) = None
<1>1. \A r \in Rows : rows[r].data \in 0 .. Values - 1
  BY DEF Tidy, Row
<1>2. None \notin 0 .. Values - 1
  BY TableAssumption
<1> QED
  BY <1>1, <1>2, ValuesAreShown DEF ValuesShown

LEMMA ValuesStay == ASSUME rows' = rows PROVE \A x \in Keys : ValueOf(x)' = ValueOf(x)
BY DEF ValueOf, RowOf, Matches

\* What a search finds may be worked on.
LEMMA FoundRow ==
    ASSUME OneLength, Inv, TableInv, NEW p \in Procs, pc[p] = "find", Known(Root(p), key[p])
    PROVE  LET r == RowOf(Root(p), key[p])
           IN  r \in Rows /\ r \in InChain(Root(p)) /\ rows[r].active /\ rows[r].key = key[p]
<1>1. PICK own \in [Rows -> Buckets \cup {None}], depth \in [Rows -> Nat] : Placed(rows, busy, own, depth)
  BY DEF TableInv, Linked
<1>2. Tidy(rows, busy) /\ Root(p) \in Buckets /\ key[p] \in Keys
  BY RootType DEF TableInv, Linked, Inv, CallTypes
<1> DEFINE r == RowOf(Root(p), key[p])
<1>3. r \in Rows /\ own[r] = Root(p) /\ rows[r].key = key[p] /\ rows[r].active
  BY <1>1, <1>2, RowOfFacts DEF Known
<1>4. r \in InChain(Root(p))
  <2> HIDE DEF r
  <2> QED
    BY <1>1, <1>2, <1>3, ChainPlaced, ChainNow
<1> QED
  BY <1>3, <1>4

\* A call begins, waits, looks, finds, reads, and ends.
LEMMA StillSteps ==
    ASSUME OneLength, Inv, TableInv, Inv', NEW p \in Procs,
           \/ \E o \in {"get", "incr", "del"}, k \in Keys : Call(p, o, k)
           \/ Test(p) \/ TestFails(p) \/ Lock(p) \/ Get(p) \/ SetFindsRow(p) \/ SetFails(p) \/ DelNothing(p)
           \/ Read(p) \/ Unlock(p)
    PROVE  TableInv'
<1>1. /\ pc \in [Procs -> Outside \cup Working \cup Leaving] /\ pc' \in [Procs -> Outside \cup Working \cup Leaving]
      /\ key \in [Procs -> Keys \cup {<< >>}]
  BY DEF Inv, CallTypes
<1>2. /\ op \in [Procs -> {"get", "incr", "del", None}] /\ row \in [Procs -> Rows \cup {None}]
      /\ value \in [Procs -> 0 .. Values - 1] /\ 0 \in 0 .. Values - 1
  BY TableAssumption DEF TableInv, Calls
<1>3. ASSUME NEW o \in {"get", "incr", "del"}, NEW k \in Keys, Call(p, o, k) PROVE TableInv'
  <2>1. /\ UNCHANGED <<rows, slices, busy, row_num>> /\ pc[p] = "idle" /\ pc'[p] \in {"test", "lock"}
        /\ Sole(p) /\ Calls'
    BY <1>1, <1>2, <1>3 DEF Call, Goes, table, Sole, Calls
  <2> QED
    BY <1>1, <2>1, StillInv
<1>4. CASE Test(p) \/ Lock(p)
  <2>1. /\ UNCHANGED <<rows, slices, busy, row_num>> /\ pc[p] \in {"test", "lock"} /\ pc'[p] \in {"lock", "find"}
        /\ Sole(p) /\ Calls'
    BY <1>1, <1>2, <1>4 DEF Test, Lock, Goes, table, Sole, Calls
  <2> QED
    BY <1>1, <2>1, StillInv
<1>5. CASE TestFails(p) \/ Unlock(p)
  <2>1. /\ UNCHANGED <<rows, slices, busy, row_num>> /\ pc[p] \in {"test", "unlock"} /\ pc'[p] = "idle"
        /\ Sole(p) /\ Calls'
    BY <1>1, <1>2, <1>5 DEF TestFails, Unlock, Goes, Returns, table, Sole, Calls
  <2> QED
    BY <1>1, <2>1, StillInv
<1>6. CASE Get(p) \/ SetFindsRow(p)
  <2> DEFINE r == RowOf(Root(p), key[p])
  <2>1. UNCHANGED <<op, key, value>> /\ UNCHANGED <<rows, slices, busy, row_num>>
    BY <1>6 DEF Get, SetFindsRow, FindsNothing, table
  <2>2. (Known(Root(p), key[p]) /\ Finds(p, r, "read")) \/ Finds(p, None, "unlock")
    BY <1>6 DEF Get, SetFindsRow, FindsNothing
  <2>3. CASE Known(Root(p), key[p]) /\ Finds(p, r, "read")
    <3>1. pc[p] = "find"
      BY <2>3 DEF Finds, Goes
    <3>2. r \in Rows /\ r \in InChain(Root(p)) /\ rows[r].active /\ rows[r].key = key[p]
      BY <2>3, <3>1, FoundRow
    <3>3. /\ Sole(p) /\ Calls' /\ pc[p] = "find" /\ pc'[p] = "read" /\ row'[p] = r
          /\ Root(p)' = Root(p) /\ key'[p] = key[p]
      <4> HIDE DEF r
      <4> QED
        BY <2>1, <2>3, <3>2, SoleFinds
    <3>4. InChain(Root(p)') = InChain(Root(p))
      BY <3>3
    <3> QED
      BY <1>1, <2>1, <3>2, <3>3, <3>4, StillInv
  <2>4. CASE Finds(p, None, "unlock")
    <3>1. Sole(p) /\ Calls' /\ pc[p] = "find" /\ pc'[p] = "unlock"
      BY <2>1, <2>4, SoleFinds
    <3> QED
      BY <1>1, <2>1, <3>1, StillInv
  <2> QED
    BY <2>2, <2>3, <2>4
<1>7. CASE SetFails(p) \/ DelNothing(p)
  <2>1. UNCHANGED <<op, key, value>> /\ UNCHANGED <<rows, slices, busy, row_num>> /\ Finds(p, None, "unlock")
    BY <1>7 DEF SetFails, DelNothing, FindsNothing, table
  <2>2. Sole(p) /\ Calls' /\ pc[p] = "find" /\ pc'[p] = "unlock"
    BY <2>1, SoleFinds
  <2> QED
    BY <1>1, <2>1, <2>2, StillInv
<1>8. CASE Read(p)
  <2>1. /\ UNCHANGED <<rows, slices, busy, row_num, op, key, row>> /\ pc[p] = "read" /\ pc'[p] \in {"write", "unlock"}
        /\ value' = [value EXCEPT ![p] = rows[row[p]].data]
        /\ \A q \in Procs : q # p => pc'[q] = pc[q]
    BY <1>1, <1>8 DEF Read, Goes, table
  <2>2. row[p] \in InChain(Root(p)) /\ rows[row[p]].active /\ rows[row[p]].key = key[p]
    BY <2>1 DEF TableInv, RowStays
  <2>3. row[p] \in Rows
    <3>1. row[p] # None
      BY <2>2 DEF InChain
    <3> QED
      BY <1>2, <3>1
  <2>4. rows[row[p]].data \in 0 .. Values - 1
    BY <2>3 DEF TableInv, Linked, Tidy, Row
  <2>5. Sole(p) /\ Calls' /\ value'[p] = rows[row[p]].data
    BY <1>2, <2>1, <2>4 DEF Sole, Calls
  <2>6. InChain(Root(p)') = InChain(Root(p))
    BY <2>1 DEF Root
  <2> QED
    BY <1>1, <2>1, <2>2, <2>5, <2>6, StillInv
<1> QED
  BY <1>3, <1>4, <1>5, <1>6, <1>7, <1>8

LEMMA UncountTable ==
    ASSUME Inv, TableInv, NEW p \in Procs, Uncount(p)
    PROVE  TableInv'
<1>1. /\ UNCHANGED <<rows, slices, busy, op, key, row, value>> /\ row_num' = row_num - 1
      /\ pc[p] = "uncount" /\ pc' = [pc EXCEPT ![p] = "unlock"]
  BY DEF Uncount, Goes
<1>2. \A q \in Procs : pc'[q] = IF q = p THEN "unlock" ELSE pc[q]
  BY <1>1 DEF Inv, CallTypes
<1>3. Counted'
  <2>1. Active' = Active /\ Deleting' = Deleting \ {p} /\ p \in Deleting
    BY <1>1, <1>2 DEF Active, Deleting
  <2>2. Active \subseteq Rows /\ Deleting \subseteq Procs
    BY DEF Active, Deleting
  <2>3. Cardinality(Deleting \ {p}) = Cardinality(Deleting) - 1 /\ Cardinality(Active) \in Nat /\ Cardinality(Deleting) \in Nat
    BY <2>1, <2>2, CountFacts
  <2> QED
    BY <1>1, <2>1, <2>3 DEF TableInv, Counted
<1>4. RowStays'
  <2>1. \A q \in Procs : Root(q)' = Root(q) /\ InChain(Root(q))' = InChain(Root(q))
    BY <1>1 DEF Root, InChain, Chain
  <2>2. \A q \in Procs : pc'[q] \in {"read", "write"} => pc[q] = pc'[q]
    BY <1>2
  <2> QED
    BY <1>1, <2>1, <2>2 DEF TableInv, RowStays
<1> QED
  BY <1>1, <1>3, <1>4 DEF TableInv, Linked, Calls

\* A row that is in its place is overwritten.
LEMMA WriteTable ==
    ASSUME OneLength, Inv, TableInv, Inv', NEW p \in Procs, Write(p)
    PROVE  TableInv' /\ Shown(key[p])
<1> DEFINE a == row[p]
           v == [rows[a] EXCEPT !.data = (value[p] + 1) % Values]
<1>1. PICK own \in [Rows -> Buckets \cup {None}], depth \in [Rows -> Nat] : Placed(rows, busy, own, depth)
  BY DEF TableInv, Linked
<1>2. /\ UNCHANGED <<slices, busy, row_num, op, key, row, value>> /\ pc[p] = "write" /\ pc'[p] = "unlock"
      /\ \A q \in Procs : q # p => pc'[q] = pc[q]
  BY DEF Write, Goes, Inv, CallTypes
<1>3. Tidy(rows, busy) /\ Root(p) \in Buckets /\ In(p)
  BY <1>2, RootType DEF TableInv, Linked, Inv, CallTypes, In, Working
<1>4. a \in InChain(Root(p)) /\ rows[a].active /\ rows[a].key = key[p]
  BY <1>2 DEF TableInv, RowStays
<1>5. a \in Rows /\ own[a] = Root(p) /\ own[a] # None
  <2> HIDE DEF a
  <2> QED
    BY <1>1, <1>3, <1>4, ChainPlaced, ChainNow, Sizes
<1>6. rows' = [rows EXCEPT ![a] = v]
  <2>1. rows' = [rows EXCEPT ![row[p]].data = (value[p] + 1) % Values]
    BY DEF Write
  <2> QED
    BY <2>1
<1>7. v \in Row /\ v.active = rows[a].active /\ v.next = rows[a].next /\ v.key = rows[a].key
  <2>1. rows[a] \in Row
    BY <1>3, <1>5 DEF Tidy
  <2>2. (value[p] + 1) % Values \in 0 .. Values - 1
    <3>1. value[p] \in 0 .. Values - 1 /\ Values \in Nat \ {0}
      BY TableAssumption DEF TableInv, Calls
    <3> QED
      BY <3>1
  <2> HIDE DEF a
  <2> QED
    BY <2>1, <2>2 DEF Row
<1> HIDE DEF v, a
<1>8. \A r \in Rows : own[r] = own[a] /\ r # a => rows[r].key # v.key
  BY <1>1, <1>5, <1>7 DEF Placed
<1>9. v.key \in Keys
  BY <1>3, <1>4, <1>5, <1>7 DEF Tidy
<1>10. Tidy(rows', busy') /\ Placed(rows', busy', own, depth)
  <2>1. Tidy(rows', busy) /\ Placed(rows', busy, own, depth)
    BY <1>1, <1>3, <1>4, <1>5, <1>6, <1>7, <1>8, <1>9, RowEdited
  <2> QED
    BY <1>2, <2>1
<1>11. Sole(p)
  BY <1>2 DEF Sole
<1>12. \A r \in Rows : r # a => rows'[r] = rows[r]
  BY <1>3, <1>6 DEF Tidy
<1>13. rows'[a].active
  BY <1>3, <1>4, <1>5, <1>6, <1>7 DEF Tidy
<1>14. RowStays'
  <2>1. \A r \in Rows : own[r] # Root(p) /\ own[r] # None => rows'[r] = rows[r] /\ own[r] = own[r]
    BY <1>5, <1>12
  <2> QED
    BY <1>1, <1>2, <1>3, <1>10, <1>11, <2>1, StaysKept
<1>15. Counted'
  <2>1. \A r \in Rows : rows'[r].active = rows[r].active
    BY <1>3, <1>5, <1>6, <1>7, <1>12 DEF Tidy
  <2>2. Active' = Active /\ Deleting' = Deleting
    BY <1>2, <2>1 DEF Active, Deleting
  <2> QED
    BY <1>2, <2>2 DEF TableInv, Counted
<1>16. TableInv'
  BY <1>1, <1>2, <1>10, <1>14, <1>15 DEF TableInv, Linked, Calls
<1>17. Shown(key[p])
  <2> DEFINE k == key[p]
  <2>1. k \in Keys /\ own[a] = HashOf[k] /\ rows[a].key = k
    BY <1>3, <1>4, <1>5, <1>7, <1>9 DEF Root
  <2>2. value[p] = rows[a].data
    BY <1>2 DEF TableInv, RowStays, a
  <2>3. ValueOf(k) = value[p] /\ ValueOf(k) # None
    <3> HIDE DEF k
    <3> QED
      BY <1>1, <1>3, <1>5, <2>1, <2>2, ValueNow
  <2>4. rows'[a].key = k /\ rows'[a].data = (ValueOf(k) + 1) % Values
    <3>1. rows'[a] = v
      BY <1>3, <1>5, <1>6 DEF Tidy
    <3>2. v.data = (value[p] + 1) % Values
      <4>1. rows[a] \in Row
        BY <1>3, <1>5 DEF Tidy
      <4> QED
        BY <4>1 DEF v, Row
    <3> QED
      BY <1>7, <2>1, <2>3, <3>1, <3>2
  <2>5. \A r \in Rows : own[r] # None /\ rows[r].key \in Keys \ {k} => own[r] = own[r] /\ rows'[r] = rows[r]
    BY <1>12, <2>1
  <2>6. \A r \in Rows : own[r] # None /\ rows'[r].key \in Keys \ {k} => own[r] = own[r] /\ rows'[r] = rows[r]
    BY <1>12, <2>4
  <2> HIDE DEF k
  <2>7. Becomes(k, (ValueOf(k) + 1) % Values)
    BY <1>1, <1>3, <1>5, <1>10, <2>1, <2>4, <2>5, <2>6, Valued
  <2>8. Shown(k)
    BY <2>3, <2>7, CountShown
  <2> QED
    BY <2>8 DEF k
<1> QED
  BY <1>16, <1>17

\* A call inside the bucket has put the rows in another order, and goes on.
LEMMA Settled ==
    ASSUME Inv, TableInv, NEW own, NEW depth, Placed(rows, busy, own, depth),
           NEW own2, NEW depth2, Tidy(rows', busy'), Placed(rows', busy', own2, depth2),
           NEW p \in Procs, NEW r \in Rows \cup {None}, NEW to, Finds(p, r, to), UNCHANGED <<op, key, value>>,
           \A s \in Rows : own[s] # Root(p) /\ own[s] # None => rows'[s] = rows[s] /\ own2[s] = own[s],
           to # "write",
           to = "read" => r \in Rows /\ own2[r] = Root(p) /\ rows'[r].active /\ rows'[r].key = key[p],
           Pool(slices', busy'), Counted'
    PROVE  TableInv'
<1>1. /\ Sole(p) /\ Calls' /\ pc[p] = "find" /\ pc'[p] = to /\ row'[p] = r
      /\ Root(p)' = Root(p) /\ key'[p] = key[p]
  BY SoleFinds
<1>2. In(p) /\ Root(p) \in Buckets
  BY <1>1, RootType DEF In, Working, Inv
<1>3. RowStays'
  BY <1>1, <1>2, StaysKept
<1>4. own2 \in [Rows -> Buckets \cup {None}] /\ depth2 \in [Rows -> Nat]
  BY DEF Placed, Positions
<1>5. Linked(rows, busy)'
  BY <1>4 DEF Linked
<1> QED
  BY <1>1, <1>3, <1>5 DEF TableInv

\* Where a call finds itself after the lock.
LEMMA Entered ==
    ASSUME Inv, TableInv, NEW p \in Procs, pc[p] = "find"
    PROVE  /\ Root(p) \in Buckets /\ Root(p) \in Rows /\ key[p] \in Keys /\ Tidy(rows, busy)
           /\ \E own \in [Rows -> Buckets \cup {None}], depth \in [Rows -> Nat] : Placed(rows, busy, own, depth)
BY RootType, Sizes DEF TableInv, Linked, Inv, CallTypes

\* With nothing behind the first row there are no others.
LEMMA OnlyRoot ==
    ASSUME NEW R, NEW B, NEW own, NEW depth, Tidy(R, B), Placed(R, B, own, depth),
           NEW b \in Buckets, R[b].next = None, NEW r \in Rows, own[r] = b
    PROVE  r = b
<1>1. /\ own[b] = b /\ depth[b] = 0 /\ b \in Rows /\ own[r] # None /\ b # None /\ depth[r] \in Nat
  BY Sizes DEF Placed, Positions
<1>2. CASE depth[r] = 0
  BY <1>1, <1>2 DEF Placed
<1>3. CASE depth[r] # 0
  <2>1. PICK s \in Rows : own[s] = own[r] /\ depth[s] = 1
    BY <1>1, <1>3, Below
  <2>2. R[b].next = s
    BY <1>1, <2>1 DEF Placed
  <2> QED
    BY <2>1, <2>2, Sizes
<1> QED
  BY <1>2, <1>3

LEMMA SetUsesRootTable ==
    ASSUME OneLength, Inv, TableInv, NEW p \in Procs, SetUsesRoot(p)
    PROVE  TableInv' /\ Shown(key[p])
<1> DEFINE b == Root(p)
           v == [rows[b] EXCEPT !.key = key[p], !.active = TRUE]
<1>1. /\ ~rows[b].active /\ Finds(p, b, "read") /\ row_num' = row_num + 1
      /\ UNCHANGED <<lock, slices, busy, op, key, value>> /\ rows' = [rows EXCEPT ![b] = v]
  BY DEF SetUsesRoot
<1>2. pc[p] = "find"
  BY <1>1 DEF Finds, Goes
<1>3. b \in Buckets /\ b \in Rows /\ key[p] \in Keys /\ Tidy(rows, busy)
  BY <1>2, Entered
<1>4. PICK own \in [Rows -> Buckets \cup {None}], depth \in [Rows -> Nat] : Placed(rows, busy, own, depth)
  BY <1>2, Entered
<1>5. own[b] = b /\ b # None
  BY <1>3, <1>4, Sizes DEF Placed, Positions
<1>6. rows[b] = Empty /\ rows[b].next = None
  <2>1. rows[b] = Empty
    BY <1>1, <1>3 DEF Tidy
  <2> QED
    BY <2>1, EmptyRow
<1>7. v \in Row /\ v.next = rows[b].next /\ v.active /\ v.key = key[p]
  <2>1. rows[b] \in Row
    BY <1>3 DEF Tidy
  <2>2. key[p] \in Seq(Chars)
    BY <1>3, KeysNotEmpty
  <2> HIDE DEF b
  <2> QED
    BY <2>1, <2>2 DEF Row
<1> HIDE DEF v, b
<1>8. \A r \in Rows : own[r] = own[b] /\ r # b => rows[r].key # v.key
  BY <1>3, <1>4, <1>5, <1>6, OnlyRoot
<1>9. Tidy(rows', busy) /\ Placed(rows', busy, own, depth)
  <2>1. b \notin Slices
    BY <1>3, Sizes
  <2> QED
    BY <1>1, <1>3, <1>4, <1>5, <1>7, <1>8, <2>1, RowEdited
<1>10. rows'[b] = v /\ \A r \in Rows : r # b => rows'[r] = rows[r]
  BY <1>1, <1>3 DEF Tidy
<1>11. Counted'
  <2>1. Sole(p) /\ pc'[p] = "read"
    BY <1>1, <1>3, SoleFinds
  <2> QED
    BY <1>1, <1>2, <1>3, <1>7, <1>10, <2>1, CountedMore
<1>12. Pool(slices', busy')
  BY <1>1 DEF TableInv
<1>13. Tidy(rows', busy') /\ Placed(rows', busy', own, depth)
  BY <1>1, <1>9
<1>14. \A s \in Rows : own[s] # Root(p) /\ own[s] # None => rows'[s] = rows[s] /\ own[s] = own[s]
  BY <1>5, <1>10 DEF b
<1>15. b \in Rows /\ own[b] = Root(p) /\ rows'[b].active /\ rows'[b].key = key[p]
  BY <1>3, <1>5, <1>7, <1>10 DEF b
<1>16. TableInv'
  BY <1>1, <1>4, <1>11, <1>12, <1>13, <1>14, <1>15, Settled
<1>17. Shown(key[p])
  <2> DEFINE k == key[p]
  <2>1. k \in Keys /\ HashOf[k] = b
    BY <1>3 DEF b, Root
  <2>2. \A r \in Rows : own[r] = b => rows[r].key # k
    <3>1. rows[b].key # k
      BY <1>6, <2>1, EmptyRow, KeysNotEmpty
    <3>2. \A r \in Rows : own[r] = b => r = b
      BY <1>3, <1>4, <1>6, OnlyRoot
    <3> QED
      BY <3>1, <3>2
  <2>3. rows[b].key \notin Keys
    BY <1>6, EmptyRow, KeysNotEmpty
  <2>4. rows'[b].key = k /\ rows'[b].data = 0
    <3>1. v.data = 0
      <4>1. rows[b].data = 0
        BY <1>6 DEF Empty
      <4>2. rows[b] \in Row
        BY <1>3 DEF Tidy
      <4> QED
        BY <4>1, <4>2 DEF v, Row
    <3> QED
      BY <1>7, <1>10, <3>1
  <2>5. \A r \in Rows : own[r] # None /\ rows[r].key \in Keys \ {k} => own[r] = own[r] /\ rows'[r] = rows[r]
    BY <1>10, <2>3
  <2>6. \A r \in Rows : own[r] # None /\ rows'[r].key \in Keys \ {k} => own[r] = own[r] /\ rows'[r] = rows[r]
    BY <1>10, <2>4
  <2> HIDE DEF k
  <2>7. Becomes(k, 0)
    BY <1>3, <1>4, <1>5, <1>13, <2>1, <2>4, <2>5, <2>6, Valued
  <2>8. ValueOf(k) = None
    BY <1>3, <1>4, <2>1, <2>2, ValueNow
  <2> QED
    BY <2>7, <2>8, AddedShown DEF k
<1> QED
  BY <1>16, <1>17

LEMMA SetAddsRowTable ==
    ASSUME OneLength, Inv, TableInv, NEW p \in Procs, SetAddsRow(p)
    PROVE  TableInv' /\ Shown(key[p])
<1> DEFINE a == Head(slices)
           b == Root(p)
           e == EndOf(b)
           v == [rows[a] EXCEPT !.active = TRUE, !.next = None, !.key = key[p]]
<1>1. /\ rows[b].active /\ ~Known(b, key[p]) /\ a \notin busy /\ Finds(p, a, "read") /\ row_num' = row_num + 1
      /\ UNCHANGED <<lock, op, key, value>> /\ slices' = Append(Tail(slices), a) /\ busy' = busy \cup {a}
      /\ rows' = [rows EXCEPT ![a] = v, ![e].next = a]
  BY DEF SetAddsRow, Collides, CanAlloc
<1>2. pc[p] = "find"
  BY <1>1 DEF Finds, Goes
<1>3. b \in Buckets /\ b \in Rows /\ key[p] \in Keys /\ Tidy(rows, busy)
  BY <1>2, Entered
<1>4. PICK own \in [Rows -> Buckets \cup {None}], depth \in [Rows -> Nat] : Placed(rows, busy, own, depth)
  BY <1>2, Entered
<1>5. own[b] = b /\ b # None
  BY <1>3, <1>4, Sizes DEF Placed, Positions
<1>6. a \in Slices /\ a \in Rows /\ Pool(slices', busy')
  BY <1>1, PoolTaken, Sizes DEF TableInv
<1>7. e \in Rows /\ own[e] = b /\ rows[e].next = None
  <2>1. \A r : r \in InChain(b) <=> r \in Rows /\ own[r] = b
    BY <1>3, <1>4, ChainPlaced, ChainNow
  <2>2. \E r \in InChain(b) : rows[r].next = None
    BY <1>3, <1>4, <2>1, EndPlaced
  <2>3. e \in InChain(b) /\ rows[e].next = None
    BY <2>2 DEF EndOf
  <2> QED
    BY <2>1, <2>3
<1>8. rows[e].active
  <2>1. CASE e \in Buckets
    <3>1. e = b
      BY <1>4, <1>7, <2>1 DEF Placed, Positions
    <3> QED
      BY <1>1, <3>1
  <2>2. CASE e \notin Buckets
    <3>1. e \in Slices /\ own[e] # None
      BY <1>5, <1>7, <2>2, Sizes
    <3>2. e \in busy
      BY <1>4, <3>1 DEF Placed, Positions
    <3> QED
      BY <1>3, <3>1, <3>2 DEF Tidy
  <2> QED
    BY <2>1, <2>2
<1>9. v \in Row /\ v.next = None /\ v.active /\ v.key = key[p]
  <2>1. rows[a] \in Row
    BY <1>3, <1>6 DEF Tidy
  <2>2. key[p] \in Seq(Chars)
    BY <1>3, KeysNotEmpty
  <2> HIDE DEF a
  <2> QED
    BY <2>1, <2>2 DEF Row
<1>10. \A r \in Rows : own[r] = own[e] => rows[r].key # v.key
  <2>1. RowOf(b, key[p]) = None
    BY <1>1 DEF Known
  <2>2. b # None /\ None \notin Rows
    BY <1>5, Sizes
  <2>3. \A r \in Rows : own[r] = b => rows[r].key # key[p]
    BY <1>3, <1>4, <2>1, <2>2, RowOfFacts
  <2> QED
    BY <1>7, <1>9, <2>3
<1> HIDE DEF v, a, b, e
<1>11. ~rows[a].active /\ a # e /\ a \notin Buckets
  BY <1>1, <1>3, <1>6, <1>8, Sizes DEF Tidy
<1> DEFINE own2 == [own EXCEPT ![a] = own[e]]
           depth2 == [depth EXCEPT ![a] = depth[e] + 1]
<1>12. Tidy(rows', busy') /\ Placed(rows', busy', own2, depth2)
  <2>1. own[e] # None
    BY <1>5, <1>7
  <2>2. /\ Tidy(rows', busy \cup {a})
        /\ Placed(rows', busy \cup {a}, own2, depth2)
    <3> HIDE DEF own2, depth2
    <3> QED
      BY <1>1, <1>3, <1>4, <1>6, <1>7, <1>8, <1>9, <1>10, <2>1, RowAdded DEF own2, depth2
  <2> QED
    BY <1>1, <2>2
<1>13. /\ rows'[a] = v /\ \A r \in Rows : r # a /\ r # e => rows'[r] = rows[r]
       /\ rows'[e].active = rows[e].active
  <2>1. \A x \in Rows : rows[x] \in Row
    BY <1>3 DEF Tidy
  <2>2. ASSUME NEW w \in Row PROVE [w EXCEPT !.next = a].active = w.active
    BY DEF Row
  <2>3. rows'[e] = [rows[e] EXCEPT !.next = a]
    BY <1>1, <1>3, <1>6, <1>7, <1>11 DEF Tidy
  <2>4. rows'[a] = v /\ \A r \in Rows : r # a /\ r # e => rows'[r] = rows[r]
    BY <1>1, <1>3, <1>6, <1>7, <1>11 DEF Tidy
  <2> QED
    BY <1>7, <2>1, <2>2, <2>3, <2>4
<1>14. own2[a] = b /\ \A r \in Rows : r # a => own2[r] = own[r]
  BY <1>6, <1>7
<1> HIDE DEF own2, depth2
<1>15. Counted'
  <2>1. Sole(p) /\ pc'[p] = "read"
    BY <1>1, <1>6, SoleFinds
  <2>2. \A r \in Rows : r # a => rows'[r].active = rows[r].active
    BY <1>13
  <2> QED
    BY <1>1, <1>2, <1>6, <1>9, <1>11, <1>13, <2>1, <2>2, CountedMore
<1>16. \A s \in Rows : own[s] # Root(p) /\ own[s] # None => rows'[s] = rows[s] /\ own2[s] = own[s]
  <2>1. own[a] = None
    BY <1>1, <1>4, <1>6 DEF Placed, Positions
  <2> QED
    BY <1>7, <1>13, <1>14, <2>1 DEF b
<1>17. a \in Rows /\ own2[a] = Root(p) /\ rows'[a].active /\ rows'[a].key = key[p]
  BY <1>6, <1>9, <1>13, <1>14 DEF b
<1>18. a \in Rows \cup {None} /\ Finds(p, a, "read") /\ UNCHANGED <<op, key, value>> /\ Pool(slices', busy')
  BY <1>1, <1>6
<1>19. TableInv'
  BY <1>4, <1>12, <1>15, <1>16, <1>17, <1>18, Settled
<1>20. Shown(key[p])
  <2> DEFINE k == key[p]
  <2>1. k \in Keys /\ HashOf[k] = b
    BY <1>3 DEF b, Root
  <2>2. \A r \in Rows : own[r] = b => rows[r].key # k
    BY <1>7, <1>9, <1>10
  <2>3. rows[a] = Empty
    BY <1>3, <1>6, <1>11 DEF Tidy
  <2>4. rows[a].key \notin Keys /\ rows[a].data = 0
    BY <2>3, EmptyRow, KeysNotEmpty DEF Empty
  <2>5. rows'[a].key = k /\ rows'[a].data = 0
    <3>1. v.data = 0
      <4>1. rows[a] \in Row
        BY <1>3, <1>6 DEF Tidy
      <4> QED
        BY <2>4, <4>1 DEF v, Row
    <3> QED
      BY <1>9, <1>13, <3>1
  <2>6. rows'[e].key = rows[e].key /\ rows'[e].data = rows[e].data
    <3>1. ASSUME NEW w \in Row PROVE LET u == [w EXCEPT !.next = a] IN u.key = w.key /\ u.data = w.data
      BY DEF Row
    <3>2. rows'[e] = [rows[e] EXCEPT !.next = a] /\ rows[e] \in Row
      BY <1>1, <1>3, <1>6, <1>7, <1>11 DEF Tidy
    <3> QED
      BY <3>1, <3>2
  <2>7. \A r \in Rows : r # a => own2[r] = own[r] /\ rows'[r].key = rows[r].key /\ rows'[r].data = rows[r].data
    BY <1>13, <1>14, <2>6
  <2>8. \A r \in Rows : own[r] # None /\ rows[r].key \in Keys \ {k} =>
           own2[r] = own[r] /\ rows'[r].key = rows[r].key /\ rows'[r].data = rows[r].data
    BY <2>4, <2>7
  <2>9. \A r \in Rows : own2[r] # None /\ rows'[r].key \in Keys \ {k} => own[r] = own2[r] /\ rows[r].key = rows'[r].key
    BY <2>5, <2>7
  <2> HIDE DEF k
  <2>10. Becomes(k, 0)
    BY <1>3, <1>4, <1>6, <1>12, <1>14, <2>1, <2>5, <2>8, <2>9, Valued
  <2>11. ValueOf(k) = None
    BY <1>3, <1>4, <2>1, <2>2, ValueNow
  <2> QED
    BY <2>10, <2>11, AddedShown DEF k
<1> QED
  BY <1>19, <1>20

\* A row that was found is deleted, and the pool is in order.
LEMMA DelAloneTable ==
    ASSUME OneLength, Inv, TableInv, NEW p \in Procs, DelAlone(p)
    PROVE  TableInv' /\ Shown(key[p])
<1> DEFINE b == Root(p)
<1>1. /\ pc[p] = "find" /\ Known(b, key[p]) /\ rows[b].next = None /\ Finds(p, None, "uncount")
      /\ UNCHANGED <<slices, busy, row_num, op, key, value>> /\ rows' = [rows EXCEPT ![b] = Empty]
  BY DEF DelAlone, Deletes, Alone, At
<1>2. b \in Buckets /\ b \in Rows /\ key[p] \in Keys /\ Tidy(rows, busy)
  BY <1>1, Entered
<1>3. PICK own \in [Rows -> Buckets \cup {None}], depth \in [Rows -> Nat] : Placed(rows, busy, own, depth)
  BY <1>1, Entered
<1>4. own[b] = b /\ b # None
  BY <1>2, <1>3, Sizes DEF Placed, Positions
<1>5. rows[b].active /\ rows[b].key = key[p]
  <2>1. /\ RowOf(b, key[p]) \in Rows /\ own[RowOf(b, key[p])] = b
        /\ rows[RowOf(b, key[p])].active /\ rows[RowOf(b, key[p])].key = key[p]
    BY <1>1, <1>2, <1>3, RowOfFacts DEF Known
  <2>2. RowOf(b, key[p]) = b
    <3> HIDE DEF b
    <3> QED
      BY <1>1, <1>2, <1>3, <2>1, OnlyRoot
  <2> QED
    BY <2>1, <2>2
<1> HIDE DEF b
<1>6. \A r \in Rows : own[r] = own[b] /\ r # b => rows[r].key # Empty.key
  BY <1>1, <1>2, <1>3, <1>4, OnlyRoot
<1>7. Tidy(rows', busy) /\ Placed(rows', busy, own, depth)
  <2>1. b \notin Slices
    BY <1>2, Sizes
  <2> QED
    BY <1>1, <1>2, <1>3, <1>4, <1>6, <2>1, EmptyRow, RowEdited
<1>8. rows'[b] = Empty /\ \A r \in Rows : r # b => rows'[r] = rows[r]
  BY <1>1, <1>2 DEF Tidy
<1>9. Counted'
  <2>1. Sole(p) /\ pc'[p] = "uncount"
    BY <1>1, SoleFinds
  <2> QED
    BY <1>1, <1>2, <1>5, <1>8, <2>1, EmptyRow, CountedLess
<1>10. Pool(slices', busy')
  BY <1>1 DEF TableInv
<1>11. Tidy(rows', busy') /\ Placed(rows', busy', own, depth)
  BY <1>1, <1>7
<1>12. \A s \in Rows : own[s] # Root(p) /\ own[s] # None => rows'[s] = rows[s] /\ own[s] = own[s]
  BY <1>4, <1>8 DEF b
<1>13. TableInv'
  BY <1>1, <1>3, <1>9, <1>10, <1>11, <1>12, Settled
<1>14. Shown(key[p])
  <2> DEFINE k == key[p]
  <2>1. k \in Keys /\ HashOf[k] = b
    BY <1>2 DEF b, Root
  <2>2. rows[b].key = k
    BY <1>5
  <2>3. rows'[b].key \notin Keys
    BY <1>8, EmptyRow, KeysNotEmpty
  <2>4. \A r \in Rows : own[r] = b => rows'[r].key # k
    BY <1>1, <1>2, <1>3, <2>1, <2>3, OnlyRoot
  <2>5. \A r \in Rows : own[r] # None /\ rows[r].key \in Keys \ {k} => own[r] = own[r] /\ rows'[r] = rows[r]
    BY <1>8, <2>2
  <2>6. \A r \in Rows : own[r] # None /\ rows'[r].key \in Keys \ {k} => own[r] = own[r] /\ rows'[r] = rows[r]
    BY <1>8, <2>3
  <2> HIDE DEF k
  <2>7. Becomes(k, None)
    BY <1>2, <1>3, <1>11, <2>1, <2>4, <2>5, <2>6, Valued
  <2>8. ValueOf(k) # None
    BY <1>2, <1>3, <1>4, <2>1, <2>2, ValueNow
  <2> QED
    BY <2>7, <2>8, GoneShown DEF k
<1> QED
  BY <1>13, <1>14

\* A slice is unlinked behind q, which becomes v, and given back to the pool.
LEMMA CutTable ==
    ASSUME OneLength, Inv, TableInv, NEW own, NEW depth, Placed(rows, busy, own, depth),
           NEW p \in Procs, Finds(p, None, "uncount"), UNCHANGED <<row_num, op, key, value>>,
           NEW q \in Rows, own[q] = Root(p), rows[q].active, NEW t \in Slices, rows[q].next = t, FreeSlice(t),
           NEW v \in Row, v.active, v.next = rows[t].next, v.key \in Keys,
           \/ v.key = rows[q].key /\ v.data = rows[q].data /\ rows[t].key = key[p]
           \/ v.key = rows[t].key /\ v.data = rows[t].data /\ rows[q].key = key[p],
           rows' = Cut(rows, q, v, t)
    PROVE  TableInv' /\ Shown(key[p])
<1> DEFINE own2 == Without(own, t)
           depth2 == Shallower(own, depth, t)
<1>1. pc[p] = "find" /\ busy' = busy \ {t} /\ slices' = ToHead(slices, t)
  BY DEF Finds, Goes, FreeSlice
<1>2. Tidy(rows, busy) /\ Root(p) \in Buckets /\ t \in Rows /\ own[q] # None
  BY <1>1, Entered, Sizes
<1>3. /\ t \in busy /\ own[t] = own[q]
      /\ Tidy(Cut(rows, q, v, t), busy \ {t}) /\ Placed(Cut(rows, q, v, t), busy \ {t}, own2, depth2)
  <2>1. Empty \in Row
    BY EmptyRow
  <2>2. t \in busy
    BY <1>2, <2>1, RowCut
  <2>3. own[t] = own[q]
    BY <1>2 DEF Placed
  <2>4. Tidy(Cut(rows, q, v, t), busy \ {t})
    BY <1>2, <2>1, RowCut
  <2>5. Placed(Cut(rows, q, v, t), busy \ {t}, own2, depth2)
    BY <1>2, <2>1, RowCut
  <2> QED
    BY <2>2, <2>3, <2>4, <2>5
<1>4. Tidy(rows', busy') /\ Placed(rows', busy', own2, depth2)
  BY <1>1, <1>3
<1>5. q # t
  BY <1>2 DEF Placed, Positions
<1>6. rows'[q] = v /\ rows'[t] = Empty /\ \A r \in Rows : r # q /\ r # t => rows'[r] = rows[r]
  BY <1>2, <1>5 DEF Tidy, Cut
<1>7. \A r \in Rows : r # t => own2[r] = own[r]
  BY <1>2 DEF Placed, Positions, Without
<1> HIDE DEF own2, depth2
<1>8. Counted'
  <2>1. Sole(p) /\ pc'[p] = "uncount"
    BY SoleFinds
  <2>2. rows[t].active /\ ~rows'[t].active
    BY <1>2, <1>3, <1>6, EmptyRow DEF Tidy
  <2>3. v.active = rows[q].active
    BY <1>2 DEF Tidy, Row
  <2>4. \A r \in Rows : r # t => rows'[r].active = rows[r].active
    BY <1>6, <2>3
  <2> QED
    BY <1>1, <1>2, <2>1, <2>2, <2>4, CountedLess
<1>9. Pool(slices', busy')
  BY <1>1, PoolGiven DEF TableInv
<1>10. \A s \in Rows : own[s] # Root(p) /\ own[s] # None => rows'[s] = rows[s] /\ own2[s] = own[s]
  BY <1>3, <1>6, <1>7
<1>11. UNCHANGED <<op, key, value>>
  OBVIOUS
<1>12. TableInv'
  BY <1>4, <1>8, <1>9, <1>10, <1>11, Settled
<1>13. Shown(key[p])
  <2> DEFINE k == key[p]
  <2>1. k \in Keys /\ HashOf[k] = Root(p)
    BY <1>1, Entered DEF Root
  <2>2. rows'[t].key \notin Keys
    BY <1>6, EmptyRow, KeysNotEmpty
  <2>3. rows[q].key # rows[t].key
    BY <1>2, <1>3, <1>5 DEF Placed
  <2>4. own2[t] = None
    BY <1>2 DEF own2, Without, Placed, Positions
  <2>5. ValueOf(k) # None
    BY <1>2, <1>3, <2>1, ValueNow
  <2>6. \A r \in Rows : own[r] # None /\ rows[r].key \in Keys \ {k} =>
           \E s \in Rows : own2[s] = own[r] /\ rows'[s].key = rows[r].key /\ rows'[s].data = rows[r].data
    <3> SUFFICES ASSUME NEW r \in Rows, own[r] # None, rows[r].key \in Keys \ {k}
                 PROVE  \E s \in Rows : own2[s] = own[r] /\ rows'[s].key = rows[r].key /\ rows'[s].data = rows[r].data
      OBVIOUS
    <3>1. CASE r \in {q, t}
      <4>1. rows'[q].key = rows[r].key /\ rows'[q].data = rows[r].data
        BY <1>6, <3>1
      <4>2. own2[q] = own[r]
        BY <1>3, <1>5, <1>7, <3>1
      <4> QED
        BY <4>1, <4>2
    <3>2. CASE r \notin {q, t}
      BY <1>6, <1>7, <3>2
    <3> QED
      BY <3>1, <3>2
  <2>7. \A s \in Rows : own2[s] # None /\ rows'[s].key \in Keys \ {k} => \E r \in Rows : own[r] = own2[s] /\ rows[r].key = rows'[s].key
    <3> SUFFICES ASSUME NEW s \in Rows, own2[s] # None, rows'[s].key \in Keys \ {k}
                 PROVE  \E r \in Rows : own[r] = own2[s] /\ rows[r].key = rows'[s].key
      OBVIOUS
    <3>1. CASE s = q
      <4>1. own[q] = own2[s] /\ own[t] = own2[s]
        BY <1>3, <1>5, <1>7, <3>1
      <4>2. rows'[s].key \in {rows[q].key, rows[t].key}
        BY <1>6, <3>1
      <4> QED
        BY <1>2, <4>1, <4>2
    <3>2. CASE s # q
      BY <1>6, <1>7, <2>4, <3>2
    <3> QED
      BY <3>1, <3>2
  <2>8. \A s \in Rows : own2[s] = HashOf[k] => rows'[s].key # k
    <3> SUFFICES ASSUME NEW s \in Rows, own2[s] = HashOf[k] PROVE rows'[s].key # k
      OBVIOUS
    <3>1. s # t
      BY <1>2, <2>1, <2>4
    <3>2. CASE s = q
      BY <1>6, <2>3, <3>2
    <3>3. CASE s # q
      <4>1. own[s] = own[q] /\ own[s] = own[t] /\ rows'[s] = rows[s]
        BY <1>3, <1>6, <1>7, <2>1, <3>1, <3>3
      <4>2. rows[s].key # rows[q].key /\ rows[s].key # rows[t].key
        BY <1>2, <3>1, <3>3, <4>1 DEF Placed
      <4> QED
        BY <4>1, <4>2
    <3> QED
      BY <3>2, <3>3
  <2> HIDE DEF k
  <2>9. Becomes(k, None)
    BY <1>2, <1>4, <2>1, <2>6, <2>7, <2>8, Valued
  <2> QED
    BY <2>5, <2>9, GoneShown DEF k
<1> QED
  BY <1>12, <1>13

\* Of keys of one length nothing stays of the old one.
LEMMA OverWhole ==
    ASSUME OneLength, NEW new \in Keys, NEW old \in Keys
    PROVE  Over(new, old) = new
<1>1. PICK n \in Nat \ {0} : Keys \subseteq [1 .. n -> Chars]
  BY DEF OneLength
<1>2. \A x \in Keys : x \in Seq(Chars) /\ Len(x) = n
  <2> SUFFICES ASSUME NEW x \in Keys PROVE x \in Seq(Chars) /\ Len(x) = n
    OBVIOUS
  <2>1. x \in [1 .. n -> Chars] /\ x \in Seq(Chars)
    BY <1>1, KeysNotEmpty
  <2> QED
    BY <1>1, <2>1, LenProperties
<1>3. SubSeq(old, Len(new) + 1, Len(old)) = << >>
  BY <1>1, <1>2, SubSeqEmpty
<1> QED
  BY <1>2, <1>3, ConcatEmptySeq DEF Over

LEMMA DelRootTable ==
    ASSUME OneLength, Inv, TableInv, NEW p \in Procs, DelRoot(p)
    PROVE  TableInv' /\ Shown(key[p])
<1> DEFINE b == Root(p)
           t == rows[b].next
           v == Moved(b, t)
<1>1. /\ pc[p] = "find" /\ Known(b, key[p]) /\ RowOf(b, key[p]) = b /\ t # None /\ Finds(p, None, "uncount")
      /\ UNCHANGED <<row_num, op, key, value>> /\ FreeSlice(t) /\ rows' = Cut(rows, b, v, t)
  BY DEF Cut, DelRoot, Deletes, Alone, AtRoot, At
<1>2. b \in Buckets /\ b \in Rows /\ key[p] \in Keys /\ Tidy(rows, busy)
  BY <1>1, Entered
<1>3. PICK own \in [Rows -> Buckets \cup {None}], depth \in [Rows -> Nat] : Placed(rows, busy, own, depth)
  BY <1>1, Entered
<1>4. own[b] = b /\ b # None
  BY <1>2, <1>3, Sizes DEF Placed, Positions
<1>5. rows[b].active /\ rows[b].key = key[p]
  BY <1>1, <1>2, <1>3, RowOfFacts DEF Known
<1>6. t \in Slices /\ t \in Rows /\ rows[b] \in Row /\ rows[t] \in Row
  <2>1. rows[b] \in Row
    BY <1>2 DEF Tidy
  <2>2. t \in Slices
    BY <1>1, <2>1 DEF Row
  <2> QED
    BY <1>2, <2>1, <2>2, Sizes DEF Tidy
<1>7. rows[t].active
  <2>1. own[t] = b
    BY <1>2, <1>3, <1>4, <1>6 DEF Placed
  <2>2. t \in busy
    BY <1>3, <1>4, <1>6, <2>1 DEF Placed, Positions
  <2> QED
    BY <1>2, <1>6, <2>2 DEF Tidy
<1>8. Over(rows[t].key, rows[b].key) = rows[t].key /\ rows[t].key \in Keys
  BY <1>2, <1>5, <1>6, <1>7, OverWhole DEF Tidy
<1>9. v \in Row /\ v.active /\ v.next = rows[t].next /\ v.key = rows[t].key /\ v.data = rows[t].data
  <2>1. v = [rows[b] EXCEPT !.next = rows[t].next, !.data = rows[t].data, !.key = rows[t].key]
    BY <1>8 DEF Moved
  <2> HIDE DEF b, t, v
  <2>2. ASSUME NEW x \in Row, NEW y \in Row
        PROVE  LET z == [x EXCEPT !.next = y.next, !.data = y.data, !.key = y.key]
               IN  z \in Row /\ z.active = x.active /\ z.next = y.next /\ z.key = y.key /\ z.data = y.data
    BY <2>2 DEF Row
  <2>3. v \in Row /\ v.active = rows[b].active /\ v.next = rows[t].next /\ v.key = rows[t].key /\ v.data = rows[t].data
    BY <1>6, <2>1, <2>2
  <2> QED
    BY <1>5, <2>3
<1> HIDE DEF v
<1>10. own[b] = Root(p) /\ UNCHANGED <<row_num, op, key, value>>
  BY <1>1, <1>4
<1> HIDE DEF t, b
<1>11. rows[b].next = t
  BY DEF t
<1> QED
  BY <1>1, <1>2, <1>3, <1>5, <1>6, <1>8, <1>9, <1>10, <1>11, CutTable

LEMMA DelRowTable ==
    ASSUME OneLength, Inv, TableInv, NEW p \in Procs, DelRow(p)
    PROVE  TableInv' /\ Shown(key[p])
<1> DEFINE b == Root(p)
           t == RowOf(b, key[p])
           q == CHOOSE r \in Rows : rows[r].next = t
           v == [rows[q] EXCEPT !.next = rows[t].next]
<1>1. /\ pc[p] = "find" /\ Known(b, key[p]) /\ t # b /\ Finds(p, None, "uncount")
      /\ UNCHANGED <<row_num, op, key, value>> /\ FreeSlice(t)
      /\ rows' = [rows EXCEPT ![q].next = rows[t].next, ![t] = Empty]
  BY DEF DelRow, Deletes, AtRoot, At
<1>2. b \in Buckets /\ b \in Rows /\ key[p] \in Keys /\ Tidy(rows, busy)
  BY <1>1, Entered
<1>3. PICK own \in [Rows -> Buckets \cup {None}], depth \in [Rows -> Nat] : Placed(rows, busy, own, depth)
  BY <1>1, Entered
<1>4. own[b] = b /\ b # None
  BY <1>2, <1>3, Sizes DEF Placed, Positions
<1>5. t \in Rows /\ own[t] = b /\ rows[t].key = key[p]
  BY <1>1, <1>2, <1>3, RowOfFacts DEF Known
<1> HIDE DEF t
<1>6. t \in Slices
  BY <1>1, <1>3, <1>5, Sizes DEF Placed, Positions
<1>7. q \in Rows /\ rows[q].next = t /\ own[q] = b
  BY <1>2, <1>3, <1>4, <1>5, <1>6, OnePrevious
<1> HIDE DEF q, b
<1>8. rows[q].active
  BY <1>2, <1>6, <1>7, EmptyRow, Sizes DEF Tidy
<1>9. v \in Row /\ v.active /\ v.next = rows[t].next /\ v.key = rows[q].key /\ v.data = rows[q].data
  <2>1. rows[q] \in Row /\ rows[t] \in Row
    BY <1>2, <1>5, <1>7 DEF Tidy
  <2>2. ASSUME NEW x \in Row, NEW y \in Row, NEW z, z = [x EXCEPT !.next = y.next]
        PROVE  z \in Row /\ z.active = x.active /\ z.next = y.next /\ z.key = x.key /\ z.data = x.data
    BY <2>2 DEF Row
  <2> HIDE DEF v
  <2>3. v = [rows[q] EXCEPT !.next = rows[t].next]
    BY DEF v
  <2> QED
    BY <1>8, <2>1, <2>2, <2>3
<1>10. rows' = Cut(rows, q, v, t)
  BY <1>1 DEF Cut
<1> HIDE DEF v
<1>11. own[q] = Root(p) /\ UNCHANGED <<row_num, op, key, value>>
  BY <1>1, <1>7 DEF b
<1>12. v.key \in Keys
  BY <1>2, <1>7, <1>8, <1>9 DEF Tidy
<1> QED
  BY <1>1, <1>3, <1>5, <1>6, <1>7, <1>8, <1>9, <1>10, <1>11, <1>12, CutTable

LEMMA TableNext ==
    ASSUME Quiet, OneLength
    PROVE  Inv /\ TableInv /\ [Next]_vars => TableInv'
<1> SUFFICES ASSUME Inv, TableInv, [Next]_vars PROVE TableInv'
  OBVIOUS
<1>1. Inv'
  BY NextInv
<1>2. CASE UNCHANGED vars
  <2>1. UNCHANGED <<rows, slices, busy, row_num, pc, op, key, row, value>>
    BY <1>2 DEF vars, table, call
  <2>2. Counted'
    BY <2>1 DEF TableInv, Counted, Active, Deleting
  <2>3. RowStays'
    <3>1. \A q \in Procs : Root(q)' = Root(q) /\ InChain(Root(q))' = InChain(Root(q))
      BY <2>1 DEF Root, InChain, Chain
    <3> QED
      BY <2>1, <3>1 DEF TableInv, RowStays
  <2> QED
    BY <2>1, <2>2, <2>3 DEF TableInv, Linked, Calls
<1>3. ASSUME NEW p \in Procs,
             \/ \E o \in {"get", "incr", "del"}, k \in Keys : Call(p, o, k)
             \/ Test(p) \/ TestFails(p) \/ Lock(p)
      PROVE  TableInv'
  BY <1>1, <1>3, StillSteps
<1>4. ASSUME NEW p \in Procs, Inside(p) PROVE TableInv'
  <2>1. CASE Get(p) \/ SetFindsRow(p) \/ SetFails(p) \/ DelNothing(p) \/ Read(p) \/ Unlock(p)
    BY <1>1, <2>1, StillSteps
  <2>2. CASE SetUsesRoot(p)
    BY <2>2, SetUsesRootTable
  <2>3. CASE SetAddsRow(p)
    BY <2>3, SetAddsRowTable
  <2>4. CASE DelAlone(p)
    BY <2>4, DelAloneTable
  <2>5. CASE DelRoot(p)
    BY <2>5, DelRootTable
  <2>6. CASE DelRow(p)
    BY <2>6, DelRowTable
  <2>7. CASE Write(p)
    BY <1>1, <2>7, WriteTable
  <2>8. CASE Uncount(p)
    BY <2>8, UncountTable
  <2> QED
    BY <1>4, <2>1, <2>2, <2>3, <2>4, <2>5, <2>6, <2>7, <2>8 DEF Inside
<1> QED
  BY <1>2, <1>3, <1>4 DEF Next

\* While nobody comes to a bucket that is being emptied, and with keys of one
\* length, swTableRow_set and swTableRow_del keep the chains whole in any order
\* of calls: a row of the pool is in one chain or free and blank, a key is in
\* its bucket once, swFixedPool_alloc finds a free slice if there is one,
\* row_num counts the rows, and the row a process has found stays its row until
\* it unlocks - for any number of processes, keys, buckets and rows.
THEOREM ChainsStayWhole ==
    ASSUME Quiet, OneLength
    PROVE  Spec => []TableConsistent
<1>1. Inv /\ TableInv => TableConsistent
  BY TableIsConsistent
<1>2. Inv /\ TableInv /\ [Next]_vars => Inv' /\ TableInv'
  BY NextInv, TableNext
<1> QED
  BY <1>1, <1>2, InitInv, TableInit, PTL DEF Spec

(***************************************************************************)
(* The table is a map of counters.                                         *)
(***************************************************************************)
Seen == [k \in Keys |-> ValueOf(k)]

LEMMA ChangeShown ==
    ASSUME NEW k \in Keys, Shown(k)
    PROVE  [Promised!Next]_Seen
<1>1. PICK v \in Promised!Successors(ValueOf(k)) : Becomes(k, v)
  BY DEF Shown
<1>2. \A x \in Keys : Seen'[x] = IF x = k THEN v ELSE Seen[x]
  BY <1>1 DEF Becomes, Seen
<1>3. DOMAIN Seen' = Keys
  BY DEF Seen
<1>4. Promised!Change(k)
  BY <1>1, <1>2 DEF Promised!Change, Seen
<1> QED
  BY <1>3, <1>4 DEF Promised!Next, Seen

LEMMA SeenStays == ASSUME rows' = rows PROVE Seen' = Seen
BY ValuesStay DEF Seen

LEMMA SeenInit == ASSUME OneLength PROVE Init => Promised!Init
<1> SUFFICES ASSUME Init PROVE Promised!Init
  OBVIOUS
<1>1. PICK own \in [Rows -> Buckets \cup {None}], depth \in [Rows -> Nat] : Placed(rows, busy, own, depth)
  BY TableInit DEF TableInv, Linked
<1>2. Tidy(rows, busy)
  BY TableInit DEF TableInv, Linked
<1>3. \A r \in Rows : rows[r].key \notin Keys
  BY EmptyRow, KeysNotEmpty DEF Init
<1>4. \A k \in Keys : ValueOf(k) = None
  BY <1>1, <1>2, <1>3, ValueNow
<1> QED
  BY <1>4 DEF Promised!Init

LEMMA SeenNext ==
    ASSUME OneLength
    PROVE  Inv /\ TableInv /\ [Next]_vars => [Promised!Next]_Seen
<1> SUFFICES ASSUME Inv, TableInv, [Next]_vars PROVE [Promised!Next]_Seen
  OBVIOUS
<1>1. CASE rows' = rows
  BY <1>1, SeenStays
<1>2. ASSUME NEW p \in Procs, key[p] \in Keys, Shown(key[p]) PROVE [Promised!Next]_Seen
  BY <1>2, ChangeShown
<1>3. ASSUME NEW p \in Procs,
             SetUsesRoot(p) \/ SetAddsRow(p) \/ DelAlone(p) \/ DelRoot(p) \/ DelRow(p)
      PROVE  [Promised!Next]_Seen
  <2>1. key[p] \in Keys
    <3>1. pc[p] = "find"
      BY <1>3 DEF SetUsesRoot, SetAddsRow, DelAlone, DelRoot, DelRow, Finds, Goes
    <3> QED
      BY <3>1, Entered
  <2>2. Shown(key[p])
    BY <1>3, SetUsesRootTable, SetAddsRowTable, DelAloneTable, DelRootTable, DelRowTable
  <2> QED
    BY <1>2, <2>1, <2>2
<1>4. ASSUME NEW p \in Procs, Write(p), Inv' PROVE [Promised!Next]_Seen
  <2>1. pc[p] = "write"
    BY <1>4 DEF Write, Goes
  <2>2. key[p] \in Keys
    BY <2>1 DEF Inv, CallTypes
  <2>3. Shown(key[p])
    BY <1>4, WriteTable
  <2> QED
    BY <1>2, <2>2, <2>3
<1>5. ASSUME NEW p \in Procs,
             \/ \E o \in {"get", "incr", "del"}, k \in Keys : Call(p, o, k)
             \/ Test(p) \/ TestFails(p) \/ Lock(p) \/ Get(p) \/ SetFindsRow(p) \/ SetFails(p) \/ DelNothing(p)
             \/ Read(p) \/ Uncount(p) \/ Unlock(p)
      PROVE  rows' = rows
  BY <1>5 DEF Call, Test, TestFails, Lock, Get, SetFindsRow, SetFails, DelNothing, FindsNothing, Read, Uncount, Unlock, table
<1>6. ASSUME NEW p \in Procs, Write(p) PROVE Inv'
  <2>1. Inside(p)
    BY <1>6 DEF Inside
  <2> QED
    BY <2>1, InnerInv
<1>7. CASE UNCHANGED vars
  BY <1>1, <1>7 DEF vars, table
<1>8. CASE Next
  BY <1>1, <1>3, <1>4, <1>5, <1>6, <1>8 DEF Next, Inside
<1> QED
  BY <1>7, <1>8

\* While nobody comes to a bucket that is being emptied, and with keys of one
\* length, the table is a map of counters to its callers: swTableRow_set adds a
\* key with the value zero, whatever its row was used for before; no increment
\* of swoole_table::incr is lost; and swTableRow_del, also where it moves the
\* second row into the first, takes away one key.
THEOREM Refinement ==
    ASSUME Quiet, OneLength
    PROVE  Spec => ImplementsMap
<1>1. Inv /\ TableInv /\ [Next]_vars => Inv' /\ TableInv' /\ [Promised!Next]_Seen
  BY NextInv, TableNext, SeenNext
<1>2. Init => Inv /\ TableInv /\ Promised!Init
  BY InitInv, TableInit, SeenInit
<1> QED
  BY <1>1, <1>2, PTL DEF Spec, ImplementsMap, Promised!Spec, Seen
=============================================================================
