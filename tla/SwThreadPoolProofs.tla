------------------------- MODULE SwThreadPoolProofs -------------------------
(***************************************************************************)
(* Theorems about SwRingQueue and SwThreadPool, and their proofs.          *)
(***************************************************************************)
EXTENDS SwThreadPool, TLAPS, FiniteSetTheorems, SequenceTheorems

(***************************************************************************)
(* Offsets in the ring are at most one turn away.                          *)
(***************************************************************************)
LEMMA Wrapped ==
    ASSUME NEW a \in Nat, a < 2 * Size
    PROVE  a % Size = IF a < Size THEN a ELSE a - Size
<1>1. Size \in Nat /\ Size > 0
  BY RingAssumption
<1>2. CASE a < Size
  BY <1>1, <1>2
<1>3. CASE a >= Size
  BY <1>1, <1>3
<1> QED
  BY <1>1, <1>2, <1>3

\* The slot of the i-th element after offset h.
At(h, i) == IF h + i - 1 < Size THEN h + i - 1 ELSE h + i - 1 - Size

LEMMA WrappedAt ==
    ASSUME NEW h \in Index, NEW i \in 1 .. Size
    PROVE  (h + i - 1) % Size = At(h, i) /\ At(h, i) \in Index
<1>1. /\ Size \in Nat /\ Size > 0 /\ h \in Nat /\ i \in Nat
      /\ h + i - 1 \in Nat /\ h + i - 1 < 2 * Size
  BY RingAssumption DEF Index
<1>2. At(h, i) \in Index
  BY <1>1 DEF At, Index
<1>3. PICK a \in Nat : a = h + i - 1
  BY <1>1
<1>4. a % Size = IF a < Size THEN a ELSE a - Size
  BY <1>1, <1>3, Wrapped
<1> QED
  BY <1>1, <1>2, <1>3, <1>4 DEF At

LEMMA CountOf ==
    ASSUME NEW q \in Ring
    PROVE  /\ RingCount(q) = IF q.head = q.tail THEN q.tag * Size
                             ELSE IF q.tail > q.head THEN q.tail - q.head ELSE q.tail - q.head + Size
           /\ RingCount(q) \in 0 .. Size
           /\ RingCount(q) = 0 <=> IsEmpty(q)
           /\ RingCount(q) = Size <=> IsFull(q)
<1>1. /\ Size \in Nat /\ Size > 0 /\ q.head \in Nat /\ q.tail \in Nat /\ q.tag \in {0, 1}
      /\ q.head < Size /\ q.tail < Size
  BY RingAssumption DEF Ring, Index
<1>2. q.head # q.tail => RingCount(q) = IF q.tail > q.head THEN q.tail - q.head ELSE q.tail - q.head + Size
  <2>1. q.tail - q.head + Size \in Nat /\ q.tail - q.head + Size < 2 * Size
    BY <1>1
  <2> QED
    BY <1>1, <2>1, Wrapped DEF RingCount
<1>3. q.head = q.tail => RingCount(q) = q.tag * Size
  BY DEF RingCount
<1>4. q.tag * Size = IF q.tag = 0 THEN 0 ELSE Size
  BY <1>1
<1> QED
  BY <1>1, <1>2, <1>3, <1>4 DEF IsEmpty, IsFull

(***************************************************************************)
(* What swRingQueue_push adds and swRingQueue_pop takes away.              *)
(***************************************************************************)
LEMMA PushFacts ==
    ASSUME NEW q \in Ring, ~IsFull(q), NEW x \in Elements
    PROVE  LET r == RingPush(q, x)
           IN  /\ r \in Ring
               /\ RingCount(r) = RingCount(q) + 1
               /\ \A i \in 1 .. RingCount(q) : Contents(r)[i] = Contents(q)[i]
               /\ Contents(r)[RingCount(q) + 1] = x
<1> DEFINE r == RingPush(q, x)
           n == RingCount(q)
<1>1. /\ Size \in Nat /\ Size > 0 /\ q.head \in Nat /\ q.tail \in Nat /\ q.tag \in {0, 1}
      /\ q.head < Size /\ q.tail < Size /\ q.data \in [Index -> Elements \cup {0}] /\ q.tail \in Index
  BY RingAssumption DEF Ring, Index
<1>2. (q.tail + 1) % Size = IF q.tail + 1 < Size THEN q.tail + 1 ELSE 0
  BY <1>1, Wrapped
<1>3. /\ r.head = q.head /\ r.tail = (IF q.tail + 1 < Size THEN q.tail + 1 ELSE 0)
      /\ r.tag = (IF r.tail = q.head THEN 1 ELSE q.tag)
      /\ r.data = [q.data EXCEPT ![q.tail] = x]
  BY <1>2 DEF RingPush
<1>4. r \in Ring
  BY <1>1, <1>2 DEF RingPush, Ring, Index
<1>5. n \in 0 .. Size - 1 /\ n \in Nat
  BY <1>1, CountOf
<1>6. RingCount(r) = n + 1
  <2>1. /\ RingCount(q) = IF q.head = q.tail THEN q.tag * Size
                          ELSE IF q.tail > q.head THEN q.tail - q.head ELSE q.tail - q.head + Size
        /\ RingCount(r) = IF r.head = r.tail THEN r.tag * Size
                          ELSE IF r.tail > r.head THEN r.tail - r.head ELSE r.tail - r.head + Size
    BY <1>4, CountOf
  <2>2. q.head = q.tail => q.tag = 0
    BY <1>1 DEF IsFull
  <2>3. r.head = r.tail => r.tag = 1 /\ r.tag * Size = Size
    BY <1>1, <1>3
  <2>4. q.head = q.tail => q.tag * Size = 0
    BY <1>1, <2>2
  <2> HIDE DEF r
  <2> QED
    BY <1>1, <1>3, <2>1, <2>2, <2>3, <2>4
<1>7. ASSUME NEW i \in 1 .. n PROVE Contents(r)[i] = Contents(q)[i]
  <2>1. (q.head + i - 1) % Size \in Index /\ (q.head + i - 1) % Size # q.tail
    <3>1. (q.head + i - 1) % Size = At(q.head, i) /\ At(q.head, i) \in Index
      <4>1. q.head \in Index /\ i \in 1 .. Size
        BY <1>1, <1>5 DEF Index
      <4> QED
        BY <4>1, WrappedAt
    <3>2. n = IF q.head = q.tail THEN q.tag * Size
              ELSE IF q.tail > q.head THEN q.tail - q.head ELSE q.tail - q.head + Size
      BY CountOf
    <3>3. q.head = q.tail => q.tag * Size = 0
      BY <1>1 DEF IsFull
    <3>4. i \in Nat /\ 1 <= i /\ i <= n
      BY <1>5
    <3> HIDE DEF n
    <3>5. At(q.head, i) # q.tail
      BY <1>1, <1>5, <3>2, <3>3, <3>4 DEF At
    <3> QED
      BY <3>1, <3>5
  <2>2. i \in 1 .. n + 1
    BY <1>5
  <2>3. Contents(q)[i] = q.data[(q.head + i - 1) % Size]
    BY DEF Contents
  <2>4. Contents(r)[i] = r.data[(r.head + i - 1) % Size]
    BY <1>6, <2>2 DEF Contents
  <2> HIDE DEF r, n
  <2> QED
    BY <1>1, <1>3, <2>1, <2>3, <2>4
<1>8. Contents(r)[n + 1] = x
  <2>1. (q.head + (n + 1) - 1) % Size = q.tail
    <3>1. (q.head + (n + 1) - 1) % Size = At(q.head, n + 1)
      <4>1. q.head \in Index /\ n + 1 \in 1 .. Size
        BY <1>1, <1>5 DEF Index
      <4> HIDE DEF n
      <4> QED
        BY <4>1, WrappedAt
    <3>2. n = IF q.head = q.tail THEN q.tag * Size
              ELSE IF q.tail > q.head THEN q.tail - q.head ELSE q.tail - q.head + Size
      BY CountOf
    <3>3. q.head = q.tail => q.tag * Size = 0
      BY <1>1 DEF IsFull
    <3> HIDE DEF n
    <3>4. At(q.head, n + 1) = q.tail
      BY <1>1, <1>5, <3>2, <3>3 DEF At
    <3> QED
      BY <3>1, <3>4
  <2>2. n + 1 \in 1 .. n + 1
    BY <1>5
  <2>3. Contents(r)[n + 1] = r.data[(r.head + (n + 1) - 1) % Size]
    BY <1>6, <2>2 DEF Contents
  <2> HIDE DEF r, n
  <2> QED
    BY <1>1, <1>3, <2>1, <2>2, <2>3
<1> QED
  BY <1>4, <1>6, <1>7, <1>8

LEMMA PopFacts ==
    ASSUME NEW q \in Ring, ~IsEmpty(q)
    PROVE  LET r == RingPop(q)
           IN  /\ r \in Ring
               /\ RingCount(q) > 0 /\ RingCount(r) = RingCount(q) - 1
               /\ \A i \in 1 .. RingCount(r) : Contents(r)[i] = Contents(q)[i + 1]
               /\ Contents(q)[1] = RingHead(q)
<1> DEFINE r == RingPop(q)
           n == RingCount(q)
<1>1. /\ Size \in Nat /\ Size > 0 /\ q.head \in Nat /\ q.tail \in Nat /\ q.tag \in {0, 1}
      /\ q.head < Size /\ q.tail < Size
  BY RingAssumption DEF Ring, Index
<1>2. (q.head + 1) % Size = IF q.head + 1 < Size THEN q.head + 1 ELSE 0
  BY <1>1, Wrapped
<1>3. /\ r.head = (IF q.head + 1 < Size THEN q.head + 1 ELSE 0) /\ r.tail = q.tail
      /\ r.tag = (IF q.tail = r.head THEN 0 ELSE q.tag)
      /\ r.data = q.data
  BY <1>2 DEF RingPop
<1>4. r \in Ring
  BY <1>1, <1>2 DEF RingPop, Ring, Index
<1>5. n \in 1 .. Size /\ n \in Nat
  BY <1>1, CountOf
<1>6. RingCount(r) = n - 1
  <2>1. /\ RingCount(q) = IF q.head = q.tail THEN q.tag * Size
                          ELSE IF q.tail > q.head THEN q.tail - q.head ELSE q.tail - q.head + Size
        /\ RingCount(r) = IF r.head = r.tail THEN r.tag * Size
                          ELSE IF r.tail > r.head THEN r.tail - r.head ELSE r.tail - r.head + Size
    BY <1>4, CountOf
  <2>2. q.head = q.tail => q.tag = 1 /\ q.tag * Size = Size
    BY <1>1 DEF IsEmpty
  <2>3. r.head = r.tail => r.tag = 0 /\ r.tag * Size = 0
    BY <1>1, <1>3
  <2> HIDE DEF r
  <2> QED
    BY <1>1, <1>3, <2>1, <2>2, <2>3
<1>7. ASSUME NEW i \in 1 .. n - 1 PROVE Contents(r)[i] = Contents(q)[i + 1]
  <2>1. (r.head + i - 1) % Size = (q.head + (i + 1) - 1) % Size
    <3>1. i \in 1 .. Size /\ i + 1 \in 1 .. Size /\ q.head \in Index /\ r.head \in Index
      BY <1>1, <1>3, <1>5 DEF Index
    <3>2. (q.head + (i + 1) - 1) % Size = At(q.head, i + 1)
      BY <3>1, WrappedAt
    <3>3. (r.head + i - 1) % Size = At(r.head, i)
      BY <3>1, WrappedAt
    <3> HIDE DEF r, n
    <3>4. At(r.head, i) = At(q.head, i + 1)
      BY <1>1, <1>3, <1>5, <3>1 DEF At
    <3> QED
      BY <3>2, <3>3, <3>4
  <2>2. Contents(r)[i] = r.data[(r.head + i - 1) % Size]
    BY <1>6 DEF Contents
  <2>3. i + 1 \in 1 .. n
    BY <1>5
  <2>4. Contents(q)[i + 1] = q.data[(q.head + (i + 1) - 1) % Size]
    BY <2>3 DEF Contents
  <2> HIDE DEF r, n
  <2> QED
    BY <1>3, <2>1, <2>2, <2>4
<1>8. Contents(q)[1] = RingHead(q)
  <2>1. 1 \in 1 .. n /\ q.head + 1 - 1 = q.head /\ q.head % Size = q.head
    BY <1>1, <1>5, Wrapped
  <2> QED
    BY <2>1 DEF Contents, RingHead
<1> QED
  BY <1>4, <1>5, <1>6, <1>7, <1>8

(***************************************************************************)
(* The inductive invariant: a worker has a task between its pop and the    *)
(* end of its run, and each accepted task is in one place and one only.    *)
(***************************************************************************)
Filled == 1 .. RingCount(queue)

HandsAreBusy == \A w \in Workers : task[w] # 0 <=> wpc[w] \in {"dec", "run"}

InRing(x) == \E i \in Filled : Contents(queue)[i] = x
InHand(x) == \E w \in Workers : task[w] = x

Distinct ==
    /\ \A i \in Filled : Contents(queue)[i] \in Elements
    /\ \A i, j \in Filled : Contents(queue)[i] = Contents(queue)[j] => i = j
    /\ \A v, w \in Workers : task[v] = task[w] /\ task[v] # 0 => v = w

Placed ==
    \A x \in Elements :
        /\ x \in sent <=> InRing(x) \/ InHand(x) \/ x \in done
        /\ ~(InRing(x) /\ InHand(x)) /\ ~(InRing(x) /\ x \in done) /\ ~(InHand(x) /\ x \in done)

Inv == TypeOK /\ HandsAreBusy /\ Distinct /\ Placed

LEMMA EmptyContents == EmptyRing \in Ring /\ RingCount(EmptyRing) = 0
<1>1. Size \in Nat /\ Size > 0 /\ 0 \in Index
  BY RingAssumption DEF Index
<1>2. EmptyRing \in Ring
  BY <1>1 DEF EmptyRing, Ring
<1> QED
  BY <1>2, CountOf DEF EmptyRing, IsEmpty

LEMMA InitInv == Init => Inv
<1> SUFFICES ASSUME Init PROVE Inv
  OBVIOUS
<1>1. TypeOK
  <2>1. queue \in Ring /\ task_num \in 0 .. WordMax
    BY EmptyContents, PoolAssumption DEF Init
  <2>2. wpc \in [Workers -> WPCs] /\ task \in [Workers -> Elements \cup {0}]
    BY DEF Init, WPCs
  <2>3. dpc \in [Dispatchers -> {"idle", "count", "notify"}] /\ fpc \in {"up", "broadcast", "join", "freed"}
    BY DEF Init
  <2> QED
    BY <2>1, <2>2, <2>3 DEF Init, TypeOK
<1>2. Filled = {}
  BY EmptyContents DEF Init, Filled
<1> QED
  BY <1>1, <1>2, RingAssumption DEF Init, Inv, HandsAreBusy, Distinct, Placed, InRing, InHand

LEMMA AddType == ASSUME NEW n \in Nat, NEW k \in Nat PROVE Add(n, k) \in 0 .. WordMax
<1>1. WordMax + 1 \in Nat /\ WordMax + 1 > 0 /\ n + k \in Nat /\ WordMax \in Nat
  BY PoolAssumption
<1>2. PICK a \in Nat, m \in Nat : a = n + k /\ m = WordMax + 1 /\ m > 0
  BY <1>1
<1>3. a % m \in 0 .. m - 1
  BY <1>2
<1> QED
  BY <1>1, <1>2, <1>3 DEF Add

LEMMA TypeStep == TypeOK /\ HandsAreBusy /\ [Next]_vars => TypeOK'
<1> SUFFICES ASSUME TypeOK, HandsAreBusy, [Next]_vars PROVE TypeOK'
  OBVIOUS
<1>0. task_num \in Nat /\ WordMax \in Nat /\ 1 \in Nat
  BY PoolAssumption DEF TypeOK
<1>1. ASSUME NEW d \in Dispatchers, Dispatch(d) PROVE TypeOK'
  BY <1>1, PushFacts DEF Dispatch, TypeOK
<1>2. ASSUME NEW d \in Dispatchers, Count(d) PROVE TypeOK'
  BY <1>0, <1>2, AddType DEF Count, TypeOK
<1>3. ASSUME NEW d \in Dispatchers, Notify(d) PROVE TypeOK'
  BY <1>3 DEF Notify, TypeOK, WPCs
<1>4. ASSUME NEW w \in Workers, Loop(w) \/ Lock(w) \/ CheckShutdown(w) \/ TestCount(w) \/ Wait(w) \/ SpuriousWakeup(w)
      PROVE  TypeOK'
  BY <1>4 DEF Loop, Lock, CheckShutdown, TestCount, Wait, SpuriousWakeup, WorkerAt, TypeOK, WPCs
<1>5. ASSUME NEW w \in Workers, Pop(w) PROVE TypeOK'
  <2>1. CASE IsEmpty(queue)
    BY <1>5, <2>1 DEF Pop, WorkerAt, TypeOK, WPCs
  <2>2. CASE ~IsEmpty(queue)
    <3>1. RingPop(queue) \in Ring /\ RingHead(queue) \in Elements \cup {0}
      BY <2>2, PopFacts DEF TypeOK, RingHead, Ring
    <3> QED
      BY <1>5, <2>2, <3>1 DEF Pop, WorkerAt, TypeOK, WPCs
  <2> QED
    BY <2>1, <2>2
<1>6. ASSUME NEW w \in Workers, Uncount(w) PROVE TypeOK'
  BY <1>0, <1>6, AddType DEF Uncount, WorkerAt, TypeOK, WPCs
<1>7. ASSUME NEW w \in Workers, Run(w) PROVE TypeOK'
  BY <1>7 DEF HandsAreBusy, Run, WorkerAt, TypeOK, WPCs
<1>8. CASE Stop \/ Shutdown \/ Broadcast \/ Joined
  BY <1>8 DEF Stop, Shutdown, Broadcast, Joined, TypeOK, WPCs
<1>9. CASE UNCHANGED vars
  BY <1>9 DEF vars, TypeOK
<1> QED
  BY <1>1, <1>2, <1>3, <1>4, <1>5, <1>6, <1>7, <1>8, <1>9 DEF Next, Dispatching, Working

(***************************************************************************)
(* The three steps that move a task: into the ring, into a hand, done.     *)
(***************************************************************************)
LEMMA DispatchInv == ASSUME Inv, NEW d \in Dispatchers, Dispatch(d), TypeOK' PROVE Inv'
<1>1. PICK x \in Elements \ sent : queue' = RingPush(queue, x) /\ sent' = sent \cup {x}
  BY DEF Dispatch
<1>2. UNCHANGED <<wpc, task, done>> /\ queue \in Ring /\ ~IsFull(queue)
  BY DEF Dispatch, Inv, TypeOK
<1> DEFINE n == RingCount(queue)
<1>3. /\ RingCount(queue') = n + 1
      /\ \A i \in 1 .. n : Contents(queue')[i] = Contents(queue)[i]
      /\ Contents(queue')[n + 1] = x
  BY <1>1, <1>2, PushFacts
<1>4. n \in Nat
  BY <1>2, CountOf
<1>5. Filled' = Filled \cup {n + 1} /\ n + 1 \notin Filled
  BY <1>3, <1>4 DEF Filled
<1>6. ~InRing(x) /\ ~InHand(x) /\ x \notin done
  BY <1>1 DEF Inv, Placed
<1>7. \A i \in Filled : Contents(queue')[i] = Contents(queue)[i] /\ Contents(queue)[i] # x
  BY <1>3, <1>6 DEF Filled, InRing
<1>8. \A y \in Elements : InRing(y)' <=> InRing(y) \/ y = x
  BY <1>3, <1>5, <1>7 DEF InRing
<1>9. \A y : InHand(y)' <=> InHand(y)
  BY <1>2 DEF InHand
<1>10. Distinct'
  BY <1>2, <1>3, <1>5, <1>7 DEF Inv, Distinct
<1>11. Placed'
  BY <1>1, <1>2, <1>6, <1>8, <1>9 DEF Inv, Placed
<1> QED
  BY <1>2, <1>10, <1>11 DEF Inv, HandsAreBusy

LEMMA PopInv == ASSUME Inv, NEW w \in Workers, Pop(w), ~IsEmpty(queue), TypeOK' PROVE Inv'
<1> DEFINE n == RingCount(queue)
           x == RingHead(queue)
<1>1. /\ wpc[w] = "pop" /\ wpc' = [wpc EXCEPT ![w] = "dec"]
      /\ queue' = RingPop(queue) /\ task' = [task EXCEPT ![w] = x]
      /\ UNCHANGED <<sent, done>> /\ queue \in Ring
  BY DEF Pop, WorkerAt, Inv, TypeOK
<1>2. /\ n > 0 /\ RingCount(queue') = n - 1
      /\ \A i \in 1 .. n - 1 : Contents(queue')[i] = Contents(queue)[i + 1]
      /\ Contents(queue)[1] = x
  BY <1>1, PopFacts
<1>3. n \in Nat
  BY <1>1, CountOf
<1>4. /\ 1 \in Filled
      /\ \A i \in Filled' : i + 1 \in Filled /\ i \in Nat /\ i + 1 # 1
      /\ \A i \in Filled : i = 1 \/ (i - 1 \in Filled' /\ (i - 1) + 1 = i)
  BY <1>2, <1>3 DEF Filled
<1>5. \A i \in Filled' : Contents(queue')[i] = Contents(queue)[i + 1]
  BY <1>2 DEF Filled
<1>6. x \in Elements /\ x # 0 /\ InRing(x)
  BY <1>2, <1>4, RingAssumption DEF Inv, Distinct, InRing
<1>7. task[w] = 0 /\ ~InHand(x) /\ x \notin done
  BY <1>1, <1>6 DEF Inv, HandsAreBusy, Placed
<1>8. \A y \in Elements : InRing(y)' <=> InRing(y) /\ y # x
  <2> SUFFICES ASSUME NEW y \in Elements PROVE InRing(y)' <=> InRing(y) /\ y # x
    OBVIOUS
  <2>1. ASSUME InRing(y)' PROVE InRing(y) /\ y # x
    <3>1. PICK i \in Filled' : Contents(queue')[i] = y
      BY <2>1 DEF InRing
    <3>2. i + 1 \in Filled /\ Contents(queue)[i + 1] = y /\ i + 1 # 1
      BY <1>4, <1>5, <3>1
    <3> QED
      BY <1>2, <1>4, <3>2 DEF InRing, Inv, Distinct
  <2>2. ASSUME InRing(y), y # x PROVE InRing(y)'
    <3>1. PICK i \in Filled : Contents(queue)[i] = y
      BY <2>2 DEF InRing
    <3>2. i - 1 \in Filled' /\ (i - 1) + 1 = i
      BY <1>2, <1>4, <2>2, <3>1
    <3>3. Contents(queue')[i - 1] = y
      BY <1>5, <3>1, <3>2
    <3> QED
      BY <3>2, <3>3 DEF InRing
  <2> QED
    BY <2>1, <2>2
<1>9. \A v \in Workers : task'[v] = IF v = w THEN x ELSE task[v]
  BY <1>1 DEF Inv, TypeOK
<1>10. \A y \in Elements : InHand(y)' <=> InHand(y) \/ y = x
  BY <1>7, <1>9, RingAssumption DEF InHand
<1>11. Distinct'
  <2>1. \A i \in Filled' : Contents(queue')[i] \in Elements
    BY <1>4, <1>5 DEF Inv, Distinct
  <2>2. ASSUME NEW i \in Filled', NEW j \in Filled', Contents(queue')[i] = Contents(queue')[j] PROVE i = j
    <3>1. i + 1 \in Filled /\ j + 1 \in Filled /\ i \in Nat /\ j \in Nat
      BY <1>4
    <3>2. i + 1 = j + 1
      BY <1>5, <2>2, <3>1 DEF Inv, Distinct
    <3> QED
      BY <3>1, <3>2
  <2>3. \A u, v \in Workers : task'[u] = task'[v] /\ task'[u] # 0 => u = v
    BY <1>7, <1>9 DEF Inv, Distinct, InHand
  <2> QED
    BY <2>1, <2>2, <2>3 DEF Distinct
<1>12. Placed'
  BY <1>1, <1>6, <1>7, <1>8, <1>10 DEF Inv, Placed
<1>13. HandsAreBusy'
  BY <1>1, <1>6, <1>9 DEF Inv, HandsAreBusy, TypeOK
<1> QED
  BY <1>11, <1>12, <1>13 DEF Inv

LEMMA RunInv == ASSUME Inv, NEW w \in Workers, Run(w), TypeOK' PROVE Inv'
<1> DEFINE x == task[w]
<1>1. /\ wpc[w] = "run" /\ wpc' = [wpc EXCEPT ![w] = "top"]
      /\ done' = done \cup {x} /\ task' = [task EXCEPT ![w] = 0]
      /\ UNCHANGED <<queue, sent>>
  BY DEF Run, WorkerAt
<1>2. x \in Elements /\ x # 0 /\ InHand(x)
  BY <1>1 DEF Inv, HandsAreBusy, TypeOK, InHand
<1>3. \A v \in Workers : task'[v] = IF v = w THEN 0 ELSE task[v]
  BY <1>1 DEF Inv, TypeOK
<1>4. \A y \in Elements : InHand(y)' <=> InHand(y) /\ y # x
  BY <1>2, <1>3, RingAssumption DEF InHand, Inv, Distinct
<1>5. Filled' = Filled /\ Contents(queue') = Contents(queue) /\ \A y : InRing(y)' <=> InRing(y)
  BY <1>1 DEF Filled, InRing
<1>6. Distinct'
  BY <1>3, <1>5 DEF Inv, Distinct
<1>7. Placed'
  BY <1>1, <1>2, <1>4, <1>5 DEF Inv, Placed
<1>8. HandsAreBusy'
  BY <1>1, <1>3 DEF Inv, HandsAreBusy, TypeOK
<1> QED
  BY <1>6, <1>7, <1>8 DEF Inv

(***************************************************************************)
(* All other steps move workers only, and none into or out of a run.       *)
(***************************************************************************)
LEMMA IdleInv ==
    ASSUME Inv, TypeOK', UNCHANGED <<queue, task, sent, done>>,
           \A w \in Workers : wpc'[w] \in {"dec", "run"} <=> wpc[w] \in {"dec", "run"}
    PROVE  Inv'
<1>1. Distinct' /\ Placed'
  BY DEF Inv, Distinct, Placed, InRing, InHand, Filled
<1> QED
  BY <1>1 DEF Inv, HandsAreBusy

LEMMA NextInv == Inv /\ [Next]_vars => Inv'
<1> SUFFICES ASSUME Inv, [Next]_vars PROVE Inv'
  OBVIOUS
<1>0. TypeOK' /\ TypeOK
  BY TypeStep DEF Inv
<1>1. ASSUME NEW d \in Dispatchers, Dispatching(d) PROVE Inv'
  <2>1. CASE Dispatch(d)
    BY <1>0, <2>1, DispatchInv
  <2>2. CASE Count(d)
    BY <1>0, <2>2, IdleInv DEF Count
  <2>3. CASE Notify(d)
    <3>1. \A w \in Workers : wpc'[w] \in {"dec", "run"} <=> wpc[w] \in {"dec", "run"}
      BY <1>0, <2>3 DEF Notify, TypeOK
    <3> QED
      BY <1>0, <2>3, <3>1, IdleInv DEF Notify
  <2> QED
    BY <1>1, <2>1, <2>2, <2>3 DEF Dispatching
<1>2. ASSUME NEW w \in Workers, Lock(w) \/ Working(w) \/ SpuriousWakeup(w) PROVE Inv'
  <2>1. CASE Pop(w) /\ ~IsEmpty(queue)
    BY <1>0, <2>1, PopInv
  <2>2. CASE Run(w)
    BY <1>0, <2>2, RunInv
  <2>3. CASE \/ Loop(w) \/ Lock(w) \/ CheckShutdown(w) \/ TestCount(w) \/ Wait(w) \/ SpuriousWakeup(w)
             \/ Uncount(w) \/ (Pop(w) /\ IsEmpty(queue))
    <3>1. \A v \in Workers : wpc'[v] \in {"dec", "run"} <=> wpc[v] \in {"dec", "run"}
      BY <1>0, <2>3 DEF Loop, Lock, CheckShutdown, TestCount, Wait, SpuriousWakeup, Uncount, Pop, WorkerAt, TypeOK
    <3>2. UNCHANGED <<queue, task, sent, done>>
      BY <2>3 DEF Loop, Lock, CheckShutdown, TestCount, Wait, SpuriousWakeup, Uncount, Pop
    <3> QED
      BY <1>0, <3>1, <3>2, IdleInv
  <2> QED
    BY <1>2, <2>1, <2>2, <2>3 DEF Working
<1>3. CASE Stop \/ Shutdown \/ Broadcast \/ Joined \/ UNCHANGED vars
  <2>1. \A w \in Workers : wpc'[w] \in {"dec", "run"} <=> wpc[w] \in {"dec", "run"}
    BY <1>0, <1>3 DEF Stop, Shutdown, Broadcast, Joined, vars, TypeOK
  <2>2. UNCHANGED <<queue, task, sent, done>>
    BY <1>3 DEF Stop, Shutdown, Broadcast, Joined, vars
  <2> QED
    BY <1>0, <2>1, <2>2, IdleInv
<1> QED
  BY <1>1, <1>2, <1>3 DEF Next

(***************************************************************************)
(* In any number of threads each accepted task is in the ring, in the      *)
(* hands of one worker or run, and in one of these only.                   *)
(***************************************************************************)
LEMMA InvOnce == Inv => EachTaskOnce
<1> SUFFICES ASSUME Inv, NEW x \in Elements
             PROVE  Cardinality({i \in DOMAIN Contents(queue) : Contents(queue)[i] = x})
                      + Cardinality({w \in Workers : task[w] = x}) + Cardinality({x} \cap done)
                    = IF x \in sent THEN 1 ELSE 0
  BY DEF EachTaskOnce
<1> DEFINE S == {i \in DOMAIN Contents(queue) : Contents(queue)[i] = x}
           H == {w \in Workers : task[w] = x}
           D == {x} \cap done
<1>1. DOMAIN Contents(queue) = Filled
  BY DEF Contents, Filled
<1>2. Cardinality(S) = IF InRing(x) THEN 1 ELSE 0
  <2>1. CASE InRing(x)
    <3>1. PICK i \in Filled : Contents(queue)[i] = x
      BY <2>1 DEF InRing
    <3>2. S = {i}
      BY <1>1, <3>1 DEF Inv, Distinct
    <3> QED
      BY <2>1, <3>2, FS_Singleton
  <2>2. CASE ~InRing(x)
    <3>1. S = {}
      BY <1>1, <2>2 DEF InRing
    <3> QED
      BY <2>2, <3>1, FS_EmptySet
  <2> QED
    BY <2>1, <2>2
<1>3. Cardinality(H) = IF InHand(x) THEN 1 ELSE 0
  <2>1. CASE InHand(x)
    <3>1. PICK w \in Workers : task[w] = x
      BY <2>1 DEF InHand
    <3>2. H = {w}
      BY <3>1, RingAssumption DEF Inv, Distinct
    <3> QED
      BY <2>1, <3>2, FS_Singleton
  <2>2. CASE ~InHand(x)
    <3>1. H = {}
      BY <2>2 DEF InHand
    <3> QED
      BY <2>2, <3>1, FS_EmptySet
  <2> QED
    BY <2>1, <2>2
<1>4. Cardinality(D) = IF x \in done THEN 1 ELSE 0
  <2>1. CASE x \in done
    <3>1. D = {x}
      BY <2>1
    <3> QED
      BY <2>1, <3>1, FS_Singleton
  <2>2. CASE x \notin done
    <3>1. D = {}
      BY <2>2
    <3> QED
      BY <2>2, <3>1, FS_EmptySet
  <2> QED
    BY <2>1, <2>2
<1> HIDE DEF S, H, D
<1>5. Cardinality(S) + Cardinality(H) + Cardinality(D) = IF x \in sent THEN 1 ELSE 0
  BY <1>2, <1>3, <1>4 DEF Inv, Placed
<1> QED
  BY <1>5 DEF S, H, D

THEOREM Invariance == Spec => []Inv
  BY InitInv, NextInv, PTL DEF Spec

(***************************************************************************)
(* Head and tail stay in the ring and the count in its word               *)
(* (swRingQueue_push, swRingQueue_pop, swThreadPool_dispatch).             *)
(***************************************************************************)
THEOREM TypeCorrect == Spec => []TypeOK
<1>1. Inv => TypeOK
  BY DEF Inv
<1> QED
  BY <1>1, Invariance, PTL

(***************************************************************************)
(* No task is lost, overwritten or run twice, whatever the size of the     *)
(* ring and the number of threads (swThreadPool_dispatch, _loop).          *)
(***************************************************************************)
THEOREM TasksAccounted == Spec => []EachTaskOnce
  BY InvOnce, Invariance, PTL

(***************************************************************************)
(* The pool is a bounded queue: a dispatch puts a task, a pop takes the    *)
(* oldest one, and every other step leaves the contents of the ring.       *)
(***************************************************************************)
LEMMA ContentsSeq ==
    ASSUME NEW q \in Ring, \A i \in 1 .. RingCount(q) : Contents(q)[i] \in Elements
    PROVE  Contents(q) \in Seq(Elements) /\ Len(Contents(q)) = RingCount(q)
<1>1. RingCount(q) \in Nat
  BY CountOf, RingAssumption
<1>2. Contents(q) \in [1 .. RingCount(q) -> Elements]
  BY DEF Contents
<1> QED
  BY <1>1, <1>2

LEMMA InitFifo == Init => Fifo!Init
<1> SUFFICES ASSUME Init PROVE Contents(queue) = <<>>
  BY DEF Fifo!Init
<1>1. queue \in Ring /\ RingCount(queue) = 0
  BY EmptyContents DEF Init
<1>2. Contents(queue) \in Seq(Elements) /\ Len(Contents(queue)) = 0
  BY <1>1, ContentsSeq
<1> QED
  BY <1>2, EmptySeq

LEMMA DispatchPuts == ASSUME Inv, Inv', NEW d \in Dispatchers, Dispatch(d) PROVE Fifo!Put
<1>1. PICK x \in Elements : queue' = RingPush(queue, x)
  BY DEF Dispatch
<1>2. queue \in Ring /\ ~IsFull(queue) /\ queue' \in Ring
  BY DEF Dispatch, Inv, TypeOK
<1> DEFINE n == RingCount(queue)
           old == Contents(queue)
           new == Contents(queue')
<1>3. /\ RingCount(queue') = n + 1
      /\ \A i \in 1 .. n : new[i] = old[i]
      /\ new[n + 1] = x
  BY <1>1, <1>2, PushFacts
<1>4. old \in Seq(Elements) /\ Len(old) = n /\ n \in Nat /\ n < Size
  BY <1>2, ContentsSeq, CountOf, RingAssumption DEF Inv, Distinct, Filled
<1>5. new \in Seq(Elements) /\ Len(new) = n + 1
  BY <1>2, <1>3, ContentsSeq DEF Inv, Distinct, Filled
<1> HIDE DEF old, new, n
<1>6. /\ Append(old, x) \in Seq(Elements) /\ Len(Append(old, x)) = n + 1
      /\ \A i \in 1 .. n : Append(old, x)[i] = old[i]
      /\ Append(old, x)[n + 1] = x
  BY <1>4, AppendProperties
<1>7. \A i \in 1 .. n + 1 : new[i] = Append(old, x)[i]
  BY <1>3, <1>4, <1>6
<1>8. new = Append(old, x)
  BY <1>5, <1>6, <1>7, SeqEqual
<1> QED
  BY <1>4, <1>8 DEF Fifo!Put, old, new

LEMMA PopTakes == ASSUME Inv, Inv', NEW w \in Workers, Pop(w), ~IsEmpty(queue) PROVE Fifo!Take
<1>1. queue' = RingPop(queue) /\ queue \in Ring /\ queue' \in Ring
  BY DEF Pop, Inv, TypeOK
<1> DEFINE n == RingCount(queue)
           old == Contents(queue)
           new == Contents(queue')
<1>2. /\ n > 0 /\ RingCount(queue') = n - 1
      /\ \A i \in 1 .. n - 1 : new[i] = old[i + 1]
  BY <1>1, PopFacts
<1>3. old \in Seq(Elements) /\ Len(old) = n /\ n \in Nat
  BY <1>1, ContentsSeq, CountOf, RingAssumption DEF Inv, Distinct, Filled
<1>4. new \in Seq(Elements) /\ Len(new) = n - 1
  BY <1>1, <1>2, ContentsSeq DEF Inv, Distinct, Filled
<1> HIDE DEF old, new, n
<1>5. old # <<>>
  BY <1>2, <1>3, EmptySeq
<1>6. /\ Tail(old) \in Seq(Elements) /\ Len(Tail(old)) = n - 1
      /\ \A i \in 1 .. n - 1 : Tail(old)[i] = old[i + 1]
  BY <1>3, <1>5, HeadTailProperties
<1>7. new = Tail(old)
  BY <1>2, <1>4, <1>6, SeqEqual
<1> QED
  BY <1>5, <1>7 DEF Fifo!Take, old, new

LEMMA StepFifo == Inv /\ Inv' /\ [Next]_vars => [Fifo!Next]_(Contents(queue))
<1> SUFFICES ASSUME Inv, Inv', [Next]_vars PROVE Fifo!Next \/ UNCHANGED Contents(queue)
  BY DEF Fifo!Next
<1>1. ASSUME UNCHANGED queue PROVE UNCHANGED Contents(queue)
  BY <1>1 DEF Contents, RingCount
<1>2. ASSUME NEW d \in Dispatchers, Dispatch(d) PROVE Fifo!Next
  BY <1>2, DispatchPuts DEF Fifo!Next
<1>3. ASSUME NEW w \in Workers, Pop(w) PROVE Fifo!Next \/ UNCHANGED queue
  <2>1. CASE IsEmpty(queue)
    BY <1>3, <2>1 DEF Pop
  <2>2. CASE ~IsEmpty(queue)
    BY <1>3, <2>2, PopTakes DEF Fifo!Next
  <2> QED
    BY <2>1, <2>2
<1>4. ASSUME NEW d \in Dispatchers, Count(d) \/ Notify(d) PROVE UNCHANGED queue
  BY <1>4 DEF Count, Notify
<1>5. ASSUME NEW w \in Workers,
             Loop(w) \/ Lock(w) \/ CheckShutdown(w) \/ TestCount(w) \/ Wait(w) \/ SpuriousWakeup(w) \/ Uncount(w) \/ Run(w)
      PROVE  UNCHANGED queue
  BY <1>5 DEF Loop, Lock, CheckShutdown, TestCount, Wait, SpuriousWakeup, Uncount, Run
<1>6. CASE Stop \/ Shutdown \/ Broadcast \/ Joined \/ UNCHANGED vars
  BY <1>1, <1>6 DEF Stop, Shutdown, Broadcast, Joined, vars
<1> QED
  BY <1>1, <1>2, <1>3, <1>4, <1>5, <1>6 DEF Next, Dispatching, Working

(***************************************************************************)
(* Tasks leave the ring in the order of their dispatch, unchanged, and     *)
(* never more than Size of them wait (swThreadPool_dispatch, _loop).       *)
(***************************************************************************)
THEOREM Refinement == Spec => ImplementsFifo
  BY InitFifo, StepFifo, Invariance, PTL DEF Spec, ImplementsFifo, Fifo!Spec

(***************************************************************************)
(* The count is a word that wraps: adding to it before or after the        *)
(* remainder is taken is the same.                                         *)
(***************************************************************************)
LEMMA Euclid ==
    ASSUME NEW x \in Int, NEW m \in Nat, m > 0
    PROVE  x \div m \in Int /\ x = m * (x \div m) + (x % m) /\ (x % m) \in 0 .. m - 1
  BY SMT

LEMMA Mul == ASSUME NEW m \in Nat, m > 0, NEW d \in Int, d >= 1 PROVE m * d >= m
  BY SMT

LEMMA Unique ==
    ASSUME NEW m \in Nat, m > 0, NEW q \in Int, NEW r \in 0 .. m - 1, NEW x \in Int, x = m * q + r
    PROVE  x % m = r
<1> DEFINE p == x \div m
           s == x % m
<1>1. p \in Int /\ s \in 0 .. m - 1 /\ x = m * p + s
  BY Euclid
<1> HIDE DEF p, s
<1>2. m * (p - q) = r - s
  <2>1. m * (p - q) = m * p - m * q
    BY <1>1
  <2> QED
    BY <1>1, <2>1
<1>3. p - q >= 1 => m * (p - q) >= m
  BY <1>1, Mul
<1>4. q - p >= 1 => m * (q - p) >= m
  BY <1>1, Mul
<1>5. m * (q - p) = s - r
  <2>1. m * (q - p) = m * q - m * p
    BY <1>1
  <2> QED
    BY <1>1, <2>1
<1>6. ~(p - q >= 1)
  BY <1>1, <1>2, <1>3
<1>7. ~(q - p >= 1)
  BY <1>1, <1>5, <1>4
<1>8. p = q
  BY <1>1, <1>6, <1>7
<1>9. s = r
  BY <1>1, <1>8
<1> QED
  BY <1>9 DEF s

LEMMA Shift ==
    ASSUME NEW m \in Nat, m > 0, NEW x \in Int, NEW k \in Int
    PROVE  ((x % m) + k) % m = (x + k) % m
<1> DEFINE p == x \div m
           s == x % m
           y == s + k
           u == y \div m
           v == y % m
<1>1. p \in Int /\ s \in 0 .. m - 1 /\ x = m * p + s
  BY Euclid
<1>2. y \in Int
  BY <1>1
<1>3. u \in Int /\ v \in 0 .. m - 1 /\ y = m * u + v
  BY <1>2, Euclid
<1>4. x + k = m * (p + u) + v
  <2> HIDE DEF p, u, v, s
  <2>1. m * (p + u) = m * p + m * u
    BY <1>1, <1>3
  <2> QED
    BY <1>1, <1>3, <2>1
<1>5. p + u \in Int /\ x + k \in Int
  BY <1>1, <1>3
<1> HIDE DEF p, u, v, s
<1>6. (x + k) % m = v
  BY <1>3, <1>4, <1>5, Unique
<1> QED
  BY <1>6 DEF v, s

(***************************************************************************)
(* The count and the calls that have yet to count.                         *)
(***************************************************************************)
Popped  == {w \in Workers : wpc[w] = "dec"}
Pushed  == {d \in Dispatchers : dpc[d] = "count"}
Balance == RingCount(queue) + Cardinality(Popped) - Cardinality(Pushed)

LEMMA CountersFinite ==
    /\ IsFiniteSet(Popped) /\ IsFiniteSet(Pushed) /\ IsFiniteSet(Popped') /\ IsFiniteSet(Pushed')
    /\ Cardinality(Popped) \in Nat /\ Cardinality(Pushed) \in Nat
  BY PoolAssumption, FS_Subset, FS_CardinalityType DEF Popped, Pushed

LEMMA Grows ==
    ASSUME NEW S, NEW T, IsFiniteSet(S), NEW x, x \notin S, T = S \cup {x}
    PROVE  Cardinality(T) = Cardinality(S) + 1
  BY FS_AddElement

LEMMA Recount ==
    ASSUME CountSettles, Balance \in Int, NEW k \in Int, Balance' = Balance + k,
           task_num' = (task_num + k) % (WordMax + 1)
    PROVE  CountSettles'
<1>1. WordMax + 1 \in Nat /\ WordMax + 1 > 0
  BY PoolAssumption
<1>2. PICK m \in Nat : m = WordMax + 1 /\ m > 0
  BY <1>1
<1>3. PICK b \in Int : b = Balance
  OBVIOUS
<1>4. ((b % m) + k) % m = (b + k) % m
  BY <1>2, Shift
<1>5. task_num = b % m
  BY <1>2, <1>3 DEF CountSettles, Balance, Popped, Pushed
<1>6. task_num' = Balance' % m
  BY <1>2, <1>3, <1>4, <1>5
<1> QED
  BY <1>2, <1>6 DEF CountSettles, Balance, Popped, Pushed

LEMMA CountStill ==
    ASSUME CountSettles, UNCHANGED task_num, Balance' = Balance
    PROVE  CountSettles'
  BY DEF CountSettles, Balance, Popped, Pushed

LEMMA CountInit == Init => CountSettles
<1> SUFFICES ASSUME Init PROVE CountSettles
  OBVIOUS
<1>1. Popped = {} /\ Pushed = {}
  BY DEF Init, Popped, Pushed
<1>2. Balance = 0
  BY <1>1, EmptyContents, FS_EmptySet DEF Init, Balance
<1>3. PICK m \in Nat : m = WordMax + 1 /\ m > 0
  BY PoolAssumption
<1>4. 0 % m = 0
  BY <1>3
<1>5. task_num = Balance % (WordMax + 1)
  BY <1>2, <1>3, <1>4 DEF Init
<1> QED
  BY <1>5 DEF CountSettles, Balance, Popped, Pushed

LEMMA CountStep == Inv /\ CountSettles /\ [Next]_vars => CountSettles'
<1> SUFFICES ASSUME Inv, CountSettles, [Next]_vars PROVE CountSettles'
  OBVIOUS
<1>0. /\ TypeOK /\ queue \in Ring /\ RingCount(queue) \in Int /\ Balance \in Int
      /\ task_num \in Nat /\ WordMax \in Nat
  <2>1. queue \in Ring
    BY DEF Inv, TypeOK
  <2>2. RingCount(queue) \in Int
    BY <2>1, CountOf, RingAssumption
  <2> QED
    BY <2>1, <2>2, CountersFinite, PoolAssumption DEF Inv, TypeOK, Balance
<1>1. ASSUME NEW d \in Dispatchers, Dispatch(d) PROVE CountSettles'
  <2>1. RingCount(queue') = RingCount(queue) + 1
    BY <1>0, <1>1, PushFacts DEF Dispatch
  <2>2. Popped' = Popped /\ Pushed' = Pushed \cup {d} /\ d \notin Pushed
    BY <1>0, <1>1 DEF Dispatch, Popped, Pushed, TypeOK
  <2>3. Cardinality(Pushed') = Cardinality(Pushed) + 1
    BY <2>2, CountersFinite, Grows
  <2>4. Balance' = Balance
    BY <1>0, <2>1, <2>2, <2>3, CountersFinite DEF Balance
  <2> QED
    BY <1>1, <2>4, CountStill DEF Dispatch
<1>2. ASSUME NEW d \in Dispatchers, Count(d) PROVE CountSettles'
  <2>1. queue' = queue /\ Popped' = Popped /\ Pushed = Pushed' \cup {d} /\ d \notin Pushed'
    BY <1>0, <1>2 DEF Count, Popped, Pushed, TypeOK
  <2>2. Cardinality(Pushed) = Cardinality(Pushed') + 1
    BY <2>1, CountersFinite, Grows
  <2>3. Cardinality(Pushed') \in Nat
    BY CountersFinite, FS_CardinalityType
  <2>4. Balance' = Balance + 1
    BY <1>0, <2>1, <2>2, <2>3, CountersFinite DEF Balance
  <2> QED
    BY <1>0, <1>2, <2>4, Recount DEF Count, Add
<1>3. ASSUME NEW w \in Workers, Pop(w), ~IsEmpty(queue) PROVE CountSettles'
  <2>1. RingCount(queue') = RingCount(queue) - 1
    BY <1>0, <1>3, PopFacts DEF Pop
  <2>2. Pushed' = Pushed /\ Popped' = Popped \cup {w} /\ w \notin Popped
    BY <1>0, <1>3 DEF Pop, WorkerAt, Popped, Pushed, TypeOK
  <2>3. Cardinality(Popped') = Cardinality(Popped) + 1
    BY <2>2, CountersFinite, Grows
  <2>4. Balance' = Balance
    BY <1>0, <2>1, <2>2, <2>3, CountersFinite DEF Balance
  <2> QED
    BY <1>3, <2>4, CountStill DEF Pop
<1>4. ASSUME NEW w \in Workers, Uncount(w) PROVE CountSettles'
  <2>1. queue' = queue /\ Pushed' = Pushed /\ Popped = Popped' \cup {w} /\ w \notin Popped'
    BY <1>0, <1>4 DEF Uncount, WorkerAt, Popped, Pushed, TypeOK
  <2>2. Cardinality(Popped) = Cardinality(Popped') + 1
    BY <2>1, CountersFinite, Grows
  <2>3. Cardinality(Popped') \in Nat
    BY CountersFinite, FS_CardinalityType
  <2>4. Balance' = Balance + (-1)
    BY <1>0, <2>1, <2>2, <2>3, CountersFinite DEF Balance
  <2>5. task_num' = (task_num + (-1)) % (WordMax + 1)
    <3>1. PICK m \in Nat : m = WordMax + 1 /\ m > 0
      BY <1>0
    <3>2. PICK t \in Int : t = task_num
      BY <1>0
    <3>3. (t + WordMax) % m = (t + (-1)) % m
      <4>1. PICK y \in Int : y = t + (-1)
        OBVIOUS
      <4>2. PICK z \in Int : z = t + WordMax
        BY <1>0
      <4>3. PICK q \in Int, r \in 0 .. m - 1 : y = m * q + r /\ y % m = r
        BY <3>1, Euclid
      <4>4. PICK p \in Int : p = q + 1
        OBVIOUS
      <4>5. m * p = m * q + m
        BY <3>1, <4>4
      <4>6. z = m * p + r
        BY <1>0, <3>1, <4>1, <4>2, <4>3, <4>5
      <4>7. z % m = r
        BY <3>1, <4>6, Unique
      <4> QED
        BY <4>1, <4>2, <4>3, <4>7
    <3> QED
      BY <1>4, <3>1, <3>2, <3>3 DEF Uncount, Add
  <2> QED
    BY <1>0, <2>4, <2>5, Recount
<1>5. ASSUME NEW d \in Dispatchers, Notify(d) PROVE CountSettles'
  <2>1. UNCHANGED <<queue, task_num>> /\ Popped' = Popped /\ Pushed' = Pushed
    BY <1>0, <1>5 DEF Notify, Popped, Pushed, TypeOK
  <2> QED
    BY <2>1, CountStill DEF Balance
<1>6. ASSUME NEW w \in Workers,
             \/ Loop(w) \/ Lock(w) \/ CheckShutdown(w) \/ TestCount(w) \/ Wait(w) \/ SpuriousWakeup(w)
             \/ Run(w) \/ (Pop(w) /\ IsEmpty(queue))
      PROVE  CountSettles'
  <2>1. UNCHANGED <<queue, task_num>> /\ Pushed' = Pushed
    BY <1>6 DEF Loop, Lock, CheckShutdown, TestCount, Wait, SpuriousWakeup, Run, Pop, Pushed
  <2>2. Popped' = Popped
    BY <1>0, <1>6 DEF Loop, Lock, CheckShutdown, TestCount, Wait, SpuriousWakeup, Run, Pop, WorkerAt, Popped, TypeOK
  <2> QED
    BY <2>1, <2>2, CountStill DEF Balance
<1>7. CASE Stop \/ Shutdown \/ Broadcast \/ Joined \/ UNCHANGED vars
  <2>1. UNCHANGED <<queue, task_num>> /\ Pushed' = Pushed /\ Popped' = Popped
    BY <1>0, <1>7 DEF Stop, Shutdown, Broadcast, Joined, vars, Pushed, Popped, TypeOK
  <2> QED
    BY <2>1, CountStill DEF Balance
<1> QED
  BY <1>1, <1>2, <1>3, <1>4, <1>5, <1>6, <1>7 DEF Next, Dispatching, Working

(***************************************************************************)
(* However the calls overlap, and though it passes below zero, the count   *)
(* differs from the ring by the calls that have yet to count only          *)
(* (swThreadPool_dispatch, swThreadPool_loop).                             *)
(***************************************************************************)
THEOREM CountAgrees == Spec => []CountSettles
  BY CountInit, CountStep, Invariance, PTL DEF Spec
=============================================================================
