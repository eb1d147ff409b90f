------------------------ MODULE RedisSessionProofs ------------------------
(***************************************************************************)
(* Theorems about RedisSession, and their proofs.                          *)
(***************************************************************************)
EXTENDS RedisSession, TLAPS

\* A request that still asks for the lock has a try left.
TriesLeft == \A p \in Procs : At(p, "acquire") => tries[p] <= Retries

\* A request has a number.
Numbered == \A p \in Procs : ~At(p, "idle") => req[p] > 0

Inv == TypeOK /\ TriesLeft /\ Numbered

\* The parts of TypeOK.
ControlTypes == /\ pc \in [Procs -> Places] /\ is_locked \in [Procs -> BOOLEAN]
                /\ tries \in [Procs -> 0 .. Retries + 1] /\ attempt \in [Procs -> 0 .. 2]

DataTypes == /\ requests \in Nat /\ data \subseteq 1 .. requests
             /\ val \in [Procs -> SUBSET (1 .. requests)] /\ req \in [Procs -> 0 .. requests]
             /\ lost \in Nat /\ crashes \in Nat

LockType == /\ lock \in [owner : Procs \cup {None}, ttl : Nat]
            /\ lock.owner = None => lock.ttl = 0

LEMMA TypesAre == TypeOK <=> ControlTypes /\ DataTypes /\ LockType
BY DEF TypeOK, ControlTypes, DataTypes, LockType

LEMMA ConstantTypes == /\ LockExpire \in Nat /\ MaxExecutionTime \in Nat /\ Retries \in Nat
                       /\ None \notin Procs /\ Prompt \in BOOLEAN /\ Expiry \in Nat
BY SessionAssumption DEF Expiry

LEMMA InitInv == Init => Inv
BY ConstantTypes DEF Init, Inv, TypeOK, TriesLeft, Numbered, NoLock, Places, At

LEMMA LockTyped ==
    ASSUME TypeOK, NEW p \in Procs, Step(p)
    PROVE  LockType'
<1>1. SetNX(p) \/ Script(p) \/ UNCHANGED lock
  BY DEF Step, Start, Acquire, NotAcquired, AcquireBreaks, Read, ReadFails, Check, CheckFails, Write,
         WriteFails, Destroy, Evaluate, NoScript, Delete, Close, Crash, redis
<1> QED
  BY <1>1, ConstantTypes DEF TypeOK, LockType, SetNX, Script, NoLock

\* Each step moves the process that takes it, and no other.
LEMMA StepInv ==
    ASSUME Inv, NEW p \in Procs, Step(p)
    PROVE  Inv'
<1> USE ConstantTypes DEF At, Goes, redis, client, counts
<1>1. ControlTypes /\ DataTypes /\ TriesLeft /\ Numbered
  BY TypesAre DEF Inv
<1>2. LockType'
  BY LockTyped DEF Inv
<1>3. CASE Start(p)
  <2>1. ControlTypes'
    BY <1>1, <1>3 DEF ControlTypes, Places, Start
  <2>2. DataTypes'
    BY <1>1, <1>3 DEF DataTypes, Start
  <2>3. TriesLeft' /\ Numbered'
    BY <1>1, <1>3 DEF ControlTypes, DataTypes, TriesLeft, Numbered, Start
  <2> QED
    BY <1>2, <2>1, <2>2, <2>3, TypesAre DEF Inv, TypeOK, ControlTypes, DataTypes, LockType
<1>4. CASE Acquire(p)
  <2>1. ControlTypes'
    BY <1>1, <1>4 DEF ControlTypes, Places, Acquire
  <2>2. DataTypes'
    BY <1>1, <1>4 DEF DataTypes, Acquire
  <2>3. TriesLeft' /\ Numbered'
    BY <1>1, <1>4 DEF ControlTypes, DataTypes, TriesLeft, Numbered, Acquire
  <2> QED
    BY <1>2, <2>1, <2>2, <2>3, TypesAre DEF Inv, TypeOK, ControlTypes, DataTypes, LockType
<1>5. CASE NotAcquired(p)
  <2>1. ControlTypes'
    <3>1. tries[p] \in 0 .. Retries /\ tries[p] + 1 \in 0 .. Retries + 1
      BY <1>1, <1>5 DEF ControlTypes, TriesLeft, NotAcquired, Again
    <3>2. tries' \in [Procs -> 0 .. Retries + 1]
      BY <1>1, <1>5, <3>1 DEF ControlTypes, NotAcquired
    <3>3. pc' \in [Procs -> Places]
      BY <1>1, <1>5 DEF ControlTypes, Places, NotAcquired, Again
    <3>4. UNCHANGED <<is_locked, attempt>>
      BY <1>5 DEF NotAcquired
    <3> QED
      BY <1>1, <3>2, <3>3, <3>4 DEF ControlTypes
  <2>2. DataTypes'
    BY <1>1, <1>5 DEF DataTypes, NotAcquired, Again, Lose
  <2>3. TriesLeft' /\ Numbered'
    BY <1>1, <1>5 DEF ControlTypes, DataTypes, TriesLeft, Numbered, NotAcquired, Again, Lose
  <2> QED
    BY <1>2, <2>1, <2>2, <2>3, TypesAre DEF Inv, TypeOK, ControlTypes, DataTypes, LockType
<1>6. CASE AcquireBreaks(p)
  <2>1. ControlTypes'
    BY <1>1, <1>6 DEF ControlTypes, Places, AcquireBreaks, Lose
  <2>2. DataTypes'
    BY <1>1, <1>6 DEF DataTypes, AcquireBreaks, Lose
  <2>3. TriesLeft' /\ Numbered'
    BY <1>1, <1>6 DEF ControlTypes, DataTypes, TriesLeft, Numbered, AcquireBreaks, Lose
  <2> QED
    BY <1>2, <2>1, <2>2, <2>3, TypesAre DEF Inv, TypeOK, ControlTypes, DataTypes, LockType
<1>7. CASE Read(p)
  <2>1. ControlTypes'
    BY <1>1, <1>7 DEF ControlTypes, Places, Read
  <2>2. DataTypes'
    BY <1>1, <1>7 DEF DataTypes, Read
  <2>3. TriesLeft' /\ Numbered'
    BY <1>1, <1>7 DEF ControlTypes, DataTypes, TriesLeft, Numbered, Read
  <2> QED
    BY <1>2, <2>1, <2>2, <2>3, TypesAre DEF Inv, TypeOK, ControlTypes, DataTypes, LockType
<1>8. CASE ReadFails(p)
  <2>1. ControlTypes'
    BY <1>1, <1>8 DEF ControlTypes, Places, ReadFails, Lose
  <2>2. DataTypes'
    BY <1>1, <1>8 DEF DataTypes, ReadFails, Lose
  <2>3. TriesLeft' /\ Numbered'
    BY <1>1, <1>8 DEF ControlTypes, DataTypes, TriesLeft, Numbered, ReadFails, Lose
  <2> QED
    BY <1>2, <2>1, <2>2, <2>3, TypesAre DEF Inv, TypeOK, ControlTypes, DataTypes, LockType
<1>9. CASE Check(p)
  <2>1. ControlTypes'
    BY <1>1, <1>9 DEF ControlTypes, Places, Check, WriteAllowed
  <2>2. DataTypes'
    BY <1>1, <1>9 DEF DataTypes, Check, WriteAllowed
  <2>3. TriesLeft' /\ Numbered'
    BY <1>1, <1>9 DEF ControlTypes, DataTypes, TriesLeft, Numbered, Check, WriteAllowed
  <2> QED
    BY <1>2, <2>1, <2>2, <2>3, TypesAre DEF Inv, TypeOK, ControlTypes, DataTypes, LockType
<1>10. CASE CheckFails(p)
  <2>1. ControlTypes'
    BY <1>1, <1>10 DEF ControlTypes, Places, CheckFails, Lose
  <2>2. DataTypes'
    BY <1>1, <1>10 DEF DataTypes, CheckFails, Lose
  <2>3. TriesLeft' /\ Numbered'
    BY <1>1, <1>10 DEF ControlTypes, DataTypes, TriesLeft, Numbered, CheckFails, Lose
  <2> QED
    BY <1>2, <2>1, <2>2, <2>3, TypesAre DEF Inv, TypeOK, ControlTypes, DataTypes, LockType
<1>11. CASE Write(p)
  <2>1. ControlTypes'
    BY <1>1, <1>11 DEF ControlTypes, Places, Write, Lose
  <2>2. DataTypes'
    <3>1. val[p] \subseteq 1 .. requests /\ req[p] \in 1 .. requests
      BY <1>1, <1>11 DEF DataTypes, Numbered, Write
    <3>2. data' \subseteq 1 .. requests /\ UNCHANGED <<requests, val, req, crashes>>
      BY <1>11, <3>1 DEF Write
    <3>3. lost' \in Nat
      BY <1>1, <1>11 DEF DataTypes, Write, Lose
    <3> QED
      BY <1>1, <3>2, <3>3 DEF DataTypes
  <2>3. TriesLeft' /\ Numbered'
    BY <1>1, <1>11 DEF ControlTypes, DataTypes, TriesLeft, Numbered, Write, Lose
  <2> QED
    BY <1>2, <2>1, <2>2, <2>3, TypesAre DEF Inv, TypeOK, ControlTypes, DataTypes, LockType
<1>12. CASE WriteFails(p)
  <2>1. ControlTypes'
    BY <1>1, <1>12 DEF ControlTypes, Places, WriteFails, Lose
  <2>2. DataTypes'
    BY <1>1, <1>12 DEF DataTypes, WriteFails, Lose
  <2>3. TriesLeft' /\ Numbered'
    BY <1>1, <1>12 DEF ControlTypes, DataTypes, TriesLeft, Numbered, WriteFails, Lose
  <2> QED
    BY <1>2, <2>1, <2>2, <2>3, TypesAre DEF Inv, TypeOK, ControlTypes, DataTypes, LockType
<1>13. CASE Destroy(p)
  <2>1. ControlTypes'
    BY <1>1, <1>13 DEF ControlTypes, Places, Destroy
  <2>2. DataTypes'
    BY <1>1, <1>13 DEF DataTypes, Destroy
  <2>3. TriesLeft' /\ Numbered'
    BY <1>1, <1>13 DEF ControlTypes, DataTypes, TriesLeft, Numbered, Destroy
  <2> QED
    BY <1>2, <2>1, <2>2, <2>3, TypesAre DEF Inv, TypeOK, ControlTypes, DataTypes, LockType
<1>14. CASE Evaluate(p)
  <2>1. ControlTypes'
    <3>1. attempt[p] + 1 \in 0 .. 2
      BY <1>1, <1>14 DEF ControlTypes, Evaluate
    <3>2. attempt' \in [Procs -> 0 .. 2]
      BY <1>1, <1>14, <3>1 DEF ControlTypes, Evaluate
    <3>3. is_locked' \in [Procs -> BOOLEAN]
      BY <1>1, <1>14 DEF ControlTypes, Evaluate
    <3>4. UNCHANGED <<pc, tries>>
      BY <1>14 DEF Evaluate
    <3> QED
      BY <1>1, <3>2, <3>3, <3>4 DEF ControlTypes
  <2>2. DataTypes'
    BY <1>1, <1>14 DEF DataTypes, Evaluate, Lose
  <2>3. TriesLeft' /\ Numbered'
    BY <1>1, <1>14 DEF ControlTypes, DataTypes, TriesLeft, Numbered, Evaluate, Lose
  <2> QED
    BY <1>2, <2>1, <2>2, <2>3, TypesAre DEF Inv, TypeOK, ControlTypes, DataTypes, LockType
<1>15. CASE NoScript(p)
  <2>1. ControlTypes'
    BY <1>1, <1>15 DEF ControlTypes, Places, NoScript
  <2>2. DataTypes'
    BY <1>1, <1>15 DEF DataTypes, NoScript
  <2>3. TriesLeft' /\ Numbered'
    BY <1>1, <1>15 DEF ControlTypes, DataTypes, TriesLeft, Numbered, NoScript
  <2> QED
    BY <1>2, <2>1, <2>2, <2>3, TypesAre DEF Inv, TypeOK, ControlTypes, DataTypes, LockType
<1>16. CASE Delete(p)
  <2>1. ControlTypes'
    BY <1>1, <1>16 DEF ControlTypes, Places, Delete, Lose
  <2>2. DataTypes'
    <3>1. data' = {} \/ data' = data
      BY <1>16 DEF Delete
    <3>2. lost' \in Nat /\ UNCHANGED <<requests, val, req, crashes>>
      BY <1>1, <1>16 DEF DataTypes, Delete, Lose
    <3> QED
      BY <1>1, <3>1, <3>2 DEF DataTypes
  <2>3. TriesLeft' /\ Numbered'
    BY <1>1, <1>16 DEF ControlTypes, DataTypes, TriesLeft, Numbered, Delete, Lose
  <2> QED
    BY <1>2, <2>1, <2>2, <2>3, TypesAre DEF Inv, TypeOK, ControlTypes, DataTypes, LockType
<1>17. CASE Close(p)
  <2>1. ControlTypes'
    BY <1>1, <1>17 DEF ControlTypes, Places, Close, Forget
  <2>2. DataTypes'
    BY <1>1, <1>17 DEF DataTypes, Close, Forget
  <2>3. TriesLeft' /\ Numbered'
    BY <1>1, <1>17 DEF ControlTypes, DataTypes, TriesLeft, Numbered, Close, Forget
  <2> QED
    BY <1>2, <2>1, <2>2, <2>3, TypesAre DEF Inv, TypeOK, ControlTypes, DataTypes, LockType
<1>18. CASE Crash(p)
  <2>1. ControlTypes'
    BY <1>1, <1>18 DEF ControlTypes, Places, Crash, Forget
  <2>2. DataTypes'
    BY <1>1, <1>18 DEF DataTypes, Crash, Forget
  <2>3. TriesLeft' /\ Numbered'
    BY <1>1, <1>18 DEF ControlTypes, DataTypes, TriesLeft, Numbered, Crash, Forget
  <2> QED
    BY <1>2, <2>1, <2>2, <2>3, TypesAre DEF Inv, TypeOK, ControlTypes, DataTypes, LockType
<1> QED
  BY <1>3, <1>4, <1>5, <1>6, <1>7, <1>8, <1>9, <1>10, <1>11, <1>12, <1>13, <1>14, <1>15, <1>16, <1>17, <1>18 DEF Step

LEMMA NextInv == Inv /\ [Next]_vars => Inv'
<1> SUFFICES ASSUME Inv, [Next]_vars PROVE Inv'
  OBVIOUS
<1>1. ASSUME NEW p \in Procs, Step(p) PROVE Inv'
  BY <1>1, StepInv
<1>2. CASE Tick
  BY <1>2, ConstantTypes DEF Inv, TypeOK, TriesLeft, Numbered, At, Tick, NoLock, client, counts
<1>3. CASE UNCHANGED vars
  BY <1>3 DEF Inv, TypeOK, TriesLeft, Numbered, At, vars, redis, client, counts
<1> QED
  BY <1>1, <1>2, <1>3 DEF Next

LEMMA Invariance == Spec => []Inv
BY InitInv, NextInv, PTL DEF Spec

\* For any number of processes, tries, losses and deaths, the variables of
\* redis_session.c and of the server keep their types.
THEOREM TypeCorrect == Spec => []TypeOK
BY Invariance, PTL DEF Inv

\* The script of lock_release deletes the lock of the process that sends it
\* only, and SET NX replaces none, whatever was lost before.
THEOREM OnlyOwnerReleases == Spec => OthersLockKept
<1>1. ASSUME Inv, [Next]_vars,
             NEW p \in Procs, lock.owner = p, lock.ttl # 1, Idles(p)
      PROVE  lock'.owner = p
  <2>1. lock # NoLock /\ p # None
    BY <1>1, ConstantTypes DEF NoLock
  <2>2. CASE Tick
    BY <1>1, <2>2 DEF Tick, Inv, TypeOK
  <2>3. ASSUME NEW q \in Procs, Evaluate(q) PROVE lock'.owner = p
    <3>1. CASE q = p
      <4>1. is_locked[p] /\ is_locked'[p] = is_locked[p] /\ attempt'[p] = attempt[p]
        BY <1>1, <2>3, <3>1 DEF Evaluate, Idles
      <4>2. /\ is_locked \in [Procs -> BOOLEAN] /\ attempt \in [Procs -> 0 .. 2]
            /\ attempt[p] + 1 # attempt[p]
        BY <1>1 DEF Inv, TypeOK
      <4> QED
        BY <2>3, <3>1, <4>1, <4>2 DEF Evaluate
    <3>2. CASE q # p
      BY <1>1, <2>3, <3>2 DEF Evaluate, Script
    <3> QED
      BY <3>1, <3>2
  <2>4. ASSUME NEW q \in Procs, Step(q), ~Evaluate(q) PROVE lock' = lock
    BY <2>1, <2>4 DEF Step, Start, Acquire, NotAcquired, AcquireBreaks, Read, ReadFails, Check, CheckFails,
                      Write, WriteFails, Destroy, NoScript, Delete, Close, Crash, SetNX, redis
  <2>5. CASE UNCHANGED vars
    BY <1>1, <2>5 DEF vars, redis
  <2> QED
    BY <1>1, <2>2, <2>3, <2>4, <2>5 DEF Next
<1>2. Inv /\ [Next]_vars =>
        [\A p \in Procs : lock.owner = p /\ lock.ttl # 1 /\ Idles(p) => lock'.owner = p]_vars
  BY <1>1
<1> QED
  BY <1>2, Invariance, PTL DEF Spec, OthersLockKept

(***************************************************************************)
(* What is stored.                                                         *)
(***************************************************************************)
\* Who holds the lock has read what is in the session.
ReadIsFresh == \A p \in Procs : lock.owner = p /\ pc[p] \in {"work", "write"} => data \subseteq val[p]

Guarded == StillHolding /\ ReadIsFresh

\* A lock changes hands while its new owner asks for it, and only then.
LEMMA NewOwnerAsks ==
    ASSUME Inv, NEW p \in Procs, Step(p), NEW q \in Procs, lock'.owner = q, lock.owner # q
    PROVE  q = p /\ pc[p] = "acquire" /\ pc'[p] \in {"acquire", "read"}
<1>1. CASE Acquire(p) \/ NotAcquired(p)
  BY <1>1 DEF Acquire, NotAcquired, Again, SetNX, Goes, Inv, TypeOK
<1>2. CASE Evaluate(p)
  BY <1>2, ConstantTypes DEF Evaluate, Script, NoLock
<1>3. CASE ~(Acquire(p) \/ NotAcquired(p) \/ Evaluate(p))
  BY <1>3 DEF Step, Start, AcquireBreaks, Read, ReadFails, Check, CheckFails,
              Write, WriteFails, Destroy, NoScript, Delete, Close, Crash, redis
<1> QED
  BY <1>1, <1>2, <1>3

\* A process that is about to store loses its lock by storing only.
LEMMA HolderKeeps ==
    ASSUME Inv, NEW p \in Procs, Step(p), NEW q \in Procs, pc'[q] = "write", lock.owner = q
    PROVE  lock'.owner = q
<1>1. ASSUME Evaluate(p) PROVE p # q
  BY <1>1 DEF Evaluate
<1> QED
  BY <1>1, ConstantTypes
  DEF Step, Start, Acquire, NotAcquired, AcquireBreaks, Read, ReadFails, Check, CheckFails, Evaluate,
      Write, WriteFails, Destroy, NoScript, Delete, Close, Crash, SetNX, Script, NoLock, redis

\* The comment at redis_session.c:327-329: with an expiry of its own, a request
\* that was allowed to store still has the lock when it stores.
LEMMA StepGuarded ==
    ASSUME LockExpire # 0, Inv, Guarded, NEW p \in Procs, Step(p)
    PROVE  Guarded'
<1>1. ASSUME NEW q \in Procs, q # p
      PROVE  pc'[q] = pc[q] /\ val'[q] = val[q]
  BY <1>1 DEF Inv, TypeOK, Goes, Step, Start, Acquire, NotAcquired, Again, AcquireBreaks, Read, ReadFails, Check,
         CheckFails, Evaluate, Write, WriteFails, Destroy, NoScript, Delete, Close, Crash, Forget, client
<1>2. ASSUME NEW q \in Procs, pc'[q] = "write"
      PROVE  lock'.owner = q
  <2>1. CASE pc[q] = "write"
    BY <1>2, <2>1, HolderKeeps DEF Guarded, StillHolding, At
  <2>2. CASE pc[q] # "write"
    <3>1. q = p
      BY <1>1, <1>2, <2>2
    <3>2. Check(p)
      BY <1>2, <2>2, <3>1 DEF Inv, TypeOK, Goes, Step, Start, Acquire, NotAcquired, Again, AcquireBreaks, Read,
         ReadFails, CheckFails, Evaluate, Write, WriteFails, Destroy, NoScript, Delete, Close, Crash
    <3>3. lock.owner = q
      BY <1>2, <3>1, <3>2 DEF Check, WriteAllowed, Goes, Inv, TypeOK
    <3> QED
      BY <1>2, <3>3, HolderKeeps
  <2> QED
    BY <2>1, <2>2
<1>3. ASSUME NEW q \in Procs, lock'.owner = q, pc'[q] \in {"work", "write"}
      PROVE  data' \subseteq val'[q]
  <2>1. lock.owner = q
    BY <1>3, NewOwnerAsks DEF Inv, TypeOK
  <2>2. CASE Write(p)
    <3>1. lock.owner = p
      BY <2>2 DEF Guarded, StillHolding, At, Goes, Write
    <3>2. pc'[p] = "close"
      BY <2>2 DEF Goes, Write, Inv, TypeOK
    <3> QED
      BY <1>3, <2>1, <3>1, <3>2
  <2>3. CASE ~Write(p)
    <3>1. data' \subseteq data
      BY <2>3 DEF Step, Start, Acquire, NotAcquired, AcquireBreaks, Read, ReadFails, Check, CheckFails,
                  Evaluate, WriteFails, Destroy, NoScript, Delete, Close, Crash, redis
    <3>2. CASE pc[q] \in {"work", "write"} /\ val'[q] = val[q]
      BY <2>1, <3>1, <3>2 DEF Guarded, ReadIsFresh
    <3>3. CASE q = p /\ Read(p)
      BY <3>1, <3>3 DEF Read, Inv, TypeOK
    <3>4. CASE q = p /\ ~Read(p)
      BY <1>3, <2>3, <3>2, <3>4
      DEF Inv, TypeOK, Goes, Step, Start, Acquire, NotAcquired, Again, AcquireBreaks, ReadFails, Check, CheckFails,
          Evaluate, WriteFails, Destroy, NoScript, Delete, Close, Crash, client
    <3> QED
      BY <1>1, <1>3, <3>2, <3>3, <3>4
  <2> QED
    BY <2>2, <2>3
<1> QED
  BY <1>2, <1>3 DEF Guarded, StillHolding, ReadIsFresh, At

LEMMA NextGuarded ==
    ASSUME Prompt, LockExpire # 0
    PROVE  Inv /\ Guarded /\ [Next]_vars => Guarded'
<1> SUFFICES ASSUME Inv, Guarded, [Next]_vars PROVE Guarded'
  OBVIOUS
<1>1. ASSUME NEW p \in Procs, Step(p) PROVE Guarded'
  BY <1>1, StepGuarded
<1>2. CASE Tick
  <2>1. UNCHANGED <<pc, data, val>>
    BY <1>2 DEF Tick, client
  <2>2. ASSUME NEW p \in Procs, lock.owner = p, pc[p] = "write" PROVE lock'.owner = p
    BY <1>2, <2>2 DEF Tick, At, Inv, TypeOK
  <2>3. ASSUME NEW p \in Procs, lock'.owner = p PROVE lock.owner = p
    BY <1>2, <2>3, ConstantTypes DEF Tick, NoLock, Inv, TypeOK
  <2> QED
    BY <2>1, <2>2, <2>3 DEF Guarded, StillHolding, ReadIsFresh, At
<1>3. CASE UNCHANGED vars
  BY <1>3 DEF Guarded, StillHolding, ReadIsFresh, At, vars, redis, client
<1> QED
  BY <1>1, <1>2, <1>3 DEF Next

LEMMA GuardedInvariance ==
    ASSUME Prompt, LockExpire # 0
    PROVE  Spec => [](Inv /\ Guarded)
<1>1. Init => Guarded
  BY DEF Init, Guarded, StillHolding, ReadIsFresh, At
<1> QED
  BY <1>1, NextGuarded, Invariance, PTL DEF Spec

\* What the comment at redis_session.c:327-329 calls guaranteed, a request that
\* stores still holds the lock, when lock_expire is set and SETEX comes in time.
THEOREM HoldsWhenStoring ==
    ASSUME Prompt, LockExpire # 0
    PROVE  Spec => []StillHolding
BY GuardedInvariance, PTL DEF Guarded

\* When lock_expire is set and the SETEX follows its check in time, no session
\* is stored over a change that redis_session.c has stored since it was read.
THEOREM NoUpdateLost ==
    ASSUME Prompt, LockExpire # 0
    PROVE  Spec => NoLostUpdate
<1>1. ASSUME Inv, Guarded, NEW p \in Procs, Step(p)
      PROVE  data \subseteq data' \/ data' = {}
  <2>1. CASE Write(p)
    BY <1>1, <2>1 DEF Write, Goes, Guarded, StillHolding, ReadIsFresh, At
  <2>2. CASE ~Write(p)
    BY <1>1, <2>2 DEF Step, Start, Acquire, NotAcquired, AcquireBreaks, Read, ReadFails, Check, CheckFails,
                Evaluate, WriteFails, Destroy, NoScript, Delete, Close, Crash, redis
  <2> QED
    BY <2>1, <2>2
<1>2. Inv /\ Guarded /\ [Next]_vars => [data \subseteq data' \/ data' = {}]_vars
  BY <1>1 DEF Next, Tick
<1> QED
  BY <1>2, GuardedInvariance, PTL DEF Spec, NoLostUpdate
=============================================================================
