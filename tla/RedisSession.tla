----------------------------- MODULE RedisSession -----------------------------
(***************************************************************************)
(* phpredis' session handler with locking (redis_session.c): the requests  *)
(* of one session take a lock in Redis with SET NX PX, read the session,   *)
(* check that the lock is still theirs before they store it, and release   *)
(* the lock with a script that compares its value. The lock may expire at  *)
(* any time, a command or its reply may be lost, and a process may die.    *)
(*                                                                         *)
(* Redis executes one command at a time, so a command is one action; where *)
(* the reply is lost the client goes on as it does after an error.         *)
(***************************************************************************)
EXTENDS Integers

CONSTANTS Procs,
          None,              \* no process
          LockExpire,        \* redis.session.lock_expire, in ticks
          MaxExecutionTime,  \* max_execution_time, in ticks
          Retries,           \* redis.session.lock_retries
          Prompt,            \* nobody stays long between the check and SETEX
          MaxRequests, MaxLost, MaxCrashes  \* bounds

ASSUME SessionAssumption ==
    /\ {LockExpire, MaxExecutionTime, Retries, MaxRequests, MaxLost, MaxCrashes} \subseteq Nat
    /\ None \notin Procs /\ Prompt \in BOOLEAN

VARIABLES
    lock,     \* the key ..._LOCK: whose secret it is and what is left of its time
    data,     \* the session: the requests whose changes are in it
    pc, is_locked, tries, attempt,  \* of each process: where it is, lock_status.is_locked,
              \* how often it has tried SET, and the command of lock_release
    val, req, \* what it has read, and the number of its request
    requests, lost, crashes  \* counters of the bounds

redis  == <<lock, data>>
client == <<pc, is_locked, tries, attempt, val, req>>
counts == <<requests, lost, crashes>>
vars   == <<redis, client, counts>>

NoLock == [owner |-> None, ttl |-> 0]

Init == /\ lock = NoLock /\ data = {}
        /\ pc = [p \in Procs |-> "idle"] /\ is_locked = [p \in Procs |-> FALSE]
        /\ tries = [p \in Procs |-> 0] /\ attempt = [p \in Procs |-> 0]
        /\ val = [p \in Procs |-> {}] /\ req = [p \in Procs |-> 0]
        /\ requests = 0 /\ lost = 0 /\ crashes = 0

At(p, from)       == pc[p] = from
Goes(p, from, to) == pc[p] = from /\ pc' = [pc EXCEPT ![p] = to]

\* A command may be lost on its way, or its reply on the way back.
Lose == lost < MaxLost /\ lost' = lost + 1

(***************************************************************************)
(* PS_READ: lock_acquire, then GET.                                        *)
(***************************************************************************)
Start(p) == /\ Goes(p, "idle", "acquire") /\ requests < MaxRequests
            /\ requests' = requests + 1 /\ req' = [req EXCEPT ![p] = requests + 1]
            /\ tries' = [tries EXCEPT ![p] = 0]
            /\ UNCHANGED <<redis, is_locked, attempt, val, lost, crashes>>

\* The time to live that is sent with SET; nothing is sent when it is zero.
Expiry_Never == 0

Expiry == IF LockExpire = 0 THEN MaxExecutionTime ELSE LockExpire

\* SET lock_key lock_secret NX PX.
SetNX(p) == lock' = IF lock = NoLock THEN [owner |-> p, ttl |-> Expiry] ELSE lock

Acquire(p) == /\ Goes(p, "acquire", "read") /\ lock = NoLock
              /\ SetNX(p) /\ is_locked' = [is_locked EXCEPT ![p] = TRUE]
              /\ UNCHANGED <<data, tries, attempt, val, req, counts>>

\* No OK: the key exists, or the reply is lost and the key may be ours. After
\* the last try the session is read all the same.
Again(p) == IF tries[p] >= Retries THEN Goes(p, "acquire", "read")
                                  ELSE Goes(p, "acquire", "acquire")

NotAcquired(p) == /\ Again(p) /\ tries' = [tries EXCEPT ![p] = @ + 1]
                  /\ \/ lock # NoLock /\ UNCHANGED <<lock, lost>>
                     \/ Lose /\ (SetNX(p) \/ UNCHANGED lock)
                  /\ UNCHANGED <<data, is_locked, attempt, val, req, requests, crashes>>

\* The command could not be sent: lock_acquire gives up at once.
AcquireBreaks(p) == /\ Goes(p, "acquire", "read") /\ Lose
                    /\ UNCHANGED <<redis, is_locked, tries, attempt, val, req, requests, crashes>>

Read(p) == /\ Goes(p, "read", "work") /\ val' = [val EXCEPT ![p] = data]
           /\ UNCHANGED <<redis, is_locked, tries, attempt, req, counts>>

\* The session cannot be started: it is closed without a write.
ReadFails(p) == /\ Goes(p, "read", "close") /\ Lose
                /\ UNCHANGED <<redis, is_locked, tries, attempt, val, req, requests, crashes>>

(***************************************************************************)
(* PS_WRITE: refresh_lock_status, then SETEX.                              *)
(***************************************************************************)
\* write_allowed: only the client's own flag is looked at.
WriteAllowed_Flag(p) == is_locked[p]

\* refresh_lock_status asks Redis, unless lock_expire is not set.
WriteAllowed(p) == is_locked[p] /\ (LockExpire = 0 \/ lock.owner = p)

Check(p) == /\ Goes(p, "work", IF WriteAllowed(p) THEN "write" ELSE "close")
            /\ is_locked' = [is_locked EXCEPT ![p] = WriteAllowed(p)]
            /\ UNCHANGED <<redis, tries, attempt, val, req, counts>>

\* The reply of GET is lost: the lock is taken for lost too.
CheckFails(p) == /\ Goes(p, "work", "close") /\ is_locked[p] /\ LockExpire # 0 /\ Lose
                 /\ is_locked' = [is_locked EXCEPT ![p] = FALSE]
                 /\ UNCHANGED <<redis, tries, attempt, val, req, requests, crashes>>

\* SETEX stores what was read with the changes of this request.
Write(p) == /\ Goes(p, "write", "close")
            /\ \/ UNCHANGED lost
               \/ Lose  \* the reply: PS_WRITE fails, but the session is stored
            /\ data' = val[p] \cup {req[p]}
            /\ UNCHANGED <<lock, is_locked, tries, attempt, val, req, requests, crashes>>

WriteFails(p) == /\ Goes(p, "write", "close") /\ Lose
                 /\ UNCHANGED <<redis, is_locked, tries, attempt, val, req, requests, crashes>>

(***************************************************************************)
(* PS_CLOSE, and PS_DESTROY, which releases the lock and then deletes.     *)
(***************************************************************************)
Destroy(p) == /\ Goes(p, "work", "destroy")
              /\ UNCHANGED <<redis, is_locked, tries, attempt, val, req, counts>>

\* The script deletes whatever lock there is.
Script_Any(p) == lock' = NoLock

\* LOCK_RELEASE_LUA_STR: deletes the lock if it has our secret.
Script(p) == lock' = IF lock.owner = p THEN NoLock ELSE lock

\* One of the two commands of lock_release, EVALSHA and then EVAL.
Evaluate(p) ==
    /\ pc[p] \in {"close", "destroy"} /\ is_locked[p] /\ attempt[p] < 2
    /\ \/ /\ Script(p) /\ is_locked' = [is_locked EXCEPT ![p] = FALSE]
          /\ UNCHANGED <<attempt, lost>>
       \/ /\ Lose /\ (Script(p) \/ UNCHANGED lock)
          /\ attempt' = [attempt EXCEPT ![p] = @ + 1] /\ UNCHANGED is_locked
    /\ UNCHANGED <<data, pc, tries, val, req, requests, crashes>>

\* Redis does not know the script yet: EVALSHA is answered with an error.
NoScript(p) == /\ pc[p] \in {"close", "destroy"} /\ is_locked[p] /\ attempt[p] = 0
               /\ attempt' = [attempt EXCEPT ![p] = 1]
               /\ UNCHANGED <<redis, pc, is_locked, tries, val, req, counts>>

Released(p) == ~is_locked[p] \/ attempt[p] = 2

Delete(p) == /\ Goes(p, "destroy", "close") /\ Released(p)
             /\ attempt' = [attempt EXCEPT ![p] = 0]
             /\ \/ data' = {} /\ UNCHANGED lost
                \/ Lose /\ UNCHANGED data
             /\ UNCHANGED <<lock, is_locked, tries, val, req, requests, crashes>>

Forget(p) == /\ is_locked' = [is_locked EXCEPT ![p] = FALSE]
             /\ attempt' = [attempt EXCEPT ![p] = 0] /\ tries' = [tries EXCEPT ![p] = 0]
             /\ val' = [val EXCEPT ![p] = {}] /\ req' = [req EXCEPT ![p] = 0]

Close(p) == /\ Goes(p, "close", "idle") /\ Released(p) /\ Forget(p)
            /\ UNCHANGED <<redis, counts>>

Crash(p) == /\ ~At(p, "idle") /\ crashes < MaxCrashes /\ crashes' = crashes + 1
            /\ pc' = [pc EXCEPT ![p] = "idle"] /\ Forget(p)
            /\ UNCHANGED <<redis, requests, lost>>

Step(p) == \/ Start(p) \/ Acquire(p) \/ NotAcquired(p) \/ AcquireBreaks(p)
           \/ Read(p) \/ ReadFails(p) \/ Check(p) \/ CheckFails(p) \/ Write(p) \/ WriteFails(p)
           \/ Destroy(p) \/ Evaluate(p) \/ NoScript(p) \/ Delete(p) \/ Close(p) \/ Crash(p)

\* The time of the lock runs in Redis; a lock without PX stays.
Tick == /\ lock.ttl > 0
        /\ lock' = IF lock.ttl = 1 THEN NoLock ELSE [lock EXCEPT !.ttl = @ - 1]
        /\ Prompt /\ lock.ttl = 1 => ~At(lock.owner, "write")
        /\ UNCHANGED <<data, client, counts>>

Next == (\E p \in Procs : Step(p)) \/ Tick

Spec == Init /\ [][Next]_vars

\* Time passes, and a request that stores the session gets on.
FairSpec == Spec /\ WF_vars(Tick) /\ \A p \in Procs : WF_vars(Write(p) \/ Evaluate(p) \/ Close(p))
-----------------------------------------------------------------------------
Places == {"idle", "acquire", "read", "work", "write", "close", "destroy"}

TypeOK == /\ lock \in [owner : Procs \cup {None}, ttl : Nat]
          /\ lock.owner = None => lock.ttl = 0
          /\ data \subseteq 1 .. requests /\ requests \in Nat
          /\ pc \in [Procs -> Places]
          /\ is_locked \in [Procs -> BOOLEAN]
          /\ tries \in [Procs -> 0 .. Retries + 1] /\ attempt \in [Procs -> 0 .. 2]
          /\ val \in [Procs -> SUBSET (1 .. requests)] /\ req \in [Procs -> 0 .. requests]
          /\ lost \in Nat /\ crashes \in Nat

(***************************************************************************)
(* The comment in refresh_lock_status: "it is guaranteed that the current  *)
(* process is still holding the lock" when it is about to store.           *)
(***************************************************************************)
StillHolding == \A p \in Procs : At(p, "write") => lock.owner = p

(***************************************************************************)
(* No request stores a session from which the changes that another request *)
(* has stored since are missing, though locks expire under their owners,   *)
(* replies are lost and processes die: a session changes by addition, or   *)
(* it is destroyed.                                                        *)
(***************************************************************************)
NoLostUpdate == [][data \subseteq data' \/ data' = {}]_vars

(***************************************************************************)
(* Only its owner, or time, takes a lock away: lock_release of a request   *)
(* whose lock has expired leaves the lock of the next one alone.           *)
(***************************************************************************)
Idles(p) == <<pc[p], is_locked[p], attempt[p]>>' = <<pc[p], is_locked[p], attempt[p]>>

OthersLockKept == [][\A p \in Procs : lock.owner = p /\ lock.ttl # 1 /\ Idles(p) => lock'.owner = p]_vars

(***************************************************************************)
(* A lock that was taken is free again one day, even if its owner has died *)
(* or never learnt that it has it: lock_acquire sends the expiry with SET. *)
(***************************************************************************)
LockFreed == (lock # NoLock) ~> (lock = NoLock)
=============================================================================
