----------------------------- MODULE SwManager -----------------------------
(***************************************************************************)
(* The manager process of a swoole server (src/network/Manager.c): it      *)
(* waits for its children and for signals, starts a new process for each   *)
(* worker that ended, and reloads the workers one after the other.         *)
(*                                                                         *)
(* A signal handler runs between any two steps of the loop and writes the  *)
(* flags the loop reads; a signal that comes while the loop is in wait()   *)
(* also ends the wait (the handlers are set without SA_RESTART).           *)
(***************************************************************************)
EXTENDS Integers, Sequences, FiniteSets

CONSTANTS
    NumEvent, NumTask,   \* serv->worker_num, SwooleG.task_worker_num
    ReloadModes,         \* the values of serv->reload_async to consider
    Timely,              \* TRUE: signals come only while the loop is in wait()
    ForkFails,           \* TRUE: the fork of a task worker may fail
    BoxRoom,             \* how many messages serv->message_box has room for
    MaxPid, MaxCrash, MaxRetire, MaxUsr1, MaxUsr2   \* bounds of the instance

ASSUME ManagerAssumption ==
    /\ NumEvent \in Nat \ {0} /\ NumTask \in Nat
    /\ {Timely, ForkFails} \cup ReloadModes \subseteq BOOLEAN
    /\ {BoxRoom, MaxPid, MaxCrash, MaxRetire, MaxUsr1, MaxUsr2} \subseteq Nat
    /\ MaxPid >= NumEvent + NumTask

N == NumEvent + NumTask
Events == 1 .. NumEvent
Slots == 1 .. N      \* the event workers and, after them, the task workers
Pids == 1 .. MaxPid

VARIABLES
    reload_async,                                   \* serv->reload_async, which never changes
    mpc, pid,                                       \* where the loop is, and what wait() returned
    running,                                        \* SwooleG.running
    reloading, reload_all, reload_task, read_message,  \* ManagerProcess
    reload_workers, reload_i, reload_num,           \* the pids to reload, the next, how many
    box,                                            \* serv->message_box
    slot,                                           \* workers[i].pid
    proc, wid,                                      \* the state and the worker id of each process
    used,                                           \* how often each bounded event happened
    old                                             \* the workers when a reload was last asked for

flags == <<reloading, reload_all, reload_task, read_message>>
list == <<reload_workers, reload_i, reload_num>>
children == <<slot, proc, wid>>
vars == <<reload_async, mpc, pid, running, flags, list, box, children, used, old>>

Living == {"active", "term", "pushed", "retiring"}
Bounds == [crash |-> MaxCrash, retire |-> MaxRetire, usr1 |-> MaxUsr1, usr2 |-> MaxUsr2, term |-> 1]

TypeOK ==
    /\ reload_async \in BOOLEAN
    /\ mpc \in {"top", "enter", "wait", "read", "readdone", "branch", "respawn",
                "kill", "killall", "join", "stopped"}
    /\ pid \in Pids \cup {-1} /\ running \in BOOLEAN
    /\ {reloading, reload_all, reload_task, read_message} \subseteq BOOLEAN
    /\ reload_workers \in [Slots -> Pids \cup {0}]
    /\ reload_i \in 0 .. N /\ reload_num \in 0 .. N
    /\ box \in Seq(Events) /\ slot \in [Slots -> Pids]
    /\ proc \in [Pids -> Living \cup {"unborn", "zombie", "gone"}] /\ wid \in [Pids -> Slots]
    /\ used \in [DOMAIN Bounds -> Nat] /\ \A e \in DOMAIN Bounds : used[e] <= Bounds[e]
    /\ old \subseteq Pids

Init ==
    /\ reload_async \in ReloadModes
    /\ mpc = "top" /\ pid = -1 /\ running = TRUE
    /\ reloading = FALSE /\ reload_all = FALSE /\ reload_task = FALSE /\ read_message = FALSE
    /\ reload_workers = [s \in Slots |-> 0] /\ reload_i = 0 /\ reload_num = N
    /\ box = <<>> /\ slot = [s \in Slots |-> s]
    /\ proc = [p \in Pids |-> IF p \in Slots THEN "active" ELSE "unborn"]
    /\ wid = [p \in Pids |-> IF p \in Slots THEN p ELSE 1]
    /\ used = [e \in DOMAIN Bounds |-> 0] /\ old = {}

Count(e) == used[e] < Bounds[e] /\ used' = [used EXCEPT ![e] = @ + 1]

-----------------------------------------------------------------------------
(***************************************************************************)
(* swManager_signal_handle, and the kill() of the worker or the master     *)
(* that makes it run.  From the end of the loop on signals are blocked.    *)
(***************************************************************************)

Ended == mpc \in {"killall", "join", "stopped"}

\* A signal reaches the process now: wait() fails with EINTR.
Interrupt == /\ Timely => (mpc = "wait" \/ Ended)
             /\ IF mpc = "wait" THEN mpc' = "read" /\ pid' = -1 ELSE UNCHANGED <<mpc, pid>>

Usr1 ==
    /\ Count("usr1") /\ ~Ended /\ Interrupt
    /\ reloading' = TRUE
    /\ IF reloading THEN UNCHANGED <<reload_all, old>>
       ELSE reload_all' = TRUE /\ old' = {p \in Pids : proc[p] = "active"}
    /\ UNCHANGED <<reload_async, running, reload_task, read_message, list, box, children>>

Usr2 ==
    /\ Count("usr2") /\ ~Ended /\ Interrupt
    /\ reloading' = TRUE
    /\ IF reloading THEN UNCHANGED reload_task ELSE reload_task' = TRUE
    /\ UNCHANGED <<reload_async, running, reload_all, read_message, list, box, children, old>>

Term ==
    /\ Count("term") /\ ~Ended /\ Interrupt
    /\ running' = FALSE
    /\ UNCHANGED <<reload_async, flags, list, box, children, old>>

-----------------------------------------------------------------------------
(***************************************************************************)
(* The workers (src/network/Worker.c).                                     *)
(***************************************************************************)

\* What SIGTERM does to the processes of a set.
Terminated(ps) == [p \in Pids |-> IF p \in ps /\ proc[p] = "active" THEN "term" ELSE proc[p]]

Async(p) == reload_async /\ wid[p] \in Events

Becomes(p, from, to) == proc[p] = from /\ proc' = [proc EXCEPT ![p] = to]

Worker == UNCHANGED <<reload_async, slot, wid, running, list, old>>

\* A worker that served max_request requests stops by itself.
Retire(p) == /\ Count("retire") /\ wid[p] \in Events /\ Becomes(p, "active", "term")
             /\ Worker /\ UNCHANGED <<mpc, pid, flags, box>>

Crash(p) == /\ Count("crash") /\ \E from \in Living : Becomes(p, from, "zombie")
            /\ Worker /\ UNCHANGED <<mpc, pid, flags, box>>

\* swWorker_stop: a worker that ends asynchronously asks for a successor, or
\* finds the box full and goes without ...
Push(p) == /\ Async(p)
           /\ \/ /\ Len(box) < BoxRoom /\ Becomes(p, "term", "pushed")
                 /\ box' = Append(box, wid[p])
              \/ /\ Len(box) >= BoxRoom /\ Becomes(p, "term", "retiring")
                 /\ UNCHANGED box
           /\ Worker /\ UNCHANGED <<mpc, pid, flags, used>>

\* The handler of SIGIO leaves no trace.
Announce_NoFlag(p) == /\ Becomes(p, "pushed", "retiring")
                      /\ Interrupt
                      /\ Worker /\ UNCHANGED <<flags, box, used>>

\* ... and sends SIGIO to the manager, which swSignal_async_handler discards
\* when it comes while the handler of another signal runs (in wait() none does).
\* For the other signals that is as if they were not sent ...
Announce(p) == /\ Becomes(p, "pushed", "retiring")
               /\ Interrupt
               /\ \/ read_message' = (~Ended \/ read_message)
                  \/ mpc # "wait" /\ UNCHANGED read_message
               /\ Worker /\ UNCHANGED <<reloading, reload_all, reload_task, box, used>>

\* ... and goes once its events are done, or after max_wait_time.
Exit(p) == /\ Becomes(p, IF Async(p) THEN "retiring" ELSE "term", "zombie")
           /\ Worker /\ UNCHANGED <<mpc, pid, flags, box, used>>

-----------------------------------------------------------------------------
(***************************************************************************)
(* swManager_loop.                                                         *)
(***************************************************************************)

Goto(from, to) == mpc = from /\ mpc' = to

\* A process that does not exist yet; pids are given out in order.
NewPids == {p \in Pids : proc[p] = "unborn" /\ \A q \in Pids : proc[q] = "unborn" => p <= q}

\* The pid of the new process is not written down.
Spawned_Unrecorded(s) == \E p \in NewPids : /\ proc' = [proc EXCEPT ![p] = "active"]
                                             /\ wid' = [wid EXCEPT ![p] = s]
                                             /\ UNCHANGED slot

\* A fork: the next pid is the new process of slot s.
Spawned(s) == \E p \in NewPids : /\ slot' = [slot EXCEPT ![s] = p]
                                  /\ proc' = [proc EXCEPT ![p] = "active"]
                                  /\ wid' = [wid EXCEPT ![p] = s]

\* A signal between the test and wait() is handled and does not end the wait.
Top == /\ Goto("top", IF running THEN "enter" ELSE "killall")
       /\ UNCHANGED <<reload_async, pid, running, flags, list, box, children, used, old>>

EnterWait == /\ Goto("enter", "wait")
             /\ UNCHANGED <<reload_async, pid, running, flags, list, box, children, used, old>>

Reap(p) == /\ Goto("wait", "read") /\ pid' = p
           /\ Becomes(p, "zombie", "gone")
           /\ UNCHANGED <<reload_async, running, flags, list, box, slot, wid, used, old>>

\* A message is dropped when the server ends or when the fork fails.
ReadMessage ==
    /\ mpc = "read" /\ read_message /\ box # <<>>
    /\ box' = Tail(box)
    /\ \/ running /\ Spawned(Head(box))
       \/ (~running \/ ForkFails) /\ UNCHANGED children
    /\ UNCHANGED <<reload_async, mpc, pid, running, flags, list, used, old>>

NoMessage ==
    /\ \/ read_message /\ box = <<>> /\ Goto("read", "readdone")
       \/ ~read_message /\ Goto("read", "branch")
    /\ UNCHANGED <<reload_async, pid, running, flags, list, box, children, used, old>>

\* Only now is the flag taken back.
MessagesRead ==
    /\ Goto("readdone", "branch") /\ read_message' = FALSE
    /\ UNCHANGED <<reload_async, pid, running, reloading, reload_all, reload_task, list, box, children, used, old>>

\* A child ended, or a signal came and there is nothing to reload.
ChildEnded == /\ pid # -1 /\ Goto("branch", "respawn")
              /\ UNCHANGED <<reload_async, pid, running, flags, list, box, children, used, old>>

NothingToReload ==
    /\ pid = -1 /\ (reloading => ~reload_all /\ ~(reload_task /\ NumTask > 0))
    /\ Goto("branch", "top")
    /\ UNCHANGED <<reload_async, pid, running, flags, list, box, children, used, old>>

\* The pids are those of the last reload, or zeros.
ReloadAll_NoCopy ==
    /\ pid = -1 /\ reloading /\ reload_all /\ reload_all' = FALSE
    /\ Goto("branch", "kill") /\ reload_i' = 0 /\ reload_num' = N
    /\ UNCHANGED <<reload_async, pid, running, reloading, reload_task, read_message, reload_workers, box, children, used, old>>

\* The reload starts with the second worker.
ReloadAll_FromSecond ==
    /\ pid = -1 /\ reloading /\ reload_all /\ reload_all' = FALSE
    /\ Goto("branch", "kill") /\ reload_i' = 1 /\ reload_num' = N /\ reload_workers' = slot
    /\ UNCHANGED <<reload_async, pid, running, reloading, reload_task, read_message, box, children, used, old>>

\* An asynchronous reload ends all event workers at once, a synchronous one
\* goes on to kill the first.
ReloadAll ==
    /\ pid = -1 /\ reloading /\ reload_all /\ reload_all' = FALSE
    /\ reload_workers' = slot /\ reload_num' = N
    /\ IF reload_async
       THEN /\ Goto("branch", "respawn") /\ reload_i' = NumEvent
            /\ proc' = Terminated({slot[s] : s \in Events})
       ELSE Goto("branch", "kill") /\ reload_i' = 0 /\ UNCHANGED proc
    /\ UNCHANGED <<reload_async, pid, running, reloading, reload_task, read_message, box, slot, wid, used, old>>

ReloadTasks ==
    /\ pid = -1 /\ reloading /\ ~reload_all /\ reload_task /\ NumTask > 0
    /\ reload_task' = FALSE
    /\ reload_workers' = [s \in Slots |-> IF s <= NumTask THEN slot[NumEvent + s] ELSE reload_workers[s]]
    /\ reload_num' = NumTask /\ reload_i' = 0
    /\ Goto("branch", "kill")
    /\ UNCHANGED <<reload_async, pid, running, reloading, reload_all, read_message, box, children, used, old>>

\* A failed fork is written down as the pid.
Respawn_Unchecked ==
    /\ Goto("respawn", "kill") /\ running
    /\ \E s \in Slots :
         /\ slot[s] = pid
         /\ \/ Spawned(s)
            \/ ForkFails /\ slot' = [slot EXCEPT ![s] = -1] /\ UNCHANGED <<proc, wid>>
    /\ UNCHANGED <<reload_async, pid, running, flags, list, box, used, old>>

\* No fork is retried.
Respawn_NoRetry ==
    /\ Goto("respawn", "kill") /\ running
    /\ \E s \in Slots : slot[s] = pid /\ (Spawned(s) \/ UNCHANGED children)
    /\ UNCHANGED <<reload_async, pid, running, flags, list, box, used, old>>

\* The fork of an event worker is retried until it succeeds, that of a task
\* worker is not.
Respawn ==
    /\ Goto("respawn", "kill") /\ running
    /\ \E s \in Slots :
         /\ slot[s] = pid
         /\ \/ Spawned(s)
            \/ ForkFails /\ s \notin Events /\ UNCHANGED children
    /\ UNCHANGED <<reload_async, pid, running, flags, list, box, used, old>>

NotOurs ==
    /\ running => \A s \in Slots : slot[s] # pid
    /\ Goto("respawn", "kill")
    /\ UNCHANGED <<reload_async, pid, running, flags, list, box, children, used, old>>

\* The reload stays at its first worker.
Kill_Uncounted ==
    /\ Goto("kill", "top") /\ reloading /\ reload_i < reload_num
    /\ LET target == reload_workers[reload_i + 1]
       IN  /\ proc' = Terminated(IF target = 0 THEN Pids ELSE {target})
           /\ running' = (running /\ target # 0)
    /\ UNCHANGED <<reload_async, pid, flags, reload_workers, reload_num, reload_i, box, slot, wid, used, old>>

\* kill(0, SIGTERM) signals the whole process group, the manager included.
Kill ==
    /\ Goto("kill", "top") /\ reloading /\ reload_i < reload_num
    /\ LET target == reload_workers[reload_i + 1]
       IN  /\ proc' = Terminated(IF target = 0 THEN Pids ELSE {target})
           /\ running' = (running /\ target # 0)
    /\ reload_i' = reload_i + 1
    /\ UNCHANGED <<reload_async, pid, flags, reload_workers, reload_num, box, slot, wid, used, old>>

ReloadFinished ==
    /\ Goto("kill", "top") /\ reloading /\ reload_i >= reload_num
    /\ reloading' = FALSE /\ reload_i' = 0
    /\ UNCHANGED <<reload_async, pid, running, reload_all, reload_task, read_message,
                   reload_workers, reload_num, box, children, used, old>>

NotReloading ==
    /\ Goto("kill", "top") /\ ~reloading
    /\ UNCHANGED <<reload_async, pid, running, flags, list, box, children, used, old>>

\* The task workers are not told to end.
KillAll_EventsOnly ==
    /\ Goto("killall", "join")
    /\ proc' = Terminated({slot[s] : s \in Events})
    /\ UNCHANGED <<reload_async, pid, running, flags, list, box, slot, wid, used, old>>

\* The server ends: every worker of a slot is killed ...
KillAll ==
    /\ Goto("killall", "join")
    /\ proc' = Terminated({slot[s] : s \in Slots})
    /\ UNCHANGED <<reload_async, pid, running, flags, list, box, slot, wid, used, old>>

\* Nobody is waited for.
Join_NoWait ==
    /\ Goto("join", "stopped")
    /\ proc' = [p \in Pids |-> IF \E s \in Slots : slot[s] = p /\ proc[p] = "zombie" THEN "gone" ELSE proc[p]]
    /\ UNCHANGED <<reload_async, pid, running, flags, list, box, slot, wid, used, old>>

\* ... and waited for.
Join ==
    /\ \A s \in Slots : proc[slot[s]] \in {"zombie", "gone"}
    /\ Goto("join", "stopped")
    /\ proc' = [p \in Pids |-> IF \E s \in Slots : slot[s] = p THEN "gone" ELSE proc[p]]
    /\ UNCHANGED <<reload_async, pid, running, flags, list, box, slot, wid, used, old>>

Reading == ReadMessage \/ NoMessage \/ MessagesRead
Branching == ChildEnded \/ NothingToReload \/ ReloadAll \/ ReloadTasks
Reloading == Kill \/ ReloadFinished \/ NotReloading

Manager == \/ Top \/ EnterWait \/ (\E p \in Pids : Reap(p))
           \/ Reading \/ Branching \/ Respawn \/ NotOurs \/ Reloading
           \/ KillAll \/ Join

Next == \/ Manager
        \/ Usr1 \/ Usr2 \/ Term
        \/ \E p \in Pids : Retire(p) \/ Crash(p) \/ Push(p) \/ Announce(p) \/ Exit(p)

Spec == Init /\ [][Next]_vars

\* The manager runs; a worker that was told to end does so.
FairSpec == /\ Spec /\ WF_vars(Manager)
            /\ WF_vars(\E p \in Pids : Push(p) \/ Exit(p))
            /\ SF_vars(\E p \in Pids : Announce(p))

-----------------------------------------------------------------------------
(***************************************************************************)
(* What the manager promises.                                              *)
(***************************************************************************)

Children == {p \in Pids : proc[p] \in Living \cup {"zombie"}}

\* Every child that was not waited for is the process of its slot: no worker
\* id ever has two processes, and none runs on that the manager would not
\* find again when it ends (swManager_loop compares pids) or the server does.
\* An asynchronous reload gives the slot away while its process lives on.
NoOrphans == ~reload_async => \A p \in Children : slot[wid[p]] = p

\* No two processes serve as the same worker, although an asynchronous reload
\* lets the old one live on: a successor is started for the message of a
\* worker or for its end, not for both (swManager_loop).
OneWorkerPerSlot ==
    \A s \in Slots : Cardinality({p \in Pids : wid[p] = s /\ proc[p] = "active"}) <= 1

\* When the manager returns, every process is gone (again but for those that
\* an asynchronous reload let live on).
StopLeavesNobody == ~reload_async /\ mpc = "stopped" => Children = {}

\* The kill of a reload ends one worker at most and never the server itself
\* (swManager_loop, kill_worker).
ReloadSparesServer ==
    [][mpc = "kill" /\ mpc' = "top" =>
         Cardinality({p \in Pids : proc'[p] # proc[p]}) <= 1 /\ running' = running]_vars

\* An event worker that ended has a successor, unless the server ends.
DeadReplaced ==
    \A s \in Events : proc[slot[s]] \in {"zombie", "gone"} ~> (proc[slot[s]] \in Living \/ ~running)

\* A reload that was asked for while none was going on takes every worker of
\* that moment out of service (swManager_signal_handle, swManager_loop).
ReloadReplaces == old # {} ~> ((\A p \in old : proc[p] # "active") \/ ~running)

\* A reload comes to its end, unless the server does first: only then can
\* the next one be asked for (swManager_signal_handle).
ReloadEnds == reloading ~> (~reloading \/ ~running)

\* The end of the server: the master sends SIGTERM and waits for the manager.
Stops == ~running ~> mpc = "stopped"

\* The manager reads the message of a worker that asked for a successor and
\* announced it with SIGIO (swWorker_stop).
MessageRead == box # <<>> ~> (box = <<>> \/ ~running)
=============================================================================
