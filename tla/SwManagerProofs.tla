-------------------------- MODULE SwManagerProofs --------------------------
(***************************************************************************)
(* Theorems about SwManager and their proofs: whatever signals, crashes    *)
(* and failed forks come, and in whatever order, the manager of a server   *)
(* without asynchronous reload knows all of its children, and with it no   *)
(* worker is succeeded twice as long as signals are not missed.            *)
(*                                                                         *)
(* The box that the workers' messages reach the manager through is a       *)
(* channel (serv->message_box); the theorems about SwChannel at the end    *)
(* are why SwManager may take it for a sequence.                           *)
(***************************************************************************)
EXTENDS SwManager, SwChannel, WellFoundedInduction, FiniteSetTheorems, SequenceTheorems, TLAPS

(***************************************************************************)
(* What the manager has waited for is gone for good, so that the slot of   *)
(* the pid it respawns has no living process; and only workers that end    *)
(* asynchronously ask for a successor.                                     *)
(***************************************************************************)
Reaped == pid # -1 => proc[pid] = "gone"
NoMessages == ~reload_async => box = <<>>

Inv == TypeOK /\ Reaped /\ NoMessages /\ NoOrphans /\ StopLeavesNobody

ChildStates == Living \cup {"zombie"}

LEMMA Constant ==
    /\ N \in Nat /\ NumEvent \in Nat /\ NumTask \in Nat /\ NumEvent > 0 /\ MaxPid \in Nat
    /\ N = NumEvent + NumTask /\ N <= MaxPid
    /\ -1 \notin Pids /\ 0 \notin Pids
    /\ Events \subseteq Slots /\ Slots \subseteq Pids /\ 1 \in Slots
  BY ManagerAssumption DEF ManagerAssumption, N, Events, Slots, Pids

LEMMA BoundsAre ==
    /\ DOMAIN Bounds = {"crash", "retire", "usr1", "usr2", "term"}
    /\ Bounds \in [DOMAIN Bounds -> Nat]
  BY ManagerAssumption DEF ManagerAssumption, Bounds

LEMMA InitInv == Init => Inv
<1> SUFFICES ASSUME Init PROVE Inv
  OBVIOUS
<1>1. TypeOK
  <2>1. reload_async \in BOOLEAN
    BY ManagerAssumption DEF ManagerAssumption, Init
  <2>2. slot \in [Slots -> Pids] /\ wid \in [Pids -> Slots]
    BY Constant DEF Init
  <2>3. proc \in [Pids -> Living \cup {"unborn", "zombie", "gone"}]
    BY DEF Init, Living
  <2>4. used \in [DOMAIN Bounds -> Nat] /\ \A e \in DOMAIN Bounds : used[e] <= Bounds[e]
    BY BoundsAre DEF Init
  <2>5. reload_workers \in [Slots -> Pids \cup {0}] /\ reload_i \in 0 .. N /\ reload_num \in 0 .. N
    BY Constant DEF Init
  <2>6. box \in Seq(Events) /\ old \subseteq Pids /\ pid \in Pids \cup {-1}
    BY DEF Init
  <2>7. /\ mpc \in {"top", "enter", "wait", "read", "readdone", "branch", "respawn",
                    "kill", "killall", "join", "stopped"}
        /\ running \in BOOLEAN /\ {reloading, reload_all, reload_task, read_message} \subseteq BOOLEAN
    BY DEF Init
  <2> QED
    BY <2>1, <2>2, <2>3, <2>4, <2>5, <2>6, <2>7 DEF TypeOK
<1>2. NoOrphans
  BY Constant DEF Init, NoOrphans, Children, Living
<1> QED
  BY <1>1, <1>2 DEF Init, Inv, Reaped, NoMessages, StopLeavesNobody

(***************************************************************************)
(* Type correctness, action by action.                                     *)
(***************************************************************************)
LEMMA CountType ==
    ASSUME TypeOK, NEW e \in DOMAIN Bounds, Count(e)
    PROVE  used' \in [DOMAIN Bounds -> Nat] /\ \A f \in DOMAIN Bounds : used'[f] <= Bounds[f]
  BY SMTT(30), BoundsAre DEF TypeOK, Count

LEMMA BecomesType ==
    ASSUME TypeOK, NEW p \in Pids, NEW from, NEW to \in Living \cup {"zombie", "gone"}, Becomes(p, from, to)
    PROVE  proc' \in [Pids -> Living \cup {"unborn", "zombie", "gone"}]
  BY DEF TypeOK, Becomes

LEMMA TerminatedType ==
    ASSUME TypeOK, NEW ps
    PROVE  Terminated(ps) \in [Pids -> Living \cup {"unborn", "zombie", "gone"}]
  BY DEF TypeOK, Terminated, Living

LEMMA SpawnedType ==
    ASSUME TypeOK, NEW s \in Slots, Spawned(s)
    PROVE  /\ slot' \in [Slots -> Pids] /\ wid' \in [Pids -> Slots]
           /\ proc' \in [Pids -> Living \cup {"unborn", "zombie", "gone"}]
  BY DEF TypeOK, Spawned, NewPids, Living

LEMMA InterruptType ==
    ASSUME TypeOK, Interrupt
    PROVE  /\ mpc' \in {"top", "enter", "wait", "read", "readdone", "branch", "respawn",
                        "kill", "killall", "join", "stopped"}
           /\ pid' \in Pids \cup {-1}
  BY DEF TypeOK, Interrupt

LEMMA SignalType == TypeOK /\ (Usr1 \/ Usr2 \/ Term) => TypeOK'
<1> SUFFICES ASSUME TypeOK, Usr1 \/ Usr2 \/ Term PROVE TypeOK'
  OBVIOUS
<1>0. {"usr1", "usr2", "term"} \subseteq DOMAIN Bounds
  BY BoundsAre
<1>1. CASE Usr1
  BY <1>0, <1>1, CountType, InterruptType DEF Usr1, TypeOK, list, children
<1>2. CASE Usr2
  BY <1>0, <1>2, CountType, InterruptType DEF Usr2, TypeOK, list, children
<1>3. CASE Term
  BY <1>0, <1>3, CountType, InterruptType DEF Term, TypeOK, flags, list, children
<1> QED
  BY <1>1, <1>2, <1>3

LEMMA WorkerType ==
    TypeOK /\ (\E p \in Pids : Retire(p) \/ Crash(p) \/ Push(p) \/ Announce(p) \/ Exit(p)) => TypeOK'
<1> SUFFICES ASSUME TypeOK,
                    NEW p \in Pids, Retire(p) \/ Crash(p) \/ Push(p) \/ Announce(p) \/ Exit(p)
             PROVE  TypeOK'
  OBVIOUS
<1>0. {"retire", "crash"} \subseteq DOMAIN Bounds
  BY BoundsAre
<1>1. proc' \in [Pids -> Living \cup {"unborn", "zombie", "gone"}]
  BY BecomesType DEF Retire, Crash, Push, Announce, Exit, Living
<1>2. /\ mpc' \in {"top", "enter", "wait", "read", "readdone", "branch", "respawn",
                    "kill", "killall", "join", "stopped"}
      /\ pid' \in Pids \cup {-1}
  BY InterruptType DEF Retire, Crash, Push, Announce, Exit, TypeOK
<1>3. used' \in [DOMAIN Bounds -> Nat] /\ \A f \in DOMAIN Bounds : used'[f] <= Bounds[f]
  BY <1>0, CountType DEF Retire, Crash, Push, Announce, Exit, TypeOK
<1>4. box' \in Seq(Events)
  <2>1. CASE Push(p)
    <3>1. wid[p] \in Events /\ box \in Seq(Events) /\ (box' = Append(box, wid[p]) \/ UNCHANGED box)
      BY <2>1 DEF Push, Async, TypeOK
    <3> HIDE DEF Events
    <3> QED
      BY <3>1
  <2>2. CASE UNCHANGED box
    BY <2>2 DEF TypeOK
  <2>3. Push(p) \/ UNCHANGED box
    BY DEF Retire, Crash, Announce, Exit
  <2> QED
    BY <2>1, <2>2, <2>3
<1>5. {reloading, reload_all, reload_task, read_message}' \subseteq BOOLEAN
  BY DEF Retire, Crash, Push, Announce, Exit, TypeOK, flags, Ended
<1>6. UNCHANGED <<reload_async, slot, wid, running, list, old>>
  BY DEF Retire, Crash, Push, Announce, Exit, Worker
<1> QED
  BY <1>1, <1>2, <1>3, <1>4, <1>5, <1>6 DEF TypeOK, list

LEMMA LoopType == TypeOK /\ Manager => TypeOK'
<1> SUFFICES ASSUME TypeOK, Manager PROVE TypeOK'
  OBVIOUS
<1>0. N \in Nat /\ NumEvent \in 0 .. N /\ NumTask \in 0 .. N /\ 0 \in 0 .. N
  BY Constant
<1>1. CASE Top \/ EnterWait \/ ChildEnded \/ NothingToReload \/ NotOurs \/ NotReloading
  BY <1>1 DEF Top, EnterWait, ChildEnded, NothingToReload, NotOurs, NotReloading, Goto, TypeOK, flags, list, children
<1>2. ASSUME NEW p \in Pids, Reap(p) PROVE TypeOK'
  BY <1>2, BecomesType DEF Reap, Goto, TypeOK, flags, list
<1>3. CASE ReadMessage
  <2>1. box' \in Seq(Events) /\ Head(box) \in Slots
    BY <1>3, Constant DEF ReadMessage, TypeOK
  <2>2. /\ slot' \in [Slots -> Pids] /\ wid' \in [Pids -> Slots]
        /\ proc' \in [Pids -> Living \cup {"unborn", "zombie", "gone"}]
    BY <1>3, <2>1, SpawnedType DEF ReadMessage, TypeOK, children
  <2> QED
    BY <1>3, <2>1, <2>2 DEF ReadMessage, TypeOK, flags, list
<1>4. CASE NoMessage \/ MessagesRead
  BY <1>4 DEF NoMessage, MessagesRead, Goto, TypeOK, flags, list, children
<1>5. CASE ReloadAll
  <2>1. proc' \in [Pids -> Living \cup {"unborn", "zombie", "gone"}]
    BY <1>5, TerminatedType DEF ReloadAll, TypeOK
  <2>2. reload_workers' \in [Slots -> Pids \cup {0}] /\ reload_i' \in 0 .. N /\ reload_num' \in 0 .. N
    BY <1>0, <1>5 DEF ReloadAll, TypeOK
  <2> QED
    BY <1>5, <2>1, <2>2 DEF ReloadAll, Goto, TypeOK
<1>6. CASE ReloadTasks
  <2>1. \A s \in Slots : s <= NumTask => NumEvent + s \in Slots
    BY Constant DEF Slots
  <2>2. reload_workers' \in [Slots -> Pids \cup {0}] /\ reload_i' \in 0 .. N /\ reload_num' \in 0 .. N
    BY <1>0, <1>6, <2>1 DEF ReloadTasks, TypeOK
  <2> QED
    BY <1>6, <2>2 DEF ReloadTasks, Goto, TypeOK, children
<1>7. CASE Respawn
  <2>1. /\ slot' \in [Slots -> Pids] /\ wid' \in [Pids -> Slots]
        /\ proc' \in [Pids -> Living \cup {"unborn", "zombie", "gone"}]
    BY <1>7, SpawnedType DEF Respawn, TypeOK, children
  <2> QED
    BY <1>7, <2>1 DEF Respawn, Goto, TypeOK, flags, list
<1>8. CASE Kill
  <2>1. proc' \in [Pids -> Living \cup {"unborn", "zombie", "gone"}]
    BY <1>8, TerminatedType DEF Kill
  <2>2. reload_i' \in 0 .. N
    BY <1>0, <1>8 DEF Kill, TypeOK
  <2>3. running' \in BOOLEAN
    BY <1>8 DEF Kill
  <2> QED
    BY <1>8, <2>1, <2>2, <2>3 DEF Kill, Goto, TypeOK, flags
<1>9. CASE ReloadFinished
  BY <1>0, <1>9 DEF ReloadFinished, Goto, TypeOK, children
<1>10. CASE KillAll
  <2>1. proc' \in [Pids -> Living \cup {"unborn", "zombie", "gone"}]
    BY <1>10, TerminatedType DEF KillAll
  <2> QED
    BY <1>10, <2>1 DEF KillAll, Goto, TypeOK, flags, list
<1>11. CASE Join
  <2>1. proc' \in [Pids -> Living \cup {"unborn", "zombie", "gone"}]
    BY <1>11 DEF Join, TypeOK
  <2> QED
    BY <1>11, <2>1 DEF Join, Goto, TypeOK, flags, list
<1> QED
  BY <1>1, <1>2, <1>3, <1>4, <1>5, <1>6, <1>7, <1>8, <1>9, <1>10, <1>11
     DEF Manager, Reading, Branching, Reloading

LEMMA NextType == TypeOK /\ [Next]_vars => TypeOK'
<1>1. TypeOK /\ UNCHANGED vars => TypeOK'
  BY DEF TypeOK, vars, flags, list, children
<1> QED
  BY <1>1, SignalType, WorkerType, LoopType DEF Next

(***************************************************************************)
(* A step that starts no process and gives no slot away can only take      *)
(* children out of the table, and the dead stay dead.                      *)
(***************************************************************************)
Shrinks ==
    /\ UNCHANGED <<slot, wid, reload_async>>
    /\ \A p \in Pids : proc'[p] \in ChildStates => proc[p] \in ChildStates
    /\ \A p \in Pids : proc[p] = "gone" => proc'[p] = "gone"

LEMMA ShrinkKeeps ==
    ASSUME TypeOK, NoOrphans, Shrinks
    PROVE  NoOrphans' /\ Children' \subseteq Children
  BY DEF NoOrphans, Children, ChildStates, Shrinks

LEMMA BecomesShrinks ==
    ASSUME TypeOK, NEW p \in Pids, NEW from \in Living \cup {"zombie"}, NEW to, Becomes(p, from, to),
           UNCHANGED <<slot, wid, reload_async>>
    PROVE  Shrinks
  BY DEF TypeOK, Becomes, Shrinks, ChildStates, Living

LEMMA TerminatedShrinks ==
    ASSUME TypeOK, NEW ps, proc' = Terminated(ps), UNCHANGED <<slot, wid, reload_async>>
    PROVE  Shrinks
  BY DEF TypeOK, Terminated, Shrinks, ChildStates, Living

LEMMA StillShrinks ==
    ASSUME TypeOK, UNCHANGED children, UNCHANGED reload_async
    PROVE  Shrinks
  BY DEF Shrinks, children

(***************************************************************************)
(* A shrinking step keeps the invariant when it neither waits for another  *)
(* child, nor adds a message, nor ends the loop.                           *)
(***************************************************************************)
LEMMA ShrinkInv ==
    ASSUME Inv, TypeOK', Shrinks, pid' # pid => pid' = -1,
           ~reload_async => (box' = box \/ box' = <<>>), mpc' = "stopped" => mpc = "stopped"
    PROVE  Inv'
<1>1. NoOrphans' /\ Children' \subseteq Children
  BY ShrinkKeeps DEF Inv
<1>2. Reaped'
  <2> SUFFICES ASSUME pid' # -1 PROVE proc'[pid'] = "gone"
    BY DEF Reaped
  <2>1. pid' = pid /\ pid \in Pids
    BY DEF Inv, TypeOK
  <2> QED
    BY <2>1 DEF Inv, Reaped, Shrinks
<1>3. NoMessages'
  BY DEF Inv, NoMessages, Shrinks
<1>4. StopLeavesNobody'
  BY <1>1 DEF Inv, StopLeavesNobody, Shrinks
<1> QED
  BY <1>1, <1>2, <1>3, <1>4 DEF Inv

LEMMA InterruptFacts ==
    ASSUME Interrupt
    PROVE  (pid' # pid => pid' = -1) /\ (mpc' = "stopped" => mpc = "stopped")
  BY DEF Interrupt

LEMMA SignalInv == Inv /\ TypeOK' /\ (Usr1 \/ Usr2 \/ Term) => Inv'
<1> SUFFICES ASSUME Inv, TypeOK', Usr1 \/ Usr2 \/ Term PROVE Inv'
  OBVIOUS
<1>1. UNCHANGED <<children, reload_async, box>> /\ Interrupt
  BY DEF Usr1, Usr2, Term
<1> QED
  BY <1>1, StillShrinks, InterruptFacts, ShrinkInv DEF Inv

LEMMA WorkerInv ==
    ASSUME Inv, TypeOK', NEW p \in Pids, Retire(p) \/ Crash(p) \/ Push(p) \/ Announce(p) \/ Exit(p)
    PROVE  Inv'
<1>1. UNCHANGED <<slot, wid, reload_async>>
  BY DEF Retire, Crash, Push, Announce, Exit, Worker
<1>2. \E from \in Living, to \in Living \cup {"zombie"} : Becomes(p, from, to)
  BY DEF Retire, Crash, Push, Announce, Exit, Living
<1>3. Shrinks
  BY <1>1, <1>2, BecomesShrinks DEF Inv
<1>4. /\ pid' # pid => pid' = -1
      /\ mpc' = "stopped" => mpc = "stopped"
  BY InterruptFacts DEF Retire, Crash, Push, Announce, Exit
<1>5. ~reload_async => box' = box
  BY DEF Retire, Crash, Push, Announce, Exit, Async
<1> QED
  BY <1>3, <1>4, <1>5, ShrinkInv

(***************************************************************************)
(* A fork gives the slot of a worker that is gone to a new process.        *)
(***************************************************************************)
LEMMA SpawnKeeps ==
    ASSUME TypeOK, NoOrphans, NEW s \in Slots, Spawned(s), UNCHANGED reload_async,
           ~reload_async => proc[slot[s]] = "gone"
    PROVE  /\ NoOrphans'
           /\ \A q \in Pids : proc[q] = "gone" => proc'[q] = "gone"
<1>1. PICK p \in Pids : /\ proc[p] = "unborn"
                        /\ slot' = [slot EXCEPT ![s] = p]
                        /\ proc' = [proc EXCEPT ![p] = "active"]
                        /\ wid' = [wid EXCEPT ![p] = s]
  BY DEF Spawned, NewPids
<1>2. \A q \in Pids : q # p => proc'[q] = proc[q] /\ wid'[q] = wid[q]
  BY <1>1 DEF TypeOK
<1>3. ASSUME ~reload_async, NEW q \in Pids, proc'[q] \in ChildStates PROVE slot'[wid'[q]] = q
  <2>1. CASE q = p
    BY <1>1, <2>1 DEF TypeOK
  <2>2. CASE q # p
    <3>1. proc[q] \in ChildStates /\ wid'[q] = wid[q] /\ slot[wid[q]] = q
      BY <1>2, <1>3, <2>2 DEF NoOrphans, Children, ChildStates
    <3>2. wid[q] # s
      BY <1>3, <3>1 DEF ChildStates, Living
    <3> QED
      BY <1>1, <3>1, <3>2 DEF TypeOK
  <2> QED
    BY <2>1, <2>2
<1>4. NoOrphans'
  BY <1>3 DEF NoOrphans, Children, ChildStates
<1>5. \A q \in Pids : proc[q] = "gone" => proc'[q] = "gone"
  BY <1>1, <1>2
<1> QED
  BY <1>4, <1>5

LEMMA LoopInv == Inv /\ TypeOK' /\ Manager => Inv'
<1> SUFFICES ASSUME Inv, TypeOK', Manager PROVE Inv'
  OBVIOUS
<1> USE DEF Goto
<1>0. TypeOK
  BY DEF Inv
<1>1. CASE Top \/ EnterWait \/ ChildEnded \/ NothingToReload \/ NotOurs \/ NotReloading
  <2>1. UNCHANGED <<children, reload_async, box, pid>> /\ mpc' # "stopped"
    BY <1>1 DEF Top, EnterWait, ChildEnded, NothingToReload, NotOurs, NotReloading
  <2> QED
    BY <1>0, <2>1, StillShrinks, ShrinkInv
<1>2. ASSUME NEW p \in Pids, Reap(p) PROVE Inv'
  <2>1. Shrinks
    BY <1>0, <1>2, BecomesShrinks DEF Reap
  <2>2. Reaped'
    BY <1>0, <1>2 DEF Reap, Becomes, Reaped, TypeOK
  <2>3. NoOrphans'
    BY <1>0, <2>1, ShrinkKeeps DEF Inv
  <2> QED
    BY <1>2, <2>2, <2>3 DEF Reap, Inv, NoMessages, StopLeavesNobody
<1>3. CASE ReadMessage
  <2>1. reload_async /\ reload_async' /\ UNCHANGED <<pid, mpc>>
    BY <1>3 DEF ReadMessage, Inv, NoMessages
  <2>2. \A q \in Pids : proc[q] = "gone" => proc'[q] = "gone"
    <3>1. Head(box) \in Slots
      BY <1>0, <1>3, Constant DEF ReadMessage, TypeOK
    <3> QED
      BY <1>0, <1>3, <2>1, <3>1, SpawnKeeps DEF ReadMessage, Inv, children
  <2>3. Reaped'
    BY <1>0, <2>1, <2>2 DEF Inv, Reaped, TypeOK
  <2> QED
    BY <2>1, <2>3 DEF Inv, NoMessages, NoOrphans, StopLeavesNobody
<1>4. CASE NoMessage \/ MessagesRead
  <2>1. UNCHANGED <<children, reload_async, box, pid>> /\ mpc' # "stopped"
    BY <1>4 DEF NoMessage, MessagesRead
  <2> QED
    BY <1>0, <2>1, StillShrinks, ShrinkInv
<1>5. CASE ReloadAll
  <2>1. UNCHANGED <<slot, wid, reload_async, box, pid>> /\ mpc' # "stopped"
    BY <1>5 DEF ReloadAll
  <2>2. Shrinks
    BY <1>0, <1>5, <2>1, TerminatedShrinks, StillShrinks DEF ReloadAll, children
  <2> QED
    BY <2>1, <2>2, ShrinkInv
<1>6. CASE ReloadTasks
  <2>1. UNCHANGED <<children, reload_async, box, pid>> /\ mpc' # "stopped"
    BY <1>6 DEF ReloadTasks
  <2> QED
    BY <1>0, <2>1, StillShrinks, ShrinkInv
<1>7. CASE Respawn
  <2>1. PICK s \in Slots : slot[s] = pid /\ (Spawned(s) \/ UNCHANGED children)
    BY <1>7 DEF Respawn
  <2>2. pid' = pid /\ pid \in Pids /\ pid # -1 /\ mpc' # "stopped" /\ UNCHANGED <<reload_async, box>>
    BY <1>0, <1>7, <2>1, Constant DEF Respawn, TypeOK
  <2>3. CASE UNCHANGED children
    BY <1>0, <2>2, <2>3, StillShrinks, ShrinkInv
  <2>4. CASE Spawned(s)
    <3>1. proc[slot[s]] = "gone"
      BY <2>1, <2>2 DEF Inv, Reaped
    <3>2. NoOrphans' /\ \A q \in Pids : proc[q] = "gone" => proc'[q] = "gone"
      BY <1>0, <2>2, <2>4, <3>1, SpawnKeeps DEF Inv
    <3>3. Reaped'
      BY <2>2, <3>2 DEF Inv, Reaped
    <3> QED
      BY <2>2, <3>2, <3>3 DEF Inv, NoMessages, StopLeavesNobody
  <2> QED
    BY <2>1, <2>3, <2>4
<1>8. CASE Kill \/ KillAll
  <2>1. UNCHANGED <<slot, wid, reload_async, box, pid>> /\ mpc' # "stopped"
    BY <1>8 DEF Kill, KillAll
  <2>2. \E ps : proc' = Terminated(ps)
    BY <1>8 DEF Kill, KillAll
  <2>3. Shrinks
    BY <1>0, <2>1, <2>2, TerminatedShrinks
  <2> QED
    BY <2>1, <2>3, ShrinkInv
<1>9. CASE ReloadFinished
  <2>1. UNCHANGED <<children, reload_async, box, pid>> /\ mpc' # "stopped"
    BY <1>9 DEF ReloadFinished
  <2> QED
    BY <1>0, <2>1, StillShrinks, ShrinkInv
<1>10. CASE Join
  <2>1. UNCHANGED <<slot, wid, reload_async, box, pid>>
    BY <1>10 DEF Join
  <2>2. /\ \A p \in Pids : proc'[p] \in {proc[p], "gone"}
        /\ \A s \in Slots : proc'[slot[s]] = "gone"
    BY <1>0, <1>10 DEF Join, TypeOK
  <2>3. Shrinks
    BY <2>1, <2>2 DEF Shrinks, ChildStates, Living
  <2>4. NoOrphans' /\ Children' \subseteq Children
    BY <1>0, <2>3, ShrinkKeeps DEF Inv
  <2>5. StopLeavesNobody'
    <3> SUFFICES ASSUME ~reload_async', NEW p \in Children' PROVE FALSE
      BY DEF StopLeavesNobody
    <3>1. p \in Pids /\ proc'[p] \in ChildStates /\ slot'[wid'[p]] = p /\ wid'[p] \in Slots
      BY <2>4 DEF NoOrphans, Children, ChildStates, TypeOK
    <3>2. proc'[p] = "gone"
      BY <2>1, <2>2, <3>1
    <3> QED
      BY <3>1, <3>2 DEF ChildStates, Living
  <2>6. Reaped'
    BY <1>0, <2>1, <2>2 DEF Inv, Reaped, TypeOK
  <2> QED
    BY <2>1, <2>4, <2>5, <2>6 DEF Inv, NoMessages
<1> QED
  BY <1>1, <1>2, <1>3, <1>4, <1>5, <1>6, <1>7, <1>8, <1>9, <1>10
     DEF Manager, Reading, Branching, Reloading

LEMMA NextInv == Inv /\ [Next]_vars => Inv'
<1>1. Inv /\ UNCHANGED vars => Inv'
  BY DEF Inv, TypeOK, Reaped, NoMessages, NoOrphans, StopLeavesNobody, Children,
         vars, flags, list, children
<1> QED
  BY <1>1, NextType, SignalInv, WorkerInv, LoopInv DEF Next, Inv

(***************************************************************************)
(* The invariant holds throughout, and with it the following.              *)
(***************************************************************************)
THEOREM Invariance == Spec => []Inv
  BY InitInv, NextInv, PTL DEF Spec

(***************************************************************************)
(* The flags, the list of a reload and the table of workers stay in their  *)
(* types: no reload runs past its list and no slot loses its pid           *)
(* (swManager_loop).                                                       *)
(***************************************************************************)
THEOREM TypeCorrect == Spec => []TypeOK
<1>1. Inv => TypeOK
  BY DEF Inv
<1> QED
  BY <1>1, Invariance, PTL

(***************************************************************************)
(* Without asynchronous reload every child is the process of its slot,     *)
(* whatever crashes, failed forks and signals come (swManager_loop,        *)
(* swManager_spawn_worker).                                                *)
(***************************************************************************)
THEOREM ChildrenAreKnown == Spec => []NoOrphans
<1>1. Inv => NoOrphans
  BY DEF Inv
<1> QED
  BY <1>1, Invariance, PTL

(***************************************************************************)
(* So no child is left when the manager returns (the end of                *)
(* swManager_loop), because it ended and waited for each slot's process.   *)
(***************************************************************************)
THEOREM NobodyLeft == Spec => []StopLeavesNobody
<1>1. Inv => StopLeavesNobody
  BY DEF Inv
<1> QED
  BY <1>1, Invariance, PTL

(***************************************************************************)
(* One worker per slot.  A worker that serves, or was only told to end, is *)
(* the process of its slot; a slot has one message at most, and it is from *)
(* the process of the slot.  That process cannot be waited for before the  *)
(* message is read: it announces the message first, which takes the loop   *)
(* out of wait(), and the loop reads all messages before it waits again.   *)
(***************************************************************************)
Serving == {"active", "term"}

Owned == \A p \in Pids : proc[p] \in Serving => slot[wid[p]] = p

AskedOnce == \A i, j \in DOMAIN box : box[i] = box[j] => i = j

Reads == mpc = "read" /\ read_message

Asks(s) == \/ proc[slot[s]] = "pushed"
           \/ Reads /\ proc[slot[s]] \in {"retiring", "zombie"}

Askers == \A i \in DOMAIN box : Asks(box[i])

Succession == Owned /\ (~Ended => AskedOnce /\ Askers)

\* No worker crashes between its message and the signal that announces it.
Announces == \A p \in Pids : proc[p] = "pushed" => proc'[p] # "zombie"

LEMMA BoxIs ==
    ASSUME TypeOK, NEW i \in DOMAIN box
    PROVE  box[i] \in Events /\ box[i] \in Slots /\ slot[box[i]] \in Pids
<1>1. box[i] \in Events
  BY DEF TypeOK
<1> QED
  BY <1>1, Constant DEF TypeOK

\* Nobody starts, nobody asks, no message is read, and who asked still waits.
LEMMA CalmSucceeds ==
    ASSUME TypeOK, Succession, UNCHANGED <<slot, wid, box>>, Ended => Ended',
           \A p \in Pids : proc'[p] \in Serving => proc[p] \in Serving,
           \A i \in DOMAIN box : ~Ended' /\ Asks(box[i]) => Asks(box[i])'
    PROVE  Succession'
  BY DEF Succession, Owned, AskedOnce, Askers, Asks

\* ... as do all when only workers that serve are told something.
LEMMA StaysPut ==
    ASSUME TypeOK, Succession, UNCHANGED <<slot, wid, box>>,
           \A p \in Pids : proc'[p] = proc[p] \/ {proc[p], proc'[p]} \subseteq Serving,
           Ended => Ended', Reads => Reads'
    PROVE  Succession'
<1>1. ASSUME NEW i \in DOMAIN box, Asks(box[i]) PROVE Asks(box[i])'
  <2>1. slot[box[i]] \in Pids
    BY BoxIs
  <2> QED
    BY <1>1, <2>1 DEF Asks, Serving
<1>2. \A p \in Pids : proc'[p] \in Serving => proc[p] \in Serving
  OBVIOUS
<1> QED
  BY <1>1, <1>2, CalmSucceeds

LEMMA SignalSucceeds == ASSUME TypeOK, Succession, Usr1 \/ Usr2 \/ Term PROVE Succession'
<1>1. /\ UNCHANGED <<slot, wid, proc, box, read_message>> /\ ~Ended
      /\ mpc = "wait" \/ mpc' = mpc
  BY DEF Usr1, Usr2, Term, children, flags, Interrupt
<1> QED
  BY <1>1, StaysPut DEF Reads

(***************************************************************************)
(* The workers.                                                            *)
(***************************************************************************)
LEMMA FullSucceeds ==
    ASSUME TypeOK, Succession, NEW p \in Pids, Push(p), UNCHANGED box
    PROVE  Succession'
<1>1. /\ proc[p] = "term" /\ \E to \in {"pushed", "retiring"} : proc' = [proc EXCEPT ![p] = to]
      /\ UNCHANGED <<slot, wid, mpc, read_message>>
  BY DEF Push, Becomes, Worker, flags
<1>2. \A q \in Pids : /\ q # p => proc'[q] = proc[q]
                      /\ proc'[p] \in {"pushed", "retiring"}
  BY <1>1 DEF TypeOK
<1>3. ASSUME NEW i \in DOMAIN box, Asks(box[i]) PROVE Asks(box[i])'
  <2>1. slot[box[i]] \in Pids /\ slot[box[i]] # p
    BY <1>1, <1>3, BoxIs DEF Asks
  <2> QED
    BY <1>1, <1>2, <1>3, <2>1 DEF Asks, Reads
<1> QED
  BY <1>1, <1>2, <1>3, CalmSucceeds DEF Serving, Ended

LEMMA PushSucceeds ==
    ASSUME TypeOK, Succession, NEW p \in Pids, Push(p), ~UNCHANGED box
    PROVE  Succession'
<1>1. /\ proc[p] = "term" /\ proc' = [proc EXCEPT ![p] = "pushed"] /\ box' = Append(box, wid[p])
      /\ UNCHANGED <<slot, wid, mpc, read_message>> /\ wid[p] \in Events
  BY DEF Push, Becomes, Worker, Async, flags
<1>2. slot[wid[p]] = p /\ proc \in [Pids -> Living \cup {"unborn", "zombie", "gone"}] /\ box \in Seq(Events)
  BY <1>1 DEF Succession, Owned, Serving, TypeOK
<1>3. /\ DOMAIN box = 1 .. Len(box) /\ DOMAIN box' = 1 .. Len(box) + 1 /\ Len(box) \in Nat
      /\ box'[Len(box) + 1] = wid[p] /\ \A i \in DOMAIN box : box'[i] = box[i]
  <2> HIDE DEF Events
  <2> QED
    BY <1>1, <1>2
<1>4. Owned'
  BY <1>1, <1>2 DEF Succession, Owned, Serving
<1>5. CASE ~Ended
  <2>1. ASSUME NEW i \in DOMAIN box PROVE proc[slot[box[i]]] # "term" /\ slot[box[i]] \in Pids /\ box[i] # wid[p] /\ Asks(box[i])'
    <3>1. Asks(box[i]) /\ slot[box[i]] \in Pids
      BY <1>5, BoxIs DEF Succession, Askers
    <3>2. proc[slot[box[i]]] # "term" /\ box[i] # wid[p]
      BY <1>1, <1>2, <3>1 DEF Asks
    <3>3. proc'[slot[box[i]]] = proc[slot[box[i]]]
      BY <1>1, <3>1, <3>2
    <3> QED
      BY <1>1, <1>3, <3>1, <3>2, <3>3 DEF Asks, Reads
  <2>2. proc'[slot'[wid[p]]] = "pushed"
    BY <1>1, <1>2
  <2>3. \A i \in DOMAIN box' : i \in DOMAIN box \/ i = Len(box) + 1
    BY <1>3
  <2>4. Askers'
    <3> SUFFICES ASSUME NEW i \in DOMAIN box'
                 PROVE  \/ proc'[slot'[box'[i]]] = "pushed"
                        \/ Reads' /\ proc'[slot'[box'[i]]] \in {"retiring", "zombie"}
      BY DEF Askers, Asks
    <3>1. CASE i \in DOMAIN box
      <4>1. box'[i] = box[i] /\ Asks(box[i])'
        BY <1>3, <2>1, <3>1
      <4> QED
        BY <4>1 DEF Asks
    <3>2. CASE i = Len(box) + 1
      BY <1>3, <2>2, <3>2
    <3> QED
      BY <2>3, <3>1, <3>2
  <2>5. AskedOnce'
    <3> SUFFICES ASSUME NEW i \in DOMAIN box', NEW j \in DOMAIN box', box'[i] = box'[j] PROVE i = j
      BY DEF AskedOnce
    <3>1. CASE i \in DOMAIN box /\ j \in DOMAIN box
      BY <1>3, <1>5, <3>1 DEF Succession, AskedOnce
    <3>2. CASE i = Len(box) + 1 \/ j = Len(box) + 1
      BY <1>3, <2>1, <2>3, <3>2
    <3> QED
      BY <2>3, <3>1, <3>2
  <2> QED
    BY <1>4, <2>4, <2>5 DEF Succession
<1>6. CASE Ended
  <2>1. Ended'
    BY <1>1, <1>6 DEF Ended
  <2> QED
    BY <1>4, <2>1 DEF Succession
<1> QED
  BY <1>5, <1>6

LEMMA WorkerSucceeds ==
    ASSUME TypeOK, Succession, Timely, Announces, NEW p \in Pids,
           Retire(p) \/ Crash(p) \/ Push(p) \/ Announce(p) \/ Exit(p)
    PROVE  Succession'
<1>1. CASE Retire(p)
  <2>1. /\ proc[p] = "active" /\ proc' = [proc EXCEPT ![p] = "term"]
        /\ UNCHANGED <<slot, wid, box, mpc, read_message>>
    BY <1>1 DEF Retire, Becomes, Worker, flags
  <2>2. \A q \in Pids : proc'[q] = proc[q] \/ {proc[q], proc'[q]} \subseteq Serving
    BY <2>1 DEF TypeOK, Serving
  <2> QED
    BY <2>1, <2>2, StaysPut DEF Reads, Ended
<1>2. CASE Crash(p) \/ Exit(p)
  <2>1. /\ proc[p] \in {"active", "term", "retiring"} /\ proc' = [proc EXCEPT ![p] = "zombie"]
        /\ UNCHANGED <<slot, wid, box, mpc, read_message>>
    <3>1. /\ proc[p] \in Living /\ proc' = [proc EXCEPT ![p] = "zombie"]
          /\ UNCHANGED <<slot, wid, box, mpc, read_message>>
      BY <1>2 DEF Crash, Exit, Becomes, Worker, flags, Living
    <3>2. proc'[p] = "zombie"
      BY <3>1 DEF TypeOK
    <3> QED
      BY <3>1, <3>2 DEF Announces, Living
  <2>2. \A q \in Pids : proc'[q] = IF q = p THEN "zombie" ELSE proc[q]
    BY <2>1 DEF TypeOK
  <2>3. ASSUME NEW i \in DOMAIN box, Asks(box[i]) PROVE Asks(box[i])'
    <3>1. slot[box[i]] \in Pids
      BY BoxIs
    <3> QED
      BY <2>1, <2>2, <2>3, <3>1 DEF Asks, Reads
  <2> QED
    BY <2>1, <2>2, <2>3, CalmSucceeds DEF Serving, Ended
<1>3. CASE Announce(p)
  <2>1. /\ proc[p] = "pushed" /\ proc' = [proc EXCEPT ![p] = "retiring"] /\ UNCHANGED <<slot, wid, box>>
        /\ mpc = "wait" => read_message'
        /\ (mpc = "wait" /\ mpc' = "read") \/ (Ended /\ mpc' = mpc)
    BY <1>3 DEF Announce, Becomes, Worker, Interrupt, Ended
  <2>2. \A q \in Pids : proc'[q] = IF q = p THEN "retiring" ELSE proc[q]
    BY <2>1 DEF TypeOK
  <2>3. ASSUME NEW i \in DOMAIN box, ~Ended', Asks(box[i]) PROVE Asks(box[i])'
    <3>1. slot[box[i]] \in Pids
      BY BoxIs
    <3>2. mpc = "wait" /\ Reads' /\ proc[slot[box[i]]] = "pushed"
      BY <2>1, <2>3 DEF Asks, Reads, Ended
    <3> QED
      BY <2>1, <2>2, <3>1, <3>2 DEF Asks
  <2> QED
    BY <2>1, <2>2, <2>3, CalmSucceeds DEF Serving, Ended
<1> QED
  BY <1>1, <1>2, <1>3, PushSucceeds, FullSucceeds

(***************************************************************************)
(* The loop.  A fork gives a slot whose process does not serve any more.   *)
(***************************************************************************)
LEMMA SpawnSucceeds ==
    ASSUME TypeOK, Owned, NEW s \in Slots, Spawned(s), proc[slot[s]] \notin Serving
    PROVE  /\ Owned'
           /\ \A r \in Slots \ {s} : /\ slot'[r] = slot[r]
                                     /\ proc[slot[r]] # "unborn" => proc'[slot[r]] = proc[slot[r]]
<1>1. PICK p \in Pids : /\ proc[p] = "unborn"
                        /\ slot' = [slot EXCEPT ![s] = p]
                        /\ proc' = [proc EXCEPT ![p] = "active"]
                        /\ wid' = [wid EXCEPT ![p] = s]
  BY DEF Spawned, NewPids
<1>2. /\ \A q \in Pids : q # p => proc'[q] = proc[q] /\ wid'[q] = wid[q]
      /\ proc'[p] = "active" /\ wid'[p] = s /\ slot'[s] = p /\ \A r \in Slots \ {s} : slot'[r] = slot[r]
  BY <1>1 DEF TypeOK
<1>3. ASSUME NEW q \in Pids, proc'[q] \in Serving PROVE slot'[wid'[q]] = q
  <2>1. CASE q = p
    BY <1>2, <2>1
  <2>2. CASE q # p
    <3>1. proc[q] \in Serving /\ wid'[q] = wid[q] /\ slot[wid[q]] = q /\ wid[q] \in Slots
      BY <1>2, <1>3, <2>2 DEF Owned, TypeOK
    <3>2. wid[q] # s
      BY <3>1
    <3> QED
      BY <1>2, <3>1, <3>2
  <2> QED
    BY <2>1, <2>2
<1>4. \A r \in Slots \ {s} : slot[r] \in Pids
  BY DEF TypeOK
<1> QED
  BY <1>1, <1>2, <1>3, <1>4 DEF Owned

LEMMA TailIs ==
    ASSUME TypeOK, box # <<>>, box' = Tail(box)
    PROVE  /\ 1 \in DOMAIN box /\ Head(box) = box[1] /\ Head(box) \in Slots
           /\ \A i \in DOMAIN box' : i \in Int /\ i + 1 \in DOMAIN box /\ i + 1 # 1 /\ box'[i] = box[i + 1]
<1>1. box \in Seq(Events)
  BY DEF TypeOK
<1>2. /\ 1 \in DOMAIN box /\ Head(box) = box[1]
      /\ \A i \in DOMAIN box' : i \in Int /\ i + 1 \in DOMAIN box /\ i + 1 # 1 /\ box'[i] = box[i + 1]
  <2> HIDE DEF Events
  <2> QED
    BY <1>1
<1> QED
  BY <1>2, BoxIs

LEMMA ReadSucceeds == ASSUME TypeOK, Succession, ReadMessage PROVE Succession'
<1> DEFINE s == box[1]
<1>1. /\ mpc = "read" /\ read_message /\ box # <<>> /\ box' = Tail(box) /\ UNCHANGED <<mpc, read_message>>
      /\ Spawned(Head(box)) \/ UNCHANGED children
  BY DEF ReadMessage, flags
<1>2. /\ 1 \in DOMAIN box /\ Head(box) = s /\ s \in Slots
      /\ \A i \in DOMAIN box' : i \in Int /\ i + 1 \in DOMAIN box /\ i + 1 # 1 /\ box'[i] = box[i + 1]
  BY <1>1, TailIs
<1>3. AskedOnce /\ Askers /\ ~Ended /\ Owned
  BY <1>1 DEF Succession, Ended
<1>4. AskedOnce'
  BY <1>2, <1>3 DEF AskedOnce
<1>5. \A i \in DOMAIN box' : box'[i] \in Slots \ {s} /\ Asks(box[i + 1])
  BY <1>2, <1>3, BoxIs DEF AskedOnce, Askers
<1>6. Asks(s)
  BY <1>2, <1>3 DEF Askers
<1>7. /\ Owned'
      /\ \A r \in Slots \ {s} : /\ slot'[r] = slot[r]
                                /\ proc[slot[r]] # "unborn" => proc'[slot[r]] = proc[slot[r]]
  <2>1. CASE Spawned(s)
    BY <1>2, <1>3, <1>6, <2>1, SpawnSucceeds DEF Asks, Serving
  <2>2. CASE UNCHANGED children
    BY <1>3, <2>2 DEF Owned, children
  <2> QED
    BY <1>1, <1>2, <2>1, <2>2
<1>8. Askers'
  <2> SUFFICES ASSUME NEW i \in DOMAIN box'
               PROVE  \/ proc'[slot'[box'[i]]] = "pushed"
                      \/ Reads' /\ proc'[slot'[box'[i]]] \in {"retiring", "zombie"}
    BY DEF Askers, Asks
  <2> DEFINE r == box[i + 1]
  <2>1. box'[i] = r /\ r \in Slots \ {s} /\ Asks(r)
    BY <1>2, <1>5
  <2> HIDE DEF r
  <2>2. slot'[r] = slot[r] /\ proc'[slot[r]] = proc[slot[r]]
    BY <1>7, <2>1 DEF Asks
  <2> QED
    BY <1>1, <2>1, <2>2 DEF Asks, Reads
<1> QED
  BY <1>4, <1>7, <1>8 DEF Succession

LEMMA RespawnSucceeds == ASSUME TypeOK, Reaped, Succession, Respawn PROVE Succession'
<1>1. PICK s \in Slots : slot[s] = pid /\ (Spawned(s) \/ UNCHANGED children)
  BY DEF Respawn
<1>2. mpc = "respawn" /\ mpc' = "kill" /\ box' = box /\ pid # -1 /\ AskedOnce /\ Askers /\ Owned
  BY <1>1, Constant DEF Respawn, Goto, Succession, Ended, TypeOK
<1>3. proc[slot[s]] = "gone"
  BY <1>1, <1>2 DEF Reaped
<1>4. \A i \in DOMAIN box : box[i] \in Slots \ {s} /\ proc[slot[box[i]]] = "pushed"
  BY <1>2, <1>3, BoxIs DEF Askers, Asks, Reads
<1>5. /\ Owned'
      /\ \A r \in Slots \ {s} : /\ slot'[r] = slot[r]
                                /\ proc[slot[r]] # "unborn" => proc'[slot[r]] = proc[slot[r]]
  <2>1. CASE Spawned(s)
    BY <1>2, <1>3, <2>1, SpawnSucceeds DEF Serving
  <2>2. CASE UNCHANGED children
    BY <1>2, <2>2 DEF Owned, children
  <2> QED
    BY <1>1, <2>1, <2>2
<1>6. Askers'
  BY <1>2, <1>4, <1>5 DEF Askers, Asks
<1> QED
  BY <1>2, <1>5, <1>6 DEF Succession, AskedOnce

LEMMA TerminatedServes ==
    ASSUME TypeOK, NEW ps, proc' = Terminated(ps)
    PROVE  \A p \in Pids : proc'[p] = proc[p] \/ {proc[p], proc'[p]} \subseteq Serving
  BY DEF Terminated, Serving

LEMMA LoopSucceeds == ASSUME TypeOK, Reaped, Succession, Manager PROVE Succession'
<1> USE DEF Goto
<1>1. CASE Top \/ EnterWait \/ ChildEnded \/ NothingToReload \/ NotOurs \/ NotReloading \/ ReloadTasks \/ ReloadFinished
  <2>1. UNCHANGED <<slot, proc, wid, box>> /\ mpc # "read" /\ ~Ended
    BY <1>1 DEF Top, EnterWait, ChildEnded, NothingToReload, NotOurs, NotReloading, ReloadTasks, ReloadFinished,
                children, Ended
  <2> QED
    BY <2>1, StaysPut DEF Reads
<1>2. ASSUME NEW p \in Pids, Reap(p) PROVE Succession'
  <2>1. /\ mpc = "wait" /\ proc[p] = "zombie" /\ proc' = [proc EXCEPT ![p] = "gone"] /\ UNCHANGED <<slot, wid, box>>
    BY <1>2 DEF Reap, Becomes
  <2>2. \A q \in Pids : proc'[q] = IF q = p THEN "gone" ELSE proc[q]
    BY <2>1 DEF TypeOK
  <2>3. ASSUME NEW i \in DOMAIN box, Asks(box[i]) PROVE Asks(box[i])'
    <3>1. slot[box[i]] \in Pids /\ proc[slot[box[i]]] = "pushed"
      BY <2>1, <2>3, BoxIs DEF Asks, Reads
    <3> QED
      BY <2>1, <2>2, <3>1 DEF Asks
  <2> QED
    BY <2>1, <2>2, <2>3, CalmSucceeds DEF Serving, Ended
<1>3. CASE NoMessage \/ MessagesRead
  <2>1. /\ UNCHANGED <<slot, proc, wid, box>> /\ ~Ended
        /\ box = <<>> \/ ~Reads
    BY <1>3 DEF NoMessage, MessagesRead, children, Ended, Reads
  <2>2. ASSUME NEW i \in DOMAIN box, Asks(box[i]) PROVE Asks(box[i])'
    BY <2>1, <2>2 DEF Asks
  <2> QED
    BY <2>1, <2>2, CalmSucceeds
<1>4. CASE ReloadAll \/ Kill \/ KillAll
  <2>1. /\ UNCHANGED <<slot, wid, box>> /\ mpc # "read" /\ (Ended => Ended')
        /\ UNCHANGED proc \/ \E ps : proc' = Terminated(ps)
    BY <1>4 DEF ReloadAll, Kill, KillAll, Ended
  <2>2. \A p \in Pids : proc'[p] = proc[p] \/ {proc[p], proc'[p]} \subseteq Serving
    BY <2>1, TerminatedServes
  <2> QED
    BY <2>1, <2>2, StaysPut DEF Reads
<1>5. CASE Join
  <2>1. UNCHANGED <<slot, wid, box>> /\ Ended' /\ \A p \in Pids : proc'[p] \in {proc[p], "gone"}
    BY <1>5 DEF Join, Ended, TypeOK
  <2> QED
    BY <2>1, CalmSucceeds DEF Serving
<1> QED
  BY <1>1, <1>2, <1>3, <1>4, <1>5, ReadSucceeds, RespawnSucceeds DEF Manager, Reading, Branching, Reloading

LEMMA InitSucceeds == Init => Succession
<1> SUFFICES ASSUME Init PROVE Succession
  OBVIOUS
<1>1. Owned
  BY Constant DEF Init, Owned, Serving
<1>2. DOMAIN box = {}
  BY DEF Init
<1> QED
  BY <1>1, <1>2 DEF Succession, AskedOnce, Askers

LEMMA NextSucceeds == Timely /\ Inv /\ Succession /\ [Next /\ Announces]_vars => Succession'
<1> SUFFICES ASSUME Timely, Inv, Succession, [Next /\ Announces]_vars PROVE Succession'
  OBVIOUS
<1>1. TypeOK /\ Reaped
  BY DEF Inv
<1>2. CASE UNCHANGED vars
  BY <1>1, <1>2, StaysPut DEF vars, flags, children, Reads, Ended
<1> QED
  BY <1>1, <1>2, SignalSucceeds, WorkerSucceeds, LoopSucceeds DEF Next

LEMMA OneOfEach ==
    ASSUME \A p \in Pids : proc[p] = "active" => slot[wid[p]] = p
    PROVE  OneWorkerPerSlot
<1> SUFFICES ASSUME NEW s \in Slots
             PROVE  Cardinality({p \in Pids : wid[p] = s /\ proc[p] = "active"}) <= 1
  BY DEF OneWorkerPerSlot
<1> DEFINE A == {p \in Pids : wid[p] = s /\ proc[p] = "active"}
<1>1. A \subseteq {slot[s]}
  OBVIOUS
<1>2. IsFiniteSet({slot[s]}) /\ Cardinality({slot[s]}) = 1
  BY FS_Singleton
<1>3. Cardinality(A) <= Cardinality({slot[s]}) /\ Cardinality(A) \in Nat
  BY <1>1, <1>2, FS_Subset, FS_CardinalityType
<1> QED
  BY <1>2, <1>3

(***************************************************************************)
(* No two processes serve as the same worker, when signals reach the       *)
(* manager only in wait() and no worker crashes between the message that   *)
(* asks for a successor and the SIGIO that announces it (swWorker_stop,    *)
(* swManager_loop).                                                        *)
(***************************************************************************)
THEOREM OneSuccessor ==
    ASSUME Timely
    PROVE  Spec /\ [][Announces]_vars => []OneWorkerPerSlot
<1>1. Inv /\ Succession /\ [Next]_vars /\ [Announces]_vars => Succession'
  BY NextSucceeds
<1>2. Inv /\ Succession => OneWorkerPerSlot
  BY OneOfEach DEF Succession, Owned, Serving
<1> QED
  BY <1>1, <1>2, InitSucceeds, Invariance, PTL DEF Spec

(***************************************************************************)
(* Without asynchronous reload nobody asks: a successor is started for the *)
(* end of a worker alone, and there are no two processes of one worker     *)
(* whatever crashes and signals come (swManager_loop).                     *)
(***************************************************************************)
THEOREM OneSyncWorker == Spec => [](~reload_async => OneWorkerPerSlot)
<1>1. Inv => (~reload_async => OneWorkerPerSlot)
  BY OneOfEach DEF Inv, NoOrphans, Children, Living
<1> QED
  BY <1>1, Invariance, PTL

(***************************************************************************)
(* A reload that goes on has a list of pids: a signal that begins one is   *)
(* seen by the branch of the loop that makes the list before the loop can  *)
(* kill or wait again.                                                     *)
(***************************************************************************)
Begins == mpc \in {"read", "readdone", "branch"} /\ pid = -1 /\ (reload_all \/ reload_task)

HasList == \A i \in Slots : reload_i < i /\ i <= reload_num => reload_workers[i] # 0

Listed == reloading => Begins \/ HasList

LEMMA ListKept ==
    ASSUME TypeOK, Listed, UNCHANGED <<reloading, list>>, Begins => Begins'
    PROVE  Listed'
  BY DEF Listed, HasList, list

LEMMA SignalListed == ASSUME TypeOK, Timely, Listed, Usr1 \/ Usr2 \/ Term PROVE Listed'
<1>1. mpc = "wait" /\ mpc' = "read" /\ pid' = -1 /\ UNCHANGED list
  BY DEF Usr1, Usr2, Term, Interrupt
<1>2. ~Begins
  BY <1>1 DEF Begins
<1>3. CASE reloading
  <2>1. HasList'
    BY <1>1, <1>2, <1>3 DEF Listed, HasList, list
  <2> QED
    BY <2>1 DEF Listed
<1>4. CASE ~reloading
  <2>1. reloading' => reload_all' \/ reload_task'
    BY <1>4 DEF Usr1, Usr2, Term, flags
  <2> QED
    BY <1>1, <2>1 DEF Listed, Begins
<1> QED
  BY <1>3, <1>4

LEMMA WorkerListed ==
    ASSUME TypeOK, Timely, Listed, NEW p \in Pids, Retire(p) \/ Crash(p) \/ Push(p) \/ Announce(p) \/ Exit(p)
    PROVE  Listed'
<1>1. /\ UNCHANGED <<reloading, reload_all, reload_task, list>>
      /\ UNCHANGED <<mpc, pid>> \/ Interrupt
  BY DEF Retire, Crash, Push, Announce, Exit, Worker, flags
<1>2. Begins => Begins'
  BY <1>1 DEF Begins, Interrupt, Ended
<1> QED
  BY <1>1, <1>2, ListKept

LEMMA LoopListed == ASSUME TypeOK, NumTask > 0, Listed, Manager PROVE Listed'
<1> USE DEF Goto
<1>0. N \in Nat /\ NumTask \in Nat /\ NumEvent \in Nat /\ N = NumEvent + NumTask
  BY Constant
<1>1. CASE Top \/ EnterWait \/ ChildEnded \/ NotOurs \/ NotReloading \/ Respawn \/ KillAll \/ Join \/ \E p \in Pids : Reap(p)
  <2>1. UNCHANGED <<reloading, list>> /\ ~Begins
    BY <1>1 DEF Top, EnterWait, ChildEnded, NotOurs, NotReloading, Respawn, KillAll, Join, Reap, flags, Begins
  <2> QED
    BY <2>1, ListKept
<1>2. CASE ReadMessage \/ NoMessage \/ MessagesRead
  <2>1. UNCHANGED <<reloading, reload_all, reload_task, list, pid>> /\ mpc' \in {"read", "readdone", "branch"}
    BY <1>2 DEF ReadMessage, NoMessage, MessagesRead, flags
  <2> QED
    BY <2>1, ListKept DEF Begins
<1>3. CASE NothingToReload
  <2>1. UNCHANGED <<reloading, list>> /\ (reloading => ~reload_all /\ ~reload_task)
    BY <1>3 DEF NothingToReload, flags
  <2> QED
    BY <2>1 DEF Listed, Begins, HasList, list
<1>4. CASE ReloadAll
  <2>1. reload_workers' = slot /\ \A i \in Slots : slot[i] \in Pids
    BY <1>4 DEF ReloadAll, TypeOK
  <2>2. HasList'
    BY <2>1, Constant DEF HasList
  <2> QED
    BY <2>2 DEF Listed
<1>5. CASE ReloadTasks
  <2>1. \A i \in Slots : i <= NumTask => NumEvent + i \in Slots
    BY <1>0 DEF Slots
  <2>2. \A i \in Slots : i <= NumTask => reload_workers'[i] \in Pids
    BY <1>5, <2>1 DEF ReloadTasks, TypeOK
  <2>3. reload_num' = NumTask
    BY <1>5 DEF ReloadTasks
  <2>4. HasList'
    BY <2>2, <2>3, Constant DEF HasList
  <2> QED
    BY <2>4 DEF Listed
<1>6. CASE Kill
  <2>1. HasList
    BY <1>6 DEF Kill, Listed, Begins
  <2>2. reload_workers' = reload_workers /\ reload_num' = reload_num /\ reload_i' = reload_i + 1 /\ reload_i \in Int
    BY <1>6 DEF Kill, TypeOK
  <2>3. HasList'
    BY <2>1, <2>2 DEF HasList, Slots
  <2> QED
    BY <2>3 DEF Listed
<1>7. CASE ReloadFinished
  BY <1>7 DEF ReloadFinished, Listed
<1> QED
  BY <1>1, <1>2, <1>3, <1>4, <1>5, <1>6, <1>7 DEF Manager, Reading, Branching, Reloading

LEMMA NextListed == TypeOK /\ Listed /\ Timely /\ NumTask > 0 /\ [Next]_vars => Listed'
<1> SUFFICES ASSUME TypeOK, Listed, Timely, NumTask > 0, [Next]_vars PROVE Listed'
  OBVIOUS
<1>1. CASE UNCHANGED vars
  BY <1>1, ListKept DEF vars, flags, Begins
<1> QED
  BY <1>1, SignalListed, WorkerListed, LoopListed DEF Next

LEMMA FewChange ==
    ASSUME NEW q, \A p \in Pids : p # q => proc'[p] = proc[p]
    PROVE  Cardinality({p \in Pids : proc'[p] # proc[p]}) <= 1
<1> DEFINE C == {p \in Pids : proc'[p] # proc[p]}
<1>1. C \subseteq {q}
  OBVIOUS
<1>2. IsFiniteSet({q}) /\ Cardinality({q}) = 1
  BY FS_Singleton
<1>3. Cardinality(C) <= Cardinality({q}) /\ Cardinality(C) \in Nat
  BY <1>1, <1>2, FS_Subset, FS_CardinalityType
<1> QED
  BY <1>2, <1>3

(***************************************************************************)
(* When signals reach the manager only in wait(), and there are task       *)
(* workers, a reload never signals a pid that nobody wrote down: kill(0)   *)
(* would end the server (swManager_loop, kill_worker).                     *)
(***************************************************************************)
THEOREM ServerSpared ==
    ASSUME Timely, NumTask > 0
    PROVE  Spec => ReloadSparesServer
<1>1. Init => Listed
  BY DEF Init, Listed
<1>2. Inv /\ Listed /\ [Next]_vars => Listed'
  BY NextListed DEF Inv
<1>3. Inv /\ Listed /\ [Next]_vars
        => [mpc = "kill" /\ mpc' = "top" =>
              Cardinality({p \in Pids : proc'[p] # proc[p]}) <= 1 /\ running' = running]_vars
  <2> SUFFICES ASSUME Inv, Listed, Next, mpc = "kill", mpc' = "top"
               PROVE  Cardinality({p \in Pids : proc'[p] # proc[p]}) <= 1 /\ running' = running
    OBVIOUS
  <2>1. Kill \/ ReloadFinished \/ NotReloading
    <3>1. ~(Usr1 \/ Usr2 \/ Term)
      BY DEF Usr1, Usr2, Term, Interrupt
    <3>2. ~ \E p \in Pids : Retire(p) \/ Crash(p) \/ Push(p) \/ Announce(p) \/ Exit(p)
      BY DEF Retire, Crash, Push, Announce, Exit, Interrupt
    <3>3. Manager
      BY <3>1, <3>2 DEF Next
    <3> QED
      BY <3>3 DEF Manager, Reading, Branching, Reloading, Top, EnterWait, Reap, ReadMessage, NoMessage,
                  MessagesRead, ChildEnded, NothingToReload, ReloadAll, ReloadTasks, Respawn, NotOurs,
                  KillAll, Join, Goto
  <2>2. CASE ReloadFinished \/ NotReloading
    <3>1. UNCHANGED <<proc, running>>
      BY <2>2 DEF ReloadFinished, NotReloading, children
    <3> QED
      BY <3>1, FewChange
  <2>3. CASE Kill
    <3> DEFINE target == reload_workers[reload_i + 1]
    <3>1. /\ proc' = Terminated(IF target = 0 THEN Pids ELSE {target}) /\ running' = (running /\ target # 0)
          /\ reloading /\ reload_i < reload_num
      BY <2>3 DEF Kill
    <3>2. reload_i + 1 \in Slots /\ reload_i < reload_i + 1 /\ reload_i + 1 <= reload_num
      BY <3>1, Constant DEF Inv, TypeOK, Slots
    <3>3. target # 0
      BY <3>1, <3>2 DEF Listed, Begins, HasList
    <3>4. \A p \in Pids : p # target => proc'[p] = proc[p]
      BY <3>1, <3>3 DEF Terminated
    <3>5. running \in BOOLEAN
      BY DEF Inv, TypeOK
    <3> HIDE DEF target
    <3> QED
      BY <3>1, <3>3, <3>4, <3>5, FewChange
  <2> QED
    BY <2>1, <2>2, <2>3
<1> QED
  BY <1>1, <1>2, <1>3, Invariance, PTL DEF Spec, ReloadSparesServer

-----------------------------------------------------------------------------
(***************************************************************************)
(* The channel.  Its items lie one after the other, the first at head and  *)
(* the tail after the last, and no two share a word.  Equal tags say that  *)
(* all of them lie between head and tail, different ones that none lies in *)
(* the room from tail to head.  So it is enough that swChannel_in looks    *)
(* for room in front of head only, and an item that runs past the end      *)
(* meets no other.                                                         *)
(***************************************************************************)
Own(w) == \A k \in 0 .. Length[At(w)] : mem[w + k] = <<At(w), k>>

Apart(v, w) == Ends(v) <= w \/ Ends(w) <= v

\* Where the items lie.
Lie(n, L) ==
    /\ L \in [1 .. n -> 0 .. Limit - 1]
    /\ \A i \in 1 .. n : At(L[i]) \in Elements /\ Own(L[i])
    /\ n > 0 => L[1] = head /\ tail = After(L[n])
    /\ \A i \in 1 .. n : i > 1 => L[i] = After(L[i - 1])
    /\ \A i, j \in 1 .. n : i # j => Apart(L[i], L[j])

\* and which part of the ring is taken.
Taken(n, L) ==
    /\ n = 0 => head = tail /\ head_tag = tail_tag
    /\ head_tag = tail_tag => head <= tail /\ \A i \in 1 .. n : head <= L[i] /\ Ends(L[i]) <= tail
    /\ head_tag # tail_tag => tail <= head /\ \A i \in 1 .. n : head <= L[i] \/ Ends(L[i]) <= tail

Sums(n, L, S) ==
    /\ S \in [0 .. n -> Nat]
    /\ S[0] = 0 /\ bytes = S[n]
    /\ \A i \in 1 .. n : S[i] = S[i - 1] + Length[At(L[i])]

Laid(n, L, S) == Lie(n, L) /\ Taken(n, L) /\ Sums(n, L, S)

Places(n) == [1 .. n -> 0 .. Limit - 1]
Lengths(n) == [0 .. n -> Nat]

ChannelInv == ChannelTypeOK /\ \E L \in Places(num), S \in Lengths(num) : Laid(num, L, S)

LEMMA Sizes ==
    /\ Limit \in Nat /\ Limit > 0 /\ MaxLen \in Nat /\ MaxLen > 0
    /\ \A x \in Elements : Length[x] \in 0 .. MaxLen /\ Size(x) \in Nat /\ Size(x) = 1 + Length[x]
  BY ChannelAssumption DEF ChannelAssumption, Limit, Size

LEMMA InitChannel == ChannelInit => ChannelInv
<1> SUFFICES ASSUME ChannelInit PROVE ChannelInv
  OBVIOUS
<1>1. ChannelTypeOK
  BY Sizes DEF ChannelInit, ChannelTypeOK
<1> DEFINE L == [i \in 1 .. 0 |-> 0]
           S == [i \in 0 .. 0 |-> 0]
<1>2. L \in Places(0) /\ S \in Lengths(0)
  BY DEF Places, Lengths
<1>3. Laid(0, L, S)
  BY Sizes, <1>2 DEF ChannelInit, Laid, Lie, Taken, Sums, Places, Lengths
<1> QED
  BY <1>1, <1>2, <1>3 DEF ChannelInit, ChannelInv

\* The room that In writes to has nothing of an item.
LEMMA Clear ==
    ASSUME ChannelTypeOK, NEW n \in Nat, NEW L, NEW S, Laid(n, L, S), NEW x \in Elements, Room(x), NEW i \in 1 .. n
    PROVE  Ends(L[i]) <= tail \/ tail + Size(x) <= L[i]
<1>1. /\ L[i] \in 0 .. Limit - 1 /\ head \in Nat /\ tail \in Nat /\ At(L[i]) \in Elements
      /\ head_tag \in {0, 1} /\ tail_tag \in {0, 1}
  BY Sizes DEF Laid, Lie, ChannelTypeOK
<1>2. Ends(L[i]) \in Nat /\ Size(x) \in Nat
  BY <1>1, Sizes DEF Ends
<1>3. CASE head_tag = tail_tag
  BY <1>3 DEF Laid, Taken
<1>4. CASE head_tag # tail_tag
  <2>1. tail < head
    BY <1>1, <1>4 DEF Laid, Taken, Room, Full
  <2>2. head - tail >= Size(x)
    BY <2>1 DEF Room
  <2>3. head <= L[i] \/ Ends(L[i]) <= tail
    BY <1>4 DEF Laid, Taken
  <2> QED
    BY <1>1, <1>2, <2>2, <2>3
<1> QED
  BY <1>3, <1>4

LEMMA WrittenIs ==
    ASSUME ChannelTypeOK, NEW x \in Elements
    PROVE  /\ Written(x) \in [Words -> {Free} \cup (Elements \X (0 .. MaxLen))]
           /\ \A k \in 0 .. Length[x] : tail + k \in Words /\ Written(x)[tail + k] = <<x, k>>
           /\ \A w \in Words : w < tail \/ w >= tail + Size(x) => Written(x)[w] = mem[w]
<1>0. Length[x] \in 0 .. MaxLen /\ tail \in 0 .. Limit - 1 /\ Size(x) = 1 + Length[x]
  BY Sizes DEF ChannelTypeOK
<1>1. ASSUME NEW k \in 0 .. Length[x] PROVE tail + k \in Words
  BY <1>0, Sizes DEF Words
<1>2. ASSUME NEW w \in Words, w \in tail .. tail + Length[x] PROVE <<x, w - tail>> \in Elements \X (0 .. MaxLen)
  BY <1>0, <1>2, Sizes
<1>3. ASSUME NEW w \in Words PROVE mem[w] \in {Free} \cup (Elements \X (0 .. MaxLen))
  BY DEF ChannelTypeOK
<1>4. Written(x) \in [Words -> {Free} \cup (Elements \X (0 .. MaxLen))]
  BY <1>2, <1>3 DEF Written
<1>5. ASSUME NEW k \in 0 .. Length[x] PROVE Written(x)[tail + k] = <<x, k>>
  <2>1. ASSUME NEW w \in Words, w = tail + k PROVE Written(x)[w] = <<x, k>>
    <3>1. w \in tail .. tail + Length[x] /\ w - tail = k
      BY <1>0, <2>1
    <3> QED
      BY <3>1 DEF Written
  <2> QED
    BY <1>1, <2>1
<1>6. \A w \in Words : w < tail \/ w >= tail + Size(x) => Written(x)[w] = mem[w]
  BY <1>0, Sizes DEF Written, Words
<1> QED
  BY <1>1, <1>4, <1>5, <1>6

LEMMA InType == ASSUME ChannelTypeOK, NEW x \in Elements, In(x) PROVE ChannelTypeOK'
<1>1. /\ tail \in 0 .. Limit - 1 /\ head \in 0 .. Limit - 1 /\ tail_tag \in {0, 1} /\ head_tag \in {0, 1}
      /\ Length[x] \in Nat /\ Size(x) \in Nat /\ Size(x) > 0
  BY Sizes DEF ChannelTypeOK
<1>2. mem' \in [Words -> {Free} \cup (Elements \X (0 .. MaxLen))]
  BY WrittenIs DEF In
<1>3. tail < head => tail + Size(x) <= head
  BY <1>1 DEF In, Room
<1>4. tail' \in 0 .. Limit - 1 /\ tail_tag' \in {0, 1}
  BY <1>1, <1>3, Sizes DEF In
<1>5. num' \in Nat /\ bytes' \in Nat /\ head' = head /\ head_tag' = head_tag
  BY <1>1 DEF In, ChannelTypeOK
<1> QED
  BY <1>1, <1>2, <1>4, <1>5 DEF ChannelTypeOK, Words

\* What is in the channel stays where it is when an element comes.
LEMMA Kept ==
    ASSUME ChannelTypeOK, NEW n \in Nat, NEW L, NEW S, Laid(n, L, S), NEW x \in Elements, In(x), NEW i \in 1 .. n
    PROVE  /\ At(L[i])' = At(L[i]) /\ Ends(L[i])' = Ends(L[i]) /\ After(L[i])' = After(L[i]) /\ Own(L[i])'
           /\ L[i] \in 0 .. Limit - 1 /\ At(L[i]) \in Elements
           /\ Ends(L[i]) = L[i] + 1 + Length[At(L[i])] /\ Ends(L[i]) \in Nat /\ Length[At(L[i])] \in 0 .. MaxLen
           /\ Ends(L[i]) <= tail \/ tail + Size(x) <= L[i]
<1>1. L[i] \in 0 .. Limit - 1 /\ At(L[i]) \in Elements /\ Own(L[i])
  BY DEF Laid, Lie
<1>2. Length[At(L[i])] \in 0 .. MaxLen /\ Ends(L[i]) = L[i] + 1 + Length[At(L[i])] /\ Ends(L[i]) \in Nat
  BY <1>1, Sizes DEF Ends
<1>3. Ends(L[i]) <= tail \/ tail + Size(x) <= L[i]
  BY Clear DEF In
<1>4. mem' = Written(x) /\ tail \in Nat /\ Size(x) \in Nat
  BY Sizes DEF In, ChannelTypeOK
<1>5. ASSUME NEW k \in 0 .. Length[At(L[i])] PROVE mem'[L[i] + k] = mem[L[i] + k]
  <2>1. L[i] + k \in Words /\ (L[i] + k < tail \/ L[i] + k >= tail + Size(x))
    BY <1>1, <1>2, <1>3, <1>4, Sizes DEF Words
  <2> QED
    BY <1>4, <2>1, WrittenIs
<1>6. mem'[L[i]] = mem[L[i]]
  BY <1>1, <1>2, <1>5
<1>7. At(L[i])' = At(L[i])
  BY <1>6 DEF At
<1>8. Ends(L[i])' = Ends(L[i]) /\ After(L[i])' = After(L[i])
  BY <1>7 DEF Ends, After
<1>9. Own(L[i])'
  BY <1>1, <1>5, <1>7 DEF Own
<1> QED
  BY <1>1, <1>2, <1>3, <1>7, <1>8, <1>9

\* The element that comes is at the tail.
LEMMA Came ==
    ASSUME ChannelTypeOK, NEW x \in Elements, In(x), NEW t, t = tail
    PROVE  /\ At(t)' = x /\ Own(t)' /\ Ends(t)' = t + Size(x)
           /\ After(t)' = IF t + Size(x) >= Limit THEN 0 ELSE t + Size(x)
<1>1. mem' = Written(x) /\ Length[x] \in Nat /\ t \in Nat
  BY Sizes DEF In, ChannelTypeOK
<1>2. \A k \in 0 .. Length[x] : mem'[t + k] = <<x, k>>
  BY <1>1, WrittenIs
<1>3. mem'[t] = <<x, 0>>
  <2>1. 0 \in 0 .. Length[x] /\ t + 0 = t
    BY <1>1
  <2> QED
    BY <1>2, <2>1
<1>4. At(t)' = x
  BY <1>3 DEF At
<1>5. Own(t)'
  BY <1>2, <1>4 DEF Own
<1>6. Ends(t)' = t + Size(x)
  BY <1>4 DEF Ends
<1> QED
  BY <1>4, <1>5, <1>6 DEF After

Longer(n, L, t) == [i \in 1 .. n + 1 |-> IF i = n + 1 THEN t ELSE L[i]]
More(n, S, k) == [i \in 0 .. n + 1 |-> IF i = n + 1 THEN S[n] + k ELSE S[i]]

LEMMA InLie ==
    ASSUME ChannelTypeOK, NEW n \in Nat, NEW L, NEW S, Laid(n, L, S), NEW x \in Elements, In(x), NEW t, t = tail
    PROVE  Lie(n + 1, Longer(n, L, t))'
<1> DEFINE M == Longer(n, L, t)
<1>1. M[n + 1] = t /\ \A i \in 1 .. n : M[i] = L[i]
  BY DEF Longer
<1>2. t \in 0 .. Limit - 1 /\ Size(x) \in Nat /\ Size(x) > 0 /\ head \in Nat /\ Limit \in Nat
  BY Sizes DEF ChannelTypeOK
<1>3. M \in [1 .. n + 1 -> 0 .. Limit - 1]
  BY <1>2 DEF Longer, Laid, Lie
<1>4. /\ At(t)' = x /\ Own(t)' /\ Ends(t)' = t + Size(x)
      /\ After(t)' = IF t + Size(x) >= Limit THEN 0 ELSE t + Size(x)
  BY Came
<1>5. tail' = After(t)'
  <2>1. tail < head => tail + Size(x) <= head /\ head < Limit
    BY <1>2 DEF In, Room, ChannelTypeOK
  <2> QED
    BY <1>2, <1>4, <2>1 DEF In
<1>6. \A i \in 1 .. n + 1 : At(M[i])' \in Elements /\ Own(M[i])'
  <2> SUFFICES ASSUME NEW i \in 1 .. n + 1 PROVE At(M[i])' \in Elements /\ Own(M[i])'
    OBVIOUS
  <2>1. CASE i = n + 1
    BY <1>1, <1>4, <2>1
  <2>2. CASE i \in 1 .. n
    <3>1. M[i] = L[i]
      BY <1>1, <2>2
    <3>2. At(L[i])' \in Elements /\ Own(L[i])'
      BY <2>2, Kept
    <3> HIDE DEF M
    <3> QED
      BY <3>1, <3>2
  <2> QED
    BY <2>1, <2>2
<1>7. M[1] = head'
  <2>1. n = 0 => head = tail
    BY DEF Laid, Taken
  <2>2. n > 0 => L[1] = head
    BY DEF Laid, Lie
  <2>3. n > 0 => M[1] = L[1]
    BY <1>1
  <2> HIDE DEF M
  <2> QED
    BY <1>1, <2>1, <2>2, <2>3 DEF In
<1>8. \A i \in 1 .. n + 1 : i > 1 => M[i] = After(M[i - 1])'
  <2> SUFFICES ASSUME NEW i \in 2 .. n + 1 PROVE M[i] = After(M[i - 1])'
    OBVIOUS
  <2>1. i - 1 \in 1 .. n /\ M[i - 1] = L[i - 1]
    BY <1>1
  <2>2. After(L[i - 1])' = After(L[i - 1])
    BY <2>1, Kept
  <2>3. M[i] = After(L[i - 1])
    <3>1. CASE i = n + 1
      BY <1>1, <3>1 DEF Laid, Lie
    <3>2. CASE i \in 1 .. n
      BY <1>1, <3>2 DEF Laid, Lie
    <3> QED
      BY <3>1, <3>2
  <2> HIDE DEF M
  <2> QED
    BY <2>1, <2>2, <2>3
<1>9. \A i, j \in 1 .. n + 1 : i # j => Apart(M[i], M[j])'
  <2>1. ASSUME NEW i \in 1 .. n PROVE Apart(L[i], t)' /\ Apart(t, L[i])'
    BY <1>4, <2>1, Kept DEF Apart
  <2>2. ASSUME NEW i \in 1 .. n, NEW j \in 1 .. n, i # j PROVE Apart(L[i], L[j])'
    <3>1. Apart(L[i], L[j])
      BY <2>2 DEF Laid, Lie
    <3>2. Ends(L[i])' = Ends(L[i]) /\ Ends(L[j])' = Ends(L[j])
      BY Kept
    <3> QED
      BY <3>1, <3>2 DEF Apart
  <2> SUFFICES ASSUME NEW i \in 1 .. n + 1, NEW j \in 1 .. n + 1, i # j PROVE Apart(M[i], M[j])'
    OBVIOUS
  <2>3. (i \in 1 .. n /\ M[i] = L[i]) \/ (i = n + 1 /\ M[i] = t)
    BY <1>1
  <2>4. (j \in 1 .. n /\ M[j] = L[j]) \/ (j = n + 1 /\ M[j] = t)
    BY <1>1
  <2> HIDE DEF M
  <2> QED
    BY <2>1, <2>2, <2>3, <2>4
<1> HIDE DEF M
<1>10. Lie(n + 1, M)'
  BY <1>1, <1>3, <1>5, <1>6, <1>7, <1>8, <1>9 DEF Lie
<1> QED
  BY <1>10 DEF M

LEMMA InTaken ==
    ASSUME ChannelTypeOK, NEW n \in Nat, NEW L, NEW S, Laid(n, L, S), NEW x \in Elements, In(x), NEW t, t = tail
    PROVE  Taken(n + 1, Longer(n, L, t))'
<1> DEFINE M == Longer(n, L, t)
<1>1. M[n + 1] = t /\ \A i \in 1 .. n : M[i] = L[i]
  BY DEF Longer
<1>2. /\ t \in 0 .. Limit - 1 /\ Size(x) \in Nat /\ Size(x) > 0 /\ head \in 0 .. Limit - 1 /\ Limit \in Nat
      /\ head_tag \in {0, 1} /\ tail_tag \in {0, 1} /\ head' = head /\ head_tag' = head_tag
  BY Sizes DEF ChannelTypeOK, In
<1>3. At(t)' = x /\ Ends(t)' = t + Size(x)
  BY Came
<1>4. \A i \in 1 .. n + 1 : \/ i = n + 1 /\ M[i] = t /\ Ends(M[i])' = t + Size(x)
                            \/ i \in 1 .. n /\ M[i] = L[i] /\ Ends(M[i])' = Ends(L[i])
  <2> SUFFICES ASSUME NEW i \in 1 .. n + 1
               PROVE  \/ i = n + 1 /\ M[i] = t /\ Ends(M[i])' = t + Size(x)
                      \/ i \in 1 .. n /\ M[i] = L[i] /\ Ends(M[i])' = Ends(L[i])
    OBVIOUS
  <2>1. CASE i = n + 1
    BY <1>1, <1>3, <2>1
  <2>2. CASE i \in 1 .. n
    <3>1. M[i] = L[i] /\ Ends(L[i])' = Ends(L[i])
      BY <1>1, <2>2, Kept
    <3> HIDE DEF M
    <3> QED
      BY <2>2, <3>1
  <2> QED
    BY <2>1, <2>2
<1>5. \A i \in 1 .. n : L[i] \in Nat /\ Ends(L[i]) \in Nat
  BY Kept
<1> HIDE DEF M
<1>6. ASSUME head_tag = tail_tag PROVE Taken(n + 1, M)'
  <2>1. head <= tail /\ \A i \in 1 .. n : head <= L[i] /\ Ends(L[i]) <= tail
    BY <1>6 DEF Laid, Taken
  <2>2. CASE tail + Size(x) >= Limit
    <3>1. tail' = 0 /\ tail_tag' # head_tag'
      BY <1>2, <1>6, <2>1, <2>2 DEF In
    <3>2. \A i \in 1 .. n + 1 : head <= M[i]
      BY <1>2, <1>4, <2>1
    <3> QED
      BY <1>2, <3>1, <3>2 DEF Taken
  <2>3. CASE ~(tail + Size(x) >= Limit)
    <3>1. tail' = t + Size(x) /\ tail_tag' = head_tag'
      BY <1>2, <1>6, <2>1, <2>3 DEF In
    <3>2. \A i \in 1 .. n + 1 : head <= M[i] /\ Ends(M[i])' <= t + Size(x)
      BY <1>2, <1>4, <1>5, <2>1
    <3> QED
      BY <1>2, <2>1, <3>1, <3>2 DEF Taken
  <2> QED
    BY <2>2, <2>3
<1>7. ASSUME head_tag # tail_tag PROVE Taken(n + 1, M)'
  <2>1. tail < head /\ \A i \in 1 .. n : head <= L[i] \/ Ends(L[i]) <= tail
    BY <1>2, <1>7 DEF Laid, Taken, In, Room, Full
  <2>2. t + Size(x) <= head
    BY <1>2, <2>1 DEF In, Room
  <2>3. tail' = t + Size(x) /\ tail_tag' # head_tag'
    BY <1>2, <1>7, <2>1 DEF In
  <2>4. \A i \in 1 .. n + 1 : head <= M[i] \/ Ends(M[i])' <= t + Size(x)
    BY <1>2, <1>4, <1>5, <2>1
  <2> QED
    BY <1>2, <2>2, <2>3, <2>4 DEF Taken
<1>8. Taken(n + 1, M)'
  BY <1>6, <1>7
<1> QED
  BY <1>8 DEF M

LEMMA InSums ==
    ASSUME ChannelTypeOK, NEW n \in Nat, n = num, NEW L, NEW S, Laid(n, L, S), NEW x \in Elements, In(x), NEW t, t = tail
    PROVE  Sums(n + 1, Longer(n, L, t), More(n, S, Length[x]))'
<1> DEFINE M == Longer(n, L, t)
           R == More(n, S, Length[x])
<1>1. M[n + 1] = t /\ \A i \in 1 .. n : M[i] = L[i]
  BY DEF Longer
<1>2. R[n + 1] = S[n] + Length[x] /\ \A i \in 0 .. n : R[i] = S[i]
  BY DEF More
<1>3. /\ Length[x] \in Nat /\ S \in [0 .. n -> Nat] /\ S[0] = 0 /\ bytes = S[n]
      /\ \A i \in 1 .. n : S[i] = S[i - 1] + Length[At(L[i])]
  BY Sizes DEF Laid, Sums
<1>4. R \in [0 .. n + 1 -> Nat]
  BY <1>3 DEF More
<1>5. R[0] = 0 /\ bytes' = R[n + 1]
  BY <1>2, <1>3 DEF In
<1>6. ASSUME NEW i \in 1 .. n + 1 PROVE R[i] = R[i - 1] + Length[At(M[i])']
  <2>1. CASE i = n + 1
    <3>1. At(t)' = x
      BY Came
    <3>2. R[i - 1] = S[n]
      BY <1>2, <2>1
    <3> HIDE DEF M, R
    <3> QED
      BY <1>1, <1>2, <2>1, <3>1, <3>2
  <2>2. CASE i \in 1 .. n
    <3>1. At(L[i])' = At(L[i])
      BY <2>2, Kept
    <3>2. R[i] = S[i] /\ R[i - 1] = S[i - 1] /\ M[i] = L[i]
      BY <1>1, <1>2, <2>2
    <3> HIDE DEF M, R
    <3> QED
      BY <1>3, <2>2, <3>1, <3>2
  <2> QED
    BY <2>1, <2>2
<1> HIDE DEF M, R
<1>7. Sums(n + 1, M, R)'
  BY <1>4, <1>5, <1>6 DEF Sums
<1> QED
  BY <1>7 DEF M, R

LEMMA InLaid == ASSUME ChannelInv, NEW x \in Elements, In(x) PROVE ChannelInv'
<1>1. PICK n, t : n = num /\ t = tail
  OBVIOUS
<1>2. n \in Nat /\ num' = n + 1 /\ ChannelTypeOK
  BY <1>1 DEF ChannelInv, ChannelTypeOK, In
<1>3. PICK L \in Places(n), S \in Lengths(n) : Laid(n, L, S)
  BY <1>1 DEF ChannelInv
<1>4. ChannelTypeOK'
  BY <1>1, <1>2, <1>3, InType
<1>5. Lie(n + 1, Longer(n, L, t))'
  BY <1>1, <1>2, <1>3, InLie
<1>6. Taken(n + 1, Longer(n, L, t))'
  BY <1>1, <1>2, <1>3, InTaken
<1>7. Sums(n + 1, Longer(n, L, t), More(n, S, Length[x]))'
  BY <1>1, <1>2, <1>3, InSums
<1>8. Longer(n, L, t) \in Places(n + 1) /\ More(n, S, Length[x]) \in Lengths(n + 1)
  BY <1>5, <1>7 DEF Lie, Sums, Places, Lengths
<1>9. Laid(n + 1, Longer(n, L, t), More(n, S, Length[x]))'
  BY <1>5, <1>6, <1>7 DEF Laid
<1> QED
  BY <1>2, <1>4, <1>8, <1>9 DEF ChannelInv

Shorter(n, L) == [i \in 1 .. n - 1 |-> L[i + 1]]
Rest(n, S) == [i \in 0 .. n - 1 |-> S[i + 1] - S[1]]

\* Nothing moves when an element leaves.
LEMMA Still ==
    ASSUME Out, NEW w
    PROVE  At(w)' = At(w) /\ Ends(w)' = Ends(w) /\ After(w)' = After(w) /\ Own(w)' = Own(w)
<1>1. mem' = mem
  BY DEF Out
<1> QED
  BY <1>1 DEF At, Ends, After, Own

LEMMA Items ==
    ASSUME NEW n \in Nat, NEW L, NEW S, Laid(n, L, S), NEW i \in 1 .. n
    PROVE  /\ L[i] \in 0 .. Limit - 1 /\ At(L[i]) \in Elements /\ Own(L[i])
           /\ Length[At(L[i])] \in 0 .. MaxLen
           /\ Ends(L[i]) \in Nat /\ L[i] < Ends(L[i]) /\ After(L[i]) \in 0 .. Limit - 1
<1>1. L[i] \in 0 .. Limit - 1 /\ At(L[i]) \in Elements /\ Own(L[i])
  BY DEF Laid, Lie
<1> QED
  BY <1>1, Sizes DEF Ends, After

LEMMA OutLie ==
    ASSUME ChannelTypeOK, NEW n \in Nat, n > 0, NEW L, NEW S, Laid(n, L, S), Out
    PROVE  Lie(n - 1, Shorter(n, L))'
<1> DEFINE M == Shorter(n, L)
<1>1. \A i \in 1 .. n - 1 : M[i] = L[i + 1] /\ i + 1 \in 1 .. n
  BY DEF Shorter
<1>2. M \in [1 .. n - 1 -> 0 .. Limit - 1]
  BY DEF Shorter, Laid, Lie
<1> HIDE DEF M
<1>3. \A i \in 1 .. n - 1 : At(M[i])' \in Elements /\ Own(M[i])'
  BY <1>1, Items, Still
<1>4. n - 1 > 0 => M[1] = head'
  <2> SUFFICES ASSUME n > 1 PROVE M[1] = head'
    OBVIOUS
  <2>1. L[1] = head /\ L[2] = After(L[1])
    BY DEF Laid, Lie
  <2>2. M[1] = L[2]
    BY <1>1
  <2> QED
    BY <2>1, <2>2 DEF Out
<1>5. n - 1 > 0 => tail' = After(M[n - 1])'
  <2> SUFFICES ASSUME n > 1 PROVE tail' = After(M[n - 1])'
    OBVIOUS
  <2>1. M[n - 1] = L[n] /\ tail = After(L[n])
    BY <1>1 DEF Laid, Lie
  <2> QED
    BY <2>1, Still DEF Out
<1>6. \A i \in 1 .. n - 1 : i > 1 => M[i] = After(M[i - 1])'
  <2> SUFFICES ASSUME NEW i \in 2 .. n - 1 PROVE M[i] = After(M[i - 1])'
    OBVIOUS
  <2>1. M[i] = L[i + 1] /\ M[i - 1] = L[i]
    BY <1>1
  <2>2. L[i + 1] = After(L[i])
    BY DEF Laid, Lie
  <2> QED
    BY <2>1, <2>2, Still
<1>7. \A i, j \in 1 .. n - 1 : i # j => Apart(M[i], M[j])'
  <2> SUFFICES ASSUME NEW i \in 1 .. n - 1, NEW j \in 1 .. n - 1, i # j PROVE Apart(M[i], M[j])'
    OBVIOUS
  <2>1. Apart(M[i], M[j])
    BY <1>1 DEF Laid, Lie
  <2> QED
    BY <2>1, Still DEF Apart
<1>8. Lie(n - 1, M)'
  BY <1>2, <1>3, <1>4, <1>5, <1>6, <1>7 DEF Lie
<1> QED
  BY <1>8 DEF M

LEMMA OutTaken ==
    ASSUME ChannelTypeOK, NEW n \in Nat, n > 0, NEW L, NEW S, Laid(n, L, S), Out
    PROVE  Taken(n - 1, Shorter(n, L))'
<1> DEFINE M == Shorter(n, L)
<1>1. \A i \in 1 .. n - 1 : M[i] = L[i + 1] /\ i + 1 \in 1 .. n
  BY DEF Shorter
<1>2. /\ head \in 0 .. Limit - 1 /\ tail \in 0 .. Limit - 1 /\ Limit \in Nat
      /\ head_tag \in {0, 1} /\ tail_tag \in {0, 1} /\ tail' = tail /\ tail_tag' = tail_tag
  BY Sizes DEF ChannelTypeOK, Out
<1>3. L[1] = head /\ tail = After(L[n]) /\ Ends(head) \in Nat /\ head < Ends(head)
  BY Items DEF Laid, Lie
<1> HIDE DEF M
<1>4. \A i \in 1 .. n - 1 : /\ M[i] \in 0 .. Limit - 1 /\ Ends(M[i])' = Ends(M[i]) /\ Ends(M[i]) \in Nat /\ M[i] < Ends(M[i])
                            /\ Ends(head) <= M[i] \/ Ends(M[i]) <= head
  <2> SUFFICES ASSUME NEW i \in 1 .. n - 1
               PROVE  /\ M[i] \in 0 .. Limit - 1 /\ Ends(M[i])' = Ends(M[i]) /\ Ends(M[i]) \in Nat /\ M[i] < Ends(M[i])
                      /\ Ends(head) <= M[i] \/ Ends(M[i]) <= head
    OBVIOUS
  <2>1. M[i] = L[i + 1] /\ i + 1 \in 1 .. n /\ 1 \in 1 .. n /\ i + 1 # 1
    BY <1>1
  <2>2. Apart(L[1], L[i + 1])
    BY <2>1 DEF Laid, Lie
  <2>3. /\ L[i + 1] \in 0 .. Limit - 1 /\ Ends(L[i + 1]) \in Nat /\ L[i + 1] < Ends(L[i + 1])
    BY <2>1, Items
  <2>4. Ends(L[i + 1])' = Ends(L[i + 1])
    BY Still
  <2> QED
    BY <1>3, <2>1, <2>2, <2>3, <2>4 DEF Apart
<1>5. head' = After(head) /\ head_tag' = IF Ends(head) >= Limit THEN 1 - head_tag ELSE head_tag
  BY DEF Out
<1>6. CASE head_tag = tail_tag
  <2>1. head <= tail /\ Ends(head) <= tail /\ \A i \in 1 .. n - 1 : head <= M[i] /\ Ends(M[i]) <= tail
    BY <1>1, <1>3, <1>6 DEF Laid, Taken
  <2>2. head' = Ends(head) /\ head_tag' = tail_tag'
    BY <1>2, <1>3, <1>5, <1>6, <2>1 DEF After
  <2>3. \A i \in 1 .. n - 1 : Ends(head) <= M[i]
    BY <1>2, <1>4, <2>1
  <2>4. n - 1 = 0 => head' = tail
    BY <1>3, <1>5
  <2>5. Taken(n - 1, M)'
    BY <1>2, <1>4, <2>1, <2>2, <2>3, <2>4 DEF Taken
  <2> QED
    BY <2>5 DEF M
<1>7. CASE head_tag # tail_tag
  <2>1. tail <= head /\ \A i \in 1 .. n - 1 : head <= M[i] \/ Ends(M[i]) <= tail
    BY <1>1, <1>7 DEF Laid, Taken
  <2>2. CASE Ends(head) >= Limit
    <3>1. head' = 0 /\ head_tag' = tail_tag'
      BY <1>2, <1>5, <1>7, <2>2 DEF After
    <3>3. \A i \in 1 .. n - 1 : Ends(M[i]) <= tail
      BY <1>2, <1>3, <1>4, <2>1, <2>2
    <3>4. n - 1 = 0 => tail = 0
      BY <1>3, <2>2 DEF After
    <3>5. Taken(n - 1, M)'
      BY <1>2, <1>4, <3>1, <3>3, <3>4 DEF Taken
    <3> QED
      BY <3>5 DEF M
  <2>3. CASE Ends(head) < Limit
    <3>1. head' = Ends(head) /\ head_tag' # tail_tag'
      BY <1>2, <1>3, <1>5, <1>7, <2>3 DEF After
    <3>2. n - 1 # 0
      BY <1>2, <1>3, <2>1, <2>3 DEF After
    <3>3. \A i \in 1 .. n - 1 : Ends(head) <= M[i] \/ Ends(M[i]) <= tail
      BY <1>2, <1>3, <1>4, <2>1
    <3>4. Taken(n - 1, M)'
      BY <1>2, <1>3, <1>4, <2>1, <3>1, <3>2, <3>3 DEF Taken
    <3> QED
      BY <3>4 DEF M
  <2> QED
    BY <1>2, <1>3, <2>2, <2>3
<1> QED
  BY <1>6, <1>7

LEMMA LeastNat ==
    ASSUME NEW T \in SUBSET Nat, T # {}
    PROVE  \E x \in T : \A y \in T : x <= y
<1> DEFINE Less == {ss \in Nat \X Nat : ss[1] < ss[2]}
<1>1. IsWellFoundedOn(Less, Nat)
  BY NatLessThanWellFounded DEF OpToRel
<1>2. PICK x \in T : \A y \in T : <<y, x>> \notin Less
  <2> HIDE DEF Less
  <2> QED
    BY <1>1, WFMin
<1>3. \A y \in T : ~(y < x)
  BY <1>2
<1> QED
  BY <1>3

LEMMA SumsAre ==
    ASSUME NEW n \in Nat, NEW L, NEW S, Laid(n, L, S)
    PROVE  /\ S \in [0 .. n -> Nat] /\ S[0] = 0 /\ bytes = S[n]
           /\ \A i \in 1 .. n : S[i] = S[i - 1] + Length[At(L[i])] /\ Length[At(L[i])] \in Nat
<1>1. ASSUME NEW i \in 1 .. n PROVE Length[At(L[i])] \in Nat
  BY Items, Sizes
<1>2. Sums(n, L, S)
  BY DEF Laid
<1> QED
  BY <1>1, <1>2 DEF Sums

LEMMA SumsGrow ==
    ASSUME NEW n \in Nat, NEW L, NEW S, Laid(n, L, S)
    PROVE  \A i \in 1 .. n : S[1] <= S[i]
<1>1. S \in [0 .. n -> Nat] /\ \A i \in 1 .. n : S[i] = S[i - 1] + Length[At(L[i])] /\ Length[At(L[i])] \in Nat
  BY SumsAre
<1>2. \A i \in 1 .. n : i - 1 \in 0 .. n /\ S[i] \in Nat /\ S[i - 1] \in Nat /\ S[i - 1] <= S[i]
  <2> SUFFICES ASSUME NEW i \in 1 .. n PROVE i - 1 \in 0 .. n /\ S[i] \in Nat /\ S[i - 1] \in Nat /\ S[i - 1] <= S[i]
    OBVIOUS
  <2>1. i \in 0 .. n /\ i - 1 \in 0 .. n
    OBVIOUS
  <2>2. S[i] \in Nat /\ S[i - 1] \in Nat
    BY <1>1, <2>1
  <2>3. S[i] = S[i - 1] + Length[At(L[i])] /\ Length[At(L[i])] \in Nat
    BY <1>1
  <2>4. PICK k \in Nat : S[i] = S[i - 1] + k
    BY <2>3
  <2> QED
    BY <2>1, <2>2, <2>4
<1> DEFINE T == {i \in 1 .. n : S[1] > S[i]}
<1>3. CASE T = {}
  <2> SUFFICES ASSUME NEW i \in 1 .. n PROVE S[1] <= S[i]
    OBVIOUS
  <2>1. ~(S[1] > S[i]) /\ 1 \in 1 .. n
    BY <1>3
  <2> QED
    BY <1>2, <2>1
<1>4. CASE T # {}
  <2>1. PICK i \in T : \A y \in T : i <= y
    <3>1. T \in SUBSET Nat
      OBVIOUS
    <3> HIDE DEF T
    <3> QED
      BY <1>4, <3>1, LeastNat
  <2>2. i \in 1 .. n /\ i # 1 /\ S[1] > S[i] /\ 1 \in 1 .. n
    BY <1>2, <2>1
  <2>3. i - 1 \in 1 .. n /\ i - 1 \notin T
    BY <2>1, <2>2
  <2>4. S[1] <= S[i - 1]
    BY <1>2, <2>2, <2>3
  <2> QED
    BY <1>2, <2>2, <2>3, <2>4
<1> QED
  BY <1>3, <1>4

LEMMA OutSums ==
    ASSUME ChannelTypeOK, NEW n \in Nat, n > 0, NEW L, NEW S, Laid(n, L, S), Out
    PROVE  Sums(n - 1, Shorter(n, L), Rest(n, S))' /\ bytes' \in Nat
<1> DEFINE M == Shorter(n, L)
           R == Rest(n, S)
<1>1. \A i \in 1 .. n - 1 : M[i] = L[i + 1] /\ i + 1 \in 1 .. n
  BY DEF Shorter
<1>2. \A i \in 0 .. n - 1 : R[i] = S[i + 1] - S[1] /\ i + 1 \in 1 .. n
  BY DEF Rest
<1>3. /\ S \in [0 .. n -> Nat] /\ S[0] = 0 /\ bytes = S[n]
      /\ \A i \in 1 .. n : S[i] = S[i - 1] + Length[At(L[i])] /\ Length[At(L[i])] \in Nat
  BY SumsAre
<1>4. \A i \in 1 .. n : S[1] <= S[i] /\ S[i] \in Nat
  <2> SUFFICES ASSUME NEW i \in 1 .. n PROVE S[1] <= S[i] /\ S[i] \in Nat
    OBVIOUS
  <2>1. i \in 0 .. n
    OBVIOUS
  <2> QED
    BY <1>3, <2>1, SumsGrow
<1>5. S[1] \in Nat /\ S[1] = Length[At(head)] /\ S[n] \in Nat /\ S[1] <= S[n] /\ L[1] = head
  <2>1. L[1] = head
    BY DEF Laid, Lie
  <2>2. S[1] = S[0] + Length[At(L[1])] /\ Length[At(L[1])] \in Nat
    BY <1>3
  <2> QED
    BY <1>3, <1>4, <2>1, <2>2
<1>6. R \in [0 .. n - 1 -> Nat]
  <2>1. ASSUME NEW i \in 0 .. n - 1 PROVE S[i + 1] - S[1] \in Nat
    BY <1>2, <1>4, <1>5
  <2> QED
    BY <2>1 DEF Rest
<1> HIDE DEF M, R
<1>7. bytes' = S[n] - S[1]
  BY <1>3, <1>5 DEF Out
<1>8. R[0] = 0 /\ bytes' = R[n - 1]
  BY <1>2, <1>5, <1>7
<1>9. ASSUME NEW i \in 1 .. n - 1 PROVE R[i] = R[i - 1] + Length[At(M[i])']
  <2>1. M[i] = L[i + 1] /\ i + 1 \in 1 .. n /\ i \in 0 .. n - 1 /\ i - 1 \in 0 .. n - 1 /\ i \in 1 .. n
    BY <1>1
  <2>2. At(L[i + 1])' = At(L[i + 1])
    BY Still
  <2>3. R[i] = S[i + 1] - S[1] /\ R[i - 1] = S[i] - S[1]
    <3>1. R[i - 1] = S[(i - 1) + 1] - S[1]
      BY <1>2, <2>1
    <3> QED
      BY <1>2, <2>1, <3>1
  <2>4. S[i + 1] = S[i] + Length[At(L[i + 1])] /\ Length[At(L[i + 1])] \in Nat
    <3>1. S[i + 1] = S[(i + 1) - 1] + Length[At(L[i + 1])]
      BY <1>3, <2>1
    <3> QED
      BY <1>3, <2>1, <3>1
  <2>5. S[i] \in Nat
    BY <1>4, <2>1
  <2> QED
    BY <1>5, <2>1, <2>2, <2>3, <2>4, <2>5
<1>10. Sums(n - 1, M, R)'
  BY <1>6, <1>8, <1>9 DEF Sums
<1> QED
  BY <1>5, <1>7, <1>10 DEF M, R

LEMMA OutLaid == ASSUME ChannelInv, Out PROVE ChannelInv'
<1>1. PICK n : n = num
  OBVIOUS
<1>2. n \in Nat /\ n > 0 /\ num' = n - 1 /\ ChannelTypeOK
  BY <1>1 DEF ChannelInv, ChannelTypeOK, Out, Empty
<1>3. PICK L \in Places(n), S \in Lengths(n) : Laid(n, L, S)
  BY <1>1 DEF ChannelInv
<1>5. Lie(n - 1, Shorter(n, L))'
  BY <1>1, <1>2, <1>3, OutLie
<1>6. Taken(n - 1, Shorter(n, L))'
  BY <1>1, <1>2, <1>3, OutTaken
<1>7. Sums(n - 1, Shorter(n, L), Rest(n, S))' /\ bytes' \in Nat
  BY <1>1, <1>2, <1>3, OutSums
<1>4. ChannelTypeOK'
  <2>1. head' \in 0 .. Limit - 1
    <3>1. head = L[1] /\ 1 \in 1 .. n
      BY <1>2, <1>3 DEF Laid, Lie
    <3> QED
      BY <1>2, <1>3, <3>1, Items DEF Out
  <2>2. head_tag' \in {0, 1} /\ num' \in Nat
    BY <1>2 DEF Out, ChannelTypeOK
  <2> QED
    BY <1>2, <1>7, <2>1, <2>2 DEF Out, ChannelTypeOK
<1>8. Shorter(n, L) \in Places(n - 1) /\ Rest(n, S) \in Lengths(n - 1)
  BY <1>5, <1>7 DEF Lie, Sums, Places, Lengths
<1>9. Laid(n - 1, Shorter(n, L), Rest(n, S))'
  BY <1>5, <1>6, <1>7 DEF Laid
<1> QED
  BY <1>2, <1>4, <1>8, <1>9 DEF ChannelInv

LEMMA ChannelStep == ChannelInv /\ [ChannelNext]_channel => ChannelInv'
<1> SUFFICES ASSUME ChannelInv, [ChannelNext]_channel PROVE ChannelInv'
  OBVIOUS
<1>1. CASE ChannelNext
  BY <1>1, InLaid, OutLaid DEF ChannelNext
<1>2. CASE UNCHANGED channel
  <2>1. \A w : At(w)' = At(w) /\ Ends(w)' = Ends(w) /\ After(w)' = After(w) /\ Own(w)' = Own(w)
    BY <1>2 DEF channel, At, Ends, After, Own
  <2>2. \A v, w : Apart(v, w)' = Apart(v, w)
    BY <2>1 DEF Apart
  <2>3. ASSUME NEW n, NEW L, NEW S, Laid(n, L, S) PROVE Laid(n, L, S)'
    <3>1. Lie(n, L)'
      BY <1>2, <2>1, <2>2, <2>3 DEF channel, Laid, Lie
    <3>2. Taken(n, L)'
      BY <1>2, <2>1, <2>3 DEF channel, Laid, Taken
    <3>3. Sums(n, L, S)'
      BY <1>2, <2>1, <2>3 DEF channel, Laid, Sums
    <3> QED
      BY <3>1, <3>2, <3>3 DEF Laid
  <2>4. ChannelTypeOK'
    BY <1>2 DEF channel, ChannelTypeOK, ChannelInv
  <2>5. num' = num
    BY <1>2 DEF channel
  <2> QED
    BY <2>3, <2>4, <2>5 DEF ChannelInv
<1> QED
  BY <1>1, <1>2

(***************************************************************************)
(* Whatever is pushed and popped, in whatever order, the items of a        *)
(* channel lie apart, in one turn of the ring (swChannel_in,               *)
(* swChannel_out).                                                         *)
(***************************************************************************)
THEOREM ChannelInvariance == ChannelSpec => []ChannelInv
  BY InitChannel, ChannelStep, PTL DEF ChannelSpec

\* What the two recursions of Contents and TotalLength compute.
OffsetsFrom(n, f) == f = [i \in 1 .. n |-> IF i = 1 THEN head ELSE After(f[i - 1])]
SumsOf(s, f) == f = [i \in 0 .. Len(s) |-> IF i = 0 THEN 0 ELSE f[i - 1] + Length[s[i]]]

LEMMA OffsetsAre ==
    ASSUME NEW n \in Nat, n = num, NEW L, NEW S, Laid(n, L, S)
    PROVE  Offsets = L
<1>1. L \in [1 .. n -> 0 .. Limit - 1] /\ (n > 0 => L[1] = head) /\ \A i \in 1 .. n : i > 1 => L[i] = After(L[i - 1])
  BY DEF Laid, Lie
<1>2. OffsetsFrom(n, L)
  <2>1. ASSUME NEW i \in 1 .. n PROVE L[i] = IF i = 1 THEN head ELSE After(L[i - 1])
    BY <1>1
  <2> QED
    BY <1>1, <2>1 DEF OffsetsFrom
<1>3. OffsetsFrom(n, Offsets)
  <2>1. Offsets = CHOOSE f : OffsetsFrom(n, f)
    BY DEF Offsets, OffsetsFrom
  <2> QED
    BY <1>2, <2>1
<1> DEFINE F == Offsets
<1> HIDE DEF F
<1>4. \A i \in 1 .. n : F[i] = IF i = 1 THEN head ELSE After(F[i - 1])
  BY <1>3 DEF OffsetsFrom, F
<1>7. F = [i \in 1 .. n |-> F[i]]
  BY <1>3 DEF OffsetsFrom, F
<1> DEFINE T == {i \in 1 .. n : F[i] # L[i]}
<1>5. T = {}
  <2> SUFFICES ASSUME T # {} PROVE FALSE
    OBVIOUS
  <2>1. PICK i \in T : \A y \in T : i <= y
    <3>1. T \in SUBSET Nat
      OBVIOUS
    <3> HIDE DEF T
    <3> QED
      BY <3>1, LeastNat
  <2>2. i \in 1 .. n /\ F[i] # L[i] /\ i # 1
    <3>1. i \in 1 .. n /\ F[i] # L[i]
      BY <2>1
    <3>2. F[1] = L[1]
      BY <1>1, <1>4, <3>1
    <3> QED
      BY <3>1, <3>2
  <2>3. i - 1 \in 1 .. n /\ i - 1 \notin T
    BY <2>1, <2>2
  <2>4. F[i - 1] = L[i - 1]
    BY <2>3
  <2> QED
    <3>1. F[i] = After(F[i - 1])
      BY <1>4, <2>2
    <3>2. L[i] = After(L[i - 1])
      BY <1>1, <2>2
    <3> QED
      BY <2>2, <2>4, <3>1, <3>2
<1>6. \A i \in 1 .. n : F[i] = L[i]
  BY <1>5
<1> QED
  BY <1>1, <1>6, <1>7 DEF F

LEMMA ContentsAre ==
    ASSUME NEW n \in Nat, n = num, NEW L, NEW S, Laid(n, L, S)
    PROVE  Contents = [i \in 1 .. n |-> At(L[i])] /\ Contents \in Seq(Elements) /\ Len(Contents) = n
<1>1. Contents = [i \in 1 .. n |-> At(L[i])]
  BY OffsetsAre DEF Contents
<1>2. \A i \in 1 .. n : At(L[i]) \in Elements
  BY Items
<1> QED
  BY <1>1, <1>2

LEMMA TotalIs ==
    ASSUME NEW n \in Nat, n = num, NEW L, NEW S, Laid(n, L, S)
    PROVE  TotalLength(Contents) = bytes
<1> DEFINE c == Contents
<1>1. Len(c) = n /\ \A i \in 1 .. n : c[i] = At(L[i])
  BY ContentsAre
<1>2. /\ S \in [0 .. n -> Nat] /\ S[0] = 0 /\ bytes = S[n]
      /\ \A i \in 1 .. n : S[i] = S[i - 1] + Length[At(L[i])]
  BY SumsAre
<1> HIDE DEF c
<1>3. SumsOf(c, S)
  <2>1. ASSUME NEW i \in 0 .. n PROVE S[i] = IF i = 0 THEN 0 ELSE S[i - 1] + Length[c[i]]
    BY <1>1, <1>2
  <2> QED
    BY <1>1, <1>2, <2>1 DEF SumsOf
<1> DEFINE F == CHOOSE f : SumsOf(c, f)
<1>4. SumsOf(c, F) /\ TotalLength(c) = F[n]
  <2>1. TotalLength(c) = F[Len(c)]
    BY DEF TotalLength, SumsOf
  <2> QED
    BY <1>1, <1>3, <2>1
<1> HIDE DEF F
<1>5. \A i \in 0 .. n : F[i] = IF i = 0 THEN 0 ELSE F[i - 1] + Length[c[i]]
  BY <1>1, <1>4 DEF SumsOf
<1> DEFINE T == {i \in 0 .. n : F[i] # S[i]}
<1>6. T = {}
  <2> SUFFICES ASSUME T # {} PROVE FALSE
    OBVIOUS
  <2>1. PICK i \in T : \A y \in T : i <= y
    <3>1. T \in SUBSET Nat
      OBVIOUS
    <3> HIDE DEF T
    <3> QED
      BY <3>1, LeastNat
  <2>2. i \in 1 .. n /\ F[i] # S[i]
    BY <1>2, <1>5, <2>1
  <2>3. i - 1 \in 0 .. n /\ i - 1 \notin T
    BY <2>1, <2>2
  <2>4. F[i - 1] = S[i - 1]
    BY <2>3
  <2> QED
    BY <1>1, <1>2, <1>5, <2>2, <2>4
<1>7. n \in 0 .. n
  OBVIOUS
<1>8. F[n] = S[n]
  BY <1>6, <1>7
<1> QED
  BY <1>2, <1>4, <1>8 DEF c

LEMMA InvItems == ChannelInv => ItemsIntact
<1> SUFFICES ASSUME ChannelInv PROVE ItemsIntact
  OBVIOUS
<1>1. PICK n : n = num
  OBVIOUS
<1>2. n \in Nat
  BY <1>1 DEF ChannelInv, ChannelTypeOK
<1>3. PICK L \in Places(n), S \in Lengths(n) : Laid(n, L, S)
  BY <1>1 DEF ChannelInv
<1>4. Offsets = L /\ TotalLength(Contents) = bytes
  BY <1>1, <1>2, <1>3, OffsetsAre, TotalIs
<1>5. \A i \in 1 .. n : Own(L[i])
  BY <1>2, <1>3, Items
<1> QED
  BY <1>1, <1>4, <1>5 DEF ItemsIntact, Own

(***************************************************************************)
(* No item of a channel is overwritten by a later one, and object->bytes   *)
(* is the length of what is in it (swChannel_in, swChannel_out).           *)
(***************************************************************************)
THEOREM ItemsKept == ChannelSpec => []ItemsIntact
  BY ChannelInvariance, InvItems, PTL

\* The same of every way to lay the items, so as to speak of the state after a step.
ContentsShown ==
    \A n \in Nat : \A L \in Places(n), S \in Lengths(n) :
        n = num /\ Laid(n, L, S) => /\ Contents = [i \in 1 .. n |-> At(L[i])]
                                    /\ Contents \in Seq(Elements) /\ Len(Contents) = n

LEMMA ContentsAreShown == ContentsShown
  BY ContentsAre DEF ContentsShown

LEMMA ContentsShownNext == ContentsShown'
  BY ContentsAreShown, PTL

LEMMA RoomLeft ==
    ASSUME NEW n \in Nat, NEW L, NEW S, Laid(n, L, S)
    PROVE  n < Memory
<1>1. L \in [1 .. n -> 0 .. Limit - 1]
  BY DEF Laid, Lie
<1>2. ASSUME NEW i \in 1 .. n, NEW j \in 1 .. n, L[i] = L[j] PROVE i = j
  <2> SUFFICES ASSUME i # j PROVE FALSE
    OBVIOUS
  <2>1. Apart(L[i], L[j])
    BY DEF Laid, Lie
  <2>2. L[i] \in Nat /\ L[i] < Ends(L[i]) /\ Ends(L[i]) \in Nat
    BY Items
  <2> QED
    BY <1>2, <2>1, <2>2 DEF Apart
<1>3. L \in Injection(1 .. n, 0 .. Limit - 1)
  BY <1>1, <1>2 DEF Injection, IsInjective
<1>4. Cardinality(1 .. n) <= Cardinality(0 .. Limit - 1)
  BY <1>3, Sizes, FS_Injection, FS_Interval
<1>5. Cardinality(1 .. n) = n /\ Cardinality(0 .. Limit - 1) = Limit
  BY Sizes, FS_Interval
<1> QED
  BY <1>4, <1>5, ChannelAssumption DEF Limit

LEMMA InPuts == ASSUME ChannelInv, NEW x \in Elements, In(x) PROVE Fifo!Put
<1>1. PICK n, t : n = num /\ t = tail
  OBVIOUS
<1>2. n \in Nat /\ num' = n + 1 /\ ChannelTypeOK
  BY <1>1 DEF ChannelInv, ChannelTypeOK, In
<1>3. PICK L \in Places(n), S \in Lengths(n) : Laid(n, L, S)
  BY <1>1 DEF ChannelInv
<1>4. PICK M, R : M = Longer(n, L, t) /\ R = More(n, S, Length[x])
  OBVIOUS
<1>5. Laid(n + 1, M, R)' /\ M \in Places(n + 1) /\ R \in Lengths(n + 1)
  <2>1. Lie(n + 1, M)'
    BY <1>1, <1>2, <1>3, <1>4, InLie
  <2>2. Taken(n + 1, M)'
    BY <1>1, <1>2, <1>3, <1>4, InTaken
  <2>3. Sums(n + 1, M, R)'
    BY <1>1, <1>2, <1>3, <1>4, InSums
  <2> QED
    BY <2>1, <2>2, <2>3 DEF Laid, Lie, Sums, Places, Lengths
<1>6. Contents = [i \in 1 .. n |-> At(L[i])] /\ Contents \in Seq(Elements) /\ Len(Contents) = n
  BY <1>1, <1>2, <1>3, ContentsAre
<1>7. Contents' = [i \in 1 .. n + 1 |-> At(M[i])'] /\ Contents' \in Seq(Elements) /\ Len(Contents') = n + 1
  BY <1>2, <1>5, ContentsShownNext DEF ContentsShown
<1>8. At(M[n + 1])' = x
  <2>1. M[n + 1] = t
    BY <1>2, <1>4 DEF Longer
  <2>2. At(t)' = x
    BY <1>1, <1>2, Came
  <2> QED
    BY <2>1, <2>2
<1>9. \A i \in 1 .. n : At(M[i])' = At(L[i])
  <2> SUFFICES ASSUME NEW i \in 1 .. n PROVE At(M[i])' = At(L[i])
    OBVIOUS
  <2>1. M[i] = L[i]
    BY <1>2, <1>4 DEF Longer
  <2>2. At(L[i])' = At(L[i])
    BY <1>2, <1>3, Kept
  <2> QED
    BY <2>1, <2>2
<1>10. Contents' = Append(Contents, x)
  <2> DEFINE before == Contents
             now == Contents'
  <2>1. before \in Seq(Elements) /\ Len(before) = n /\ \A i \in 1 .. n : before[i] = At(L[i])
    BY <1>6
  <2>2. now \in Seq(Elements) /\ Len(now) = n + 1 /\ \A i \in 1 .. n + 1 : now[i] = At(M[i])'
    BY <1>7
  <2> HIDE DEF before, now
  <2>3. /\ Append(before, x) \in Seq(Elements) /\ Len(Append(before, x)) = n + 1
        /\ \A i \in 1 .. n : Append(before, x)[i] = before[i]
        /\ Append(before, x)[n + 1] = x
    BY <2>1, AppendProperties
  <2>4. \A i \in 1 .. n + 1 : now[i] = Append(before, x)[i]
    BY <1>2, <1>8, <1>9, <2>1, <2>2, <2>3
  <2>5. now = Append(before, x)
    BY <2>2, <2>3, <2>4, SeqEqual
  <2> QED
    BY <2>5 DEF before, now
<1>11. Len(Contents) < Memory
  BY <1>2, <1>3, <1>6, RoomLeft
<1> QED
  BY <1>10, <1>11 DEF Fifo!Put

LEMMA OutTakes == ASSUME ChannelInv, Out PROVE Fifo!Take
<1>1. PICK n : n = num
  OBVIOUS
<1>2. n \in Nat /\ n > 0 /\ num' = n - 1 /\ n - 1 \in Nat /\ ChannelTypeOK
  BY <1>1 DEF ChannelInv, ChannelTypeOK, Out, Empty
<1>3. PICK L \in Places(n), S \in Lengths(n) : Laid(n, L, S)
  BY <1>1 DEF ChannelInv
<1>4. PICK M, R : M = Shorter(n, L) /\ R = Rest(n, S)
  OBVIOUS
<1>5. Laid(n - 1, M, R)' /\ M \in Places(n - 1) /\ R \in Lengths(n - 1)
  <2>1. Lie(n - 1, M)'
    BY <1>2, <1>3, <1>4, OutLie
  <2>2. Taken(n - 1, M)'
    BY <1>2, <1>3, <1>4, OutTaken
  <2>3. Sums(n - 1, M, R)'
    BY <1>2, <1>3, <1>4, OutSums
  <2> QED
    BY <2>1, <2>2, <2>3 DEF Laid, Lie, Sums, Places, Lengths
<1>6. Contents = [i \in 1 .. n |-> At(L[i])] /\ Contents \in Seq(Elements) /\ Len(Contents) = n
  BY <1>1, <1>2, <1>3, ContentsAre
<1>7. Contents' = [i \in 1 .. n - 1 |-> At(M[i])'] /\ Contents' \in Seq(Elements) /\ Len(Contents') = n - 1
  BY <1>2, <1>5, ContentsShownNext DEF ContentsShown
<1>8. \A i \in 1 .. n - 1 : At(M[i])' = At(L[i + 1])
  <2> SUFFICES ASSUME NEW i \in 1 .. n - 1 PROVE At(M[i])' = At(L[i + 1])
    OBVIOUS
  <2>1. M[i] = L[i + 1]
    BY <1>4 DEF Shorter
  <2> QED
    BY <2>1, Still
<1>9. Contents' = Tail(Contents) /\ Contents # <<>>
  <2> DEFINE before == Contents
             now == Contents'
  <2>1. before \in Seq(Elements) /\ Len(before) = n /\ \A i \in 1 .. n : before[i] = At(L[i])
    BY <1>6
  <2>2. now \in Seq(Elements) /\ Len(now) = n - 1 /\ \A i \in 1 .. n - 1 : now[i] = At(M[i])'
    BY <1>7
  <2> HIDE DEF before, now
  <2>3. before # <<>>
    BY <1>2, <2>1, EmptySeq
  <2>4. /\ Tail(before) \in Seq(Elements) /\ Len(Tail(before)) = n - 1
        /\ \A i \in 1 .. n - 1 : Tail(before)[i] = before[i + 1]
    BY <2>1, <2>3, HeadTailProperties
  <2>5. \A i \in 1 .. n - 1 : now[i] = before[i + 1]
    BY <1>2, <1>8, <2>1, <2>2
  <2>6. now = Tail(before)
    BY <2>2, <2>4, <2>5, SeqEqual
  <2> QED
    BY <2>3, <2>6 DEF before, now
<1> QED
  BY <1>9 DEF Fifo!Take

LEMMA ChannelFifoInit == ChannelInit => Fifo!Init
<1> SUFFICES ASSUME ChannelInit PROVE Contents = <<>>
  BY DEF Fifo!Init
<1>1. 1 .. num = {}
  BY DEF ChannelInit
<1> QED
  BY <1>1 DEF Contents

LEMMA ChannelFifoStep == ChannelInv /\ [ChannelNext]_channel => [Fifo!Next]_Contents
<1> SUFFICES ASSUME ChannelInv, [ChannelNext]_channel PROVE Fifo!Next \/ UNCHANGED Contents
  BY DEF Fifo!Next
<1>1. CASE ChannelNext
  BY <1>1, InPuts, OutTakes DEF ChannelNext, Fifo!Next
<1>2. CASE UNCHANGED channel
  <2>1. \A w : At(w)' = At(w) /\ After(w)' = After(w)
    BY <1>2 DEF channel, At, Ends, After
  <2>2. Offsets' = Offsets
    BY <1>2, <2>1 DEF channel, Offsets
  <2> QED
    BY <1>2, <2>1, <2>2 DEF channel, Contents
<1> QED
  BY <1>1, <1>2

(***************************************************************************)
(* A channel is a queue, for any memory, any maxlen and any lengths:       *)
(* elements leave it whole, once and in the order they came (swChannel_in, *)
(* swChannel_out).                                                         *)
(***************************************************************************)
THEOREM ChannelFifo == ChannelSpec => ImplementsFifo
  BY ChannelFifoInit, ChannelFifoStep, ChannelInvariance, PTL DEF ChannelSpec, ImplementsFifo, Fifo!Spec
=============================================================================
