----------------------------- MODULE RemoteProofs -----------------------------
(***************************************************************************)
(* Safety of the remote-control supervision for any number of requests,    *)
(* processes and any cap of the delay.                                     *)
(*                                                                         *)
(* ChildReachable is not inductive: a start that is under way will fill    *)
(* the slot.  SlotInv adds that then only strays run, and that the lock    *)
(* lets only one start be under way.                                       *)
(***************************************************************************)
EXTENDS RemoteSupervisor, TLAPS

TaskType == [Task -> [pc : TaskStage, request : Request, keepalive : BOOLEAN]]

(* Moving a task on leaves the tasks well-typed and touches no other task. *)
LEMMA GotoType ==
  ASSUME task \in TaskType, NEW t \in Task, NEW pc \in TaskStage, Goto(t, pc)
  PROVE  /\ task' \in TaskType
         /\ \A u \in Task : task'[u].pc = IF u = t THEN pc ELSE task[u].pc
  BY DEF Goto, TaskType

(* So does ending it. *)
LEMMA EndType ==
  ASSUME task \in TaskType, NEW t \in Task, End(t)
  PROVE  /\ task' \in TaskType
         /\ \A u \in Task : task'[u].pc = IF u = t THEN "idle" ELSE task[u].pc
  BY DEF End, TaskType, Idle, TaskStage, Request

(* The type invariant is inductive: the delay stays within its cap, the    *)
(* slot holds a process or none.                                           *)
THEOREM RemoteTypeCorrect == RemoteSpec => []RemoteTypeOK
<1> Idle \in [pc : TaskStage, request : Request, keepalive : BOOLEAN] /\ 1 \in 1..MaxBackoff
  BY BackoffAssumption DEF Idle, TaskStage, Request
<1>1. RemoteInit => RemoteTypeOK
  <2> SUFFICES ASSUME RemoteInit PROVE RemoteTypeOK
    OBVIOUS
  <2>1. task \in TaskType /\ hung = {} /\ backoff \in 1..MaxBackoff
    BY DEF RemoteInit, TaskType
  <2>2. remote \in [supported : BOOLEAN, online : BOOLEAN]
    BY DEF RemoteInit
  <2> QED BY <2>1, <2>2 DEF RemoteInit, RemoteTypeOK, TaskType
<1>2. RemoteTypeOK /\ [RemoteNext]_vars => RemoteTypeOK'
  <2> SUFFICES ASSUME RemoteTypeOK, [RemoteNext]_vars PROVE RemoteTypeOK'
    OBVIOUS
  <2> USE DEF RemoteTypeOK
  <2>0. task \in TaskType /\ Keeper \in Task
    BY DEF TaskType, Task
  <2>1. ASSUME NEW t \in Task, Ensure(t) PROVE RemoteTypeOK'
    <3>1. CASE Grab(t)
      <4>1. task' \in TaskType
        BY <2>0, <3>1, GotoType DEF Grab, TaskStage
      <4>2. stray' \in SUBSET Process
        BY <3>1 DEF Grab, GiveUp, OutOfReach
      <4> QED BY <3>1, <4>1, <4>2 DEF Grab, TaskType
    <3>2. CASE AlreadyRuns(t)
      <4>1. task' \in TaskType
        BY <2>0, <3>2, EndType DEF AlreadyRuns
      <4> QED BY <3>2, <4>1 DEF AlreadyRuns, TaskType
    <3>3. CASE Spawn(t)
      <4>1. task' \in TaskType
        BY <2>0, <3>3, GotoType DEF Spawn, TaskStage
      <4> QED BY <3>3, <4>1 DEF Spawn, TaskType
    <3>4. CASE SpawnFails(t)
      <4>1. task' \in TaskType
        <5>1. CASE t = Keeper
          BY <2>0, <3>4, <5>1, GotoType DEF SpawnFails, TaskStage
        <5>2. CASE t # Keeper
          BY <2>0, <3>4, <5>2, EndType DEF SpawnFails
        <5> QED BY <5>1, <5>2
      <4> QED BY <3>4, <4>1 DEF SpawnFails, TaskType
    <3>5. CASE ReportOnline(t)
      <4>1. task' \in TaskType
        BY <2>0, <3>5, EndType DEF ReportOnline
      <4> QED BY <3>5, <4>1 DEF ReportOnline, TaskType
    <3> QED BY <2>1, <3>1, <3>2, <3>3, <3>4, <3>5 DEF Ensure
  <2>2. ASSUME NEW r \in Requester, NEW request \in Request, Ask(r, request)
        PROVE  RemoteTypeOK'
    BY <2>2 DEF Ask, Task, TaskStage
  <2>3. ASSUME NEW r \in Requester, Check(r) \/ SaveFails(r) PROVE RemoteTypeOK'
    <3>1. End(r) \/ Goto(r, "pairing") \/ Goto(r, "saving")
      BY <2>3 DEF Check, SaveFails
    <3>2. task' \in TaskType
      BY <2>0, <3>1, GotoType, EndType DEF TaskStage, Task
    <3> QED BY <2>3, <3>2 DEF Check, SaveFails, TaskType
  <2>4. ASSUME NEW r \in Requester, Save(r) PROVE RemoteTypeOK'
    <3>1. task[r].keepalive \in BOOLEAN
      BY DEF Task
    <3>2. keepalive' \in BOOLEAN /\ (End(r) \/ Goto(r, "starting") \/ Goto(r, "taking"))
      BY <2>4, <3>1 DEF Save
    <3>3. task' \in TaskType
      BY <2>0, <3>2, GotoType, EndType DEF TaskStage, Task
    <3> QED BY <2>4, <3>2, <3>3 DEF Save, TaskType
  <2>5. ASSUME NEW r \in Requester, Take(r) \/ ReportStopped(r) \/ Pair(r)
        PROVE  RemoteTypeOK'
    <3>1. End(r) \/ Goto(r, "stopping")
      BY <2>5 DEF Take, ReportStopped, Pair
    <3>2. task' \in TaskType
      BY <2>0, <3>1, GotoType, EndType DEF TaskStage, Task
    <3>3. CASE Take(r)
      <4>1. stray' \in SUBSET Process /\ alive' \in SUBSET Process
        BY <3>3 DEF Take, GiveUp, OutOfReach
      <4> QED BY <3>2, <3>3, <4>1 DEF Take, TaskType
    <3>4. CASE ReportStopped(r)
      BY <3>2, <3>4 DEF ReportStopped, TaskType
    <3>5. CASE Pair(r)
      BY <3>2, <3>5 DEF Pair, TaskType
    <3> QED BY <2>5, <3>3, <3>4, <3>5
  <2>6. CASE Wake \/ Inspect \/ ReportLost \/ Find \/ ReportFailed
    <3>1. End(Keeper) \/ \E pc \in TaskStage : Goto(Keeper, pc)
      <4>1. CASE Wake \/ ReportLost \/ ReportFailed
        BY <4>1 DEF Wake, ReportLost, ReportFailed, TaskStage
      <4>2. CASE Inspect
        BY <4>2 DEF Inspect, FindsRunning, FindsEnded, FindsNone, TaskStage
      <4>3. CASE Find
        BY <4>3 DEF Find, TaskStage
      <4> QED BY <2>6, <4>1, <4>2, <4>3
    <3>2. task' \in TaskType
      BY <2>0, <3>1, GotoType, EndType
    <3>3. CASE Wake
      BY <3>2, <3>3 DEF Wake, TaskType
    <3>4. CASE Inspect
      <4>1. backoff' \in 1..MaxBackoff /\ child' \in Process \cup {NoProcess}
        BY <3>4, BackoffAssumption DEF Inspect, FindsRunning, FindsEnded, FindsNone
      <4>2. UNCHANGED <<keepalive, alive, remote, lastStarted, works, hung>>
        BY <3>4 DEF Inspect, FindsRunning, FindsEnded, FindsNone
      <4>3. stray' \in SUBSET Process
        BY <3>4 DEF Inspect, FindsRunning, FindsEnded, FindsNone, GiveUp, OutOfReach
      <4> QED BY <3>2, <4>1, <4>2, <4>3 DEF TaskType
    <3>5. CASE ReportLost
      BY <3>2, <3>5 DEF ReportLost, TaskType
    <3>6. CASE Find
      <4>1. remote' \in [supported : BOOLEAN, online : BOOLEAN]
        BY <3>6 DEF Find
      <4> QED BY <3>2, <3>6, <4>1 DEF Find, TaskType
    <3>7. CASE ReportFailed
      BY <3>2, <3>7 DEF ReportFailed, TaskType
    <3> QED BY <2>6, <3>3, <3>4, <3>5, <3>6, <3>7
  <2>7. CASE Wait \/ Retry
    <3>1. Goto(Keeper, "finding") \/ Goto(Keeper, "idle")
      BY <2>7 DEF Wait, Retry, Elapse
    <3>2. task' \in TaskType
      BY <2>0, <3>1, GotoType DEF TaskStage
    <3>3. backoff' \in 1..MaxBackoff
      BY <2>7, BackoffAssumption DEF Wait, Retry, Elapse, Double
    <3>4. UNCHANGED <<keepalive, child, alive, stray, remote, lastStarted, works, hung>>
      BY <2>7 DEF Wait, Retry
    <3> QED BY <3>2, <3>3, <3>4 DEF TaskType
  <2>8. CASE DaemonRestart
    BY <2>8 DEF DaemonRestart
  <2>9. CASE CodexChanges \/ \E p \in Process : Exit(p)
    BY <2>9 DEF CodexChanges, Exit
  <2>10. CASE \E t \in Task : Hang(t) \/ HangEnds(t)
    BY <2>10 DEF Hang, HangEnds
  <2>11. CASE UNCHANGED vars
    BY <2>11 DEF vars
  <2> QED BY <2>0, <2>1, <2>2, <2>3, <2>4, <2>5, <2>6, <2>7, <2>8, <2>9, <2>10, <2>11
          DEF RemoteNext, Handle, Keep, Task
<1> QED BY <1>1, <1>2, PTL DEF RemoteSpec

---------------------------------------------------------------------------
(* A start that is under way is the only one, and has found nothing running *)
(* but what is out of reach.                                               *)
Starting(t) == task[t].pc = "spawning"

SlotInv ==
    /\ alive \ stray \subseteq {child}
    /\ \A t \in Task : Starting(t) => alive \subseteq stray
    /\ \A t, u \in Task : Starting(t) /\ Starting(u) => t = u

(* A step that starts no start and puts nothing into the slot keeps        *)
(* SlotInv, if it removes from the slot only what does not run or is given *)
(* up, and takes nothing back.                                             *)
LEMMA QuietStep ==
  ASSUME SlotInv, \A t \in Task : Starting(t)' => Starting(t),
         alive' \ stray' \subseteq alive \ stray, alive' \ stray' \subseteq {child'}
  PROVE  SlotInv'
  BY DEF SlotInv, Starting

(* The slot never loses a running process.                                 *)
THEOREM SlotInvariant == RemoteSpec => []SlotInv
<1>1. RemoteInit => SlotInv
  BY DEF RemoteInit, SlotInv, Starting, Idle
<1>2. RemoteTypeOK /\ SlotInv /\ [RemoteNext]_vars => SlotInv'
  <2> SUFFICES ASSUME RemoteTypeOK, SlotInv, [RemoteNext]_vars PROVE SlotInv'
    OBVIOUS
  <2>0. task \in TaskType /\ Keeper \in Task
    BY DEF RemoteTypeOK, TaskType, Task
  <2>1. ASSUME NEW t \in Task, Grab(t) PROVE SlotInv'
    <3>1. \A u \in Task : task'[u].pc = IF u = t THEN "spawning" ELSE task[u].pc
      BY <2>0, <2>1, GotoType DEF Grab, TaskStage
    <3>2. \A u \in Task : ~Starting(u)
      BY <2>1 DEF Grab, Unlocked, At, Starting
    <3>3. alive' \subseteq stray' /\ UNCHANGED <<alive, child>>
      BY <2>1 DEF Grab, GiveUp, SlotInv
    <3> QED BY <3>1, <3>2, <3>3 DEF SlotInv, Starting
  <2>2. ASSUME NEW t \in Task, Spawn(t) PROVE SlotInv'
    <3>1. \A u \in Task : task'[u].pc = IF u = t THEN "started" ELSE task[u].pc
      BY <2>0, <2>2, GotoType DEF Spawn, TaskStage
    <3>2. Starting(t) /\ alive \subseteq stray
      BY <2>2 DEF Spawn, At, Starting, SlotInv
    <3>3. \A u \in Task : ~Starting(u)'
      BY <3>1, <3>2 DEF SlotInv, Starting
    <3>4. alive' \ stray' \subseteq {child'}
      BY <2>2, <3>2 DEF Spawn
    <3> QED BY <3>3, <3>4 DEF SlotInv
  <2>3. ASSUME NEW t \in Task, AlreadyRuns(t) \/ SpawnFails(t) \/ ReportOnline(t)
        PROVE  SlotInv'
    <3>1. /\ \A u \in Task : Starting(u)' => Starting(u)
          /\ ~Starting(t)'
      BY <2>0, <2>3, GotoType, EndType
         DEF AlreadyRuns, SpawnFails, ReportOnline, TaskStage, Starting
    <3>2. CASE AlreadyRuns(t) \/ ReportOnline(t)
      BY <3>2, <3>1, QuietStep DEF AlreadyRuns, ReportOnline, SlotInv
    <3>3. CASE SpawnFails(t)
      <4>1. \A u \in Task : ~Starting(u)'
        BY <3>1, <3>3 DEF SpawnFails, At, SlotInv, Starting
      <4> QED BY <3>3, <4>1 DEF SpawnFails, SlotInv
    <3> QED BY <2>3, <3>2, <3>3
  <2>4. ASSUME NEW r \in Requester, NEW request \in Request, Ask(r, request)
        PROVE  SlotInv'
    <3>1. \A u \in Task : Starting(u)' => Starting(u)
      BY <2>4 DEF Ask, Starting, RemoteTypeOK
    <3> QED BY <2>4, <3>1, QuietStep DEF Ask, SlotInv
  <2>5. ASSUME NEW r \in Requester, Check(r) \/ Save(r) \/ SaveFails(r) \/ ReportStopped(r) \/ Pair(r)
        PROVE  SlotInv'
    <3>1. \/ End(r)
          \/ \E pc \in {"pairing", "saving", "starting", "taking"} : Goto(r, pc)
      <4>1. CASE Save(r)
        BY <4>1 DEF Save
      <4>2. CASE Check(r)
        BY <4>2 DEF Check
      <4>3. CASE SaveFails(r) \/ ReportStopped(r) \/ Pair(r)
        BY <4>3 DEF SaveFails, ReportStopped, Pair
      <4> QED BY <2>5, <4>1, <4>2, <4>3
    <3>2. \A u \in Task : Starting(u)' => Starting(u)
      BY <2>0, <3>1, GotoType, EndType DEF TaskStage, Starting, Task
    <3>3. UNCHANGED <<alive, stray, child>>
      BY <2>5 DEF Check, Save, SaveFails, ReportStopped, Pair
    <3> QED BY <3>2, <3>3, QuietStep DEF SlotInv
  <2>6. ASSUME NEW r \in Requester, Take(r) PROVE SlotInv'
    <3>1. \A u \in Task : Starting(u)' => Starting(u)
      BY <2>0, <2>6, GotoType DEF Take, TaskStage, Starting, Task
    <3>2. alive' \subseteq stray' /\ alive' \ stray' \subseteq alive \ stray
      BY <2>6 DEF Take, GiveUp, SlotInv
    <3> QED BY <3>1, <3>2, QuietStep
  <2>7. CASE Wake \/ Inspect \/ ReportLost \/ Wait \/ Find \/ ReportFailed \/ Retry
    <3>1. End(Keeper) \/ \E pc \in TaskStage \ {"spawning"} : Goto(Keeper, pc)
      BY <2>7 DEF Wake, Inspect, FindsRunning, FindsEnded, FindsNone, ReportLost, Wait, Find,
                  ReportFailed, Retry, Elapse, TaskStage
    <3>2. \A u \in Task : Starting(u)' => Starting(u)
      BY <2>0, <3>1, GotoType, EndType DEF Starting
    <3>3. /\ alive' \ stray' \subseteq alive \ stray
          /\ child' = child \/ alive' \subseteq stray'
      BY <2>7 DEF Wake, Inspect, FindsRunning, FindsEnded, FindsNone, ReportLost, Wait, Find,
                  ReportFailed, Retry, GiveUp, SlotInv
    <3> QED BY <3>2, <3>3, QuietStep DEF SlotInv
  <2>8. CASE DaemonRestart
    BY <2>8 DEF DaemonRestart, SlotInv, Starting, Idle
  <2>9. CASE CodexChanges \/ \E p \in Process : Exit(p)
    BY <2>9, QuietStep DEF CodexChanges, Exit, SlotInv, Starting
  <2>10. CASE \E t \in Task : Hang(t) \/ HangEnds(t)
    BY <2>10, QuietStep DEF Hang, HangEnds, SlotInv, Starting
  <2>11. CASE UNCHANGED vars
    BY <2>11, QuietStep DEF vars, SlotInv, Starting
  <2> QED BY <2>0, <2>1, <2>2, <2>3, <2>4, <2>5, <2>6, <2>7, <2>8, <2>9, <2>10, <2>11
          DEF RemoteNext, Handle, Keep, Ensure, Task
<1> QED BY <1>1, <1>2, RemoteTypeCorrect, PTL DEF RemoteSpec

(* At most one process runs besides those the daemon gave up, and          *)
(* remote.stop reaches it.                                                 *)
THEOREM ChildReachableHolds == RemoteSpec => []ChildReachable
<1>1. SlotInv => ChildReachable
  BY DEF SlotInv, ChildReachable
<1> QED BY <1>1, SlotInvariant, PTL

---------------------------------------------------------------------------
(* What remote.stop may promise.                                           *)

(* The keeper's round is over, or will not start a process any more.       *)
Resting == task[Keeper].pc \in {"idle", "started", "failed", "retrying"}

(* The flag is cleared only then. *)
ClearedAtRest == keepalive /\ ~keepalive' => Resting

RestInv == ~keepalive => Resting

(* What a request does leaves the keeper's round as it is. *)
LEMMA RequestsLeaveKeeper ==
  ASSUME RemoteTypeOK, NEW r \in Requester,
         Handle(r) \/ \E request \in Request : Ask(r, request)
  PROVE  task'[Keeper] = task[Keeper]
<1>1. r # Keeper /\ task \in TaskType /\ Keeper \in Task
  BY KeeperAssumption DEF RemoteTypeOK, TaskType, Task
<1>2. \A pc : Goto(r, pc) => task'[Keeper] = task[Keeper]
  BY <1>1 DEF Goto, TaskType
<1>3. End(r) => task'[Keeper] = task[Keeper]
  BY <1>1 DEF End, TaskType
<1>4. CASE \E request \in Request : Ask(r, request)
  BY <1>1, <1>4 DEF Ask, TaskType
<1>5. CASE Check(r) \/ SaveFails(r) \/ Take(r) \/ ReportStopped(r) \/ Pair(r)
  BY <1>2, <1>3, <1>5 DEF Check, SaveFails, Take, ReportStopped, Pair
<1>6. CASE Save(r)
  BY <1>2, <1>3, <1>6 DEF Save
<1>7. CASE Ensure(r)
  BY <1>1, <1>2, <1>3, <1>7 DEF Ensure, Grab, AlreadyRuns, Spawn, SpawnFails, ReportOnline
<1> QED BY <1>4, <1>5, <1>6, <1>7 DEF Handle

(* A keeper that rests does not begin a round while keepalive is off.      *)
LEMMA RestInvariant == RemoteSpec /\ [][ClearedAtRest]_vars => []RestInv
<1>1. RemoteInit => RestInv
  BY DEF RemoteInit, RestInv, Resting, Idle, Task
<1>2. RemoteTypeOK /\ RestInv /\ [RemoteNext]_vars /\ [ClearedAtRest]_vars => RestInv'
  <2> SUFFICES ASSUME RemoteTypeOK, RestInv, [RemoteNext]_vars, [ClearedAtRest]_vars,
                      ~keepalive'
               PROVE  Resting'
    BY DEF RestInv
  <2>1. Resting
    BY DEF RestInv, ClearedAtRest, vars
  <2>2. CASE task'[Keeper] = task[Keeper]
    BY <2>1, <2>2 DEF Resting
  <2>3. ASSUME NEW r \in Requester, Handle(r) \/ \E request \in Request : Ask(r, request)
        PROVE  Resting'
    BY <2>2, <2>3, RequestsLeaveKeeper
  <2>4. CASE Keep
    <3>0. task \in TaskType /\ Keeper \in Task
      BY DEF RemoteTypeOK, TaskType, Task
    <3>1. ~Wake
      BY DEF Wake
    <3>2. ~Inspect /\ ~ReportLost /\ ~Wait /\ ~Find
      BY <2>1 DEF Inspect, FindsRunning, FindsEnded, FindsNone, ReportLost, Wait, Find,
                  Resting, At
    <3>3. Ensure(Keeper) => ReportOnline(Keeper)
      BY <2>1 DEF Ensure, Grab, AlreadyRuns, Spawn, SpawnFails, Resting, At
    <3>4. End(Keeper) \/ Goto(Keeper, "retrying") \/ Goto(Keeper, "idle")
      BY <2>4, <3>1, <3>2, <3>3 DEF Keep, ReportOnline, ReportFailed, Retry, Elapse
    <3> QED BY <3>0, <3>4, GotoType, EndType DEF Resting, TaskStage
  <2>5. CASE DaemonRestart
    BY <2>5 DEF DaemonRestart, Resting, Idle, Task
  <2>6. CASE \/ CodexChanges
             \/ \E p \in Process : Exit(p)
             \/ \E t \in Task : Hang(t) \/ HangEnds(t)
             \/ UNCHANGED vars
    BY <2>2, <2>6 DEF CodexChanges, Exit, Hang, HangEnds, vars
  <2> QED BY <2>3, <2>4, <2>5, <2>6 DEF RemoteNext
<1> QED BY <1>1, <1>2, RemoteTypeCorrect, PTL DEF RemoteSpec

(* "remote-control stopped" holds of every behaviour in which the flag is  *)
(* never cleared in the middle of a round of the keeper that may yet start *)
(* a process; the run "remote_stop" shows such a round.                    *)
THEOREM StopHoldsAtRest == RemoteSpec /\ [][ClearedAtRest]_vars => StopHolds
<1>1. RemoteTypeOK /\ RestInv /\ [RemoteNext]_vars =>
        [~keepalive /\ (\A r \in Requester : At(r, "idle")) => alive' \subseteq alive]_vars
  <2> SUFFICES ASSUME RemoteTypeOK, RestInv, RemoteNext, ~keepalive,
                      \A r \in Requester : At(r, "idle")
               PROVE  alive' \subseteq alive
    OBVIOUS
  <2>1. \A t \in Task : ~At(t, "spawning")
    BY DEF Task, At, RestInv, Resting
  <2>2. \A t \in Task : ~Spawn(t)
    BY <2>1 DEF Spawn
  <2>3. ASSUME NEW t \in Task, Ensure(t) PROVE alive' = alive
    BY <2>2, <2>3 DEF Ensure, Grab, AlreadyRuns, SpawnFails, ReportOnline
  <2>4. ASSUME NEW r \in Requester, Handle(r) \/ \E request \in Request : Ask(r, request)
        PROVE  alive' \subseteq alive
    BY <2>3, <2>4 DEF Handle, Ask, Check, Save, SaveFails, Take, ReportStopped, Pair, Task
  <2>5. CASE Keep
    BY <2>3, <2>5 DEF Keep, Wake, Inspect, FindsRunning, FindsEnded, FindsNone, ReportLost, Wait,
                      Find, ReportFailed, Retry, Task
  <2>6. CASE \/ DaemonRestart
             \/ CodexChanges
             \/ \E p \in Process : Exit(p)
             \/ \E t \in Task : Hang(t) \/ HangEnds(t)
    BY <2>6 DEF DaemonRestart, CodexChanges, Exit, Hang, HangEnds
  <2> QED BY <2>4, <2>5, <2>6 DEF RemoteNext
<1> QED BY <1>1, RemoteTypeCorrect, RestInvariant, PTL DEF RemoteSpec, StopHolds

---------------------------------------------------------------------------
(* How a request gets on.                                                  *)

(* How many steps a request is from its reply, at most. *)
ToReply(pc) ==
    CASE pc = "checking"                          -> 5
      [] pc = "saving"                            -> 4
      [] pc \in {"starting", "taking", "pairing"} -> 3
      [] pc \in {"spawning", "stopping"}          -> 2
      [] pc = "started"                           -> 1
      [] OTHER                                    -> 0

(* What a task does leaves the stages of the others as they are. *)
LEMMA OthersStay ==
  ASSUME RemoteTypeOK, NEW t \in Task, NEW r \in Task, r # t
  PROVE  /\ \A pc : Goto(t, pc) => task'[r] = task[r]
         /\ End(t) => task'[r] = task[r]
  BY DEF RemoteTypeOK, Goto, End

(* Each step of a request brings it nearer to its reply: it waits for the  *)
(* lock once, and goes back to no earlier stage, whatever the keeper, the  *)
(* other requests and the processes do meanwhile; a command that hangs     *)
(* keeps it where it is.  With the fairness of the lock this is why        *)
(* Replied holds.                                                          *)
THEOREM RequestsAdvance ==
    RemoteSpec => [][\A r \in Requester :
                        ~At(r, "idle") /\ task'[r] # task[r]
                        => task'[r].pc = "idle"
                           \/ ToReply(task'[r].pc) < ToReply(task[r].pc)]_vars
<1>1. RemoteTypeOK /\ [RemoteNext]_vars =>
        [\A r \in Requester :
            ~At(r, "idle") /\ task'[r] # task[r]
            => task'[r].pc = "idle"
               \/ ToReply(task'[r].pc) < ToReply(task[r].pc)]_vars
  <2> SUFFICES ASSUME RemoteTypeOK, RemoteNext, NEW r \in Requester,
                      ~At(r, "idle"), task'[r] # task[r], task'[r].pc # "idle"
               PROVE  ToReply(task'[r].pc) < ToReply(task[r].pc)
    OBVIOUS
  <2>0. task \in TaskType /\ r \in Task /\ Keeper \in Task /\ r # Keeper
    BY KeeperAssumption DEF RemoteTypeOK, TaskType, Task
  <2>1. ~End(r)
    BY <2>0 DEF End, Idle, TaskType
  <2>2. \A pc : Goto(r, pc) => task'[r].pc = pc
    BY <2>0 DEF Goto, TaskType
  <2>3. CASE Handle(r)
    <3>1. CASE Check(r)
      <4>1. At(r, "checking") /\ (Goto(r, "pairing") \/ Goto(r, "saving"))
        BY <3>1, <2>1 DEF Check
      <4> QED BY <4>1, <2>2 DEF At, ToReply
    <3>2. CASE Save(r)
      <4>1. At(r, "saving") /\ (Goto(r, "starting") \/ Goto(r, "taking"))
        BY <3>2, <2>1 DEF Save
      <4> QED BY <4>1, <2>2 DEF At, ToReply
    <3>3. CASE Take(r)
      <4>1. At(r, "taking") /\ Goto(r, "stopping")
        BY <3>3 DEF Take
      <4> QED BY <4>1, <2>2 DEF At, ToReply
    <3>4. CASE Ensure(r)
      <4>1. \/ At(r, "starting") /\ Goto(r, "spawning")
            \/ At(r, "spawning") /\ Goto(r, "started")
        BY <3>4, <2>0, <2>1 DEF Ensure, Grab, AlreadyRuns, Spawn, SpawnFails, ReportOnline
      <4> QED BY <4>1, <2>2 DEF At, ToReply
    <3>5. ~SaveFails(r) /\ ~ReportStopped(r) /\ ~Pair(r)
      BY <2>1 DEF SaveFails, ReportStopped, Pair
    <3> QED BY <2>3, <3>1, <3>2, <3>3, <3>4, <3>5 DEF Handle
  <2>4. ~(\E request \in Request : Ask(r, request))
    BY DEF Ask
  <2>5. ASSUME NEW s \in Requester, s # r,
               Handle(s) \/ \E request \in Request : Ask(s, request)
        PROVE  FALSE
    <3>0. s \in Task
      BY DEF Task
    <3>1. CASE \E request \in Request : Ask(s, request)
      BY <3>0, <3>1, <2>0, <2>5 DEF Ask, TaskType
    <3>2. CASE Check(s) \/ Save(s) \/ SaveFails(s) \/ Take(s) \/ ReportStopped(s) \/ Pair(s)
      BY <3>0, <3>2, <2>0, <2>5, OthersStay
         DEF Check, Save, SaveFails, Take, ReportStopped, Pair
    <3>3. CASE Ensure(s)
      BY <3>0, <3>3, <2>0, <2>5, OthersStay
         DEF Ensure, Grab, AlreadyRuns, Spawn, SpawnFails, ReportOnline
    <3> QED BY <2>5, <3>1, <3>2, <3>3 DEF Handle
  <2>6. ~Keep
    <3>1. ~Ensure(Keeper)
      BY <2>0, OthersStay DEF Ensure, Grab, AlreadyRuns, Spawn, SpawnFails, ReportOnline
    <3> QED BY <3>1, <2>0, OthersStay
            DEF Keep, Wake, Inspect, FindsRunning, FindsEnded, FindsNone, ReportLost, Wait, Find,
                ReportFailed, Retry, Elapse
  <2>7. ~DaemonRestart
    BY <2>0 DEF DaemonRestart, Idle
  <2>8. /\ ~CodexChanges
        /\ ~(\E p \in Process : Exit(p))
        /\ ~(\E t \in Task : Hang(t) \/ HangEnds(t))
    BY DEF CodexChanges, Exit, Hang, HangEnds
  <2> QED BY <2>3, <2>4, <2>5, <2>6, <2>7, <2>8 DEF RemoteNext
<1> QED BY <1>1, RemoteTypeCorrect, PTL DEF RemoteSpec
=============================================================================
