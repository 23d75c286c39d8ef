--------------------------- MODULE RemoteSupervisor ---------------------------
(***************************************************************************)
(* The daemon's care for the Codex remote-control process: the keeper      *)
(* (run_remote_keepalive) looks at it every five seconds and starts it     *)
(* again, the RPC tasks of remote.start, remote.stop and remote.pair act   *)
(* on it at any time.  They share the slot remote_child, whose lock is     *)
(* held while a process is being started, the configuration flag           *)
(* remote_control_keepalive, and the status record.                        *)
(*                                                                         *)
(* save_config is one step here (HealthRefresh.tla has its own), but the   *)
(* copy that precedes it is another: a request that changes something else *)
(* writes back the flag it copied.                                         *)
(*                                                                         *)
(* Codex's commands have no timeout, except the one remote.stop runs last: *)
(* any of them may hang, the one under the lock (features list, in         *)
(* wrapped_command) too.  A process whose state cannot be read, or that    *)
(* cannot be killed, leaves the slot and runs on (nothing sets             *)
(* kill_on_drop).                                                          *)
(***************************************************************************)
EXTENDS Integers, FiniteSets

CONSTANTS
    Requester,      \* RPC tasks that run at the same time
    Keeper,         \* the task of run_remote_keepalive
    Process,        \* process ids; one may be used again
    NoProcess,
    MaxBackoff,     \* the cap of the delay, 300 s
    MaxStrays       \* bound: processes out of reach at the same time

Task == Requester \cup {Keeper}

ASSUME KeeperAssumption  == Keeper \notin Requester
ASSUME ProcessAssumption == NoProcess \notin Process
ASSUME BackoffAssumption == MaxBackoff \in Nat \ {0}
ASSUME StraysAssumption  == MaxStrays \in Nat

VARIABLES
    keepalive,      \* config.remote_control_keepalive
    child,          \* AppState.remote_child
    alive,          \* the processes that this daemon started and that run
    stray,          \* history: those of them that it gave up while they ran
    remote,         \* AppState.remote, what the status shows of it
    task,           \* what each task is in the middle of
    hung,           \* environment: the tasks whose Codex command hangs
    backoff,        \* the keeper's delay before its next attempt
    lastStarted,    \* the keeper has started a process (or found one running)
    works           \* environment: Codex is installed, supports
                    \* remote-control and can be started

vars == <<keepalive, child, alive, stray, remote, task, hung, backoff, lastStarted, works>>

Request == {"start", "stop", "pair", "other"}

TaskStage == {"idle", "checking", "saving", "pairing", "taking", "stopping",
              "inspecting", "lost", "waiting", "finding", "starting", "spawning",
              "started", "failed", "retrying"}

(* Where a task waits for Codex, with no limit. *)
InCodex == {"checking", "pairing", "finding", "spawning"}

Idle == [pc |-> "idle", request |-> "other", keepalive |-> FALSE]

RemoteTypeOK ==
    /\ keepalive \in BOOLEAN
    /\ child \in Process \cup {NoProcess}
    /\ alive \in SUBSET Process
    /\ stray \in SUBSET Process
    /\ remote \in [supported : BOOLEAN, online : BOOLEAN]
    /\ task \in [Task -> [pc : TaskStage, request : Request, keepalive : BOOLEAN]]
    /\ hung \in SUBSET Task
    /\ backoff \in 1..MaxBackoff
    /\ lastStarted \in BOOLEAN
    /\ works \in BOOLEAN

RemoteInit ==
    /\ keepalive \in BOOLEAN
    /\ child = NoProcess
    /\ alive = {}
    /\ stray = {}
    /\ remote = [supported |-> FALSE, online |-> FALSE]
    /\ task = [t \in Task |-> Idle]
    /\ hung = {}
    /\ backoff = 1
    /\ lastStarted = FALSE
    /\ works \in BOOLEAN

At(t, pc) == task[t].pc = pc

Goto(t, pc) == task' = [task EXCEPT ![t].pc = pc]

End(t) == task' = [task EXCEPT ![t] = Idle]

(* mutant: the keeper keeps the lock for the rest of its round *)
UnlockedByRound ==
    /\ \A t \in Task : ~At(t, "spawning")
    /\ task[Keeper].pc \notin {"lost", "waiting", "finding", "starting"}

(* The lock of the slot is kept across an await only while starting. *)
Unlocked == \A t \in Task : ~At(t, "spawning")

(* try_wait or kill fails for a process that runs. *)
OutOfReach == child \in alive /\ Cardinality(stray) < MaxStrays

(* It is given up. *)
GiveUp == OutOfReach /\ stray' = stray \cup {child}

---------------------------------------------------------------------------
(* ensure_remote_started, by the keeper or by remote.start.                *)

(* mutant: the lock is not kept while starting *)
HastyGrab(t) ==
    /\ At(t, "starting")
    /\ (child \notin alive /\ UNCHANGED stray) \/ GiveUp
    /\ Goto(t, "spawning")
    /\ UNCHANGED <<keepalive, child, alive, remote, backoff, lastStarted, works, hung>>

(* Nothing runs, or try_wait failed: the lock is kept. *)
Grab(t) ==
    /\ At(t, "starting")
    /\ Unlocked
    /\ (child \notin alive /\ UNCHANGED stray) \/ GiveUp
    /\ Goto(t, "spawning")
    /\ UNCHANGED <<keepalive, child, alive, remote, backoff, lastStarted, works, hung>>

(* The process in the slot runs: nothing to do, nothing is written. *)
AlreadyRuns(t) ==
    /\ At(t, "starting")
    /\ Unlocked
    /\ child \in alive
    /\ End(t)
    /\ lastStarted' = (lastStarted \/ t = Keeper)
    /\ UNCHANGED <<keepalive, child, alive, stray, remote, backoff, works, hung>>

(* The process is started and the lock dropped. *)
Spawn(t) ==
    /\ At(t, "spawning")
    /\ t \notin hung
    /\ works
    /\ \E p \in Process \ (alive \cup {child}) :
          child' = p /\ alive' = alive \cup {p}
    /\ Goto(t, "started")
    /\ UNCHANGED <<keepalive, stray, remote, backoff, lastStarted, works, hung>>

(* What was in the slot stays there. *)
SpawnFails(t) ==
    /\ At(t, "spawning")
    /\ t \notin hung
    /\ ~works
    /\ stray' = stray \ {child}
    /\ IF t = Keeper THEN Goto(t, "failed") ELSE End(t)
    /\ UNCHANGED <<keepalive, child, alive, remote, backoff, lastStarted, works, hung>>

(* The status, in a step of its own. *)
ReportOnline(t) ==
    /\ At(t, "started")
    /\ remote' = [supported |-> TRUE, online |-> TRUE]
    /\ End(t)
    /\ lastStarted' = (lastStarted \/ t = Keeper)
    /\ UNCHANGED <<keepalive, child, alive, stray, backoff, works, hung>>

Ensure(t) ==
    Grab(t) \/ AlreadyRuns(t) \/ Spawn(t) \/ SpawnFails(t) \/ ReportOnline(t)

---------------------------------------------------------------------------
(* RPC tasks.                                                              *)

(* The handler copies the configuration; "other" stands for the requests   *)
(* that save it for another reason.                                        *)
Ask(r, request) ==
    /\ At(r, "idle")
    /\ task' = [task EXCEPT ![r] = [pc |-> IF request = "other" THEN "saving" ELSE "checking",
                                    request |-> request, keepalive |-> keepalive]]
    /\ UNCHANGED <<keepalive, child, alive, stray, remote, backoff, lastStarted, works, hung>>

(* find_real_codex and supports_remote_control. *)
Check(r) ==
    /\ At(r, "checking")
    /\ r \notin hung
    /\ IF ~works THEN End(r)
                 ELSE Goto(r, IF task[r].request = "pair" THEN "pairing" ELSE "saving")
    /\ UNCHANGED <<keepalive, child, alive, stray, remote, backoff, lastStarted, works, hung>>

Save(r) ==
    /\ At(r, "saving")
    /\ \/ task[r].request = "start" /\ keepalive' = TRUE /\ Goto(r, "starting")
       \/ task[r].request = "stop"  /\ keepalive' = FALSE /\ Goto(r, "taking")
       \/ task[r].request = "other" /\ keepalive' = task[r].keepalive /\ End(r)
    /\ UNCHANGED <<child, alive, stray, remote, backoff, lastStarted, works, hung>>

SaveFails(r) ==
    /\ At(r, "saving")
    /\ End(r)
    /\ UNCHANGED <<keepalive, child, alive, stray, remote, backoff, lastStarted, works, hung>>

(* remote.stop empties the slot and kills what was in it, under the lock;  *)
(* that the kill fails changes nothing else.                               *)
Take(r) ==
    /\ At(r, "taking")
    /\ Unlocked
    /\ child' = NoProcess
    /\ \/ alive' = alive \ {child} /\ UNCHANGED stray
       \/ GiveUp /\ UNCHANGED alive
    /\ Goto(r, "stopping")
    /\ UNCHANGED <<keepalive, remote, backoff, lastStarted, works, hung>>

(* Codex's own stop command ended, or its ten seconds did.                 *)
ReportStopped(r) ==
    /\ At(r, "stopping")
    /\ remote' = [supported |-> TRUE, online |-> FALSE]
    /\ End(r)
    /\ UNCHANGED <<keepalive, child, alive, stray, backoff, lastStarted, works, hung>>

(* remote.pair: the command succeeds or fails. *)
Pair(r) ==
    /\ At(r, "pairing")
    /\ r \notin hung
    /\ remote' \in {remote, [remote EXCEPT !.supported = TRUE]}
    /\ End(r)
    /\ UNCHANGED <<keepalive, child, alive, stray, backoff, lastStarted, works, hung>>

Handle(r) ==
    \/ Check(r)
    \/ Save(r)
    \/ SaveFails(r)
    \/ Take(r)
    \/ ReportStopped(r)
    \/ Pair(r)
    \/ Ensure(r)

---------------------------------------------------------------------------
(* The keeper.                                                             *)

Double == IF 2 * backoff > MaxBackoff THEN MaxBackoff ELSE 2 * backoff

(* mutant: the delay grows without limit *)
Grow(pc) == backoff' = 2 * backoff /\ Goto(Keeper, pc)

(* The delay has passed; the next one is longer. *)
Elapse(pc) == backoff' = Double /\ Goto(Keeper, pc)

(* Five seconds passed: the configuration is copied. *)
Wake ==
    /\ At(Keeper, "idle")
    /\ keepalive
    /\ Goto(Keeper, "inspecting")
    /\ UNCHANGED <<keepalive, child, alive, stray, remote, backoff, lastStarted, works, hung>>

(* It runs.  After thirty seconds since the keeper last started one, the   *)
(* delay starts over.                                                      *)
FindsRunning ==
    /\ At(Keeper, "inspecting")
    /\ Unlocked
    /\ child \in alive
    /\ backoff' \in {backoff} \cup (IF lastStarted THEN {1} ELSE {})
    /\ End(Keeper)
    /\ UNCHANGED <<keepalive, child, alive, stray, remote, lastStarted, works, hung>>

(* mutant: a process that has ended is taken for a running one *)
FindsPresent ==
    /\ At(Keeper, "inspecting")
    /\ Unlocked
    /\ child # NoProcess
    /\ child \notin alive
    /\ End(Keeper)
    /\ UNCHANGED <<keepalive, child, alive, stray, remote, backoff, lastStarted, works, hung>>

(* It has ended, or try_wait failed: the slot is emptied. *)
FindsEnded ==
    /\ At(Keeper, "inspecting")
    /\ Unlocked
    /\ child # NoProcess
    /\ (child \notin alive /\ UNCHANGED stray) \/ GiveUp
    /\ child' = NoProcess
    /\ Goto(Keeper, "lost")
    /\ UNCHANGED <<keepalive, alive, remote, backoff, lastStarted, works, hung>>

FindsNone ==
    /\ At(Keeper, "inspecting")
    /\ Unlocked
    /\ child = NoProcess
    /\ Goto(Keeper, "finding")
    /\ UNCHANGED <<keepalive, child, alive, stray, remote, backoff, lastStarted, works, hung>>

ReportLost ==
    /\ At(Keeper, "lost")
    /\ remote' = [remote EXCEPT !.online = FALSE]
    /\ Goto(Keeper, "waiting")
    /\ UNCHANGED <<keepalive, child, alive, stray, backoff, lastStarted, works, hung>>

Wait ==
    /\ At(Keeper, "waiting")
    /\ Elapse("finding")
    /\ UNCHANGED <<keepalive, child, alive, stray, remote, lastStarted, works, hung>>

(* find_real_codex finds none, supports_remote_control says no (only this  *)
(* is reported), or the start goes ahead: the flag is not looked at again. *)
Find ==
    /\ At(Keeper, "finding")
    /\ Keeper \notin hung
    /\ IF works
       THEN Goto(Keeper, "starting") /\ UNCHANGED remote
       ELSE End(Keeper) /\ remote' \in {remote, [remote EXCEPT !.supported = FALSE]}
    /\ UNCHANGED <<keepalive, child, alive, stray, backoff, lastStarted, works, hung>>

ReportFailed ==
    /\ At(Keeper, "failed")
    /\ remote' = [supported |-> TRUE, online |-> FALSE]
    /\ Goto(Keeper, "retrying")
    /\ UNCHANGED <<keepalive, child, alive, stray, backoff, lastStarted, works, hung>>

Retry ==
    /\ At(Keeper, "retrying")
    /\ Elapse("idle")
    /\ UNCHANGED <<keepalive, child, alive, stray, remote, lastStarted, works, hung>>

Inspect == FindsRunning \/ FindsEnded \/ FindsNone

Keep == Wake \/ Inspect \/ ReportLost \/ Wait \/ Find \/ Ensure(Keeper) \/ ReportFailed \/ Retry

---------------------------------------------------------------------------
(* The rest of the world.                                                  *)

Exit(p) ==
    /\ p \in alive
    /\ alive' = alive \ {p}
    /\ stray' = stray \ {p}
    /\ UNCHANGED <<keepalive, child, remote, task, backoff, lastStarted, works, hung>>

CodexChanges ==
    /\ works' = ~works
    /\ UNCHANGED <<keepalive, child, alive, stray, remote, task, backoff, lastStarted, hung>>

(* A Codex command hangs, perhaps for ever; it ends at last, or somebody   *)
(* ends it.                                                                *)
Hang(t) ==
    /\ task[t].pc \in InCodex
    /\ hung' = hung \cup {t}
    /\ UNCHANGED <<keepalive, child, alive, stray, remote, task, backoff, lastStarted, works>>

HangEnds(t) ==
    /\ t \in hung
    /\ hung' = hung \ {t}
    /\ UNCHANGED <<keepalive, child, alive, stray, remote, task, backoff, lastStarted, works>>

(* The daemon starts again.  A process that outlives it is out of its      *)
(* reach, and no longer looked at here.                                    *)
DaemonRestart ==
    /\ child' = NoProcess
    /\ alive' = {}
    /\ stray' = {}
    /\ hung' = {}
    /\ remote' = [supported |-> FALSE, online |-> FALSE]
    /\ task' = [t \in Task |-> Idle]
    /\ backoff' = 1
    /\ lastStarted' = FALSE
    /\ UNCHANGED <<keepalive, works>>

RemoteNext ==
    \/ \E r \in Requester : Handle(r) \/ \E request \in Request : Ask(r, request)
    \/ Keep
    \/ \E p \in Process : Exit(p)
    \/ \E t \in Task : Hang(t) \/ HangEnds(t)
    \/ CodexChanges
    \/ DaemonRestart

RemoteSpec == RemoteInit /\ [][RemoteNext]_vars

(* Commands that do not hang end, timers fire, and the lock is granted in  *)
(* the order it was asked for (tokio's Mutex is fair), which makes waiting *)
(* for it strong.  That a command hangs, or stops hanging, is not fair.    *)
RemoteFairness ==
    /\ WF_vars(Keep)
    /\ SF_vars(Inspect)
    /\ SF_vars(Grab(Keeper) \/ AlreadyRuns(Keeper))
    /\ \A r \in Requester : /\ WF_vars(Handle(r))
                            /\ SF_vars(Grab(r) \/ AlreadyRuns(r) \/ Take(r))

FairRemoteSpec == RemoteSpec /\ RemoteFairness

---------------------------------------------------------------------------
(* Properties.                                                             *)

(* No process is lost by a race: what the daemon started and still runs is *)
(* in the slot, where remote.stop reaches it, unless the daemon gave it up *)
(* because the system would not tell its state or kill it.  So there is at *)
(* most one besides those, however requests and the keeper overlap         *)
(* (ensure_remote_started keeps the lock across the start).                *)
ChildReachable == alive \ stray \subseteq {child}

(* "Login reboot restores the daemon and enabled remote-control process"   *)
(* (docs/testing.md): while it is enabled, Codex can be started, none of   *)
(* its commands hangs and the daemon stays up, a process in the slot runs  *)
(* again and again, whatever ends it.                                      *)
KeptAlive ==
    <>[](keepalive /\ works /\ hung = {}) /\ <>[][~DaemonRestart]_vars => []<>(child \in alive)

(* A request is answered unless Codex hangs in it, or in a start that      *)
(* keeps the lock of the slot: nothing else can hold it up for ever,       *)
(* neither another request nor the keeper's own use of the slot.           *)
Replied ==
    \A r \in Requester :
        ~At(r, "idle") ~> \/ At(r, "idle")
                         \/ r \in hung
                         \/ \E t \in hung : At(t, "spawning")

(* What remote.stop replies, "remote-control stopped" (main.rs): no        *)
(* process is started while keepalive is off and no request is under way.  *)
StopHolds ==
    [][~keepalive /\ (\A r \in Requester : At(r, "idle")) => alive' \subseteq alive]_vars
=============================================================================
