---------------------------- MODULE HealthRefresh ----------------------------
(***************************************************************************)
(* The daemon's upstream selection and health refresh.                     *)
(*                                                                         *)
(* refresh_once reads the configuration, discovers candidates, copies the  *)
(* published list, probes every candidate and replaces the list.  It runs  *)
(* in main before anything is served, then in the health loop, and in the  *)
(* RPC tasks of refresh, upstream.set and upstream.auto: nothing orders    *)
(* these against each other.  Each await is a step of its own here.        *)
(*                                                                         *)
(* The RPC tasks that change the configuration also read it, change their  *)
(* fields and write the whole record back (save_config).                   *)
(***************************************************************************)
EXTENDS CandidateHealth

CONSTANTS
    Requester,      \* RPC tasks that run at the same time
    Loop,           \* main's first refresh, then the health loop
    Url,            \* the URLs a user may set; one outside Candidate is
                    \* stored, and then rejected by from_url
    NoUrl,
    Stored,         \* the URL kept in the keychain
    Static,         \* candidates found whatever the system settings say
    System,         \* candidates the system settings may name
    Edit,           \* the configuration changes that are requested
    StartConfig     \* the configurations the file may hold at the first start

Task == Requester \cup {Loop}

GuardMode == {"auto", "manual"}

Config == [paused : BOOLEAN, mode : GuardMode, manual : Url \cup {NoUrl},
           keychain : BOOLEAN]

AllEdits ==
    [kind : {"pause"}, paused : BOOLEAN] \cup
    [kind : {"auto"}] \cup
    [kind : {"set"}, manual : Url, keychain : BOOLEAN]

ASSUME TaskAssumption == Loop \notin Requester
ASSUME FoundAssumption == Static \subseteq Candidate /\ System \subseteq Candidate
ASSUME UrlAssumption  == NoUrl \notin Url
ASSUME EditAssumption == Edit \subseteq AllEdits /\ StartConfig \subseteq Config

VARIABLES
    config,         \* AppState.config
    saved,          \* config.toml
    serving,        \* the first refresh is done: relay and RPC are open
    task,           \* the refresh or save each task is in the middle of
    system,         \* environment: the candidates the system settings name
    up,             \* environment: the candidates a probe would pass now
    proven          \* history: candidates a probe passed since the start

refreshVars == <<published, config, saved, serving, task, system, up, proven>>

DefaultConfig == [paused |-> FALSE, mode |-> "auto", manual |-> NoUrl, keychain |-> FALSE]

TaskStage == {"idle", "saving", "stored", "applied", "selected",
              "discovering", "found", "probing"}

Idle == [pc |-> "idle", config |-> DefaultConfig, refresh |-> FALSE, found |-> {},
         previous |-> NoHealth, result |-> NoHealth]

RefreshTypeOK ==
    /\ published \in HealthMap
    /\ config \in Config
    /\ saved \in Config
    /\ serving \in BOOLEAN
    /\ task \in [Task -> [pc : TaskStage, config : Config, refresh : BOOLEAN,
                          found : SUBSET Candidate, previous : HealthMap,
                          result : HealthMap]]
    /\ system \in SUBSET System
    /\ up \in [Candidate -> BOOLEAN]
    /\ proven \in SUBSET Candidate

RefreshInit ==
    /\ published = NoHealth
    /\ config \in StartConfig
    /\ saved = config
    /\ serving = FALSE
    /\ task = [t \in Task |-> Idle]
    /\ system \in SUBSET System
    /\ up \in [Candidate -> BOOLEAN]
    /\ proven = {}

---------------------------------------------------------------------------
(* Saving a configuration.                                                 *)

(* What a handler makes of the configuration it read. *)
Edited(cfg, e) ==
    CASE e.kind = "pause" -> [cfg EXCEPT !.paused = e.paused]
      [] e.kind = "auto"  -> [cfg EXCEPT !.mode = "auto", !.manual = NoUrl, !.keychain = FALSE]
      [] e.kind = "set"   -> [cfg EXCEPT !.mode = "manual", !.keychain = e.keychain,
                                         !.manual = IF e.keychain THEN NoUrl ELSE e.manual]

(* The handler copies the configuration and changes its fields. *)
StartEdit(r, e) ==
    /\ serving
    /\ task[r].pc = "idle"
    /\ task' = [task EXCEPT ![r] = [Idle EXCEPT !.pc = "saving",
                                                !.config = Edited(config, e),
                                                !.refresh = e.kind # "pause"]]
    /\ UNCHANGED <<published, config, saved, serving, system, up, proven>>

(* save_config: the file is replaced, ... *)
Store(r) ==
    /\ task[r].pc = "saving"
    /\ saved' = task[r].config
    /\ task' = [task EXCEPT ![r].pc = "stored"]
    /\ UNCHANGED <<published, config, serving, system, up, proven>>

(* ... or could not be: the request ends with an error.                    *)
StoreFails(r) ==
    /\ task[r].pc = "saving"
    /\ task' = [task EXCEPT ![r] = Idle]
    /\ UNCHANGED <<published, config, saved, serving, system, up, proven>>

(* Then the flags of the relay, which Guard.tla adds, ... *)
Apply(r) ==
    /\ task[r].pc = "stored"
    /\ task' = [task EXCEPT ![r].pc = "applied"]
    /\ UNCHANGED <<published, config, saved, serving, system, up, proven>>

(* ... and last the record under its lock. *)
Commit(r) ==
    /\ task[r].pc = "applied"
    /\ config' = task[r].config
    /\ task' = [task EXCEPT ![r] = IF task[r].refresh THEN [Idle EXCEPT !.pc = "selected"]
                                                      ELSE Idle]
    /\ UNCHANGED <<published, saved, serving, system, up, proven>>

---------------------------------------------------------------------------
(* refresh_once.                                                           *)

(* mutant: no refresh while the guard is paused *)
BeginUnpaused(t) ==
    /\ task[t].pc \in {"idle", "selected"}
    /\ t \in Requester => serving
    /\ ~config.paused
    /\ task' = [task EXCEPT ![t] = [Idle EXCEPT !.pc = "discovering", !.config = config]]
    /\ UNCHANGED <<published, config, saved, serving, system, up, proven>>

(* The timer of the loop, a refresh request, or the refresh that follows a *)
(* new selection: the configuration is copied.                             *)
Begin(t) ==
    /\ task[t].pc \in {"idle", "selected"}
    /\ t \in Requester => serving
    /\ task' = [task EXCEPT ![t] = [Idle EXCEPT !.pc = "discovering", !.config = config]]
    /\ UNCHANGED <<published, config, saved, serving, system, up, proven>>

(* manual_upstream: the keychain may hold nothing or refuse; an            *)
(* unsupported URL is no candidate.                                        *)
ManualFound(cfg) ==
    IF cfg.keychain THEN {{}, {Stored} \cap Candidate} ELSE {{cfg.manual} \cap Candidate}

(* mutant: manual mode does not return early *)
AutoAlways(cfg) == Static \cup system

AutoFound(cfg) == IF cfg.mode = "manual" THEN {} ELSE Static \cup system

Discover(t) ==
    /\ task[t].pc = "discovering"
    /\ \E m \in ManualFound(task[t].config) :
          task' = [task EXCEPT ![t] = [Idle EXCEPT !.pc = "found",
                                          !.found = m \cup AutoFound(task[t].config)]]
    /\ UNCHANGED <<published, config, saved, serving, system, up, proven>>

(* The keychain tool could not be run: the loop warns and waits for the    *)
(* next round, a request ends with an error, main ends the daemon (whose   *)
(* state is then that of a start, which it is: nothing was published).     *)
DiscoverFails(t) ==
    /\ task[t].pc = "discovering"
    /\ task[t].config.keychain
    /\ task' = [task EXCEPT ![t] = Idle]
    /\ UNCHANGED <<published, config, saved, serving, system, up, proven>>

TakePrevious(t) ==
    /\ task[t].pc = "found"
    /\ task' = [task EXCEPT ![t].pc = "probing", ![t].previous = published]
    /\ UNCHANGED <<published, config, saved, serving, system, up, proven>>

With(result, c, e) == [d \in DOMAIN result \cup {c} |-> IF d = c THEN e ELSE result[d]]

(* The probes of a refresh run side by side: one passes, ... *)
ProbePasses(t, c) ==
    /\ task[t].pc = "probing"
    /\ c \in task[t].found \ DOMAIN task[t].result
    /\ up[c]
    /\ \E l \in 1..LatencyBound :
          task' = [task EXCEPT ![t].result = With(@, c, Passed(l))]
    /\ proven' = proven \cup {c}
    /\ UNCHANGED <<published, config, saved, serving, system, up>>

(* ... fails or times out. *)
ProbeFails(t, c) ==
    /\ task[t].pc = "probing"
    /\ c \in task[t].found \ DOMAIN task[t].result
    /\ ~up[c]
    /\ task' = [task EXCEPT ![t].result = With(@, c, Failed(task[t].previous, c))]
    /\ UNCHANGED <<published, config, saved, serving, system, up, proven>>

(* mutant: a list without a healthy candidate does not replace the old one *)
PublishIfHealthy(t) ==
    /\ task[t].pc = "probing"
    /\ DOMAIN task[t].result = task[t].found
    /\ published' = IF \E c \in task[t].found : task[t].result[c].state = "healthy"
                    THEN task[t].result ELSE published
    /\ serving' = TRUE
    /\ task' = [task EXCEPT ![t] = Idle]
    /\ UNCHANGED <<config, saved, system, up, proven>>

(* All probes are in: the list is replaced as a whole.  Main then starts   *)
(* the relay and the RPC server.                                           *)
PublishResult(t) ==
    /\ task[t].pc = "probing"
    /\ DOMAIN task[t].result = task[t].found
    /\ published' = task[t].result
    /\ serving' = TRUE
    /\ task' = [task EXCEPT ![t] = Idle]
    /\ UNCHANGED <<config, saved, system, up, proven>>

Prepare(t) ==
    \/ Discover(t)
    \/ DiscoverFails(t)
    \/ TakePrevious(t)
    \/ \E c \in Candidate : ProbePasses(t, c) \/ ProbeFails(t, c)

Refresh(t) == Prepare(t) \/ PublishResult(t)

Save(r) ==
    \/ \E e \in Edit : StartEdit(r, e)
    \/ Store(r)
    \/ StoreFails(r)
    \/ Apply(r)
    \/ Commit(r)

---------------------------------------------------------------------------
(* The rest of the world.                                                  *)

(* The daemon ends and is started again: it reads the file. *)
DaemonRestart ==
    /\ published' = NoHealth
    /\ config' = saved
    /\ serving' = FALSE
    /\ task' = [t \in Task |-> Idle]
    /\ proven' = {}
    /\ UNCHANGED <<saved, system, up>>

SystemChanges ==
    /\ system' \in SUBSET System
    /\ UNCHANGED <<published, config, saved, serving, task, up, proven>>

(* A VPN client or its exit node goes up or down. *)
Flip(c) ==
    /\ up' = [up EXCEPT ![c] = ~@]
    /\ UNCHANGED <<published, config, saved, serving, task, system, proven>>

World == SystemChanges \/ \E c \in Candidate : Flip(c)

RefreshNext ==
    \/ \E t \in Task : Begin(t) \/ Refresh(t)
    \/ \E r \in Requester : Save(r)
    \/ DaemonRestart
    \/ World

RefreshSpec == RefreshInit /\ [][RefreshNext]_refreshVars

(* Discovery waits for commands and fetches that end, probes have a        *)
(* time-out, the loop's timer fires and a selection's refresh follows it.  *)
(* Requests, the world and restarts are not fair.                          *)
RefreshFairness ==
    /\ \A t \in Task : WF_refreshVars(Refresh(t))
    /\ \A r \in Requester : WF_refreshVars(Store(r) \/ Apply(r) \/ Commit(r))
    /\ \A r \in Requester : WF_refreshVars(task[r].pc = "selected" /\ Begin(r))
    /\ WF_refreshVars(Begin(Loop))

FairRefreshSpec == RefreshSpec /\ RefreshFairness

---------------------------------------------------------------------------
(* Properties.                                                             *)

(* Every record, published or still in the hands of a task, is one that    *)
(* check_candidate can produce: healthy with no failure and a latency,     *)
(* degraded after exactly one failure, down after at least one.            *)
RecordsCoherent ==
    /\ \A c \in DOMAIN published : Coherent(published[c])
    /\ \A t \in Task :
          /\ \A c \in DOMAIN task[t].previous : Coherent(task[t].previous[c])
          /\ \A c \in DOMAIN task[t].result : Coherent(task[t].result[c])

(* "CNG tests the route before using it" (README.en.md): the relay is      *)
(* offered a candidate only if a probe through it has passed since the     *)
(* daemon started, however the refreshes of several tasks interleave.      *)
UsableWasProven == Usable(published) \subseteq proven

Offered == ({config.manual} \cap Candidate) \cup AutoFound(config)

(* "VPN restart requires no guard restart" (docs/testing.md): a candidate  *)
(* that the configuration and the system settings keep offering and whose  *)
(* route stays up ends up healthy in the list, whatever refreshes were     *)
(* under way when it came up.                                              *)
RecoversWhenUp ==
    \A c \in Candidate :
        <>[](serving /\ up[c] /\ ~config.keychain /\ c \in Offered)
        => <>[](c \in DOMAIN published /\ published[c].state = "healthy")

(* "Down candidates are not used for new connections"                      *)
(* (docs/architecture.md): a route that stays down leaves the usable list  *)
(* for good, although a late refresh may bring it back for a while.        *)
DropsWhenDown ==
    \A c \in Candidate :
        <>[](serving /\ ~up[c] /\ ~config.keychain)
        => <>[](c \notin Usable(published))

(* Manual mode (discover returns early) in the end offers nothing but the  *)
(* selected upstream, although a refresh under the old selection may       *)
(* publish after the selection was acknowledged.                           *)
FollowsSelection ==
    \A u \in Url :
        <>[](serving /\ config.mode = "manual" /\ ~config.keychain /\ config.manual = u)
        => <>[](DOMAIN published \subseteq {u})

(* The list as docs/architecture.md describes its life: with the loop as   *)
(* the only refresher it implements the automaton.                         *)
PublishedGrade ==
    [c \in Candidate |-> IF c \in DOMAIN published THEN published[c].state ELSE "absent"]

Automaton == INSTANCE HealthAutomaton WITH grade <- PublishedGrade

OneGrace == Automaton!AutomatonSpec

(* "A previously working candidate gets one degraded grace result before   *)
(* becoming down" (docs/architecture.md): no step takes a candidate of the *)
(* published list from healthy to down.                                    *)
GraceBeforeDown ==
    [][\A c \in DOMAIN published \cap DOMAIN published' :
          published[c].state = "healthy" => published'[c].state # "down"]_refreshVars
=============================================================================
