---------------------------- MODULE ServiceInstall ----------------------------
(***************************************************************************)
(* Installing and removing the guard: cng service install, uninstall,      *)
(* restart and migrate-legacy, on macOS (a LaunchAgent) and on Windows (a  *)
(* logon task).                                                            *)
(*                                                                         *)
(* A command is a row of steps, each of which may fail or be the last one  *)
(* before the command's process dies; another command, or the same one     *)
(* again, then starts from what is there.  Commands do not overlap here.   *)
(* A read that fails is no failure of the command: it counts as a variable *)
(* that is not set, and misread remembers what came of it.  Between and    *)
(* beside the commands the user changes CODEX_CLI_PATH, the daemon comes   *)
(* and goes, and the user logs out and in again.                           *)
(***************************************************************************)
EXTENDS Naturals

CONSTANTS
    Platforms,      \* the builds looked at
    UserPath,       \* values of CODEX_CLI_PATH of the user's own
    Unset,          \* the variable is not set
    Wrapper,        \* it names the installed cng-codex
    NoState         \* there is no install-state.json

ASSUME PlatformAssumption == Platforms \subseteq {"macos", "windows"}
ASSUME PathAssumption ==
    /\ Unset \notin UserPath /\ Wrapper \notin UserPath \cup {Unset}
    /\ NoState \notin UserPath \cup {Unset, Wrapper}

VARIABLES
    platform,       \* the build; it never changes
    step,           \* what the running command does next
    rollback,       \* what install will reply when the uninstall it called
                    \* is over, "no" if none was called
    reply,          \* what the last command said
    bin,            \* executables in the installation's directory
    registered,     \* the plist is in LaunchAgents, the task exists
    loaded,         \* launchd has the job (macOS)
    daemon,         \* cngd: "off", "up", or "ready" when its RPC answers
    codexPath,      \* CODEX_CLI_PATH of the user's session
    saved,          \* previous_codex_cli_path in install-state.json
    replaced,       \* history: the user's value when install last saved it
    misread,        \* history: what went wrong because a read failed: the
                    \* look for the wrapper, what is kept, what was put back
    legacy,         \* the old guard: "absent", "loaded" or "unloaded"
    backup          \* its plist has been backed up

control == <<step, rollback, reply>>
service == <<registered, loaded, daemon>>
paths   == <<codexPath, saved, replaced, misread>>
old     == <<legacy, backup>>
vars    == <<platform, control, bin, service, paths, old>>

Executable == {"cngd", "cng-codex", "cng"}

Step == {"idle",
         "copy", "register", "bootout", "bootstrap", "save", "set", "run", "await",
         "unload", "unregister", "compare", "restore", "forget", "remove",
         "restart", "check", "backup", "disable"}

Reply == {"none", "installed", "uninstalled", "restarted", "migrated", "failed", "rolledBack"}

ServiceTypeOK ==
    /\ platform \in Platforms
    /\ step \in Step
    /\ rollback \in {"no", "failed", "rolledBack"}
    /\ reply \in Reply
    /\ bin \in SUBSET Executable
    /\ registered \in BOOLEAN
    /\ loaded \in BOOLEAN
    /\ daemon \in {"off", "up", "ready"}
    /\ codexPath \in UserPath \cup {Unset, Wrapper}
    /\ saved \in UserPath \cup {Unset, NoState}
    /\ replaced \in UserPath \cup {Unset}
    /\ misread \in SUBSET {"look", "value"}
    /\ legacy \in {"absent", "loaded", "unloaded"}
    /\ backup \in BOOLEAN

ServiceInit ==
    /\ platform \in Platforms
    /\ step = "idle" /\ rollback = "no" /\ reply = "none"
    /\ bin = {}
    /\ registered = FALSE /\ loaded = FALSE /\ daemon = "off"
    /\ codexPath \in UserPath \cup {Unset}
    /\ saved = NoState
    /\ replaced = Unset
    /\ misread = {}
    /\ legacy \in IF platform = "macos" THEN {"absent", "loaded"} ELSE {"absent"}
    /\ backup = FALSE

---------------------------------------------------------------------------
(* The order of install's steps.                                           *)

Following ==
    IF platform = "macos"
    THEN [copy |-> "register", register |-> "bootout", bootout |-> "bootstrap",
          bootstrap |-> "save", save |-> "set", set |-> "await"]
    ELSE [copy |-> "save", save |-> "register", register |-> "set", set |-> "run",
          run |-> "await"]

GoTo(next) == step' = next /\ UNCHANGED <<rollback, reply>>

Continue == GoTo(Following[step])

(* The command is over; an uninstall that install called leaves the reply  *)
(* to install, which ignores how it went.                                  *)
End(answer) ==
    /\ step' = "idle"
    /\ rollback' = "no"
    /\ reply' = IF rollback = "no" THEN answer ELSE rollback

RollBack(answer) == step' = "unload" /\ rollback' = answer /\ UNCHANGED reply

Begin ==
    /\ step = "idle"
    /\ step' \in {"copy", "unload", "restart", "check"}
    /\ reply' = "none"
    /\ UNCHANGED <<platform, rollback, bin, service, paths, old>>

---------------------------------------------------------------------------
(* install.                                                                *)

Copy ==
    /\ step = "copy"
    /\ bin' = Executable
    /\ Continue
    /\ UNCHANGED <<platform, service, paths, old>>

(* A copy fails, or the command dies at it: cngd, cng-codex and cng are    *)
(* copied in this order.                                                   *)
CopyBreaks ==
    /\ step = "copy"
    /\ bin' \in {bin, bin \cup {"cngd"}, bin \cup {"cngd", "cng-codex"}}
    /\ End("failed")
    /\ UNCHANGED <<platform, service, paths, old>>

(* The plist is replaced as a whole; schtasks /create /f.                  *)
Register ==
    /\ step = "register"
    /\ registered' = TRUE
    /\ Continue
    /\ UNCHANGED <<platform, bin, loaded, daemon, paths, old>>

(* launchctl bootout, of install and of uninstall: its failure is ignored. *)
Bootout ==
    /\ step = "bootout" \/ (step = "unload" /\ platform = "macos" /\ registered)
    /\ IF step = "bootout" THEN Continue ELSE GoTo("unregister")
    /\ \/ loaded' = FALSE /\ daemon' = "off"
       \/ UNCHANGED <<loaded, daemon>>
    /\ UNCHANGED <<platform, bin, registered, paths, old>>

(* launchd takes no job twice; RunAtLoad starts the daemon. *)
Bootstrap ==
    /\ step = "bootstrap"
    /\ ~loaded
    /\ loaded' = TRUE
    /\ daemon' = "up"
    /\ Continue
    /\ UNCHANGED <<platform, bin, registered, paths, old>>

(* What a read of CODEX_CLI_PATH may return: the exit status of launchctl  *)
(* getenv is not looked at, a failed reg query, and a value of a type but  *)
(* REG_SZ, are a variable that is not set.                                 *)
Reads == {codexPath, Unset}

Find == replaced' = IF codexPath = Wrapper THEN replaced ELSE codexPath

(* mutant: the user's value is only read, not kept in the file *)
KeepNothing ==
    /\ step = "save"
    /\ Find
    /\ Continue
    /\ UNCHANGED <<platform, bin, service, codexPath, saved, misread, old>>

(* mutant: each install writes the file anew *)
KeepLatest ==
    /\ step = "save"
    /\ saved' = codexPath
    /\ Find
    /\ Continue
    /\ UNCHANGED <<platform, bin, service, codexPath, misread, old>>

(* save_previous_environment: a file that is there already is kept.        *)
SavePrevious ==
    /\ step = "save"
    /\ \E read \in Reads :
          saved' = IF saved # NoState THEN saved
                   ELSE IF read = Wrapper THEN Unset ELSE read
    /\ misread' = (misread \ {"look"})
                  \cup {m \in {"value"} : saved = NoState /\ saved' # codexPath}
    /\ Find
    /\ Continue
    /\ UNCHANGED <<platform, bin, service, codexPath, old>>

SetPath ==
    /\ step = "set"
    /\ codexPath' = Wrapper
    /\ Continue
    /\ UNCHANGED <<platform, bin, service, saved, replaced, misread, old>>

(* schtasks /run. *)
Run ==
    /\ step = "run"
    /\ registered
    /\ daemon' = IF daemon = "off" THEN "up" ELSE daemon
    /\ Continue
    /\ UNCHANGED <<platform, bin, registered, loaded, paths, old>>

(* service.running, and the RPC answers. *)
Healthy ==
    /\ daemon = "ready"
    /\ IF platform = "macos" THEN loaded ELSE registered

Installed ==
    /\ step = "await"
    /\ Healthy
    /\ End("installed")
    /\ UNCHANGED <<platform, bin, service, paths, old>>

(* Six seconds are over. *)
NotHealthy ==
    /\ step = "await"
    /\ ~Healthy
    /\ RollBack("rolledBack")
    /\ UNCHANGED <<platform, bin, service, paths, old>>

(* A step fails without an effect.  Only the Windows build rolls back when *)
(* the variable cannot be set or the task does not run, though not when    *)
(* schtasks itself cannot be started.                                      *)
InstallFails ==
    /\ step \in {"register", "bootstrap", "save", "set", "run", "await"}
    /\ \/ platform = "windows" /\ step \in {"set", "run"} /\ RollBack("failed")
       \/ ~(platform = "windows" /\ step = "set") /\ End("failed")
    /\ UNCHANGED <<platform, bin, service, paths, old>>

---------------------------------------------------------------------------
(* uninstall.                                                              *)

(* Nothing is registered, or schtasks /delete: its failure is ignored, and *)
(* it does not end the daemon.                                             *)
Unload ==
    /\ step = "unload"
    /\ \/ platform = "windows" /\ registered' = FALSE
       \/ (platform = "windows" \/ ~registered) /\ UNCHANGED registered
    /\ GoTo("compare")
    /\ UNCHANGED <<platform, bin, loaded, daemon, paths, old>>

Unregister ==
    /\ step = "unregister"
    /\ registered' = FALSE
    /\ GoTo("compare")
    /\ UNCHANGED <<platform, bin, loaded, daemon, paths, old>>

(* mutant: the variable is not looked at *)
CompareNothing ==
    /\ step = "compare"
    /\ GoTo("forget")
    /\ UNCHANGED <<platform, bin, service, paths, old>>

(* mutant: whatever the variable says, the kept value is put back *)
CompareAnything ==
    /\ step = "compare"
    /\ GoTo("restore")
    /\ UNCHANGED <<platform, bin, service, paths, old>>

(* Does the variable name the wrapper?  After a failed read uninstall goes *)
(* on as if it did not, and reports success in the end.                    *)
Compare ==
    /\ step = "compare"
    /\ \E read \in Reads :
          /\ GoTo(IF read = Wrapper THEN "restore" ELSE "forget")
          /\ misread' = IF codexPath = Wrapper /\ read # Wrapper
                        THEN misread \cup {"look"} ELSE misread
    /\ UNCHANGED <<platform, bin, service, codexPath, saved, replaced, old>>

(* install-state.json that is not there, cannot be read or parsed says     *)
(* that the variable was not set.                                          *)
Restore ==
    /\ step = "restore"
    /\ \E read \in {saved, NoState} :
          codexPath' = IF read = NoState THEN Unset ELSE read
    /\ misread' = (misread \ {"look"})
                  \cup {m \in {"value"} : saved \notin {codexPath', NoState}}
    /\ GoTo("forget")
    /\ UNCHANGED <<platform, bin, service, saved, replaced, old>>

Forget ==
    /\ step = "forget"
    /\ saved' = NoState
    /\ misread' = misread \ {"value"}
    /\ GoTo("remove")
    /\ UNCHANGED <<platform, bin, service, codexPath, replaced, old>>

(* Windows does not remove an executable that runs. *)
Remove ==
    /\ step = "remove"
    /\ platform = "windows" => daemon = "off"
    /\ bin' = {}
    /\ End("uninstalled")
    /\ UNCHANGED <<platform, service, paths, old>>

RemoveBreaks ==
    /\ step = "remove"
    /\ bin' \in SUBSET bin
    /\ platform = "windows" /\ daemon # "off" /\ "cngd" \in bin => "cngd" \in bin'
    /\ End("failed")
    /\ UNCHANGED <<platform, service, paths, old>>

(* mutant: uninstall goes on when the variable could not be restored *)
IgnoreRestore ==
    /\ step \in {"unregister", "compare", "restore", "forget"}
    /\ IF step = "restore" THEN GoTo("forget") ELSE End("failed")
    /\ UNCHANGED <<platform, bin, service, paths, old>>

UninstallFails ==
    /\ step \in {"unregister", "compare", "restore", "forget"}
    /\ End("failed")
    /\ UNCHANGED <<platform, bin, service, paths, old>>

---------------------------------------------------------------------------
(* restart and migrate-legacy.                                             *)

(* launchctl kickstart -k; schtasks /end and /run, which do not look at    *)
(* what the task does next.                                                *)
RestartDaemon ==
    /\ step = "restart"
    /\ IF platform = "macos" THEN loaded ELSE registered
    /\ daemon' = IF "cngd" \in bin THEN "up" ELSE "off"
    /\ End("restarted")
    /\ UNCHANGED <<platform, bin, registered, loaded, paths, old>>

RestartFails ==
    /\ step = "restart"
    /\ daemon' \in IF platform = "windows" THEN {daemon, "off"} ELSE {daemon}
    /\ End("failed")
    /\ UNCHANGED <<platform, bin, registered, loaded, paths, old>>

(* mutant: it is enough that the new service is installed *)
CheckInstalled ==
    /\ step = "check"
    /\ IF platform = "macos" /\ registered /\ legacy # "absent"
       THEN GoTo("backup") ELSE End("failed")
    /\ UNCHANGED <<platform, bin, service, paths, old>>

(* The new service is installed and running, the old one is there.         *)
Check ==
    /\ step = "check"
    /\ IF platform = "macos" /\ registered /\ loaded /\ legacy # "absent"
       THEN GoTo("backup") ELSE End("failed")
    /\ UNCHANGED <<platform, bin, service, paths, old>>

BackUp ==
    /\ step = "backup"
    /\ backup' = TRUE
    /\ GoTo("disable")
    /\ UNCHANGED <<platform, bin, service, paths, legacy>>

Disable ==
    /\ step = "disable"
    /\ legacy = "loaded"
    /\ legacy' = "unloaded"
    /\ End("migrated")
    /\ UNCHANGED <<platform, bin, service, paths, backup>>

MigrateFails ==
    /\ step \in {"backup", "disable"}
    /\ End("failed")
    /\ UNCHANGED <<platform, bin, service, paths, old>>

---------------------------------------------------------------------------
(* The rest of the world.                                                  *)

(* The command's process dies. *)
Die ==
    /\ step # "idle"
    /\ step' = "idle" /\ rollback' = "no" /\ UNCHANGED reply
    /\ UNCHANGED <<platform, bin, service, paths, old>>

UserSets ==
    /\ codexPath' \in UserPath \cup {Unset}
    /\ misread' = misread \ {"look"}
    /\ UNCHANGED <<platform, control, bin, service, saved, replaced, old>>

(* launchd's KeepAlive starts it again, nothing does so on Windows.        *)
DaemonMoves ==
    /\ \/ daemon # "off" /\ daemon' = "off"
       \/ daemon = "off" /\ loaded /\ "cngd" \in bin /\ daemon' = "up"
       \/ daemon = "up" /\ daemon' = "ready"
    /\ UNCHANGED <<platform, control, bin, registered, loaded, paths, old>>

(* Logging out ends commands and the daemon.  A variable set with          *)
(* launchctl is gone, one set with setx stays; what is registered starts.  *)
Login ==
    /\ step' = "idle" /\ rollback' = "no" /\ UNCHANGED reply
    /\ codexPath' = IF platform = "macos" THEN Unset ELSE codexPath
    /\ misread' = {m \in misread : m = "look" => codexPath' = codexPath}
    /\ loaded' = (registered /\ platform = "macos")
    /\ daemon' = IF registered /\ "cngd" \in bin THEN "up" ELSE "off"
    /\ legacy' = IF legacy = "absent" THEN "absent" ELSE "loaded"
    /\ UNCHANGED <<platform, bin, registered, saved, replaced, backup>>

Install == \/ Copy \/ CopyBreaks \/ Register \/ Bootout \/ Bootstrap \/ SavePrevious
           \/ SetPath \/ Run \/ Installed \/ NotHealthy \/ InstallFails

Uninstall == \/ Unload \/ Unregister \/ Compare \/ Restore \/ Forget \/ Remove
             \/ RemoveBreaks \/ UninstallFails

Others == RestartDaemon \/ RestartFails \/ Check \/ BackUp \/ Disable \/ MigrateFails

ServiceNext ==
    Begin \/ Install \/ Uninstall \/ Others \/ Die \/ UserSets \/ DaemonMoves \/ Login

ServiceSpec == ServiceInit /\ [][ServiceNext]_vars

---------------------------------------------------------------------------
(* Properties.                                                             *)

Path == INSTANCE PathOverride
            WITH value <- codexPath, kept <- saved, Nothing <- NoState,
                 wrapper <- "cng-codex" \in bin, looked <- step = "restore"

(* "Installation stores the previous CODEX_CLI_PATH, points it at          *)
(* cng-codex, and restores the prior value only if it still equals the     *)
(* guard wrapper during uninstall" (docs/architecture.md), whichever       *)
(* commands run, fail or die in whatever order: what is kept is a value of *)
(* the user's own and is replaced by no other, it alone is put back, and   *)
(* it and the wrapper go only when the variable does not name the wrapper. *)
(* A read that fails breaks this, in the three ways that PathOverride      *)
(* names and in no other.                                                  *)
OverridesSafely == Path!OverrideSpec

(* Codex is never sent to a wrapper that is not there: install copies      *)
(* before it sets CODEX_CLI_PATH, uninstall restores before it removes,    *)
(* and neither goes on after a failure that it notices, wherever a command *)
(* broke off and whichever follows.  It does not notice that its read of   *)
(* CODEX_CLI_PATH failed: an uninstall that read wrong may have removed    *)
(* the wrapper, until an install has saved the value anew.  (That the file *)
(* is there: a copy that breaks off over an old one may leave part of it.) *)
WrapperExists == codexPath = Wrapper /\ "look" \notin misread => "cng-codex" \in bin

(* An installation can be undone: while CODEX_CLI_PATH names the wrapper,  *)
(* the file that says what it replaced is there, unless an uninstall whose *)
(* read of the variable failed has deleted it.                             *)
PreviousIsKept == codexPath = Wrapper /\ "look" \notin misread => saved # NoState

(* "Install/uninstall restores external environment and shell state"       *)
(* (docs/testing.md): after an uninstall that reports no error neither     *)
(* executables, nor the saved value, nor a variable that names the wrapper *)
(* are left, nor the LaunchAgent (a failure of schtasks /delete is not     *)
(* reported).  The variable may still name the wrapper when the read of it *)
(* failed, which is not reported either.                                   *)
UninstallIsComplete ==
    reply = "uninstalled" =>
        /\ bin = {} /\ saved = NoState
        /\ codexPath = Wrapper => "look" \in misread
        /\ platform = "macos" => ~registered

(* "the new service must already be installed and running before the old   *)
(* plist is backed up and booted out" (docs/architecture.md): what the     *)
(* code looks at is that the plist is there and launchctl print succeeds,  *)
(* so that what holds when the old guard goes is that launchd has the job  *)
(* and its plist is there for the next login, and the old plist is saved.  *)
MigrationKeepsBoth ==
    [][legacy = "loaded" /\ legacy' = "unloaded" => backup /\ registered /\ loaded]_vars

(* "the new service must already be installed and running before the old   *)
(* plist is backed up and booted out" (docs/architecture.md), "after CNG   *)
(* is healthy" (the help of cng): a daemon runs when migrate-legacy goes   *)
(* on from its preconditions to the backup.                                *)
MigrationIsSafe ==
    [][step = "check" /\ step' = "backup" => registered /\ daemon # "off"]_vars

(* "restores the prior value only if it still equals the guard wrapper     *)
(* during uninstall.  This prevents overwriting a later user change"       *)
(* (docs/architecture.md): as long as no read failed, what uninstall puts  *)
(* back is the user's value that the last install found.                   *)
RestoresThePriorValue ==
    [][/\ step = "restore" /\ codexPath = Wrapper /\ codexPath' # Wrapper /\ step' = "forget"
       /\ misread = {} /\ misread' = {}
       => codexPath' = replaced]_vars
=============================================================================
