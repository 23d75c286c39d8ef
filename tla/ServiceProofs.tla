----------------------------- MODULE ServiceProofs -----------------------------
(***************************************************************************)
(* Safety of installing and removing, for any set of values the user may   *)
(* give CODEX_CLI_PATH and either build.                                   *)
(*                                                                         *)
(* What the properties say of the settled machine must be prepared by the  *)
(* steps of a command: ServiceInv says what holds at each step, so that a  *)
(* failure or the end of the process at any of them is harmless.  A read   *)
(* that fails is not: what it makes untrue is excepted by name.            *)
(***************************************************************************)
EXTENDS ServiceInstall, TLAPS

(* The order of install's steps, as facts about Continue.                  *)
LEMMA Continuing ==
  ASSUME Continue, step \in {"copy", "register", "bootout", "bootstrap", "save", "set", "run"},
         step = "run" => platform # "macos",
         step \in {"bootout", "bootstrap"} => platform = "macos"
  PROVE  /\ step = "copy"      => step' = IF platform = "macos" THEN "register" ELSE "save"
         /\ step = "register"  => step' = IF platform = "macos" THEN "bootout" ELSE "set"
         /\ step = "bootout"   => step' = "bootstrap"
         /\ step = "bootstrap" => step' = "save"
         /\ step = "save"      => step' = IF platform = "macos" THEN "set" ELSE "register"
         /\ step = "set"       => step' = IF platform = "macos" THEN "await" ELSE "run"
         /\ step = "run"       => step' = "await"
         /\ UNCHANGED <<rollback, reply>>
<1>1. CASE platform = "macos"
  BY <1>1 DEF Continue, GoTo, Following
<1>2. CASE platform # "macos"
  BY <1>2 DEF Continue, GoTo, Following
<1> QED BY <1>1, <1>2

---------------------------------------------------------------------------
(* Each build has its own steps. *)
BuildInv ==
    /\ step = "run" => platform # "macos"
    /\ step \in {"bootout", "bootstrap"} => platform = "macos"

TypeInv == ServiceTypeOK /\ BuildInv

(* The type invariant, with the steps that a build does not have. *)
LEMMA TypeInvariant == ServiceSpec => []TypeInv
<1>1. ServiceInit => TypeInv
  BY DEF ServiceInit, TypeInv, ServiceTypeOK, BuildInv, Step, Reply
<1>2. TypeInv /\ [ServiceNext]_vars => TypeInv'
  <2> SUFFICES ASSUME TypeInv, [ServiceNext]_vars PROVE TypeInv'
    OBVIOUS
  <2> USE DEF TypeInv, ServiceTypeOK, BuildInv
  <2>1. CASE Begin
    BY <2>1 DEF Begin, service, paths, old, Step, Reply
  <2>2. CASE Install
    <3>1. CASE Copy
      BY <3>1, Continuing DEF Copy, service, paths, old, Step, Reply, Executable
    <3>2. CASE CopyBreaks
      BY <3>2 DEF CopyBreaks, End, service, paths, old, Step, Reply, Executable
    <3>3. CASE Register
      BY <3>3, Continuing DEF Register, service, paths, old, Step, Reply, Executable
    <3>4. CASE Bootout
      <4>1. CASE step = "bootout"
        BY <3>4, <4>1, Continuing DEF Bootout, service, paths, old, Step, Reply
      <4>2. CASE step # "bootout"
        <5>1. step' = "unregister" /\ UNCHANGED <<rollback, reply>>
          BY <3>4, <4>2 DEF Bootout, GoTo
        <5>2. loaded' \in BOOLEAN /\ daemon' \in {"off", "up", "ready"}
          BY <3>4 DEF Bootout
        <5> QED BY <3>4, <5>1, <5>2 DEF Bootout, paths, old, Step
      <4> QED BY <4>1, <4>2
    <3>5. CASE Bootstrap
      BY <3>5, Continuing DEF Bootstrap, service, paths, old, Step, Reply, Executable
    <3>6. CASE SavePrevious
      <4>1. saved' \in UserPath \cup {Unset, NoState} /\ replaced' \in UserPath \cup {Unset}
        BY <3>6 DEF SavePrevious, Reads, Find
      <4>2. misread' \in SUBSET {"look", "value"}
        BY <3>6 DEF SavePrevious
      <4>3. step' \in {"set", "register"} /\ UNCHANGED <<rollback, reply>>
            /\ (step' = "register" => platform # "macos")
        BY <3>6, Continuing DEF SavePrevious
      <4> QED BY <3>6, <4>1, <4>2, <4>3 DEF SavePrevious, service, old, Step
    <3>7. CASE SetPath
      BY <3>7, Continuing DEF SetPath, service, paths, old, Step, Reply, Executable
    <3>8. CASE Run
      BY <3>8, Continuing DEF Run, service, paths, old, Step, Reply, Executable
    <3>9. CASE Installed
      BY <3>9 DEF Installed, End, service, paths, old, Step, Reply, Executable
    <3>10. CASE NotHealthy
      BY <3>10 DEF NotHealthy, End, RollBack, service, paths, old, Step, Reply
    <3>11. CASE InstallFails
      BY <3>11 DEF InstallFails, End, RollBack, service, paths, old, Step, Reply
    <3> QED BY <2>2, <3>1, <3>2, <3>3, <3>4, <3>5, <3>6, <3>7, <3>8, <3>9, <3>10, <3>11 DEF Install
  <2>3. CASE Uninstall
    <3>1. CASE Unload
      <4>1. registered' \in BOOLEAN
        BY <3>1 DEF Unload
      <4> QED BY <3>1, <4>1 DEF Unload, GoTo, paths, old, Step, Reply
    <3>2. CASE Unregister
      <4>1. registered' = FALSE /\ step' = "compare"
        BY <3>2 DEF Unregister, GoTo
      <4>2. UNCHANGED <<platform, rollback, reply, bin, loaded, daemon, paths, old>>
        BY <3>2 DEF Unregister, GoTo
      <4> QED BY <4>1, <4>2 DEF paths, old, Step
    <3>3. CASE Compare
      <4>1. step' \in {"restore", "forget"} /\ misread' \in SUBSET {"look", "value"}
            /\ UNCHANGED <<rollback, reply>>
        BY <3>3 DEF Compare, GoTo
      <4> QED BY <3>3, <4>1 DEF Compare, service, old, Step
    <3>4. CASE Restore
      <4>1. codexPath' \in UserPath \cup {Unset} /\ misread' \in SUBSET {"look", "value"}
        BY <3>4 DEF Restore
      <4> QED BY <3>4, <4>1 DEF Restore, GoTo, service, old, Step
    <3>5. CASE Forget
      BY <3>5 DEF Forget, GoTo, End, service, paths, old, Step, Reply
    <3>6. CASE Remove
      BY <3>6 DEF Remove, GoTo, End, service, paths, old, Step, Reply
    <3>7. CASE RemoveBreaks
      BY <3>7 DEF RemoveBreaks, GoTo, End, service, paths, old, Step, Reply
    <3>8. CASE UninstallFails
      BY <3>8 DEF UninstallFails, GoTo, End, service, paths, old, Step, Reply
    <3> QED BY <2>3, <3>1, <3>2, <3>3, <3>4, <3>5, <3>6, <3>7, <3>8 DEF Uninstall
  <2>4. CASE Others
    <3>1. CASE RestartDaemon
      BY <3>1 DEF RestartDaemon, GoTo, End, service, paths, old, Step, Reply
    <3>2. CASE RestartFails
      BY <3>2 DEF RestartFails, GoTo, End, service, paths, old, Step, Reply
    <3>3. CASE Check
      BY <3>3 DEF Check, GoTo, End, service, paths, old, Step, Reply
    <3>4. CASE BackUp
      BY <3>4 DEF BackUp, GoTo, End, service, paths, old, Step, Reply
    <3>5. CASE Disable
      BY <3>5 DEF Disable, GoTo, End, service, paths, old, Step, Reply
    <3>6. CASE MigrateFails
      BY <3>6 DEF MigrateFails, GoTo, End, service, paths, old, Step, Reply
    <3> QED BY <2>4, <3>1, <3>2, <3>3, <3>4, <3>5, <3>6 DEF Others
  <2>5. CASE Die
    BY <2>5 DEF Die, service, paths, old, Step
  <2>6. CASE UserSets
    BY <2>6 DEF UserSets, control, service, old
  <2>7. CASE DaemonMoves
    BY <2>7 DEF DaemonMoves, control, paths, old
  <2>8. CASE Login
    BY <2>8 DEF Login, Step
  <2>9. CASE UNCHANGED vars
    BY <2>9 DEF vars, control, service, paths, old
  <2> QED BY <2>1, <2>2, <2>3, <2>4, <2>5, <2>6, <2>7, <2>8, <2>9 DEF ServiceNext
<1> QED BY <1>1, <1>2, PTL DEF ServiceSpec

(* The type invariant. *)
THEOREM ServiceTypeCorrect == ServiceSpec => []ServiceTypeOK
<1>1. TypeInv => ServiceTypeOK
  BY DEF TypeInv
<1> QED BY <1>1, TypeInvariant, PTL
---------------------------------------------------------------------------
(* What the wrapper needs while Codex is sent to it; a look that missed it *)
(* is one at a variable that names it.                                     *)
WrapperInv ==
    /\ codexPath = Wrapper /\ "look" \notin misread => "cng-codex" \in bin /\ saved # NoState
    /\ "look" \in misread => codexPath = Wrapper

(* What a step may rely on, and so must have been prepared before it.      *)
StepInv ==
    /\ step \in {"register", "bootout", "bootstrap", "save", "set", "run", "await"}
       => "cng-codex" \in bin
    /\ step = "set" \/ (step = "register" /\ platform # "macos")
       => saved # NoState /\ "look" \notin misread
    /\ step \in {"forget", "remove"} /\ codexPath = Wrapper => "look" \in misread
    /\ step = "remove" => saved = NoState
    /\ step \in {"compare", "restore", "forget", "remove"} /\ platform = "macos" => ~registered
    /\ step \in {"backup", "disable"} => registered /\ loaded
    /\ step = "disable" => backup

DoneInv == reply = "uninstalled" => step = "idle" /\ UninstallIsComplete

ServiceInv == WrapperInv /\ StepInv /\ DoneInv

(* The inductive invariant behind the four properties. *)
LEMMA ServiceInvariant == ServiceSpec => []ServiceInv
<1>1. ServiceInit => ServiceInv
  BY PathAssumption DEF ServiceInit, ServiceInv, WrapperInv, StepInv, DoneInv
<1>2. TypeInv /\ ServiceInv /\ [ServiceNext]_vars => ServiceInv'
  <2> SUFFICES ASSUME TypeInv, ServiceInv, [ServiceNext]_vars PROVE ServiceInv'
    OBVIOUS
  <2> USE PathAssumption DEF ServiceInv, WrapperInv, StepInv, DoneInv, UninstallIsComplete
  <2>0. /\ platform \in Platforms /\ BuildInv /\ rollback \in {"no", "failed", "rolledBack"}
        /\ saved \in UserPath \cup {Unset, NoState}
        /\ codexPath \in UserPath \cup {Unset, Wrapper} /\ misread \in SUBSET {"look", "value"}
    BY DEF TypeInv, ServiceTypeOK
  <2>1. CASE Begin
    BY <2>1 DEF Begin, service, paths, old
  <2>2. CASE Install
    <3>1. CASE Copy
      BY <3>1, <2>0, Continuing DEF Copy, Executable, BuildInv, service, paths, old
    <3>2. CASE CopyBreaks
      BY <3>2, <2>0 DEF CopyBreaks, End, service, paths, old
    <3>3. CASE Register
      BY <3>3, <2>0, Continuing DEF Register, BuildInv, service, paths, old
    <3>4. CASE Bootout
      <4>1. CASE step = "bootout"
        BY <3>4, <4>1, <2>0, Continuing DEF Bootout, BuildInv, service, paths, old
      <4>2. CASE step # "bootout"
        BY <3>4, <4>2, <2>0 DEF Bootout, GoTo, service, paths, old
      <4> QED BY <4>1, <4>2
    <3>5. CASE Bootstrap
      BY <3>5, <2>0, Continuing DEF Bootstrap, BuildInv, service, paths, old
    <3>6. CASE SavePrevious
      <4>1. saved' # NoState /\ "look" \notin misread'
        BY <3>6, <2>0 DEF SavePrevious, Reads
      <4> QED BY <3>6, <4>1, <2>0, Continuing DEF SavePrevious, BuildInv, service, old
    <3>7. CASE SetPath
      BY <3>7, <2>0, Continuing DEF SetPath, BuildInv, service, paths, old
    <3>8. CASE Run
      BY <3>8, <2>0, Continuing DEF Run, BuildInv, service, paths, old
    <3>9. CASE Installed
      BY <3>9, <2>0 DEF Installed, End, service, paths, old
    <3>10. CASE NotHealthy
      BY <3>10, <2>0 DEF NotHealthy, RollBack, service, paths, old
    <3>11. CASE InstallFails
      BY <3>11, <2>0 DEF InstallFails, End, RollBack, service, paths, old
    <3> QED BY <2>2, <3>1, <3>2, <3>3, <3>4, <3>5, <3>6, <3>7, <3>8, <3>9, <3>10, <3>11 DEF Install
  <2>3. CASE Uninstall
    <3>1. CASE Unload
      BY <3>1, <2>0 DEF Unload, GoTo, service, paths, old
    <3>2. CASE Unregister
      BY <3>2, <2>0 DEF Unregister, GoTo, service, paths, old
    <3>3. CASE Compare
      <4>1. \/ step' = "restore"
            \/ step' = "forget" /\ (codexPath = Wrapper => "look" \in misread')
        BY <3>3, <2>0 DEF Compare, Reads, GoTo
      <4>2. \/ misread' = misread
            \/ misread' = misread \cup {"look"} /\ codexPath = Wrapper
        BY <3>3 DEF Compare
      <4> QED BY <3>3, <4>1, <4>2, <2>0 DEF Compare, GoTo, service, old
    <3>4. CASE Restore
      <4>1. codexPath' # Wrapper /\ "look" \notin misread'
        BY <3>4, <2>0 DEF Restore
      <4> QED BY <3>4, <4>1, <2>0 DEF Restore, GoTo, service, old
    <3>5. CASE Forget
      BY <3>5, <2>0 DEF Forget, GoTo, service, paths, old
    <3>6. CASE Remove
      BY <3>6, <2>0 DEF Remove, End, service, paths, old
    <3>7. CASE RemoveBreaks
      BY <3>7, <2>0 DEF RemoveBreaks, End, service, paths, old
    <3>8. CASE UninstallFails
      BY <3>8, <2>0 DEF UninstallFails, End, service, paths, old
    <3> QED BY <2>3, <3>1, <3>2, <3>3, <3>4, <3>5, <3>6, <3>7, <3>8 DEF Uninstall
  <2>4. CASE Others
    <3>1. CASE RestartDaemon
      BY <3>1, <2>0 DEF RestartDaemon, End, service, paths, old
    <3>2. CASE RestartFails
      BY <3>2, <2>0 DEF RestartFails, End, service, paths, old
    <3>3. CASE Check
      BY <3>3, <2>0 DEF Check, GoTo, End, service, paths, old
    <3>4. CASE BackUp
      BY <3>4, <2>0 DEF BackUp, GoTo, service, paths, old
    <3>5. CASE Disable
      BY <3>5, <2>0 DEF Disable, End, service, paths, old
    <3>6. CASE MigrateFails
      BY <3>6, <2>0 DEF MigrateFails, End, service, paths, old
    <3> QED BY <2>4, <3>1, <3>2, <3>3, <3>4, <3>5, <3>6 DEF Others
  <2>5. CASE Die
    BY <2>5, <2>0 DEF Die, service, paths, old
  <2>6. CASE UserSets
    BY <2>6, <2>0 DEF UserSets, control, service, old
  <2>7. CASE DaemonMoves
    BY <2>7, <2>0 DEF DaemonMoves, control, paths, old
  <2>8. CASE Login
    BY <2>8, <2>0 DEF Login
  <2>9. CASE UNCHANGED vars
    BY <2>9 DEF vars, control, service, paths, old
  <2> QED BY <2>1, <2>2, <2>3, <2>4, <2>5, <2>6, <2>7, <2>8, <2>9 DEF ServiceNext
<1> QED BY <1>1, <1>2, TypeInvariant, PTL DEF ServiceSpec

(* While CODEX_CLI_PATH names the wrapper, the wrapper is there, unless an *)
(* uninstall has misread the variable.                                     *)
THEOREM WrapperExistsHolds == ServiceSpec => []WrapperExists
<1>1. ServiceInv => WrapperExists
  BY DEF ServiceInv, WrapperInv, WrapperExists
<1> QED BY <1>1, ServiceInvariant, PTL

(* While CODEX_CLI_PATH names the wrapper, a value is kept, with the same  *)
(* exception.                                                              *)
THEOREM PreviousIsKeptHolds == ServiceSpec => []PreviousIsKept
<1>1. ServiceInv => PreviousIsKept
  BY DEF ServiceInv, WrapperInv, PreviousIsKept
<1> QED BY <1>1, ServiceInvariant, PTL

(* An uninstall that reports no error leaves nothing of the guard behind,  *)
(* but for a variable that it misread.                                     *)
THEOREM UninstallIsCompleteHolds == ServiceSpec => []UninstallIsComplete
<1>1. ServiceInv => UninstallIsComplete
  BY DEF ServiceInv, DoneInv, UninstallIsComplete
<1> QED BY <1>1, ServiceInvariant, PTL

(* The old guard is unloaded only with its backup, and with launchd having *)
(* the new one's job.                                                      *)
THEOREM MigrationKeepsBothHolds == ServiceSpec => MigrationKeepsBoth
<1>1. ServiceInv /\ [ServiceNext]_vars =>
        [legacy = "loaded" /\ legacy' = "unloaded" => backup /\ registered /\ loaded]_vars
  <2> SUFFICES ASSUME ServiceInv, ServiceNext, legacy = "loaded", legacy' = "unloaded"
               PROVE  backup /\ registered /\ loaded
    OBVIOUS
  <2>1. step = "disable"
    <3>1. CASE Begin
      BY <3>1 DEF Begin, old
    <3>2. CASE Install
      BY <3>2 DEF Install, Copy, CopyBreaks, Register, Bootout, Bootstrap, SavePrevious,
                  SetPath, Run, Installed, NotHealthy, InstallFails, old
    <3>3. CASE Uninstall
      BY <3>3 DEF Uninstall, Unload, Unregister, Compare, Restore, Forget, Remove,
                  RemoveBreaks, UninstallFails, old
    <3>4. CASE Others
      BY <3>4 DEF Others, RestartDaemon, RestartFails, Check, BackUp, Disable, MigrateFails, old
    <3>5. CASE Die
      BY <3>5 DEF Die, old
    <3>6. CASE UserSets
      BY <3>6 DEF UserSets, old
    <3>7. CASE DaemonMoves
      BY <3>7 DEF DaemonMoves, old
    <3>8. CASE Login
      BY <3>8 DEF Login
    <3> QED BY <3>1, <3>2, <3>3, <3>4, <3>5, <3>6, <3>7, <3>8 DEF ServiceNext
  <2> QED BY <2>1 DEF ServiceInv, StepInv
<1> QED BY <1>1, ServiceInvariant, PTL DEF ServiceSpec, MigrationKeepsBoth

---------------------------------------------------------------------------
(* Whose value is put back.                                                *)

(* An install that finds a state file finds the variable as a former one   *)
(* found it or set it.                                                     *)
FindsKnown == step = "save" /\ saved # NoState => codexPath \in {saved, Wrapper}

PriorInv == saved # NoState /\ "value" \notin misread => saved = replaced

(* Only uninstall's own step takes the variable from the wrapper to what   *)
(* was kept.                                                               *)
LEMMA OnlyRestorePutsBack ==
  ASSUME ServiceNext, step = "restore", step' = "forget"
  PROVE  Restore
<1>1. ~Begin /\ ~Install
  BY DEF Begin, Install, Copy, CopyBreaks, Register, Bootout, Bootstrap, SavePrevious,
         SetPath, Run, Installed, NotHealthy, InstallFails
<1>2. Uninstall => Restore
  BY DEF Uninstall, Unload, Unregister, Compare, Restore, Forget, Remove, RemoveBreaks,
         UninstallFails, End
<1>3. ~Others
  BY DEF Others, RestartDaemon, RestartFails, Check, BackUp, Disable, MigrateFails
<1>4. ~Die /\ ~UserSets /\ ~DaemonMoves /\ ~Login
  BY DEF Die, UserSets, DaemonMoves, Login, control
<1> QED BY <1>1, <1>2, <1>3, <1>4 DEF ServiceNext

(* What is kept is then the value that install found last, whatever the    *)
(* user and the logins do to the variable meanwhile.                       *)
LEMMA PriorInvariant == ServiceSpec /\ []FindsKnown => []PriorInv
<1>1. ServiceInit => PriorInv
  BY DEF ServiceInit, PriorInv
<1>2. ServiceInv /\ FindsKnown /\ PriorInv /\ [ServiceNext]_vars => PriorInv'
  <2> SUFFICES ASSUME ServiceInv, FindsKnown, PriorInv, [ServiceNext]_vars
               PROVE  PriorInv'
    OBVIOUS
  <2> USE DEF PriorInv
  <2>0. CASE /\ saved' = saved /\ replaced' = replaced
             /\ "value" \in misread => "value" \in misread'
    BY <2>0
  <2>1. CASE Begin
    BY <2>0, <2>1 DEF Begin, paths
  <2>2. CASE Install
    <3>1. CASE SavePrevious
      <4>1. CASE saved # NoState
        <5>1. saved' = saved /\ step = "save" /\ ("value" \in misread => "value" \in misread')
          BY <3>1, <4>1 DEF SavePrevious
        <5>2. replaced' = replaced \/ replaced' = saved
          BY <3>1, <4>1, <5>1 DEF SavePrevious, Find, FindsKnown
        <5> QED BY <4>1, <5>1, <5>2
      <4>2. CASE saved = NoState /\ saved' # codexPath
        BY <3>1, <4>2 DEF SavePrevious
      <4>3. CASE saved = NoState /\ saved' = codexPath
        <5>1. codexPath # Wrapper
          BY <3>1, <4>3, PathAssumption DEF SavePrevious, Reads
        <5> QED BY <3>1, <4>3, <5>1 DEF SavePrevious, Find
      <4> QED BY <4>1, <4>2, <4>3
    <3> QED BY <2>0, <2>2, <3>1
            DEF Install, Copy, CopyBreaks, Register, Bootout, Bootstrap, SetPath, Run,
                Installed, NotHealthy, InstallFails, paths
  <2>3. CASE Uninstall
    <3>1. CASE Forget
      BY <3>1 DEF Forget
    <3>2. CASE Compare \/ Restore
      BY <2>0, <3>2 DEF Compare, Restore
    <3> QED BY <2>0, <2>3, <3>1, <3>2
            DEF Uninstall, Unload, Unregister, Remove, RemoveBreaks, UninstallFails, paths
  <2>4. CASE Others
    BY <2>0, <2>4 DEF Others, RestartDaemon, RestartFails, Check, BackUp, Disable,
                      MigrateFails, paths
  <2>5. CASE Die \/ UserSets \/ DaemonMoves \/ Login
    BY <2>0, <2>5 DEF Die, UserSets, DaemonMoves, Login, paths
  <2>6. CASE UNCHANGED vars
    BY <2>0, <2>6 DEF vars, paths
  <2> QED BY <2>1, <2>2, <2>3, <2>4, <2>5, <2>6 DEF ServiceNext
<1> QED BY <1>1, <1>2, ServiceInvariant, PTL DEF ServiceSpec

(* "restores the prior value" holds, as long as no read fails, unless an   *)
(* install is repeated after somebody has given the variable a third       *)
(* value; the run "service_env" shows that this exception is needed.       *)
THEOREM RestoresThePriorValueHolds ==
    ServiceSpec /\ []FindsKnown => RestoresThePriorValue
<1>1. ServiceInv /\ PriorInv /\ [ServiceNext]_vars =>
        [/\ step = "restore" /\ codexPath = Wrapper /\ codexPath' # Wrapper /\ step' = "forget"
         /\ misread = {} /\ misread' = {}
         => codexPath' = replaced]_vars
  <2> SUFFICES ASSUME ServiceInv, PriorInv, ServiceNext, step = "restore",
                      codexPath = Wrapper, step' = "forget", misread = {}, misread' = {}
               PROVE  codexPath' = replaced
    OBVIOUS
  <2>1. Restore
    BY OnlyRestorePutsBack
  <2>2. saved # NoState /\ saved = replaced
    BY DEF ServiceInv, WrapperInv, PriorInv
  <2>3. saved \in {codexPath', NoState}
    BY <2>1 DEF Restore
  <2> QED BY <2>2, <2>3
<1> QED BY <1>1, ServiceInvariant, PriorInvariant, PTL DEF ServiceSpec, RestoresThePriorValue

---------------------------------------------------------------------------
(* What the guard promises to do with CODEX_CLI_PATH, step by step.        *)

overridden == <<codexPath, saved, "cng-codex" \in bin, step = "restore", misread>>

(* Each step of install is a step of the promise, or changes nothing it    *)
(* speaks of.                                                              *)
LEMMA InstallOverrides ==
  ASSUME TypeInv, ServiceInv, Install
  PROVE  Path!OverrideNext \/ UNCHANGED overridden
<1> USE PathAssumption DEF overridden
<1>0. BuildInv /\ codexPath \in UserPath \cup {Unset, Wrapper}
  BY DEF TypeInv, ServiceTypeOK
<1>1. CASE Copy
  BY <1>0, <1>1, Continuing
     DEF Copy, Executable, BuildInv, paths, Path!OverrideNext, Path!PutWrapper
<1>2. CASE CopyBreaks
  <2>1. step = "copy" /\ step' = "idle" /\ UNCHANGED <<codexPath, saved, misread>>
    BY <1>2 DEF CopyBreaks, End, paths
  <2>2. ("cng-codex" \in bin)' = ("cng-codex" \in bin) \/ ("cng-codex" \in bin)' = TRUE
    BY <1>2 DEF CopyBreaks
  <2> QED BY <2>1, <2>2 DEF Path!OverrideNext, Path!PutWrapper
<1>3. CASE Register
  BY <1>0, <1>3, Continuing DEF Register, BuildInv, paths
<1>4. CASE Bootout
  <2>1. CASE step = "bootout"
    BY <1>0, <1>4, <2>1, Continuing DEF Bootout, BuildInv, paths
  <2>2. CASE step # "bootout"
    BY <1>4, <2>2 DEF Bootout, GoTo, paths
  <2> QED BY <2>1, <2>2
<1>5. CASE Bootstrap
  BY <1>0, <1>5, Continuing DEF Bootstrap, BuildInv, paths
<1>6. CASE SavePrevious
  <2>1. step = "save" /\ step' # "restore" /\ UNCHANGED <<bin, codexPath>> /\ "cng-codex" \in bin
    BY <1>0, <1>6, Continuing DEF SavePrevious, BuildInv, ServiceInv, StepInv
  <2>2. CASE saved # NoState
    <3>1. saved' = saved /\ misread' = misread \ {"look"}
      BY <1>6, <2>2 DEF SavePrevious
    <3> QED BY <2>1, <2>2, <3>1 DEF Path!OverrideNext, Path!Keep
  <2>3. CASE saved = NoState /\ saved' = codexPath
    <3>1. misread' = misread \ {"look"}
      BY <1>6, <2>3 DEF SavePrevious
    <3>2. codexPath \in UserPath \cup {Unset}
      BY <1>0, <1>6, <2>3 DEF SavePrevious, Reads
    <3> QED BY <2>1, <2>3, <3>1, <3>2 DEF Path!OverrideNext, Path!Keep, Path!Own
  <2>4. CASE saved = NoState /\ saved' # codexPath
    <3>1. misread' = (misread \ {"look"}) \cup {"value"} /\ saved' = Unset
      BY <1>6, <2>4 DEF SavePrevious, Reads
    <3>2. codexPath = Wrapper => "look" \in misread
      BY <2>4 DEF ServiceInv, WrapperInv
    <3> QED BY <2>1, <2>4, <3>1, <3>2 DEF Path!OverrideNext, Path!Keep
  <2> QED BY <2>2, <2>3, <2>4
<1>7. CASE SetPath
  <2>1. step = "set" /\ step' # "restore" /\ UNCHANGED <<bin, saved, misread>>
        /\ codexPath' = Wrapper
    BY <1>0, <1>7, Continuing DEF SetPath, BuildInv
  <2>2. "cng-codex" \in bin /\ saved # NoState
    BY <2>1 DEF ServiceInv, StepInv
  <2> QED BY <2>1, <2>2 DEF Path!OverrideNext, Path!Override
<1>8. CASE Run
  BY <1>0, <1>8, Continuing DEF Run, BuildInv, paths
<1>9. CASE Installed \/ NotHealthy \/ InstallFails
  BY <1>9 DEF Installed, NotHealthy, InstallFails, End, RollBack, paths
<1> QED BY <1>1, <1>2, <1>3, <1>4, <1>5, <1>6, <1>7, <1>8, <1>9 DEF Install

(* So is each step of uninstall: what it puts back or drops, ServiceInv    *)
(* says to be there, and to be needed no longer.                           *)
LEMMA UninstallOverrides ==
  ASSUME ServiceInv, Uninstall
  PROVE  Path!OverrideNext \/ UNCHANGED overridden
<1> USE DEF overridden
<1>1. CASE Unload \/ Unregister
  BY <1>1 DEF Unload, Unregister, GoTo, paths
<1>2. CASE Compare
  <2>1. step = "compare" /\ UNCHANGED <<bin, codexPath, saved>>
    BY <1>2 DEF Compare
  <2>2. CASE step' = "restore"
    <3>1. codexPath = Wrapper /\ misread' = misread
      BY <1>2, <2>2, PathAssumption DEF Compare, Reads, GoTo
    <3> QED BY <2>1, <2>2, <3>1 DEF Path!OverrideNext, Path!Look
  <2>3. CASE step' = "forget"
    <3>1. \/ misread' = misread
          \/ codexPath = Wrapper /\ misread' = misread \cup {"look"}
      BY <1>2 DEF Compare
    <3> QED BY <2>1, <2>3, <3>1 DEF Path!OverrideNext, Path!Look
  <2> QED BY <1>2, <2>2, <2>3 DEF Compare, GoTo
<1>3. CASE Restore
  <2>1. /\ step = "restore" /\ step' = "forget" /\ UNCHANGED <<bin, saved>>
        /\ misread' = (misread \ {"look"})
                      \cup {m \in {"value"} : saved \notin {codexPath', NoState}}
        /\ codexPath' \in {saved, Unset} /\ (saved = NoState => codexPath' = Unset)
    BY <1>3 DEF Restore, GoTo
  <2>2. CASE saved = NoState \/ codexPath' = saved
    <3>1. misread' = misread \ {"look"}
      BY <2>1, <2>2
    <3>2. codexPath' = IF saved = NoState THEN Unset ELSE saved
      BY <2>1, <2>2
    <3> QED BY <2>1, <3>1, <3>2 DEF Path!OverrideNext, Path!PutBack
  <2>3. CASE saved # NoState /\ codexPath' # saved
    <3>1. misread' = (misread \ {"look"}) \cup {"value"} /\ codexPath' = Unset
      BY <2>1, <2>3
    <3> QED BY <2>1, <2>3, <3>1 DEF Path!OverrideNext, Path!PutBack
  <2> QED BY <2>2, <2>3
<1>4. CASE Forget
  <2>1. Path!Unneeded
    BY <1>4 DEF Forget, ServiceInv, StepInv, Path!Unneeded
  <2> QED BY <1>4, <2>1 DEF Forget, GoTo, Path!OverrideNext, Path!Drop
<1>5. CASE Remove \/ RemoveBreaks
  <2>1. /\ step = "remove" /\ step' = "idle" /\ UNCHANGED <<codexPath, saved, misread>>
        /\ Path!Unneeded /\ saved = NoState
    BY <1>5 DEF Remove, RemoveBreaks, End, paths, ServiceInv, StepInv, Path!Unneeded
  <2>2. ("cng-codex" \in bin)' = ("cng-codex" \in bin) \/ ("cng-codex" \in bin)' = FALSE
    BY <1>5 DEF Remove, RemoveBreaks
  <2> QED BY <2>1, <2>2 DEF Path!OverrideNext, Path!TakeWrapper
<1>6. CASE UninstallFails
  BY <1>6 DEF UninstallFails, End, paths, Path!OverrideNext, Path!LookAway
<1> QED BY <1>1, <1>2, <1>3, <1>4, <1>5, <1>6 DEF Uninstall

(* install, uninstall and every way they may fail or be repeated keep what *)
(* the documentation promises of CODEX_CLI_PATH; failed reads break it in  *)
(* the three ways that PathOverride has, and in no other.                  *)
THEOREM ServiceImplementsOverride == ServiceSpec => OverridesSafely
<1>1. ServiceInit => Path!OverrideInit
  BY DEF ServiceInit, Path!OverrideInit, Path!Own
<1>2. TypeInv /\ ServiceInv /\ [ServiceNext]_vars => [Path!OverrideNext]_(Path!overrideVars)
  <2> SUFFICES ASSUME TypeInv, ServiceInv, [ServiceNext]_vars
               PROVE  Path!OverrideNext \/ UNCHANGED overridden
    BY DEF overridden, Path!overrideVars
  <2>1. CASE Begin
    BY <2>1 DEF Begin, paths, overridden
  <2>2. CASE Install
    BY <2>2, InstallOverrides
  <2>3. CASE Uninstall
    BY <2>3, UninstallOverrides
  <2>4. CASE Others
    BY <2>4 DEF Others, RestartDaemon, RestartFails, Check, BackUp, Disable, MigrateFails,
                GoTo, End, paths, overridden
  <2>5. CASE Die
    BY <2>5 DEF Die, paths, overridden, Path!OverrideNext, Path!LookAway
  <2>6. CASE UserSets
    BY <2>6 DEF UserSets, control, Path!OverrideNext, Path!OwnerSets, Path!Own
  <2>7. CASE DaemonMoves
    BY <2>7 DEF DaemonMoves, control, paths, overridden
  <2>8. CASE Login
    <3>1. /\ step' = "idle" /\ UNCHANGED <<bin, saved>>
          /\ codexPath' = Unset \/ codexPath' = codexPath
          /\ misread' = {m \in misread : m = "look" => codexPath' = codexPath}
      BY <2>8 DEF Login
    <3>2. CASE codexPath' = codexPath
      <4>1. misread' = misread
        BY <3>1, <3>2
      <4> QED BY <3>1, <3>2, <4>1 DEF overridden, Path!OverrideNext, Path!LookAway
    <3>3. CASE codexPath' = Unset /\ codexPath' # codexPath
      <4>1. misread' = misread \ {"look"}
        BY <3>1, <3>3
      <4> QED BY <3>1, <3>3, <4>1 DEF Path!OverrideNext, Path!OwnerSets, Path!Own
    <3> QED BY <3>1, <3>2, <3>3
  <2>9. CASE UNCHANGED vars
    BY <2>9 DEF vars, control, paths, overridden
  <2> QED BY <2>1, <2>2, <2>3, <2>4, <2>5, <2>6, <2>7, <2>8, <2>9 DEF ServiceNext
<1> QED BY <1>1, <1>2, TypeInvariant, ServiceInvariant, PTL
        DEF ServiceSpec, OverridesSafely, Path!OverrideSpec
=============================================================================
