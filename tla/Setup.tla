--------------------------------- MODULE Setup ---------------------------------
(***************************************************************************)
(* The commands that install and remove the guard, together with the       *)
(* profile of the user's shell, which uninstall cleans on macOS before it  *)
(* removes the executables, and whose errors it ignores.                   *)
(***************************************************************************)
EXTENDS ServiceInstall, TerminalProfile

setupVars == <<vars, terminalVars>>

SetupInit == ServiceInit /\ TerminalInit

(* mutant: uninstall leaves the profile as it is *)
ScrubNothing == UNCHANGED terminalVars

(* let _ = disable_terminal_path(). *)
Scrub == DisableProfile \/ DisableBreaks

(* A step of install, uninstall, restart or migrate-legacy; the last one   *)
(* of uninstall but the removal also cleans the profile.                   *)
ServiceStep ==
    /\ ServiceNext
    /\ IF platform = "macos" /\ step = "forget" /\ step' = "remove"
       THEN Scrub ELSE UNCHANGED terminalVars

(* Between those commands. *)
TerminalStep ==
    /\ platform = "macos" /\ step = "idle"
    /\ TerminalNext
    /\ UNCHANGED vars

EditStep == platform = "macos" /\ UserEdits /\ UNCHANGED vars

SetupNext == ServiceStep \/ TerminalStep \/ EditStep

SetupSpec == SetupInit /\ [][SetupNext]_setupVars

---------------------------------------------------------------------------
(* Properties.                                                             *)

(* "Install/uninstall restores external environment and shell state"       *)
(* (docs/testing.md): an uninstall that gets to its end leaves nothing of  *)
(* the guard in the profile, unless the profile could not be cleaned.      *)
ShellRestored ==
    [][step = "remove" /\ reply' = "uninstalled" /\ platform = "macos" /\ said # "broken"
       => profile = Lines(profile)]_setupVars
=============================================================================
