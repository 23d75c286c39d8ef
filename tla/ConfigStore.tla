------------------------------ MODULE ConfigStore ------------------------------
(***************************************************************************)
(* The configuration file: GuardConfig::load_or_create and save, as the    *)
(* daemon's requests and the starts of cngd, cng-codex, cng and the        *)
(* desktop application run them, in several processes and threads.         *)
(*                                                                         *)
(* write_private truncates or creates config.tmp, writes through the       *)
(* handle it holds, changes the mode of what config.tmp then names, and    *)
(* renames that to config.toml.  Every writer uses the same config.tmp, so *)
(* two that overlap hold handles of one file, and one of them may already  *)
(* have given it its final name.  A process may end between any two steps. *)
(***************************************************************************)
CONSTANTS
    Config, Defaults, Process, NoFile, Damaged, Failed, NoReply,
    Empty,          \* nothing written yet: parses as the defaults
    Torn            \* part of a configuration, or parts of two

ASSUME ConfigAssumption ==
    /\ Defaults \in Config
    /\ {NoFile, Damaged, Failed, NoReply, Empty, Torn} \cap Config = {}
    /\ NoFile \notin {Damaged, Empty, Torn} /\ Empty # Torn

VARIABLES
    toml, tmp,      \* the files that the two names stand for
    proc, reply,    \* the processes, and how their operations ended
    alone, clash    \* history: the save no other one ran beside; two overlapped

configVars == <<toml, tmp, proc, reply, alone, clash>>

Text == Config \cup {Empty, Torn}

(* private: the mode is 0600. *)
File == [text : Text \cup {NoFile}, private : BOOLEAN]

Missing == [text |-> NoFile, private |-> FALSE]

WriteStage == {"open", "write", "protect", "rename"}

(* The file a handle was opened for may have another name by now, or none. *)
Handle == {"none", "tmp", "toml", "unnamed"}

ConfigTypeOK ==
    /\ toml \in File /\ tmp \in File
    /\ proc \in [Process -> [pc : {"idle", "read", "renamed"} \cup WriteStage,
                             value : Config \cup {NoFile},
                             handle : Handle]]
    /\ reply \in [Process -> Config \cup {Failed, NoReply}]
    /\ alone \in SUBSET Process
    /\ clash \in BOOLEAN

Idle == [pc |-> "idle", value |-> NoFile, handle |-> "none"]

ConfigInit ==
    /\ toml = Missing /\ tmp = Missing
    /\ proc = [p \in Process |-> Idle]
    /\ reply = [p \in Process |-> NoReply]
    /\ alone = {}
    /\ clash = FALSE

Saving == {p \in Process : proc[p].pc \in WriteStage}

(* A save of c begins. *)
Enter(p, c) ==
    /\ proc' = [proc EXCEPT ![p] = [pc |-> "open", value |-> c, handle |-> "none"]]
    /\ alone' = IF Saving = {} THEN {p} ELSE {}
    /\ clash' = (clash \/ Saving # {})
    /\ UNCHANGED <<toml, tmp, reply>>

StartSave(p) ==
    /\ proc[p].pc = "idle"
    /\ \E c \in Config : Enter(p, c)

StartRead(p) ==
    /\ toml # Missing
    /\ proc' = [proc EXCEPT ![p].pc = "read"]
    /\ UNCHANGED <<toml, tmp, reply, alone, clash>>

(* load_or_create: path.exists().  Another save may end before the         *)
(* defaults are renamed: they then replace it.                             *)
Look(p) ==
    /\ proc[p].pc = "idle"
    /\ (toml = Missing /\ Enter(p, Defaults)) \/ StartRead(p)

(* mutant: what cannot be parsed is passed on *)
Unparsed(x) == {x}

(* toml::from_str: fields that are missing have their defaults. *)
Parsed(x) ==
    IF x \in Config THEN {x}
    ELSE IF x = Empty THEN {Defaults} ELSE Config \cup {Failed}

Read(p) ==
    /\ proc[p].pc = "read"
    /\ \E r \in Parsed(toml.text) : reply' = [reply EXCEPT ![p] = r]
    /\ proc' = [proc EXCEPT ![p] = Idle]
    /\ UNCHANGED <<toml, tmp, alone, clash>>

(* mutant: what a save that broke off left there stays *)
OpenKeeping(p) ==
    /\ proc[p].pc = "open"
    /\ tmp' = IF tmp = Missing THEN [text |-> Empty, private |-> FALSE] ELSE tmp
    /\ proc' = [proc EXCEPT ![p].pc = "write", ![p].handle = "tmp"]
    /\ UNCHANGED <<toml, reply, alone, clash>>

(* fs::write opens: the file is truncated, or created with the usual mode. *)
Open(p) ==
    /\ proc[p].pc = "open"
    /\ tmp' = [text |-> Empty, private |-> tmp.private]
    /\ proc' = [proc EXCEPT ![p].pc = "write", ![p].handle = "tmp"]
    /\ UNCHANGED <<toml, reply, alone, clash>>

(* What p's file becomes when x is written to it. *)
Fill(p, x) ==
    /\ tmp'  = IF proc[p].handle = "tmp"  THEN [tmp  EXCEPT !.text = x] ELSE tmp
    /\ toml' = IF proc[p].handle = "toml" THEN [toml EXCEPT !.text = x] ELSE toml

(* What a file says over whose old text c is written from the start: the   *)
(* tail of something longer remains.                                       *)
Laid(old, c) == IF old \in {Empty, c} THEN {c} ELSE {c, Torn}

Held(p) == IF proc[p].handle = "toml" THEN toml.text ELSE tmp.text

Write(p) ==
    /\ proc[p].pc = "write"
    /\ \E x \in Laid(Held(p), proc[p].value) : Fill(p, x)
    /\ proc' = [proc EXCEPT ![p].pc = "protect", ![p].handle = "none"]
    /\ UNCHANGED <<reply, alone, clash>>

(* mutant: the mode is left as it is *)
ProtectNothing(p) ==
    /\ proc[p].pc = "protect"
    /\ tmp # Missing
    /\ proc' = [proc EXCEPT ![p].pc = "rename"]
    /\ UNCHANGED <<toml, tmp, reply, alone, clash>>

(* set_permissions goes by the name. *)
Protect(p) ==
    /\ proc[p].pc = "protect"
    /\ tmp # Missing
    /\ tmp' = [tmp EXCEPT !.private = TRUE]
    /\ proc' = [proc EXCEPT ![p].pc = "rename"]
    /\ UNCHANGED <<toml, reply, alone, clash>>

Moved(handle) ==
    CASE handle = "tmp" -> "toml" [] handle = "toml" -> "unnamed" [] OTHER -> handle

Rename(p) ==
    /\ proc[p].pc = "rename"
    /\ tmp # Missing
    /\ toml' = tmp
    /\ tmp' = Missing
    /\ proc' = [q \in Process |->
                  [proc[q] EXCEPT !.pc = IF q = p THEN "renamed" ELSE @,
                                  !.handle = Moved(@)]]
    /\ clash' = (clash /\ p \notin alone)
    /\ UNCHANGED <<reply, alone>>

Return(p) ==
    /\ proc[p].pc = "renamed"
    /\ reply' = [reply EXCEPT ![p] = proc[p].value]
    /\ proc' = [proc EXCEPT ![p] = Idle]
    /\ UNCHANGED <<toml, tmp, alone, clash>>

(* mutant: errors are swallowed *)
StopQuietly(p) ==
    /\ proc[p].pc # "idle"
    /\ reply' = [reply EXCEPT ![p] = IF proc[p].value \in Config THEN proc[p].value ELSE Failed]
    /\ proc' = [proc EXCEPT ![p] = Idle]
    /\ UNCHANGED <<toml, tmp, alone, clash>>

(* A call fails (a full disk; config.tmp is gone), or the process ends; in *)
(* the middle of a write, part of it is there.                             *)
Stop(p) ==
    /\ proc[p].pc # "idle"
    /\ UNCHANGED <<toml, tmp>> \/ (proc[p].pc = "write" /\ Fill(p, Torn))
    /\ reply' = [reply EXCEPT ![p] = Failed]
    /\ proc' = [proc EXCEPT ![p] = Idle]
    /\ UNCHANGED <<alone, clash>>

ConfigNext ==
    \E p \in Process :
        \/ StartSave(p) \/ Look(p) \/ Read(p)
        \/ Open(p) \/ Write(p) \/ Protect(p) \/ Rename(p) \/ Return(p)
        \/ Stop(p)

ConfigSpec == ConfigInit /\ [][ConfigNext]_configVars

---------------------------------------------------------------------------
(* Properties.                                                             *)

(* Whatever fails, and wherever a process ends, config.toml is one         *)
(* configuration as it was saved, so that the next daemon can start from   *)
(* it ("Login reboot restores the daemon", docs/testing.md); and a save    *)
(* that runs alone makes it so again after two that overlapped.            *)
FileIsWhole == ~clash => toml.text \in Config \cup {NoFile}

(* write_private: under its final name the file is never readable by       *)
(* others, though it is created with the usual mode.                       *)
FileIsPrivate == ~clash /\ toml # Missing => toml.private

Value == IF toml.text \in Config \cup {NoFile} THEN toml.text ELSE Damaged

Doing(p) ==
    [pc    |-> CASE proc[p].pc \in WriteStage -> "saving"
                 [] proc[p].pc = "renamed" -> "saved"
                 [] proc[p].pc = "read" -> "reading"
                 [] OTHER -> "idle",
     value |-> proc[p].value]

Register == INSTANCE ConfigRegister
    WITH value <- Value, op <- [p \in Process |-> Doing(p)]

(* The two names, the truncation and the five steps of a save behave as    *)
(* one register that each lone save replaces at once or not at all.        *)
ImplementsRegister == Register!RegisterSpec
=============================================================================
